----------------------------- MODULE MCArchiver -----------------------------
(* The server's tables and the archiver for TLC.                            *)
EXTENDS Archiver
=============================================================================
