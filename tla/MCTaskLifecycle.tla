-------------------------- MODULE MCTaskLifecycle --------------------------
(* TaskLifecycle for TLC.  The task ids are interchangeable.                *)
EXTENDS TaskLifecycle, TLC

TaskSymmetry == Permutations(Tasks)
=============================================================================
