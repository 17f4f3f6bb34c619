------------------------------- MODULE Redact -------------------------------
(***************************************************************************)
(* The masking of secrets in the log a driver ships (x/redact over         *)
(* x/bytetrie): the bytes arrive in writes cut anywhere, and every secret  *)
(* must go out as its marker whether or not a cut falls inside it.         *)
(*                                                                         *)
(* A call of Write or Flush runs the loop of consume, one action for each  *)
(* iteration, and gives the result to the underlying writer.  What was     *)
(* decided is kept as pieces [kind, at, bytes]: a byte passed on, the      *)
(* bytes a marker stands for, or those of a write that failed, and where   *)
(* in the stream they start.                                               *)
(***************************************************************************)
EXTENDS Integers, Sequences, SequencesExt, FiniteSetsExt

CONSTANTS
  Bytes,          \* the alphabet
  Secrets,        \* values to mask, by name; a value may be empty or shared
  MaxStream       \* bound: bytes written

ASSUME RedactAssumption ==
  /\ \A name \in DOMAIN Secrets : Secrets[name] \in Seq(Bytes)
  /\ MaxStream \in Nat

VARIABLES
  stream,         \* all bytes written
  held,           \* those not decided: Writer.held, and in a call buf[i:]
  pieces,         \* what has been decided, in order
  given,          \* how many of them earlier calls gave to the underlying writer
  masking         \* "none", "write", "flush", or "ended" after the Flush

redactVars == <<stream, held, pieces, given, masking>>

\* driverSecrets and NewWriter: an empty value masks nothing.
Keys == {Secrets[name] : name \in DOMAIN Secrets} \ {<<>>}

RedactInit ==
  /\ stream = <<>> /\ held = <<>>
  /\ pieces = <<>> /\ given = 0
  /\ masking = "none"

\* The trie's walk: the longest key that starts p, and whether a longer one starts with p.
Starting(p) == {k \in Keys : IsPrefix(k, p)}
Partial(p) == \E k \in Keys : IsStrictPrefix(p, k)
Longest(p) == Max({0} \cup {Len(k) : k \in Starting(p)})

Write ==
  /\ masking = "none" /\ masking' = "write"
  /\ \E p \in SeqOf(Bytes, MaxStream - Len(stream)) \ {<<>>} :
        stream' = stream \o p /\ held' = held \o p
  /\ UNCHANGED <<pieces, given>>

\* Flush settles what is held: the stream ends here, whatever follows is another.
Flush ==
  /\ masking = "none" /\ masking' = "flush"
  /\ UNCHANGED <<stream, held, pieces, given>>

Consuming == masking \in {"write", "flush"}

\* Mutant: a write decides on all its bytes, as the flush does.
NeverWaits == FALSE

\* Some secret may yet grow out of what is held: wait for the bytes that follow.
MustWait == masking = "write" /\ Partial(held)

\* The next n bytes leave the buffer.
Piece(kind, n) ==
  [kind |-> kind, at |-> Len(stream) - Len(held) + 1, bytes |-> SubSeq(held, 1, n)]
Decide(kind, n) ==
  /\ pieces' = Append(pieces, Piece(kind, n))
  /\ held' = SubSeq(held, n + 1, Len(held))

\* One iteration: mask the longest secret that starts here, or else pass one
\* byte and look again from the next.
consume ==
  /\ Consuming /\ held # <<>> /\ ~MustWait
  /\ \/ Longest(held) = 0 /\ Decide("byte", 1)
     \/ Longest(held) # 0 /\ Decide("marker", Longest(held))
  /\ UNCHANGED <<stream, given, masking>>

\* The underlying writer takes the result or fails; the mask moves on in both cases.
Emit ==
  /\ Consuming /\ (held = <<>> \/ MustWait)
  /\ \/ UNCHANGED pieces
     \/ /\ given < Len(pieces)
        /\ pieces' = [k \in DOMAIN pieces |->
                        IF k > given THEN [pieces[k] EXCEPT !.kind = "lost"]
                                     ELSE pieces[k]]
  /\ given' = Len(pieces)
  /\ masking' = IF masking = "flush" THEN "ended" ELSE "none"
  /\ UNCHANGED <<stream, held>>

RedactNext == Write \/ Flush \/ consume \/ Emit

RedactSpec == RedactInit /\ [][RedactNext]_redactVars

----------------------------------------------------------------------------
(* Properties.                                                             *)

(* The bytes of the stream that the first i pieces stand for end here.     *)
End(i) == IF i = 0 THEN 0 ELSE pieces[i].at + Len(pieces[i].bytes) - 1

(* However the stream was cut into writes and whichever of them failed:    *)
(* nothing is lost or reordered, no run of bytes passed on spells a        *)
(* secret, and a marker stands for a whole secret and never for the first  *)
(* part of a longer one that the stream carries there.                     *)
Masked ==
  /\ \A i \in DOMAIN pieces : /\ pieces[i].at = End(i - 1) + 1
                              /\ pieces[i].bytes = SubSeq(stream, pieces[i].at, End(i))
  /\ held = SubSeq(stream, End(Len(pieces)) + 1, Len(stream))
  /\ \A i, j \in DOMAIN pieces :
        i <= j /\ (\A k \in i..j : pieces[k].kind = "byte") =>
          SubSeq(stream, pieces[i].at, End(j)) \notin Keys
  /\ \A i \in DOMAIN pieces : pieces[i].kind = "marker" =>
        /\ pieces[i].bytes \in Keys
        /\ \A k \in Keys : IsPrefix(k, SubSeq(stream, pieces[i].at, Len(stream)))
                           => Len(k) <= Len(pieces[i].bytes)
=============================================================================
