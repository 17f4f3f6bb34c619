------------------------------- MODULE Outbox -------------------------------
(***************************************************************************)
(* The durable outbox of internal/x/outbox: the FileStore, its in-memory   *)
(* copy of the directory, and the engine that delivers from the head.      *)
(*                                                                         *)
(* Producers call Enqueue from any goroutine while the engine's single     *)
(* goroutine runs.  The store's mutex covers a file operation and the      *)
(* update of the in-memory list that follows it; the process can stop      *)
(* between the two.  A file is written by rename, so it is there whole or  *)
(* not at all.                                                             *)
(***************************************************************************)
EXTENDS Integers, Sequences

CONSTANTS
  Payloads,       \* message contents
  Garbled,        \* the contents the engine cannot decode
  Producers,      \* goroutines that enqueue
  MaxSeq          \* bound on sequence numbers

ASSUME OutboxAssumption == /\ Garbled \subseteq Payloads
                           /\ MaxSeq \in Nat \ {0}

VARIABLES
  disk,      \* the live record files
  dead,      \* the dead-letter files
  phase,     \* the process: "down", "opening" or "up"
  mem,       \* FileStore.live
  next,      \* FileStore.next
  prod,      \* where each producer is in Enqueue, and the record it writes
  eng,       \* where the engine is, and the record it works on
  notify     \* the wakeup channel holds a signal

vars == <<disk, dead, phase, mem, next, prod, eng, notify>>

Record == [seq : 1..MaxSeq, payload : Payloads]

Idle == [at |-> "idle"]

(* The engine between two records, and where each of its steps leaves it.   *)
Between(where) == [at |-> where]
Working(where, r, isDead) == [at |-> where, rec |-> r, dead |-> isDead]

(* The mutex is held by a producer that has written its file, or by a Drop  *)
(* that has moved or removed one.                                           *)
Locked == eng.at = "unlinked" \/ \E p \in Producers : prod[p].at = "written"

Up == phase = "up"

(* Renaming onto a name replaces the file that had it.                      *)
Put(files, r) == {q \in files : q.seq # r.seq} \cup {r}
Gone(files, r) == {q \in files : q.seq # r.seq}

-----------------------------------------------------------------------------
(* Enqueue: write the file and, still under the mutex, push the record;     *)
(* then wake the engine.                                                    *)

AppendRecord(p, m) ==
  LET r == [seq |-> next, payload |-> m]
  IN  /\ Up /\ ~Locked
      /\ prod[p].at = "idle"
      /\ next <= MaxSeq
      /\ disk' = Put(disk, r)
      /\ prod' = [prod EXCEPT ![p] = [at |-> "written", rec |-> r]]
      /\ UNCHANGED <<dead, phase, mem, next, eng, notify>>

(* Mutant: the counter is left behind.                                      *)
PushKeepsNext(p) ==
  /\ prod[p].at = "written"
  /\ mem' = Append(mem, prod[p].rec)
  /\ prod' = [prod EXCEPT ![p] = [at |-> "pushed"]]
  /\ UNCHANGED <<disk, dead, phase, next, eng, notify>>

Push(p) ==
  /\ prod[p].at = "written"
  /\ mem' = Append(mem, prod[p].rec)
  /\ next' = prod[p].rec.seq + 1
  /\ prod' = [prod EXCEPT ![p] = [at |-> "pushed"]]
  /\ UNCHANGED <<disk, dead, phase, eng, notify>>

(* Mutant: an unbuffered channel drops a signal nobody is waiting for.      *)
WakeUnbuffered(p) ==
  /\ prod[p].at = "pushed"
  /\ notify' = (notify \/ eng.at = "wait")
  /\ prod' = [prod EXCEPT ![p] = Idle]
  /\ UNCHANGED <<disk, dead, phase, mem, next, eng>>

(* The channel buffers one signal; further ones coalesce with it.           *)
Wake(p) ==
  /\ prod[p].at = "pushed"
  /\ notify' = TRUE
  /\ prod' = [prod EXCEPT ![p] = Idle]
  /\ UNCHANGED <<disk, dead, phase, mem, next, eng>>

-----------------------------------------------------------------------------
(* The engine: Run, drain and drop.                                         *)

Step(state) == eng' = state /\ UNCHANGED <<phase, next, prod>>

(* Peek.  An undecodable head is dead-lettered without an attempt.          *)
Peek ==
  /\ Up /\ ~Locked
  /\ eng.at = "drain"
  /\ Step(IF mem = <<>> THEN Between("empty")
          ELSE IF Head(mem).payload \in Garbled
                 THEN Working("drop", Head(mem), TRUE)
                 ELSE Working("deliver", Head(mem), FALSE))
  /\ UNCHANGED <<disk, dead, mem, notify>>

(* The delivery succeeds or fails for good.                                 *)
Deliver(permanent) ==
  /\ eng.at = "deliver"
  /\ Step(Working("drop", eng.rec, permanent))
  /\ UNCHANGED <<disk, dead, mem, notify>>

(* A transient failure: back off and try the same head again.               *)
DeliverFails ==
  /\ eng.at = "deliver"
  /\ Step(Between("sleep"))
  /\ UNCHANGED <<disk, dead, mem, notify>>

BackedOff ==
  /\ eng.at = "sleep"
  /\ Step(Between("drain"))
  /\ UNCHANGED <<disk, dead, mem, notify>>

(* Drop addresses no record: it takes whatever is at the front.  A failed   *)
(* file operation changes nothing and is tried again.                       *)
DropFile ==
  /\ eng.at = "drop" /\ ~Locked
  /\ IF mem = <<>>
       THEN Step(Between("drain")) /\ UNCHANGED <<disk, dead>>
       ELSE /\ eng.dead => Head(mem) \in disk
            /\ disk' = Gone(disk, Head(mem))
            /\ dead' = IF eng.dead THEN Put(dead, Head(mem)) ELSE dead
            /\ Step(Between("unlinked"))
  /\ UNCHANGED <<mem, notify>>

DropHead ==
  /\ eng.at = "unlinked"
  /\ mem' = Tail(mem)
  /\ Step(Between("drain"))
  /\ UNCHANGED <<disk, dead, notify>>

(* The store was empty: drain returns, and Run waits for a signal and takes *)
(* it.                                                                      *)
Waits ==
  /\ eng.at = "empty"
  /\ Step(Between("wait"))
  /\ UNCHANGED <<disk, dead, mem, notify>>

Woken ==
  /\ eng.at = "wait" /\ notify
  /\ notify' = FALSE
  /\ Step(Between("drain"))
  /\ UNCHANGED <<disk, dead, mem>>

-----------------------------------------------------------------------------
(* The process stops, and Open reads the directory back in the order of its *)
(* file names.                                                              *)

Blank ==
  /\ mem' = <<>>
  /\ next' = 1
  /\ prod' = [p \in Producers |-> Idle]
  /\ eng' = Between("drain")
  /\ notify' = FALSE

Crash ==
  /\ phase # "down"
  /\ phase' = "down"
  /\ Blank
  /\ UNCHANGED <<disk, dead>>

Open ==
  /\ phase = "down"
  /\ phase' = "opening"
  /\ UNCHANGED <<disk, dead, mem, next, prod, eng, notify>>

Loaded == {mem[i] : i \in DOMAIN mem}

ReadRecord(r) ==
  /\ phase = "opening"
  /\ r \in disk \ Loaded
  /\ \A q \in disk \ Loaded : r.seq <= q.seq
  /\ mem' = Append(mem, r)
  /\ UNCHANGED <<disk, dead, phase, next, prod, eng, notify>>

(* One more than the highest number among files, 1 if there are none.       *)
Follows(n, files) ==
  /\ \A r \in files : r.seq < n
  /\ n = 1 \/ \E r \in files : r.seq = n - 1

(* Mutant: a record that cannot be read is passed over.                     *)
OpenedPartly ==
  /\ phase = "opening"
  /\ \E n \in 1..(MaxSeq + 1) : Follows(n, disk \cup dead) /\ next' = n
  /\ phase' = "up"
  /\ UNCHANGED <<disk, dead, mem, prod, eng, notify>>

Opened ==
  /\ phase = "opening"
  /\ disk \subseteq Loaded
  /\ \E n \in 1..(MaxSeq + 1) : Follows(n, disk \cup dead) /\ next' = n
  /\ phase' = "up"
  /\ UNCHANGED <<disk, dead, mem, prod, eng, notify>>

-----------------------------------------------------------------------------
Init ==
  /\ disk = {} /\ dead = {}
  /\ phase = "down"
  /\ mem = <<>>
  /\ next = 1
  /\ prod = [p \in Producers |-> Idle]
  /\ eng = Between("drain")
  /\ notify = FALSE

Enqueue(p) == (\E m \in Payloads : AppendRecord(p, m)) \/ Push(p) \/ Wake(p)

(* What the engine does of its own accord; only the outcome of a delivery   *)
(* is somebody else's.                                                      *)
Engine ==
  \/ Peek \/ BackedOff \/ DropFile \/ DropHead \/ Waits \/ Woken
  \/ \E permanent \in BOOLEAN : Deliver(permanent)

Boot == Open \/ (\E r \in disk : ReadRecord(r)) \/ Opened

Next ==
  \/ \E p \in Producers : Enqueue(p)
  \/ Engine \/ DeliverFails
  \/ Crash \/ Boot

(* The process is started again, the engine's goroutine runs, and a call of *)
(* Enqueue that has begun returns.                                          *)
Fairness ==
  /\ WF_vars(Engine) /\ WF_vars(Boot)
  /\ \A p \in Producers : WF_vars(Push(p) \/ Wake(p))

Spec     == Init /\ [][Next]_vars
FairSpec == Spec /\ Fairness

-----------------------------------------------------------------------------
(* Every variable holds a value of its type.                                *)
OutboxTypeOK ==
  /\ disk \subseteq Record /\ dead \subseteq Record
  /\ phase \in {"down", "opening", "up"}
  /\ mem \in Seq(Record)
  /\ next \in 1..(MaxSeq + 1)
  /\ prod \in [Producers -> {Idle, [at |-> "pushed"]}
                            \cup [at : {"written"}, rec : Record]]
  /\ eng \in {Between(w) : w \in {"empty", "wait", "drain", "sleep", "unlinked"}}
             \cup [at : {"deliver", "drop"}, rec : Record, dead : BOOLEAN]
  /\ notify \in BOOLEAN

(* The record a producer has on disk and not yet in memory.                 *)
Writing == {prod[p].rec : p \in {q \in Producers : prod[q].at = "written"}}

(* What the engine is about to take from memory, gone from disk already.    *)
Leaving == IF eng.at = "unlinked" THEN {mem[1]} ELSE {}

(* Disk is only read at Open, so memory must mirror it through every        *)
(* interleaving of Append and Drop: the records in memory, in ascending     *)
(* order and below the counter, are the live files, but for the one the     *)
(* holder of the mutex is working on.                                       *)
MemMirrorsDisk ==
  /\ \A i, j \in DOMAIN mem : i < j => mem[i].seq < mem[j].seq
  /\ Up => /\ \A i \in DOMAIN mem : mem[i].seq < next
           /\ (Loaded \ Leaving) \cup Writing = disk

(* Drop takes the front without naming it: it is the record that was        *)
(* delivered, whatever was appended meanwhile.                              *)
HeadStable ==
  eng.at \in {"deliver", "drop"} => mem # <<>> /\ mem[1] = eng.rec

(* A dead letter is never lost or overwritten by a later one.               *)
DeadLettersKept == [][dead \subseteq dead']_vars

(* Crashes and transient failures end.                                      *)
Settles == <>[][~Crash /\ ~DeliverFails]_vars

(* Every message accepted is delivered or dead-lettered in the end: no      *)
(* signal is lost between the engine finding the store empty and its wait.  *)
Drains ==
  Settles =>
    \A n \in 1..MaxSeq :
      (\E r \in disk : r.seq = n) ~> ~(\E r \in disk : r.seq = n)
=============================================================================
