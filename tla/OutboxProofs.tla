---------------------------- MODULE OutboxProofs ----------------------------
(***************************************************************************)
(* Outbox for any number of producers, messages and sequence numbers: the  *)
(* in-memory list mirrors the directory in order, what is dropped is what  *)
(* was delivered, dead letters are kept, and the files implement Fifo.     *)
(*                                                                         *)
(* MemMirrorsDisk is not inductive alone.  It rests on the mutex (only one *)
(* file operation is ever ahead of the list), on numbers being unique over *)
(* live and dead files, on the counter being above them all, and, for the  *)
(* reboot, on Open having read a prefix of the directory.                  *)
(***************************************************************************)
EXTENDS MCOutbox, FiniteSetTheorems, SequenceTheorems, TLAPS

Ascending == \A i, j \in DOMAIN mem : i < j => mem[i].seq < mem[j].seq

(* A number names one file, live or dead.                                   *)
UniqueSeq ==
  /\ \A r, q \in disk : r.seq = q.seq => r = q
  /\ \A r \in disk, q \in dead : r.seq # q.seq

(* Outside "up" nobody runs; what Open has read is a prefix.                *)
BootInv ==
  /\ ~Up => eng = Between("drain") /\ \A p \in Producers : prod[p] = Idle
  /\ phase = "down" => mem = <<>>
  /\ phase = "opening" => /\ Loaded \subseteq disk
                          /\ \A q \in Loaded, r \in disk \ Loaded : q.seq < r.seq

(* One holder of the mutex at a time.                                       *)
MutexInv ==
  /\ \A p, q \in Producers :
       prod[p].at = "written" /\ prod[q].at = "written" => p = q
  /\ eng.at = "unlinked" => /\ mem # <<>>
                            /\ \A p \in Producers : prod[p].at # "written"
  /\ \A p \in Producers : prod[p].at = "written" => prod[p].rec.seq = next

(* The counter is above every number in use.                                *)
CounterInv ==
  Up => /\ \A i \in DOMAIN mem : mem[i].seq < next
        /\ \A q \in dead : q.seq < next

Mirror == Up => (Loaded \ Leaving) \cup Writing = disk

OutboxInv ==
  /\ OutboxTypeOK
  /\ Ascending /\ UniqueSeq /\ BootInv /\ MutexInv /\ CounterInv /\ Mirror
  /\ HeadStable
-----------------------------------------------------------------------------
(* A record at the end of the list.                                         *)
LEMMA AppendMem ==
  ASSUME mem \in Seq(Record), NEW r \in Record, mem' = Append(mem, r)
  PROVE  /\ mem' \in Seq(Record) /\ mem' # <<>>
         /\ Loaded' = Loaded \cup {r}
         /\ mem # <<>> => mem'[1] = mem[1]
         /\ Ascending /\ (\A q \in Loaded : q.seq < r.seq) => Ascending'
<1>1. /\ mem' \in Seq(Record) /\ mem' # <<>>
      /\ DOMAIN mem' = 1..(Len(mem) + 1) /\ DOMAIN mem = 1..Len(mem)
      /\ Len(mem) \in Nat
      /\ \A i \in 1..Len(mem) : mem'[i] = mem[i]
      /\ mem'[Len(mem) + 1] = r
  OBVIOUS
<1>2. Loaded' = Loaded \cup {r}
  BY <1>1 DEF Loaded
<1>3. mem # <<>> => mem'[1] = mem[1]
  BY <1>1
<1>4. ASSUME Ascending, \A q \in Loaded : q.seq < r.seq
      PROVE  Ascending'
  BY <1>1, <1>4 DEF Ascending, Loaded
<1> QED  BY <1>1, <1>2, <1>3, <1>4

(* The list without its head.                                               *)
LEMMA TailMem ==
  ASSUME mem \in Seq(Record), mem # <<>>, Ascending, mem' = Tail(mem)
  PROVE  /\ mem' \in Seq(Record)
         /\ Loaded' = Loaded \ {mem[1]}
         /\ \A i \in DOMAIN mem' : \E j \in DOMAIN mem : mem'[i] = mem[j]
         /\ Ascending'
<1>1. /\ mem' \in Seq(Record)
      /\ Len(mem) \in Nat /\ Len(mem) > 0
      /\ DOMAIN mem' = 1..(Len(mem) - 1) /\ DOMAIN mem = 1..Len(mem)
      /\ \A i \in 1..(Len(mem) - 1) : mem'[i] = mem[i + 1]
  OBVIOUS
<1>2. \A i \in DOMAIN mem : mem[i] \in Record
  OBVIOUS
<1>3. \A i \in 2..Len(mem) : mem[i] # mem[1]
  <2>1. ASSUME NEW i \in 2..Len(mem)  PROVE mem[1].seq < mem[i].seq
    BY <1>1, <2>1 DEF Ascending
  <2>2. \A i \in DOMAIN mem : mem[i].seq \in Int
    BY <1>2 DEF Record
  <2> QED  BY <1>1, <2>1, <2>2
<1>4. Loaded' \subseteq Loaded \ {mem[1]}
  <2> SUFFICES ASSUME NEW i \in DOMAIN mem'
               PROVE  mem'[i] \in Loaded \ {mem[1]}
    BY DEF Loaded
  <2>1. i + 1 \in DOMAIN mem /\ i + 1 \in 2..Len(mem) /\ mem'[i] = mem[i + 1]
    BY <1>1
  <2> QED  BY <1>3, <2>1 DEF Loaded
<1>5. Loaded \ {mem[1]} \subseteq Loaded'
  <2> SUFFICES ASSUME NEW j \in DOMAIN mem, mem[j] # mem[1]
               PROVE  mem[j] \in Loaded'
    BY DEF Loaded
  <2>1. j \in 2..Len(mem)
    BY <1>1
  <2>2. j - 1 \in DOMAIN mem' /\ mem'[j - 1] = mem[j]
    BY <1>1, <2>1
  <2> QED  BY <2>2 DEF Loaded
<1>6. Ascending'
  BY <1>1 DEF Ascending
<1>7. \A i \in DOMAIN mem' : \E j \in DOMAIN mem : mem'[i] = mem[j]
  BY <1>1
<1> QED  BY <1>1, <1>4, <1>5, <1>6, <1>7

(* What is in the list is a record, and the front is in the list.           *)
LEMMA LoadedRecords ==
  ASSUME mem \in Seq(Record)
  PROVE  /\ Loaded \subseteq Record
         /\ mem # <<>> => /\ 1 \in DOMAIN mem
                          /\ mem[1] \in Loaded
                          /\ Head(mem) = mem[1]
BY DEF Loaded

(* The states the engine can be left in.                                    *)
EngState == {Between(w) : w \in {"empty", "wait", "drain", "sleep", "unlinked"}}
            \cup [at : {"deliver", "drop"}, rec : Record, dead : BOOLEAN]

(* Only a process that is up has an engine away from its starting point.    *)
LEMMA AwayFromDrain ==
  ASSUME OutboxInv, eng.at # "drain"
  PROVE  Up
BY DEF OutboxInv, BootInv, Between

(* A step of the engine that touches neither files nor list.                *)
LEMMA EngineStep ==
  ASSUME OutboxInv, Up, UNCHANGED <<disk, dead, phase, mem, next, prod>>,
         notify' \in BOOLEAN, eng' \in EngState,
         eng.at # "unlinked", eng'.at # "unlinked", HeadStable'
  PROVE  OutboxInv'
<1>1. OutboxTypeOK'
  BY DEF OutboxInv, OutboxTypeOK, EngState
<1>2. Ascending' /\ UniqueSeq' /\ BootInv' /\ MutexInv' /\ CounterInv'
  BY DEF OutboxInv, Ascending, UniqueSeq, BootInv, MutexInv, CounterInv, Up
<1>3. Mirror'
  BY DEF OutboxInv, Mirror, Loaded, Leaving, Writing, Up
<1> QED  BY <1>1, <1>2, <1>3 DEF OutboxInv

(* Peek, a delivery whatever its outcome, the end of a backoff, a wake-up.  *)
LEMMA QuietInductive ==
  ASSUME OutboxInv,
         \/ Peek \/ DeliverFails \/ BackedOff \/ Waits \/ Woken
         \/ \E permanent \in BOOLEAN : Deliver(permanent)
  PROVE  OutboxInv'
<1>1. Up /\ UNCHANGED <<disk, dead, phase, mem, next, prod>>
  <2>1. UNCHANGED <<disk, dead, phase, mem, next, prod>>
    BY DEF Peek, DeliverFails, BackedOff, Waits, Woken, Deliver, Step
  <2>2. Up \/ eng.at \in {"deliver", "sleep", "empty", "wait"}
    BY DEF Peek, DeliverFails, BackedOff, Waits, Woken, Deliver
  <2> QED  BY <2>1, <2>2, AwayFromDrain
<1>2. notify' \in BOOLEAN
  BY DEF Peek, DeliverFails, BackedOff, Waits, Woken, Deliver, OutboxInv, OutboxTypeOK
<1>3. mem \in Seq(Record)
  BY DEF OutboxInv, OutboxTypeOK
<1>4. CASE Peek
  <2>1. CASE mem = <<>>
    <3>1. eng' = Between("empty")
      BY <1>4, <2>1 DEF Peek, Step
    <3>2. eng.at # "unlinked" /\ eng' \in EngState /\ eng'.at = "empty"
      BY <1>4, <3>1 DEF Peek, EngState, Between
    <3> QED  BY <1>1, <1>2, <3>2, EngineStep DEF HeadStable
  <2>2. CASE mem # <<>>
    <3>1. PICK w \in {"drop", "deliver"}, d \in BOOLEAN : eng' = Working(w, mem[1], d)
      BY <1>3, <1>4, <2>2, LoadedRecords DEF Peek, Step
    <3>2. mem[1] \in Record
      BY <1>3, <2>2, LoadedRecords
    <3>3. /\ eng.at # "unlinked" /\ eng' \in EngState
          /\ eng'.at = w /\ eng'.rec = mem[1]
      BY <1>4, <3>1, <3>2 DEF Peek, EngState, Working
    <3>4. HeadStable'
      BY <1>1, <2>2, <3>3 DEF HeadStable
    <3> QED  BY <1>1, <1>2, <3>3, <3>4, EngineStep
  <2> QED  BY <2>1, <2>2
<1>5. ASSUME NEW permanent \in BOOLEAN, Deliver(permanent)
      PROVE  OutboxInv'
  <2>1. eng.at = "deliver" /\ eng' = Working("drop", eng.rec, permanent)
    BY <1>5 DEF Deliver, Step
  <2>2. eng.rec = mem[1] /\ mem # <<>>
    BY <2>1 DEF OutboxInv, HeadStable
  <2>3. mem[1] \in Record
    BY <1>3, <2>2, LoadedRecords
  <2>4. eng' \in EngState /\ eng'.at = "drop" /\ eng'.rec = mem[1]
    BY <2>1, <2>2, <2>3 DEF EngState, Working
  <2>5. HeadStable'
    BY <1>1, <2>2, <2>4 DEF HeadStable
  <2> QED  BY <1>1, <1>2, <2>1, <2>4, <2>5, EngineStep
<1>6. CASE DeliverFails \/ BackedOff \/ Waits \/ Woken
  <2>1. PICK w \in {"sleep", "drain", "wait"} : eng' = Between(w)
    BY <1>6 DEF DeliverFails, BackedOff, Waits, Woken, Step
  <2>2. eng.at # "unlinked" /\ eng' \in EngState /\ eng'.at = w
    BY <1>6, <2>1 DEF DeliverFails, BackedOff, Waits, Woken, EngState, Between
  <2> QED  BY <1>1, <1>2, <2>2, EngineStep DEF HeadStable
<1> QED  BY <1>4, <1>5, <1>6

(* Append writes a file under the next number.                              *)
LEMMA AppendInductive ==
  ASSUME OutboxInv, NEW p \in Producers, NEW m \in Payloads, AppendRecord(p, m)
  PROVE  OutboxInv'
<1> DEFINE r == [seq |-> next, payload |-> m]
<1>1. /\ r \in Record /\ r.seq = next
      /\ Up /\ ~Locked
      /\ disk' = Put(disk, r)
      /\ prod' = [prod EXCEPT ![p] = [at |-> "written", rec |-> r]]
      /\ UNCHANGED <<dead, phase, mem, next, eng, notify>>
  BY DEF AppendRecord, Record, OutboxInv, OutboxTypeOK
<1> HIDE DEF r
<1>2. eng.at # "unlinked" /\ \A q \in Producers : prod[q].at # "written"
  BY <1>1 DEF Locked
<1>3. Leaving = {} /\ Writing = {}
  BY <1>2 DEF Leaving, Writing
<1>4. disk = Loaded
  BY <1>1, <1>3 DEF OutboxInv, Mirror
<1>5. /\ mem \in Seq(Record) /\ disk \subseteq Record /\ dead \subseteq Record
      /\ next \in Int
  BY DEF OutboxInv, OutboxTypeOK
<1>6. \A q \in disk \cup dead : q.seq < next /\ q.seq # r.seq
  <2>1. \A q \in Loaded : q.seq < next
    BY <1>1 DEF OutboxInv, CounterInv, Loaded
  <2>2. \A q \in disk \cup dead : q.seq < next
    BY <1>1, <1>4, <2>1 DEF OutboxInv, CounterInv
  <2>3. \A q \in disk \cup dead : q.seq \in Int
    BY <1>5 DEF Record
  <2> QED  BY <1>1, <1>5, <2>2, <2>3
<1>7. disk' = disk \cup {r}
  BY <1>1, <1>6 DEF Put
<1>8. /\ prod'[p].at = "written" /\ prod'[p].rec = r
      /\ \A q \in Producers : q # p => prod'[q] = prod[q]
      /\ prod' \in [Producers -> {Idle, [at |-> "pushed"]}
                                 \cup [at : {"written"}, rec : Record]]
  BY <1>1 DEF OutboxInv, OutboxTypeOK
<1>9. Writing' = {r}
  BY <1>2, <1>8 DEF Writing
<1>10. OutboxTypeOK'
  BY <1>1, <1>7, <1>8 DEF OutboxInv, OutboxTypeOK
<1>11. Ascending' /\ HeadStable' /\ CounterInv' /\ BootInv'
  BY <1>1 DEF OutboxInv, Ascending, HeadStable, CounterInv, BootInv, Up
<1>12. UniqueSeq'
  BY <1>1, <1>6, <1>7 DEF OutboxInv, UniqueSeq
<1>13. MutexInv'
  BY <1>1, <1>2, <1>8 DEF OutboxInv, MutexInv
<1>14. Mirror'
  <2>1. Loaded' = Loaded /\ Leaving' = {}
    BY <1>1, <1>2 DEF Loaded, Leaving
  <2> QED  BY <1>4, <1>7, <1>9, <2>1 DEF Mirror
<1> QED  BY <1>10, <1>11, <1>12, <1>13, <1>14 DEF OutboxInv

(* Push makes the list catch up with the file.                              *)
LEMMA PushInductive ==
  ASSUME OutboxInv, NEW p \in Producers, Push(p)
  PROVE  OutboxInv'
<1> DEFINE r == prod[p].rec
<1>1. /\ prod[p].at = "written"
      /\ mem' = Append(mem, r) /\ next' = r.seq + 1
      /\ prod' = [prod EXCEPT ![p] = [at |-> "pushed"]]
      /\ UNCHANGED <<disk, dead, phase, eng, notify>>
  BY DEF Push
<1>2. prod[p] \in [at : {"written"}, rec : Record]
  BY <1>1 DEF OutboxInv, OutboxTypeOK, Idle
<1>3. r \in Record /\ r.seq = next
  BY <1>1, <1>2 DEF OutboxInv, MutexInv
<1> HIDE DEF r
<1>4. /\ eng.at # "unlinked"
      /\ \A q \in Producers : q # p => prod[q].at # "written"
  BY <1>1 DEF OutboxInv, MutexInv
<1>5. Up
  BY <1>1 DEF OutboxInv, BootInv, Idle
<1>6. Writing = {r} /\ Leaving = {}
  BY <1>1, <1>4 DEF Writing, Leaving, r
<1>7. mem \in Seq(Record) /\ next \in Int /\ dead \subseteq Record
  BY DEF OutboxInv, OutboxTypeOK
<1>8. \A q \in Loaded : q.seq < r.seq
  BY <1>3, <1>5 DEF OutboxInv, CounterInv, Loaded
<1>9. /\ mem' \in Seq(Record) /\ mem' # <<>> /\ Loaded' = Loaded \cup {r}
      /\ Ascending' /\ (mem # <<>> => mem'[1] = mem[1])
  BY <1>1, <1>3, <1>7, <1>8, AppendMem DEF OutboxInv
<1>10. /\ prod'[p].at = "pushed"
       /\ \A q \in Producers : q # p => prod'[q] = prod[q]
       /\ prod' \in [Producers -> {Idle, [at |-> "pushed"]}
                                  \cup [at : {"written"}, rec : Record]]
  BY <1>1 DEF OutboxInv, OutboxTypeOK
<1>11. next' \in 1..(MaxSeq + 1)
  BY <1>1, <1>3, OutboxAssumption DEF Record
<1>12. OutboxTypeOK'
  BY <1>1, <1>9, <1>10, <1>11 DEF OutboxInv, OutboxTypeOK
<1>13. HeadStable' /\ UniqueSeq'
  BY <1>1, <1>9 DEF OutboxInv, HeadStable, UniqueSeq
<1>14. BootInv'
  BY <1>1, <1>5 DEF BootInv, Up
<1>15. MutexInv'
  BY <1>1, <1>4, <1>10 DEF MutexInv
<1>16. CounterInv'
  <2>1. \A q \in Loaded' \cup dead : q.seq \in Int /\ (q.seq < next \/ q = r)
    <3>1. \A q \in Loaded \cup dead : q.seq < next
      BY <1>3, <1>5, <1>8 DEF OutboxInv, CounterInv
    <3>2. Loaded' \subseteq Record
      BY <1>9 DEF Loaded
    <3> QED  BY <1>7, <1>9, <3>1, <3>2 DEF Record
  <2>2. \A q \in Loaded' \cup dead : q.seq < next'
    BY <1>1, <1>3, <1>7, <2>1
  <2> QED  BY <1>1, <2>2 DEF CounterInv, Loaded
<1>17. Mirror'
  <2>1. Writing' = {} /\ Leaving' = {}
    BY <1>1, <1>4, <1>10 DEF Writing, Leaving
  <2>2. disk = Loaded \cup {r}
    BY <1>5, <1>6 DEF OutboxInv, Mirror
  <2> QED  BY <1>1, <1>9, <2>1, <2>2 DEF Mirror
<1> QED  BY <1>9, <1>12, <1>13, <1>14, <1>15, <1>16, <1>17 DEF OutboxInv

(* Wake touches the channel only.                                           *)
LEMMA WakeInductive ==
  ASSUME OutboxInv, NEW p \in Producers, Wake(p)
  PROVE  OutboxInv'
<1>1. /\ prod[p].at = "pushed" /\ prod' = [prod EXCEPT ![p] = Idle]
      /\ notify' = TRUE
      /\ UNCHANGED <<disk, dead, phase, mem, next, eng>>
  BY DEF Wake
<1>2. /\ prod'[p] = Idle /\ prod'[p].at = "idle"
      /\ \A q \in Producers : q # p => prod'[q] = prod[q]
      /\ prod' \in [Producers -> {Idle, [at |-> "pushed"]}
                                 \cup [at : {"written"}, rec : Record]]
  BY <1>1 DEF OutboxInv, OutboxTypeOK, Idle
<1>3. OutboxTypeOK'
  BY <1>1, <1>2 DEF OutboxInv, OutboxTypeOK
<1>4. Ascending' /\ UniqueSeq' /\ CounterInv' /\ HeadStable' /\ BootInv'
  BY <1>1, <1>2 DEF OutboxInv, Ascending, UniqueSeq, CounterInv, HeadStable,
     BootInv, Up, Loaded
<1>5. MutexInv'
  BY <1>1, <1>2 DEF OutboxInv, MutexInv
<1>6. Mirror'
  <2>1. {q \in Producers : prod'[q].at = "written"}
          = {q \in Producers : prod[q].at = "written"}
    BY <1>1, <1>2
  <2>2. Writing' = Writing
    BY <1>1, <1>2, <2>1 DEF Writing
  <2> QED  BY <1>1, <2>2 DEF OutboxInv, Mirror, Loaded, Leaving, Up
<1> QED  BY <1>3, <1>4, <1>5, <1>6 DEF OutboxInv

(* Drop moves or removes the file of the record that was delivered.         *)
LEMMA DropFileInductive ==
  ASSUME OutboxInv, DropFile
  PROVE  OutboxInv'
<1>1. eng.at = "drop" /\ ~Locked /\ UNCHANGED <<mem, notify, phase, next, prod>>
  BY DEF DropFile, Step
<1>2. Up
  BY <1>1, AwayFromDrain
<1>3. mem \in Seq(Record) /\ disk \subseteq Record /\ dead \subseteq Record
  BY DEF OutboxInv, OutboxTypeOK
<1>4. mem # <<>>
  BY <1>1 DEF OutboxInv, HeadStable
<1> DEFINE r == mem[1]
<1>5. r \in Loaded /\ r \in Record /\ Head(mem) = r /\ 1 \in DOMAIN mem
  BY <1>3, <1>4, LoadedRecords
<1>6. /\ disk' = Gone(disk, r)
      /\ dead' = Put(dead, r) \/ dead' = dead
      /\ eng' = Between("unlinked")
  BY <1>4, <1>5 DEF DropFile, Step
<1>7. \A p \in Producers : prod[p].at # "written"
  BY <1>1 DEF Locked
<1>8. disk = Loaded
  <2>1. Leaving = {} /\ Writing = {}
    BY <1>1, <1>7 DEF Leaving, Writing
  <2> QED  BY <1>2, <2>1 DEF OutboxInv, Mirror
<1>9. disk' = disk \ {r}
  BY <1>5, <1>6, <1>8 DEF Gone, OutboxInv, UniqueSeq
<1>10. dead' \subseteq dead \cup {r}
  BY <1>6 DEF Put
<1>11. eng'.at = "unlinked"
  BY <1>6 DEF Between
<1>12. OutboxTypeOK'
  <2>1. eng' \in {Between(w) : w \in {"empty", "wait", "drain", "sleep", "unlinked"}}
    BY <1>6
  <2> QED  BY <1>1, <1>3, <1>5, <1>9, <1>10, <2>1 DEF OutboxInv, OutboxTypeOK
<1>13. Ascending' /\ MutexInv' /\ HeadStable' /\ BootInv'
  BY <1>1, <1>2, <1>4, <1>7, <1>11
     DEF OutboxInv, Ascending, MutexInv, HeadStable, BootInv, Up
<1>14. UniqueSeq'
  BY <1>5, <1>8, <1>9, <1>10 DEF OutboxInv, UniqueSeq
<1>15. CounterInv'
  BY <1>1, <1>2, <1>5, <1>10 DEF OutboxInv, CounterInv, Up
<1>16. Mirror'
  <2>1. Leaving' = {r} /\ Writing' = {} /\ Loaded' = Loaded
    BY <1>1, <1>7, <1>11 DEF Leaving, Writing, Loaded
  <2> QED  BY <1>8, <1>9, <2>1 DEF Mirror
<1> QED  BY <1>12, <1>13, <1>14, <1>15, <1>16 DEF OutboxInv

(* Drop takes the head off the list.                                        *)
LEMMA DropHeadInductive ==
  ASSUME OutboxInv, DropHead
  PROVE  OutboxInv'
<1>1. /\ eng.at = "unlinked" /\ mem' = Tail(mem) /\ eng' = Between("drain")
      /\ UNCHANGED <<disk, dead, notify, phase, next, prod>>
  BY DEF DropHead, Step
<1>2. Up
  BY <1>1, AwayFromDrain
<1>3. /\ mem \in Seq(Record) /\ mem # <<>> /\ Ascending
      /\ \A p \in Producers : prod[p].at # "written"
  BY <1>1 DEF OutboxInv, OutboxTypeOK, MutexInv
<1>4. /\ mem' \in Seq(Record) /\ Loaded' = Loaded \ {mem[1]} /\ Ascending'
      /\ \A i \in DOMAIN mem' : \E j \in DOMAIN mem : mem'[i] = mem[j]
  BY <1>1, <1>3, TailMem
<1>5. eng'.at = "drain"
  BY <1>1 DEF Between
<1>6. OutboxTypeOK'
  <2>1. eng' \in {Between(w) : w \in {"empty", "wait", "drain", "sleep", "unlinked"}}
    BY <1>1
  <2> QED  BY <1>1, <1>4, <2>1 DEF OutboxInv, OutboxTypeOK
<1>7. UniqueSeq' /\ MutexInv' /\ HeadStable' /\ BootInv'
  BY <1>1, <1>2, <1>3, <1>5
     DEF OutboxInv, UniqueSeq, MutexInv, HeadStable, BootInv, Up
<1>8. CounterInv'
  BY <1>1, <1>2, <1>4 DEF OutboxInv, CounterInv, Up
<1>9. Mirror'
  <2>1. Leaving = {mem[1]} /\ Writing = {} /\ Leaving' = {} /\ Writing' = {}
    BY <1>1, <1>3, <1>5 DEF Leaving, Writing
  <2> QED  BY <1>1, <1>2, <1>4, <2>1 DEF OutboxInv, Mirror
<1> QED  BY <1>4, <1>6, <1>7, <1>8, <1>9 DEF OutboxInv

(* A process that is down, or has just begun to open the directory.         *)
LEMMA DownInductive ==
  ASSUME OutboxInv,
         \/ Crash
         \/ Open
  PROVE  OutboxInv'
<1>1. UNCHANGED <<disk, dead>> /\ phase' \in {"down", "opening"} /\ ~Up'
  BY DEF Crash, Open, Up
<1>2. mem' = <<>>
  BY DEF Crash, Blank, Open, OutboxInv, BootInv
<1>3. eng' = Between("drain") /\ \A p \in Producers : prod'[p] = Idle
  BY DEF Crash, Blank, Open, OutboxInv, BootInv, Up
<1>4. next' \in 1..(MaxSeq + 1) /\ notify' \in BOOLEAN
  <2>1. 1 \in 1..(MaxSeq + 1)
    BY OutboxAssumption
  <2>2. next' = 1 \/ next' = next
    BY DEF Crash, Blank, Open
  <2>3. next' \in 1..(MaxSeq + 1)
    BY <2>1, <2>2 DEF OutboxInv, OutboxTypeOK
  <2>4. notify' = FALSE \/ notify' = notify
    BY DEF Crash, Blank, Open
  <2>5. notify' \in BOOLEAN
    BY <2>4, Zenon DEF OutboxInv, OutboxTypeOK
  <2> QED  BY <2>3, <2>5
<1>5. prod' = [p \in Producers |-> Idle] \/ UNCHANGED prod
  BY DEF Crash, Blank, Open
<1>6. Loaded' = {} /\ DOMAIN mem' = {}
  BY <1>2 DEF Loaded
<1>7. OutboxTypeOK'
  <2>1. mem' \in Seq(Record)
    BY <1>2
  <2>2. prod' \in [Producers -> {Idle, [at |-> "pushed"]}
                               \cup [at : {"written"}, rec : Record]]
    BY <1>5 DEF OutboxInv, OutboxTypeOK
  <2>3. eng' \in {Between(w) : w \in {"empty", "wait", "drain", "sleep", "unlinked"}}
    BY <1>3
  <2> QED  BY <1>1, <1>4, <2>1, <2>2, <2>3 DEF OutboxInv, OutboxTypeOK
<1>8. UniqueSeq' /\ Ascending'
  BY <1>1, <1>6 DEF OutboxInv, UniqueSeq, Ascending
<1>9. BootInv' /\ CounterInv' /\ Mirror'
  BY <1>1, <1>2, <1>3, <1>6 DEF BootInv, CounterInv, Mirror
<1>10. MutexInv' /\ HeadStable'
  <2>1. eng'.at = "drain" /\ \A p \in Producers : prod'[p].at = "idle"
    BY <1>3 DEF Between, Idle
  <2> QED  BY <2>1 DEF MutexInv, HeadStable
<1> QED  BY <1>7, <1>8, <1>9, <1>10 DEF OutboxInv

(* Open reads the lowest file it has not read.                              *)
LEMMA ReadInductive ==
  ASSUME OutboxInv, NEW r \in disk, ReadRecord(r)
  PROVE  OutboxInv'
<1>1. /\ phase = "opening" /\ r \in disk \ Loaded
      /\ \A q \in disk \ Loaded : r.seq <= q.seq
      /\ mem' = Append(mem, r)
      /\ UNCHANGED <<disk, dead, phase, next, prod, eng, notify>>
  BY DEF ReadRecord
<1>2. mem \in Seq(Record) /\ disk \subseteq Record /\ r \in Record
  BY DEF OutboxInv, OutboxTypeOK
<1>3. /\ Loaded \subseteq disk
      /\ \A q \in Loaded, s \in disk \ Loaded : q.seq < s.seq
  BY <1>1 DEF OutboxInv, BootInv
<1>4. mem' \in Seq(Record) /\ Loaded' = Loaded \cup {r} /\ Ascending'
  BY <1>1, <1>2, <1>3, AppendMem DEF OutboxInv
<1>5. /\ ~Up /\ ~Up' /\ eng = Between("drain") /\ eng.at = "drain"
      /\ \A p \in Producers : prod[p] = Idle
  BY <1>1 DEF OutboxInv, BootInv, Up, Between
<1>6. OutboxTypeOK'
  BY <1>1, <1>4 DEF OutboxInv, OutboxTypeOK
<1>7. BootInv'
  <2>1. \A s \in disk \ Loaded' : r.seq < s.seq
    <3>1. \A s \in disk : s.seq \in Int
      BY <1>2 DEF Record
    <3> QED  BY <1>1, <1>4, <3>1 DEF OutboxInv, UniqueSeq
  <2>2. \A q \in Loaded', s \in disk \ Loaded' : q.seq < s.seq
    BY <1>3, <1>4, <2>1
  <2> QED  BY <1>1, <1>3, <1>4, <1>5, <2>2 DEF BootInv
<1>8. UniqueSeq' /\ CounterInv' /\ Mirror'
  BY <1>1, <1>5 DEF OutboxInv, UniqueSeq, CounterInv, Mirror
<1>9. MutexInv' /\ HeadStable'
  BY <1>1, <1>5 DEF OutboxInv, MutexInv, HeadStable
<1> QED  BY <1>4, <1>6, <1>7, <1>8, <1>9 DEF OutboxInv

(* Open ends with the whole directory in memory and the counter above it.   *)
LEMMA OpenedInductive ==
  ASSUME OutboxInv, Opened
  PROVE  OutboxInv'
<1>1. /\ phase = "opening" /\ disk \subseteq Loaded /\ phase' = "up"
      /\ next' \in 1..(MaxSeq + 1) /\ \A r \in disk \cup dead : r.seq < next'
      /\ UNCHANGED <<disk, dead, mem, prod, eng, notify>>
  BY DEF Opened, Follows
<1>2. Loaded = disk /\ Loaded' = disk
  BY <1>1 DEF OutboxInv, BootInv, Loaded
<1>3. /\ eng.at = "drain" /\ \A p \in Producers : prod[p].at = "idle"
  BY <1>1 DEF OutboxInv, BootInv, Up, Between, Idle
<1>4. OutboxTypeOK'
  BY <1>1 DEF OutboxInv, OutboxTypeOK
<1>5. Ascending' /\ UniqueSeq' /\ HeadStable'
  BY <1>1 DEF OutboxInv, Ascending, UniqueSeq, HeadStable
<1>6. BootInv' /\ MutexInv'
  BY <1>1, <1>3 DEF BootInv, MutexInv, Up
<1>7. CounterInv'
  BY <1>1, <1>2 DEF CounterInv, Loaded
<1>8. Mirror'
  <2>1. Writing' = {} /\ Leaving' = {}
    BY <1>1, <1>3 DEF Writing, Leaving
  <2> QED  BY <1>1, <1>2, <2>1 DEF Mirror
<1> QED  BY <1>4, <1>5, <1>6, <1>7, <1>8 DEF OutboxInv

-----------------------------------------------------------------------------
(* The invariant is inductive.                                              *)
LEMMA OutboxInvInductive == Spec => []OutboxInv
<1>1. Init => OutboxInv
  <2> SUFFICES ASSUME Init  PROVE OutboxInv
    OBVIOUS
  <2>1. mem = <<>> /\ DOMAIN mem = {} /\ Loaded = {} /\ ~Up
    BY DEF Init, Loaded, Up
  <2>2. eng.at = "drain" /\ \A p \in Producers : prod[p] = Idle /\ prod[p].at = "idle"
    BY DEF Init, Between, Idle
  <2>3. OutboxTypeOK
    <3>1. next \in 1..(MaxSeq + 1)
      BY OutboxAssumption DEF Init
    <3>2. mem \in Seq(Record)
      BY <2>1
    <3>3. eng \in {Between(w) : w \in {"empty", "wait", "drain", "sleep", "unlinked"}}
      BY DEF Init
    <3> QED  BY <3>1, <3>2, <3>3, Zenon DEF Init, OutboxTypeOK
  <2>4. UniqueSeq /\ Ascending /\ MutexInv /\ HeadStable
    BY <2>1, <2>2 DEF Init, UniqueSeq, Ascending, MutexInv, HeadStable
  <2>5. BootInv /\ CounterInv /\ Mirror
    BY <2>1, <2>2 DEF Init, BootInv, CounterInv, Mirror
  <2> QED  BY <2>3, <2>4, <2>5 DEF OutboxInv
<1>2. OutboxInv /\ [Next]_vars => OutboxInv'
  <2> SUFFICES ASSUME OutboxInv, [Next]_vars  PROVE OutboxInv'
    OBVIOUS
  <2>1. CASE \E p \in Producers : Enqueue(p)
    BY <2>1, AppendInductive, PushInductive, WakeInductive DEF Enqueue
  <2>2. CASE Engine \/ DeliverFails
    BY <2>2, QuietInductive, DropFileInductive, DropHeadInductive DEF Engine
  <2>3. CASE Crash \/ Boot
    BY <2>3, DownInductive, ReadInductive, OpenedInductive DEF Boot
  <2>4. CASE UNCHANGED vars
    BY <2>4 DEF vars, OutboxInv, OutboxTypeOK, Ascending, UniqueSeq, BootInv,
       MutexInv, CounterInv, Mirror, HeadStable, Loaded, Leaving, Writing, Up
  <2> QED  BY <2>1, <2>2, <2>3, <2>4 DEF Next
<1> QED  BY <1>1, <1>2, PTL DEF Spec

(* Every variable of the store, its producers and its engine keeps its      *)
(* type; the counter never passes the highest number by more than one.      *)
THEOREM OutboxTypeCorrect == Spec => []OutboxTypeOK
<1>1. OutboxInv => OutboxTypeOK
  BY DEF OutboxInv
<1> QED  BY <1>1, OutboxInvInductive, PTL

(* FileStore.live is the directory, in order, however Append, Drop, crashes *)
(* and Open interleave.                                                     *)
THEOREM MemMirrorsDiskTheorem == Spec => []MemMirrorsDisk
<1>1. OutboxInv => MemMirrorsDisk
  BY DEF OutboxInv, MemMirrorsDisk, Ascending, CounterInv, Mirror
<1> QED  BY <1>1, OutboxInvInductive, PTL

(* The record that Drop takes from the front is the one the engine peeked   *)
(* and delivered.                                                           *)
THEOREM HeadStableTheorem == Spec => []HeadStable
<1>1. OutboxInv => HeadStable
  BY DEF OutboxInv
<1> QED  BY <1>1, OutboxInvInductive, PTL

(* Dead letters are only ever added: a number is not reused while a file,   *)
(* live or dead, still has it.                                              *)
THEOREM DeadLettersTheorem == Spec => DeadLettersKept
<1>1. OutboxInv /\ [Next]_vars => [dead \subseteq dead']_vars
  <2> SUFFICES ASSUME OutboxInv, [Next]_vars  PROVE dead \subseteq dead'
    OBVIOUS
  <2>1. CASE DropFile
    <3>1. dead' = dead \/ (dead' = Put(dead, Head(mem)) /\ mem # <<>> /\ Head(mem) \in disk)
      BY <2>1 DEF DropFile, Step
    <3> QED  BY <3>1 DEF Put, OutboxInv, UniqueSeq
  <2>2. CASE UNCHANGED dead
    BY <2>2
  <2>3. DropFile \/ UNCHANGED dead
    <3>1. CASE \E p \in Producers : Enqueue(p)
      BY <3>1 DEF Enqueue, AppendRecord, Push, Wake
    <3>2. CASE Engine \/ DeliverFails
      BY <3>2 DEF Engine, Peek, BackedOff, DropHead, Waits, Woken, Deliver, DeliverFails
    <3>3. CASE Crash \/ Boot
      BY <3>3 DEF Crash, Boot, Open, ReadRecord, Opened
    <3>4. CASE UNCHANGED vars
      BY <3>4 DEF vars
    <3> QED  BY <3>1, <3>2, <3>3, <3>4 DEF Next
  <2> QED  BY <2>1, <2>2, <2>3
<1> QED  BY <1>1, OutboxInvInductive, PTL DEF Spec, DeadLettersKept

-----------------------------------------------------------------------------
(* The refinement.  Under the mutex the list in memory is the directory in  *)
(* order, so a file that is written joins the queue at the end and one that *)
(* is removed leaves from the front.                                        *)

Below(files, r) == {q \in files : q.seq < r.seq}

(* s lists files in the order of their numbers.                             *)
Lists(s, files) ==
  /\ s \in Seq(Record)
  /\ files = {s[i] : i \in 1..Len(s)}
  /\ \A i, j \in 1..Len(s) : i < j => s[i].seq < s[j].seq

PayloadsOf(s) == [i \in 1..Len(s) |-> s[i].payload]

(* The entries of a list of records.                                        *)
LEMMA RecordsOf ==
  ASSUME NEW s \in Seq(Record)
  PROVE  /\ Len(s) \in Nat
         /\ \A i \in 1..Len(s) : s[i] \in Record /\ s[i].seq \in Int
                                 /\ s[i].payload \in Payloads
<1>1. Len(s) \in Nat /\ \A i \in 1..Len(s) : s[i] \in Record
  OBVIOUS
<1>2. \A r \in Record : r.seq \in Int /\ r.payload \in Payloads
  BY DEF Record
<1> QED  BY <1>1, <1>2

(* The payloads of a list are as many.                                      *)
LEMMA PayloadsSeq ==
  ASSUME NEW s \in Seq(Record)
  PROVE  /\ PayloadsOf(s) \in Seq(Payloads) /\ Len(PayloadsOf(s)) = Len(s)
         /\ \A i \in 1..Len(s) : PayloadsOf(s)[i] = s[i].payload
<1>1. Len(s) \in Nat /\ \A i \in 1..Len(s) : s[i].payload \in Payloads
  BY RecordsOf
<1> DEFINE n == Len(s)
           g(i) == s[i].payload
           f == [i \in 1..n |-> g(i)]
<1> HIDE DEF n, g
<1>2. n \in Nat /\ \A i \in 1..n : g(i) \in Payloads
  BY <1>1 DEF n, g
<1>3. f \in [1..n -> Payloads]
  BY <1>2
<1>4. f \in Seq(Payloads) /\ Len(f) = n
  BY <1>2, <1>3
<1>5. f = PayloadsOf(s)
  BY DEF PayloadsOf, n, g
<1>6. \A i \in 1..n : f[i] = g(i)
  OBVIOUS
<1> HIDE DEF f
<1> QED  BY <1>4, <1>5, <1>6 DEF n, g

(* In an ascending list the first n entries are n files.                    *)
LEMMA FirstCounted ==
  ASSUME NEW s \in Seq(Record), \A i, j \in 1..Len(s) : i < j => s[i].seq < s[j].seq,
         NEW n \in 0..Len(s)
  PROVE  Cardinality({s[i] : i \in 1..n}) = n
<1> DEFINE f == [i \in 1..n |-> s[i]]
           S == {s[i] : i \in 1..n}
<1>1. Len(s) \in Nat /\ n \in Nat /\ \A i \in 1..n : i \in 1..Len(s)
  OBVIOUS
<1>2. \A i \in 1..Len(s) : s[i] \in Record /\ s[i].seq \in Int
  BY RecordsOf
<1>3. \A i, j \in 1..n : s[i] = s[j] => i = j
  <2> SUFFICES ASSUME NEW i \in 1..n, NEW j \in 1..n, s[i] = s[j], i # j PROVE FALSE
    OBVIOUS
  <2>1. i < j \/ j < i
    BY <1>1
  <2> QED  BY <1>1, <1>2, <2>1
<1>4. f \in Bijection(1..n, S)
  <2>1. f \in [1..n -> S]
    OBVIOUS
  <2>2. f \in Surjection(1..n, S)
    BY <2>1 DEF Surjection
  <2>3. f \in Injection(1..n, S)
    BY <1>3, <2>1 DEF Injection, IsInjective
  <2> QED  BY <2>2, <2>3 DEF Bijection
<1>5. ExistsBijection(1..n, S)
  BY <1>4, Zenon DEF ExistsBijection
<1> HIDE DEF S, f
<1>6. Cardinality(S) = n
  BY <1>1, <1>5, FS_CountingElements
<1> QED  BY <1>6 DEF S

(* The files in order are the entries of any ascending list of them.        *)
LEMMA InOrderIs ==
  ASSUME NEW s, NEW files, Lists(s, files)
  PROVE  InOrder(files) = PayloadsOf(s)
<1>1. /\ s \in Seq(Record) /\ Len(s) \in Nat
      /\ files = {s[i] : i \in 1..Len(s)}
      /\ \A i, j \in 1..Len(s) : i < j => s[i].seq < s[j].seq
  BY DEF Lists
<1>2. \A i \in 1..Len(s) : s[i] \in Record /\ s[i].seq \in Int
  BY <1>1, RecordsOf
<1>3. Cardinality(files) = Len(s)
  BY <1>1, FirstCounted
<1>4. ASSUME NEW i \in 1..Len(s)
      PROVE  Cardinality(Below(files, s[i])) = i - 1
  <2>1. Below(files, s[i]) = {s[j] : j \in 1..(i - 1)}
    <3>1. ASSUME NEW j \in 1..Len(s) PROVE s[j].seq < s[i].seq <=> j \in 1..(i - 1)
      <4>1. CASE j < i
        BY <1>1, <4>1
      <4>2. CASE j = i
        BY <1>1, <1>2, <4>2
      <4>3. CASE i < j
        BY <1>1, <1>2, <4>3
      <4> QED  BY <4>1, <4>2, <4>3
    <3>2. \A j \in 1..(i - 1) : j \in 1..Len(s)
      BY <1>1
    <3>3. Below(files, s[i]) \subseteq {s[j] : j \in 1..(i - 1)}
      BY <1>1, <3>1 DEF Below
    <3>4. {s[j] : j \in 1..(i - 1)} \subseteq Below(files, s[i])
      BY <1>1, <3>1, <3>2 DEF Below
    <3> QED  BY <3>3, <3>4
  <2>2. i - 1 \in 0..Len(s)
    BY <1>1
  <2> QED  BY <1>1, <2>1, <2>2, FirstCounted
<1>5. ASSUME NEW i \in 1..Len(s)
      PROVE  (CHOOSE r \in files : Cardinality(Below(files, r)) = i - 1) = s[i]
  <2>1. s[i] \in files /\ Cardinality(Below(files, s[i])) = i - 1
    BY <1>1, <1>4
  <2>2. ASSUME NEW r \in files, Cardinality(Below(files, r)) = i - 1
        PROVE  r = s[i]
    <3>1. PICK j \in 1..Len(s) : r = s[j]
      BY <1>1
    <3>2. j - 1 = i - 1
      BY <1>4, <2>2, <3>1
    <3> QED  BY <1>1, <3>1, <3>2
  <2> QED  BY <2>1, <2>2
<1>6. InOrder(files) =
        [i \in 1..Len(s) |->
           (CHOOSE r \in files : Cardinality(Below(files, r)) = i - 1).payload]
  BY <1>3 DEF InOrder, Below
<1> QED  BY <1>5, <1>6 DEF PayloadsOf

(* A finite number of files, since numbers are unique and bounded.          *)
LEMMA FilesFinite ==
  ASSUME OutboxInv
  PROVE  IsFiniteSet(disk)
<1>1. disk \subseteq Record /\ \A r, q \in disk : r.seq = q.seq => r = q
  BY DEF OutboxInv, OutboxTypeOK, UniqueSeq
<1> DEFINE f == [r \in disk |-> r.seq]
<1>2. f \in [disk -> 1..MaxSeq]
  BY <1>1 DEF Record
<1>3. f \in Injection(disk, 1..MaxSeq)
  BY <1>1, <1>2 DEF Injection, IsInjective
<1>4. IsFiniteSet(1..MaxSeq)
  BY OutboxAssumption, FS_Interval
<1> HIDE DEF f
<1> QED  BY <1>3, <1>4, FS_Injection

(* While there is a file the queue is not empty.                            *)
LEMMA QueueNotEmpty ==
  ASSUME OutboxInv, disk # {}
  PROVE  OnDisk # <<>>
<1>1. IsFiniteSet(disk)
  BY FilesFinite
<1>2. Cardinality(disk) \in Nat /\ Cardinality(disk) # 0
  BY <1>1, FS_CardinalityType, FS_EmptySet
<1>3. DOMAIN OnDisk = 1..Cardinality(disk)
  BY DEF OnDisk, InOrder
<1>4. 1 \in DOMAIN OnDisk
  BY <1>2, <1>3
<1> QED  BY <1>4

(* While nobody holds the mutex, memory lists the files.                    *)
LEMMA MemLists ==
  ASSUME OutboxInv, Up, ~Locked
  PROVE  Lists(mem, disk)
<1>1. Leaving = {} /\ Writing = {}
  BY DEF Locked, Leaving, Writing
<1>2. disk = Loaded
  BY <1>1 DEF OutboxInv, Mirror
<1>3. mem \in Seq(Record) /\ DOMAIN mem = 1..Len(mem) /\ Ascending
  BY DEF OutboxInv, OutboxTypeOK
<1> QED  BY <1>2, <1>3 DEF Lists, Loaded, Ascending

(* AppendRecord adds at the end of the queue.                               *)
LEMMA AppendAccepts ==
  ASSUME OutboxInv, NEW p \in Producers, NEW m \in Payloads, AppendRecord(p, m)
  PROVE  OnDisk' = Append(OnDisk, m)
<1> DEFINE r == [seq |-> next, payload |-> m]
<1>1. r \in Record /\ r.seq = next /\ r.payload = m /\ Up /\ ~Locked /\ disk' = Put(disk, r)
  BY DEF AppendRecord, Record, OutboxInv, OutboxTypeOK
<1> HIDE DEF r
<1>2. Lists(mem, disk)
  BY <1>1, MemLists
<1>3. /\ mem \in Seq(Record) /\ Len(mem) \in Nat
      /\ disk = {mem[i] : i \in 1..Len(mem)}
      /\ \A i, j \in 1..Len(mem) : i < j => mem[i].seq < mem[j].seq
      /\ \A i \in 1..Len(mem) : mem[i].seq \in Int
      /\ next \in Int
  BY <1>2, RecordsOf DEF Lists, OutboxInv, OutboxTypeOK
<1>4. \A i \in 1..Len(mem) : mem[i].seq < next
  BY <1>1, <1>3 DEF OutboxInv, CounterInv
<1>5. disk' = disk \cup {r}
  BY <1>1, <1>3, <1>4 DEF Put
<1> DEFINE s == Append(mem, r)
<1>6. /\ s \in Seq(Record) /\ Len(s) = Len(mem) + 1
      /\ \A i \in 1..Len(mem) : s[i] = mem[i]
      /\ s[Len(mem) + 1] = r
  BY <1>1, <1>3
<1> HIDE DEF s
<1>7. Lists(s, disk')
  <2>1. disk' = {s[i] : i \in 1..Len(s)}
    <3>1. disk' \subseteq {s[i] : i \in 1..Len(s)}
      <4> SUFFICES ASSUME NEW q \in disk' PROVE \E i \in 1..Len(s) : q = s[i]
        OBVIOUS
      <4>1. CASE q = r
        BY <1>3, <1>6, <4>1
      <4>2. CASE q \in disk
        BY <1>3, <1>6, <4>2
      <4> QED  BY <1>5, <4>1, <4>2
    <3>2. ASSUME NEW i \in 1..Len(s) PROVE s[i] \in disk'
      <4>1. i \in 1..Len(mem) \/ i = Len(mem) + 1
        BY <1>3, <1>6
      <4> QED  BY <1>3, <1>5, <1>6, <4>1
    <3> QED  BY <3>1, <3>2
  <2>2. ASSUME NEW i \in 1..Len(s), NEW j \in 1..Len(s), i < j
        PROVE  s[i].seq < s[j].seq
    <3>1. i \in 1..Len(mem) /\ (j \in 1..Len(mem) \/ j = Len(mem) + 1)
      BY <1>3, <1>6, <2>2
    <3> QED  BY <1>1, <1>3, <1>4, <1>6, <2>2, <3>1
  <2> QED  BY <1>6, <2>1, <2>2 DEF Lists
<1>8. OnDisk = PayloadsOf(mem) /\ OnDisk' = PayloadsOf(s)
  <2>1. OnDisk = PayloadsOf(mem)
    BY <1>2, InOrderIs DEF OnDisk
  <2>2. InOrder(disk') = PayloadsOf(s)
    BY <1>7, InOrderIs
  <2> QED  BY <2>1, <2>2 DEF OnDisk, InOrder
<1>9. PayloadsOf(s) = Append(PayloadsOf(mem), m)
  <2> DEFINE a == PayloadsOf(mem)
             b == PayloadsOf(s)
             c == Append(a, m)
  <2>1. /\ a \in Seq(Payloads) /\ Len(a) = Len(mem)
        /\ \A i \in 1..Len(mem) : a[i] = mem[i].payload
    BY <1>3, PayloadsSeq
  <2>2. /\ b \in Seq(Payloads) /\ Len(b) = Len(mem) + 1
        /\ \A i \in 1..(Len(mem) + 1) : b[i] = s[i].payload
    BY <1>6, PayloadsSeq
  <2> HIDE DEF a, b
  <2>3. /\ c \in Seq(Payloads) /\ Len(c) = Len(mem) + 1 /\ c[Len(mem) + 1] = m
        /\ \A i \in 1..Len(mem) : c[i] = a[i]
    BY <2>1, AppendProperties
  <2> HIDE DEF c
  <2>4. ASSUME NEW i \in 1..Len(b) PROVE b[i] = c[i]
    <3>1. i \in 1..Len(mem) \/ i = Len(mem) + 1
      BY <1>3, <2>2
    <3>2. i \in 1..(Len(mem) + 1) /\ b[i] = s[i].payload
      BY <2>2
    <3> QED  BY <1>1, <1>6, <2>1, <2>3, <3>1, <3>2
  <2>5. b = c
    BY <2>2, <2>3, <2>4, SeqEqual
  <2> QED  BY <2>5 DEF a, b, c
<1> QED  BY <1>8, <1>9

(* DropFile removes the front of the queue.                                 *)
LEMMA DropFinishes ==
  ASSUME OutboxInv, DropFile
  PROVE  OnDisk' = Tail(OnDisk)
<1>1. eng.at = "drop" /\ ~Locked
  BY DEF DropFile
<1>2. Up
  BY <1>1, AwayFromDrain
<1>3. mem # <<>>
  BY <1>1 DEF OutboxInv, HeadStable
<1>4. Lists(mem, disk)
  BY <1>1, <1>2, MemLists
<1>5. /\ mem \in Seq(Record) /\ Len(mem) \in Nat /\ Len(mem) > 0
      /\ disk = {mem[i] : i \in 1..Len(mem)}
      /\ \A i, j \in 1..Len(mem) : i < j => mem[i].seq < mem[j].seq
      /\ \A i \in 1..Len(mem) : mem[i].seq \in Int
  BY <1>3, <1>4, RecordsOf DEF Lists
<1>6. disk' = Gone(disk, mem[1])
  BY <1>3, <1>5 DEF DropFile
<1> DEFINE s == Tail(mem)
<1>7. /\ s \in Seq(Record) /\ Len(s) = Len(mem) - 1
      /\ \A i \in 1..Len(s) : s[i] = mem[i + 1]
  BY <1>5
<1> HIDE DEF s
<1>8. Lists(s, disk')
  <2>1. \A i \in 2..Len(mem) : mem[1].seq < mem[i].seq
    BY <1>5
  <2>2. disk' = {mem[i] : i \in 2..Len(mem)}
    <3>1. ASSUME NEW q \in disk' PROVE \E i \in 2..Len(mem) : q = mem[i]
      <4>1. PICK i \in 1..Len(mem) : q = mem[i]
        BY <1>5, <1>6 DEF Gone
      <4>2. i # 1
        BY <1>6, <4>1 DEF Gone
      <4> QED  BY <1>5, <4>1, <4>2
    <3>2. ASSUME NEW i \in 2..Len(mem) PROVE mem[i] \in disk'
      BY <1>5, <1>6, <2>1 DEF Gone
    <3> QED  BY <3>1, <3>2
  <2>3. disk' = {s[i] : i \in 1..Len(s)}
    <3>1. ASSUME NEW i \in 2..Len(mem) PROVE \E j \in 1..Len(s) : mem[i] = s[j]
      <4>1. PICK j \in 1..Len(s) : i = j + 1
        BY <1>5, <1>7
      <4> QED  BY <1>7, <4>1
    <3>2. ASSUME NEW j \in 1..Len(s) PROVE \E i \in 2..Len(mem) : s[j] = mem[i]
      BY <1>5, <1>7
    <3>3. disk' \subseteq {s[i] : i \in 1..Len(s)}
      BY <2>2, <3>1
    <3>4. {s[i] : i \in 1..Len(s)} \subseteq disk'
      BY <2>2, <3>2
    <3> QED  BY <3>3, <3>4
  <2>4. ASSUME NEW i \in 1..Len(s), NEW j \in 1..Len(s), i < j
        PROVE  s[i].seq < s[j].seq
    <3>1. PICK k, l \in 1..Len(mem) : k = i + 1 /\ l = j + 1 /\ k < l
      BY <1>5, <1>7, <2>4
    <3>2. s[i] = mem[k] /\ s[j] = mem[l]
      BY <1>7, <3>1
    <3> QED  BY <1>5, <3>1, <3>2
  <2> QED  BY <1>7, <2>3, <2>4 DEF Lists
<1>9. OnDisk = PayloadsOf(mem) /\ OnDisk' = PayloadsOf(s)
  <2>1. OnDisk = PayloadsOf(mem)
    BY <1>4, InOrderIs DEF OnDisk
  <2>2. InOrder(disk') = PayloadsOf(s)
    BY <1>8, InOrderIs
  <2> QED  BY <2>1, <2>2 DEF OnDisk, InOrder
<1>10. PayloadsOf(s) = Tail(PayloadsOf(mem))
  <2> DEFINE a == PayloadsOf(mem)
             b == PayloadsOf(s)
             c == Tail(a)
  <2>1. /\ a \in Seq(Payloads) /\ Len(a) = Len(mem)
        /\ \A i \in 1..Len(mem) : a[i] = mem[i].payload
    BY <1>5, PayloadsSeq
  <2>2. /\ b \in Seq(Payloads) /\ Len(b) = Len(s)
        /\ \A i \in 1..Len(s) : b[i] = s[i].payload
    BY <1>7, PayloadsSeq
  <2> HIDE DEF a, b
  <2>3. /\ c \in Seq(Payloads) /\ Len(c) = Len(s)
        /\ \A i \in 1..Len(s) : c[i] = a[i + 1]
    <3>1. a # <<>>
      BY <1>5, <2>1, EmptySeq
    <3>2. /\ c \in Seq(Payloads) /\ Len(c) = Len(a) - 1
          /\ \A i \in 1..Len(c) : c[i] = a[i + 1]
      BY <2>1, <3>1, HeadTailProperties
    <3> QED  BY <1>7, <2>1, <3>2
  <2> HIDE DEF c
  <2>4. ASSUME NEW i \in 1..Len(b) PROVE b[i] = c[i]
    <3>1. PICK k \in 1..Len(mem) : k = i + 1
      BY <1>5, <1>7, <2>2
    <3>2. i \in 1..Len(s) /\ b[i] = mem[k].payload /\ c[i] = a[k]
      BY <1>7, <2>2, <2>3, <3>1
    <3> QED  BY <2>1, <3>2
  <2>5. b = c
    BY <2>2, <2>3, <2>4, SeqEqual
  <2> QED  BY <2>5 DEF a, b, c
<1> QED  BY <1>9, <1>10

(* Where the engine works on a record, there is a file.                     *)
LEMMA WorkHasFile ==
  ASSUME OutboxInv, Up, mem # <<>>, eng.at # "unlinked"
  PROVE  disk # {}
<1>1. mem[1] \in Loaded
  BY LoadedRecords DEF OutboxInv, OutboxTypeOK
<1>2. Leaving = {}
  BY DEF Leaving
<1> QED  BY <1>1, <1>2 DEF OutboxInv, Mirror

(* The files are a first-in first-out queue: every step of the producers,   *)
(* the engine, a crash or a boot is a step of Fifo or leaves it alone.      *)
THEOREM FifoTheorem == Spec => RefinesFifo
<1>1. Init => Queue!FifoInit
  <2> SUFFICES ASSUME Init PROVE Queue!FifoInit
    OBVIOUS
  <2>1. Lists(<<>>, disk)
    BY DEF Init, Lists
  <2>2. OnDisk = PayloadsOf(<<>>)
    BY <2>1, InOrderIs DEF OnDisk
  <2>3. OnDisk = <<>>
    BY <2>2 DEF PayloadsOf
  <2>4. (eng.at = "drop") = FALSE
    BY DEF Init, Between
  <2> QED  BY <2>3, <2>4 DEF Queue!FifoInit
<1>2. OutboxInv /\ [Next]_vars => [Queue!FifoNext]_<<OnDisk, eng.at = "drop">>
  <2> SUFFICES ASSUME OutboxInv, [Next]_vars
               PROVE  Queue!FifoNext \/ UNCHANGED <<OnDisk, eng.at = "drop">>
    OBVIOUS
  <2>1. ASSUME NEW p \in Producers, NEW m \in Payloads, AppendRecord(p, m)
        PROVE  Queue!FifoNext
    <3>1. OnDisk' = Append(OnDisk, m)
      BY <2>1, AppendAccepts
    <3>2. eng' = eng
      BY <2>1 DEF AppendRecord
    <3> QED  BY <3>1, <3>2 DEF Queue!FifoNext, Queue!Accept
  <2>2. CASE DropFile
    <3>1. OnDisk' = Tail(OnDisk) /\ eng.at = "drop"
      BY <2>2, DropFinishes DEF DropFile
    <3>2. mem # <<>>
      BY <3>1 DEF OutboxInv, HeadStable
    <3>3. eng'.at = "unlinked"
      BY <2>2, <3>2 DEF DropFile, Step, Between
    <3> QED  BY <3>1, <3>3 DEF Queue!FifoNext, Queue!Finish
  <2>3. ASSUME UNCHANGED disk, Up, mem # <<>>, eng.at # "unlinked", eng'.at = "drop"
        PROVE  Queue!FifoNext
    <3>1. OnDisk # <<>>
      BY <2>3, WorkHasFile, QueueNotEmpty
    <3>2. OnDisk' = OnDisk
      BY <2>3 DEF OnDisk
    <3> QED  BY <2>3, <3>1, <3>2 DEF Queue!FifoNext, Queue!Judge
  <2>4. ASSUME UNCHANGED disk, eng'.at # "drop"
        PROVE  Queue!FifoNext
    <3>1. OnDisk' = OnDisk
      BY <2>4 DEF OnDisk
    <3> QED  BY <2>4, <3>1 DEF Queue!FifoNext, Queue!Forget
  <2>5. ASSUME UNCHANGED <<disk, eng>>
        PROVE  UNCHANGED <<OnDisk, eng.at = "drop">>
    BY <2>5 DEF OnDisk
  <2>6. ASSUME NEW p \in Producers, Enqueue(p)
        PROVE  Queue!FifoNext \/ UNCHANGED <<OnDisk, eng.at = "drop">>
    <3>1. CASE Push(p) \/ Wake(p)
      BY <2>5, <3>1 DEF Push, Wake
    <3> QED  BY <2>1, <2>6, <3>1 DEF Enqueue
  <2>7. CASE Peek
    <3>1. Up /\ eng.at = "drain" /\ UNCHANGED disk
      BY <2>7 DEF Peek
    <3>2. CASE mem = <<>>
      <4>1. eng'.at = "empty"
        BY <2>7, <3>2 DEF Peek, Step, Between
      <4> QED  BY <2>4, <3>1, <4>1
    <3>3. CASE mem # <<>>
      <4>1. eng'.at \in {"drop", "deliver"}
        BY <2>7, <3>3 DEF Peek, Step, Working
      <4> QED  BY <2>3, <2>4, <3>1, <3>3, <4>1
    <3> QED  BY <3>2, <3>3
  <2>8. ASSUME NEW permanent \in BOOLEAN, Deliver(permanent)
        PROVE  Queue!FifoNext
    <3>1. eng.at = "deliver" /\ eng'.at = "drop" /\ UNCHANGED disk
      BY <2>8 DEF Deliver, Step, Working
    <3>2. Up /\ mem # <<>>
      BY <3>1, AwayFromDrain DEF OutboxInv, HeadStable
    <3> QED  BY <2>3, <3>1, <3>2
  <2>9. CASE DeliverFails \/ BackedOff \/ DropHead \/ Waits \/ Woken \/ Crash
    <3>1. UNCHANGED disk /\ eng'.at \in {"sleep", "drain", "wait"}
      BY <2>9 DEF DeliverFails, BackedOff, DropHead, Waits, Woken, Crash, Blank, Step, Between
    <3> QED  BY <2>4, <3>1
  <2>10. CASE Boot \/ UNCHANGED vars
    <3>1. UNCHANGED <<disk, eng>>
      BY <2>10 DEF Boot, Open, ReadRecord, Opened, vars
    <3> QED  BY <2>5, <3>1
  <2> QED  BY <2>2, <2>6, <2>7, <2>8, <2>9, <2>10 DEF Next, Engine
<1> QED  BY <1>1, <1>2, OutboxInvInductive, PTL DEF Spec, RefinesFifo, Queue!FifoSpec
=============================================================================
