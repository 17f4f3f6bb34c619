--------------------------- MODULE ArchiverProofs ---------------------------
(***************************************************************************)
(* The auto-archive worker (Archiver) implements the server's abstract     *)
(* specification, for any number of tasks, runs and batches and whatever   *)
(* its listing has become by the time it is worked off.  What is proved of *)
(* TaskServer then holds beside the worker as well.                        *)
(***************************************************************************)
EXTENDS Archiver, TaskServerProofs

(* A row that can be archived is there.                                     *)
LEMMA ArchivableExists ==
  ASSUME NEW t, CanArchive(tasks[t])
  PROVE  Exists(t)
BY DEF CanArchive, IsDone, Exists, Terminal

(* The handlers around which the worker runs are the server's.              *)
LEMMA UserWriteServes ==
  ASSUME NEW t \in Tasks, UserWrite(t)
  PROVE  ServerNext /\ sweep' = sweep
BY DEF UserWrite, Wrote, ServerNext, UserStep

(* Archiving a listed task, one of the table or not, is archiving it.       *)
LEMMA SweepServes ==
  ASSUME ServerInv, archive
  PROVE  [ServerNext]_tasks
<1> DEFINE t == Head(sweep).id
<1>1. CASE CanArchive(tasks[t]) /\ SetRow(t, Archive(tasks[t]))
  <2>1. CASE t \in Tasks
    <3>1. ArchiveTask(t)
      BY <1>1, ArchivableExists DEF ArchiveTask
    <3> QED  BY <2>1, <3>1 DEF ServerNext, UserStep
  <2>2. CASE t \notin Tasks
    <3>1. tasks' = tasks
      BY <1>1, <2>2 DEF SetRow, ServerInv, ServerTypeOK
    <3> QED  BY <3>1
  <2> QED  BY <2>1, <2>2
<1>2. CASE tasks' = tasks
  BY <1>2
<1> QED  BY <1>1, <1>2 DEF archive

(* Every step of the worker and of those beside it is a step of the server. *)
LEMMA ArchiverServes ==
  ASSUME ServerInv, [ArchiverNext]_<<archiverVars, rerun>>
  PROVE  [ServerNext]_tasks
<1>1. CASE UNCHANGED <<archiverVars, rerun>>
  BY <1>1 DEF archiverVars
<1>2. ASSUME NEW t \in Tasks, UserWrite(t) PROVE ServerNext
  BY <1>2, UserWriteServes
<1>3. CASE ShellClosed
  BY <1>3 DEF ShellClosed, ServerNext, UserStep
<1>4. ASSUME NEW t \in Tasks, NEW e \in RunnerEvent, Reported(t, e) PROVE ServerNext
  BY <1>4 DEF Reported, ServerNext, ReporterStep
<1>5. CASE ClockTick \/ ListTasksDueForArchive \/ TickAborts
  BY <1>5 DEF ClockTick, ListTasksDueForArchive, TickAborts
<1>6. CASE archive
  BY <1>6, SweepServes
<1> QED  BY <1>1, <1>2, <1>3, <1>4, <1>5, <1>6 DEF ArchiverNext, ArchiverStep, Sweep

(* What the server's rows satisfy, they satisfy beside the worker.          *)
LEMMA ArchiverKeepsInv == ArchiverSpec => []ServerInv
<1>1. ArchiverInit => ServerInv
  BY ServerInvInductive DEF ArchiverInit
<1>2. ServerInv /\ [ArchiverNext]_<<archiverVars, rerun>> => ServerInv'
  BY ArchiverServes, ServerInvInductive
<1> QED  BY <1>1, <1>2, PTL DEF ArchiverSpec

-----------------------------------------------------------------------------
(* With the worker and its stale listing the server still implements its    *)
(* specification (archiver.go archive).                                     *)
THEOREM ArchiverRefines == ArchiverSpec => ArchiverRefinesServer
<1>1. ArchiverInit => ServerInit
  BY DEF ArchiverInit
<1>2. ServerInv /\ [ArchiverNext]_<<archiverVars, rerun>> => [ServerNext]_tasks
  BY ArchiverServes
<1> QED  BY <1>1, <1>2, ArchiverKeepsInv, PTL DEF ArchiverSpec, ArchiverRefinesServer

(* So the guarantees of the server's rows hold with the worker running.     *)
THEOREM ArchiverGuarantees ==
  ArchiverSpec => /\ []CommandFitsStatus /\ []ArchivedAtRest
                  /\ RunCounterMonotone /\ RunNeverResurrected /\ QueuedWakeProvisions
<1>1. ArchiverSpec => ServerSpec
  BY ArchiverRefines, PTL DEF ServerSpec, ArchiverRefinesServer
<1> QED  BY <1>1, CommandAlwaysFits, ArchivedStaysAtRest, RunCounterTheorem,
            RunNeverResurrectedTheorem, QueuedWakeTheorem, PTL

-----------------------------------------------------------------------------
(* What the sweep relies on.  A task is asked to run again only with a new  *)
(* version, whichever way it came to rest.                                  *)
LEMMA RunsBump ==
  ASSUME ServerInv, [ServerNext]_tasks, NEW t \in Tasks
  PROVE  /\ tasks[t].version \in Nat /\ tasks'[t].version \in Nat
         /\ tasks[t].version <= tasks'[t].version
         /\ tasks[t].status \notin UnderWay /\ tasks'[t].status \in UnderWay
            => tasks[t].version < tasks'[t].version
<1>1. ServerInv' /\ RowStep(tasks[t], tasks'[t])
  <2>1. ServerInv'
    BY ServerInvInductive
  <2>2. CASE UNCHANGED tasks
    <3>1. SameRun(tasks[t], tasks'[t])
      BY <2>2 DEF SameRun
    <3>2. RowStep(tasks[t], tasks'[t])
      BY <3>1, StayStep
    <3> QED  BY <2>1, <3>2
  <2>3. CASE ServerNext
    <3>1. RowStep(tasks[t], tasks'[t])
      BY <2>3, ServerRowStep
    <3> QED  BY <2>1, <3>1
  <2> QED  BY <2>2, <2>3
<1>2. /\ tasks[t] = NoTask \/ GoodRow(tasks[t])
      /\ tasks'[t] = NoTask \/ GoodRow(tasks'[t])
  BY <1>1 DEF ServerInv
<1>3. tasks[t].version \in Nat /\ tasks'[t].version \in Nat
  BY <1>2, ServerAssumption DEF NoTask, GoodRow, Row
<1>4. tasks[t].version <= tasks'[t].version
  BY <1>1, <1>3 DEF RowStep
<1>5. ASSUME tasks[t].status \notin UnderWay, tasks'[t].status \in UnderWay
      PROVE  tasks'[t].version # tasks[t].version
  <2>1. CASE Over(tasks[t])
    BY <1>1, <1>5, <2>1 DEF RowStep, Over, Terminal, UnderWay
  <2>2. CASE ~Over(tasks[t])
    <3>1. tasks[t].version = 0
      BY <1>2, <1>5, <2>2 DEF NoTask, GoodRow, Row, Status, Over, UnderWay
    <3>2. tasks'[t].version # 0
      BY <1>2, <1>5 DEF NoTask, GoodRow, UnderWay
    <3> QED  BY <3>1, <3>2
  <2> QED  BY <2>1, <2>2
<1> QED  BY <1>3, <1>4, <1>5

(* A listed task is remembered as soon as it is under way again, and its    *)
(* version is then past the one that was listed.                            *)
EntryOK(r) ==
  r.id \in Tasks =>
    /\ r.version \in Nat /\ r.version <= tasks[r.id].version
    /\ r.id \in rerun => r.version < tasks[r.id].version
    /\ tasks[r.id].status \in UnderWay => r.id \in rerun

Entries == {sweep[i] : i \in DOMAIN sweep}
ListInv == /\ sweep \in Seq(Entries) /\ rerun \subseteq Listed
           /\ \A r \in Entries : EntryOK(r)

(* An entry that stays on the list stays right.                             *)
LEMMA EntryStays ==
  ASSUME ServerInv, [ServerNext]_tasks, Remember, NEW r, EntryOK(r),
         r.id \in Listed'
  PROVE  EntryOK(r)'
<1> SUFFICES ASSUME r.id \in Tasks
             PROVE  /\ r.version \in Nat /\ r.version <= tasks'[r.id].version
                    /\ r.id \in rerun' => r.version < tasks'[r.id].version
                    /\ tasks'[r.id].status \in UnderWay => r.id \in rerun'
  BY DEF EntryOK
<1> DEFINE v == tasks[r.id].version
           w == tasks'[r.id].version
<1>1. /\ v \in Nat /\ w \in Nat /\ v <= w
      /\ tasks[r.id].status \notin UnderWay /\ tasks'[r.id].status \in UnderWay => v < w
  BY RunsBump
<1>2. /\ r.version \in Nat /\ r.version <= v /\ (r.id \in rerun => r.version < v)
      /\ tasks[r.id].status \in UnderWay => r.id \in rerun
  BY DEF EntryOK
<1>3. r.id \in rerun' <=> r.id \in rerun \/ tasks'[r.id].status \in UnderWay
  BY DEF Remember
<1> HIDE DEF v, w
<1>4. r.version <= w
  BY <1>1, <1>2
<1>5. ASSUME r.id \in rerun' PROVE r.version < w
  <2>1. CASE r.id \in rerun
    BY <1>1, <1>2, <2>1
  <2>2. CASE r.id \notin rerun
    <3>1. v < w
      BY <1>1, <1>2, <1>3, <1>5, <2>2
    <3> QED  BY <1>1, <1>2, <3>1
  <2> QED  BY <2>1, <2>2
<1> QED  BY <1>2, <1>3, <1>4, <1>5 DEF v, w

(* What is left of a list is the list or its tail.                          *)
LEMMA TailEntries ==
  ASSUME NEW S, NEW s \in Seq(S), s # <<>>
  PROVE  /\ Head(s) \in {s[i] : i \in DOMAIN s} /\ Tail(s) \in Seq(S)
         /\ {Tail(s)[i] : i \in DOMAIN Tail(s)} \subseteq {s[i] : i \in DOMAIN s}
OBVIOUS

(* A sequence is one of its own elements.                                   *)
LEMMA SeqOfRange ==
  ASSUME NEW S, NEW s \in Seq(S)
  PROVE  s \in Seq({s[i] : i \in DOMAIN s})
<1>1. Len(s) \in Nat /\ DOMAIN s = 1..Len(s) /\ s = [i \in 1..Len(s) |-> s[i]]
  OBVIOUS
<1>2. s \in [1..Len(s) -> {s[i] : i \in DOMAIN s}]
  BY <1>1
<1> QED  BY <1>1, <1>2

(* The list keeps its invariant when it stays, shrinks or is dropped.       *)
LEMMA ListShrinks ==
  ASSUME ServerInv, [ServerNext]_tasks, Remember, ListInv,
         \/ sweep' = sweep \/ sweep' = <<>>
         \/ sweep # <<>> /\ sweep' = Tail(sweep)
  PROVE  ListInv'
<1>1. sweep' \in Seq(Entries) /\ Entries' \subseteq Entries
  <2>1. CASE sweep' = sweep
    BY <2>1 DEF ListInv, Entries
  <2>2. CASE sweep' = <<>>
    BY <2>2 DEF Entries
  <2>3. CASE sweep # <<>> /\ sweep' = Tail(sweep)
    BY <2>3, TailEntries DEF ListInv, Entries
  <2> QED  BY <2>1, <2>2, <2>3
<1>2. sweep' \in Seq(Entries')
  BY <1>1, SeqOfRange DEF Entries
<1>3. rerun' \subseteq Listed'
  BY DEF Remember
<1>4. ASSUME NEW r \in Entries' PROVE EntryOK(r)'
  <2>1. r.id \in Listed' /\ EntryOK(r)
    BY <1>1, <1>4 DEF Listed, Entries, ListInv
  <2> QED  BY <2>1, EntryStays
<1> QED  BY <1>2, <1>3, <1>4 DEF ListInv

(* A fresh list holds tasks at rest, under the versions they have.          *)
LEMMA ListFresh ==
  ASSUME ServerInv, ListInv, Remember, ListTasksDueForArchive
  PROVE  ListInv'
<1>1. PICK n \in 1..BatchSize : \E pick \in [1..n -> {i \in DOMAIN order : Due(order[i])}] :
        sweep' = [k \in 1..n |-> [id |-> order[pick[k]], version |-> tasks[order[pick[k]]].version]]
  BY DEF ListTasksDueForArchive
<1>2. PICK pick \in [1..n -> {i \in DOMAIN order : Due(order[i])}] :
        sweep' = [k \in 1..n |-> [id |-> order[pick[k]], version |-> tasks[order[pick[k]]].version]]
  BY <1>1
<1>3. n \in Nat
  BY ArchiverAssumption
<1>4. sweep' \in Seq(Entries') /\ DOMAIN sweep' = 1..n
  <2>1. sweep' \in [1..n -> Entries']
    BY <1>2 DEF Entries
  <2> QED  BY <1>3, <2>1
<1>5. rerun = {} /\ tasks' = tasks
  <2>1. sweep = <<>> /\ tasks' = tasks
    BY DEF ListTasksDueForArchive
  <2> QED  BY <2>1 DEF ListInv, Listed
<1>6. ASSUME NEW r \in Entries' PROVE EntryOK(r)'
  <2>1. PICK k \in 1..n : r = [id |-> order[pick[k]], version |-> tasks[order[pick[k]]].version]
    BY <1>2, <1>4, <1>6 DEF Entries
  <2>2. Due(r.id) /\ r.version = tasks[r.id].version
    BY <1>2, <2>1
  <2>3. tasks[r.id].status \notin UnderWay
    BY <2>2 DEF Due, Terminal, UnderWay
  <2>4. r.id \notin rerun'
    BY <1>5, <2>3 DEF Remember
  <2>5. r.id \in Tasks => r.version \in Nat /\ r.version <= r.version
    <3>1. r.id \in Tasks => tasks[r.id].version \in Nat
      BY <1>5, RunsBump
    <3> QED  BY <2>2, <3>1
  <2> QED  BY <1>5, <2>2, <2>3, <2>4, <2>5 DEF EntryOK
<1>7. rerun' \subseteq Listed'
  BY DEF Remember
<1> QED  BY <1>4, <1>6, <1>7 DEF ListInv

(* The list is right from the first tick on.                                *)
LEMMA ListKeeps ==
  ASSUME ServerInv, ListInv, [ArchiverNext]_<<archiverVars, rerun>>
  PROVE  ListInv'
<1>1. [ServerNext]_tasks
  BY ArchiverServes
<1>2. CASE UNCHANGED <<archiverVars, rerun>>
  BY <1>2 DEF archiverVars, ListInv, Entries, Listed, EntryOK
<1>3. CASE Remember /\ ListTasksDueForArchive
  BY <1>3, ListFresh
<1>4. CASE Remember /\ (sweep' = sweep \/ sweep' = <<>>)
  BY <1>1, <1>4, ListShrinks
<1>5. CASE Remember /\ archive
  <2>1. sweep # <<>> /\ sweep' = Tail(sweep)
    BY <1>5 DEF archive
  <2> QED  BY <1>1, <1>5, <2>1, ListShrinks
<1>6. ASSUME ArchiverStep, ~ListTasksDueForArchive, ~archive
      PROVE  sweep' = sweep \/ sweep' = <<>>
  BY <1>6, UserWriteServes
  DEF ArchiverStep, Sweep, ShellClosed, ClockTick, Reported, Wrote, TickAborts
<1> QED  BY <1>2, <1>3, <1>4, <1>5, <1>6 DEF ArchiverNext

(* A task that was asked to run again, or was seen running, since it was    *)
(* listed is not archived by that sweep, also when the later run is over by *)
(* then: every run leaves its mark on the version (archiver.go archive, the *)
(* version compared under the row lock; task.go Start, Restart).            *)
THEOREM SweepTheorem == ArchiverSpec => SweepSparesLaterRuns
<1> DEFINE Spares == \A t \in Tasks :
             /\ sweep' # sweep
             /\ tasks'[t].archived /\ ~tasks[t].archived
             => t \notin rerun
<1>1. ASSUME ServerInv, ListInv, ArchiverNext PROVE Spares
  <2>1. ASSUME NEW t \in Tasks, UserWrite(t) PROVE Spares
    BY <2>1, UserWriteServes
  <2>2. CASE ShellClosed \/ ClockTick
    BY <2>2 DEF ShellClosed, ClockTick
  <2>3. ASSUME NEW t \in Tasks, NEW e \in RunnerEvent, Reported(t, e) PROVE Spares
    BY <2>3 DEF Reported, Wrote
  <2>4. CASE ListTasksDueForArchive \/ TickAborts
    BY <2>4 DEF ListTasksDueForArchive, TickAborts
  <2>5. CASE archive
    <3> DEFINE u == Head(sweep).id
    <3>1. CASE tasks' = tasks
      BY <3>1
    <3>2. CASE tasks[u].version = Head(sweep).version /\ SetRow(u, Archive(tasks[u]))
      <4>1. \A t \in Tasks : t # u => tasks'[t] = tasks[t]
        BY <1>1, <3>2 DEF SetRow, ServerInv, ServerTypeOK
      <4>2. EntryOK(Head(sweep))
        BY <1>1, <2>5, TailEntries DEF archive, ListInv, Entries
      <4>3. u \in Tasks => u \notin rerun
        BY <3>2, <4>2 DEF EntryOK
      <4> QED  BY <4>1, <4>3
    <3> QED  BY <2>5, <3>1, <3>2 DEF archive
  <2> QED  BY <1>1, <2>1, <2>2, <2>3, <2>4, <2>5 DEF ArchiverNext, ArchiverStep, Sweep
<1>2. ServerInv /\ ListInv /\ [ArchiverNext]_<<archiverVars, rerun>> => [Spares]_archiverVars
  BY <1>1 DEF archiverVars
<1>3. ArchiverInit => ListInv
  BY DEF ArchiverInit, ListInv, Entries, Listed
<1>4. ServerInv /\ ListInv /\ [ArchiverNext]_<<archiverVars, rerun>> => ListInv'
  BY ListKeeps
<1> QED  BY <1>2, <1>3, <1>4, ArchiverKeepsInv, PTL DEF ArchiverSpec, SweepSparesLaterRuns
=============================================================================
