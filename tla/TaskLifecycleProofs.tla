------------------------ MODULE TaskLifecycleProofs ------------------------
(***************************************************************************)
(* TaskLifecycle implements TaskServer, for any number of tasks, slots and *)
(* faults: every report the runner and the driver ever send, whatever      *)
(* crashes, is one the abstract specification allows, so the guarantees    *)
(* proved in TaskServerProofs hold of the whole system.                    *)
(*                                                                         *)
(* The inductive invariant has a part for each group of variables.  Its    *)
(* core is NothingAhead; BootInv is what NothingAhead needs to survive a   *)
(* reboot: Load only meets tasks that have a record, because nobody else   *)
(* touches the records while it runs.                                      *)
(***************************************************************************)
EXTENDS TaskLifecycle, TaskServerProofs

RecInv ==
  /\ rec \in [Tasks -> 0..MaxVersion \cup {NoRecord}]
  /\ \A t \in Tasks : rec[t] # NoRecord => KnownRun(t, rec[t])

OutInv ==
  /\ outbox \in Seq(OutboxEvent)
  /\ \A i \in DOMAIN outbox : KnownRun(outbox[i].task, outbox[i].version)

PollInv ==
  /\ pc \in [Tasks -> PC]
  /\ snap \in [Tasks -> [status : Status \cup {"Absent"}, version : 0..MaxVersion]]
  /\ \A t \in Tasks : pc[t] # "idle" => KnownRun(t, snap[t].version)

WatchInv ==
  /\ watch \in [Watchers -> Watch \cup {NoWatch}]
  /\ \A w \in Watchers :
       watch[w] # NoWatch => KnownRun(watch[w].task, watch[w].version)

(* A driver that owes a terminal report knows which.                        *)
SbInv ==
  /\ sb \in [Tasks -> Sandbox]
  /\ \A t \in Tasks :
       /\ sb[t].at \in {"start", "run", "report"} => KnownRun(t, sb[t].version)
       /\ Live(t) => KnownRun(t, sb[t].launch)
       /\ sb[t].at = "report" => sb[t].out \in {"stopped", "failed"}

CountInv == loaded \in Nat /\ sem \in Nat

(* Poll and Prune work only while the runner is up, Load only while it is   *)
(* loading, and what Load has yet to visit has a record.                    *)
BootInv ==
  /\ proc \in {"down", "loading", "up"}
  /\ prune \in [Tasks -> {"no", "listed", "doomed", "destroyed"}]
  /\ toLoad \subseteq Tasks
  /\ proc # "up" => \A t \in Tasks : pc[t] = "idle" /\ prune[t] = "no"
  /\ proc # "loading" => toLoad = {}
  /\ \A t \in toLoad : rec[t] # NoRecord

LifecycleInv ==
  /\ ServerInv
  /\ RecInv /\ OutInv /\ PollInv /\ WatchInv /\ SbInv /\ CountInv /\ BootInv

(* No row's counter goes back.                                              *)
Grow == \A t \in Tasks : /\ tasks'[t].version \in Nat
                         /\ tasks[t].version <= tasks'[t].version

-----------------------------------------------------------------------------
(* The version of a row is a number, positive where the row has a command. *)
LEMMA VersionNat ==
  ASSUME ServerInv, NEW t \in Tasks
  PROVE  /\ tasks[t].version \in 0..MaxVersion
         /\ tasks[t].version \in Nat
         /\ HasPendingWork(tasks[t]) => tasks[t].version # 0
<1>1. CASE tasks[t] = NoTask
  BY <1>1, ServerAssumption DEF NoTask, HasPendingWork
<1>2. CASE GoodRow(tasks[t])
  BY <1>2, ServerAssumption DEF GoodRow, Row, HasPendingWork, Commands
<1> QED  BY <1>1, <1>2 DEF ServerInv

(* A known run stays known.                                                 *)
LEMMA KnownGrows ==
  ASSUME Grow, ServerInv, NEW t \in Tasks, NEW v, KnownRun(t, v)
  PROVE  v \in 1..tasks'[t].version
BY VersionNat DEF Grow, KnownRun

(* A known run is in the range of the counter.                              *)
LEMMA KnownInRange ==
  ASSUME ServerInv, NEW t \in Tasks, NEW v, KnownRun(t, v)
  PROVE  v \in 0..MaxVersion /\ v # 0
BY VersionNat, ServerAssumption DEF KnownRun

(* The counters of the server grow with every step, and stay put with none. *)
LEMMA ServerGrows ==
  ASSUME ServerInv, [ServerNext]_tasks
  PROVE  Grow
<1>1. CASE UNCHANGED tasks
  BY <1>1, VersionNat DEF Grow
<1>2. CASE ServerNext
  BY <1>2, ServerRowStep, VersionNat DEF Grow, RowStep
<1> QED  BY <1>1, <1>2

(* Each part of the invariant survives a step that leaves its variables     *)
(* alone.                                                                   *)
LEMMA KeepRec ==
  ASSUME ServerInv, RecInv, Grow, rec' = rec  PROVE RecInv'
BY KnownGrows DEF RecInv, KnownRun

(* The outbox, left alone, keeps its part.                                  *)
LEMMA KeepOut ==
  ASSUME ServerInv, OutInv, Grow, outbox' = outbox  PROVE OutInv'
<1>1. \A i \in DOMAIN outbox : outbox[i] \in OutboxEvent
  BY DEF OutInv
<1>2. \A i \in DOMAIN outbox : outbox[i].task \in Tasks
  BY <1>1 DEF OutboxEvent
<1> QED  BY <1>2, KnownGrows DEF OutInv, KnownRun

(* The poll goroutines, left alone, keep their part.                        *)
LEMMA KeepPoll ==
  ASSUME ServerInv, PollInv, Grow, pc' = pc, snap' = snap  PROVE PollInv'
BY KnownGrows DEF PollInv, KnownRun

(* The supervise goroutines, left alone, keep their part.                   *)
LEMMA KeepWatch ==
  ASSUME ServerInv, WatchInv, Grow, watch' = watch  PROVE WatchInv'
<1>1. \A w \in Watchers : watch[w] # NoWatch => watch[w].task \in Tasks
  BY DEF WatchInv, Watch
<1> QED  BY <1>1, KnownGrows DEF WatchInv, KnownRun

(* The sandboxes, left alone, keep their part.                              *)
LEMMA KeepSb ==
  ASSUME ServerInv, SbInv, Grow, sb' = sb  PROVE SbInv'
BY KnownGrows DEF SbInv, KnownRun, Live

-----------------------------------------------------------------------------
(* What the effects shared by the actions do to the invariant.              *)

(* A report of a known run may join the outbox.                             *)
LEMMA EnqueueOut ==
  ASSUME ServerInv, OutInv, tasks' = tasks,
         NEW t \in Tasks, NEW kind \in {"stopped", "failed"}, NEW v, KnownRun(t, v),
         Enqueue(t, kind, v)
  PROVE  OutInv'
<1> DEFINE e == [task |-> t, event |-> kind, version |-> v]
<1>1. e \in OutboxEvent
  BY KnownInRange DEF OutboxEvent
<1>2. outbox' = Append(outbox, e)
  BY DEF Enqueue
<1>3. e.task = t /\ e.version = v
  OBVIOUS
<1> HIDE DEF e
<1>4. outbox \in Seq(OutboxEvent)
  BY DEF OutInv
<1>5. outbox' \in Seq(OutboxEvent)
  BY <1>1, <1>2, <1>4
<1>6. \A i \in DOMAIN outbox' : \/ i \in DOMAIN outbox /\ outbox'[i] = outbox[i]
                               \/ outbox'[i] = e
  BY <1>1, <1>2, <1>4
<1>7. \A i \in DOMAIN outbox' : KnownRun(outbox'[i].task, outbox'[i].version)
  BY <1>3, <1>6 DEF OutInv
<1> QED  BY <1>5, <1>7 DEF OutInv, KnownRun

(* Returning an exit code from Wait changes nothing else of a goroutine.    *)
LEMMA NotifiedWatch ==
  ASSUME ServerInv, WatchInv, Grow, NEW t \in Tasks, NEW code \in {"ok", "lost"},
         watch' = Notified(t, code)
  PROVE  WatchInv'
<1>1. ASSUME NEW w \in Watchers, watch[w] = NoWatch
      PROVE  watch'[w] = NoWatch
  BY <1>1 DEF Notified, NoWatch
<1>2. ASSUME NEW w \in Watchers, watch[w] # NoWatch
      PROVE  /\ watch'[w] \in Watch
             /\ watch'[w].task = watch[w].task
             /\ watch'[w].version = watch[w].version
             /\ watch[w].task \in Tasks
             /\ KnownRun(watch[w].task, watch[w].version)
  <2>1. watch[w] \in Watch
    BY <1>2 DEF WatchInv
  <2>2. KnownRun(watch[w].task, watch[w].version)
    BY <1>2 DEF WatchInv
  <2>3. watch'[w] = watch[w] \/ watch'[w] = [watch[w] EXCEPT !.code = code]
    BY DEF Notified
  <2> QED  BY <2>1, <2>2, <2>3 DEF Watch
<1>3. watch' \in [Watchers -> Watch \cup {NoWatch}]
  <2>1. \A w \in Watchers : watch'[w] \in Watch \cup {NoWatch}
    BY <1>1, <1>2
  <2>2. watch' = [w \in Watchers |-> watch'[w]]
    BY DEF Notified
  <2> QED  BY <2>1, <2>2
<1>4. \A w \in Watchers : watch'[w] # NoWatch =>
        watch'[w].version \in 1..tasks'[watch'[w].task].version
  BY <1>1, <1>2, KnownGrows
<1> QED  BY <1>3, <1>4 DEF WatchInv, KnownRun

(* A supervise goroutine may be spawned for a known run.                    *)
LEMMA SpawnWatch ==
  ASSUME ServerInv, WatchInv, SbInv, tasks' = tasks,
         NEW t \in Tasks, NEW v, KnownRun(t, v), Spawn(t, v)
  PROVE  WatchInv'
<1>1. PICK w \in Watchers :
        watch' = [watch EXCEPT ![w] =
          [task |-> t, version |-> v,
           code |-> IF Live(t) THEN "wait" ELSE sb[t].exit]]
  BY DEF Spawn
<1> DEFINE e == [task |-> t, version |-> v,
                 code |-> IF Live(t) THEN "wait" ELSE sb[t].exit]
<1>2. sb[t].exit \in {"ok", "lost"}
  BY DEF SbInv, Sandbox
<1>3. e \in Watch /\ e.task = t /\ e.version = v
  BY <1>2, KnownInRange DEF Watch
<1>4. watch' = [watch EXCEPT ![w] = e]
  BY <1>1
<1> HIDE DEF e
<1> QED  BY <1>3, <1>4 DEF WatchInv, KnownRun

(* A poll goroutine that moves on keeps the snapshot it was given.          *)
LEMMA GotoPoll ==
  ASSUME ServerInv, PollInv, Grow, NEW t \in Tasks, pc[t] # "idle",
         NEW where \in PC, Goto(t, where)
  PROVE  PollInv'
<1>1. pc' = [pc EXCEPT ![t] = where] /\ pc' \in [Tasks -> PC]
  BY DEF PollInv, Goto
<1>2. NoSnap \in [status : Status \cup {"Absent"}, version : 0..MaxVersion]
  BY ServerAssumption DEF NoSnap
<1>3. snap' \in [Tasks -> [status : Status \cup {"Absent"}, version : 0..MaxVersion]]
  BY <1>2 DEF PollInv, Goto
<1>4. \A u \in Tasks : pc'[u] # "idle" => pc[u] # "idle" /\ snap'[u] = snap[u]
  BY <1>1 DEF PollInv, Goto
<1>5. \A u \in Tasks : pc'[u] # "idle" => snap'[u].version \in 1..tasks'[u].version
  BY <1>4, KnownGrows DEF PollInv
<1> QED  BY <1>1, <1>3, <1>5 DEF PollInv, KnownRun

(* An empty memory satisfies the parts that speak of memory.                *)
LEMMA DownParts ==
  ASSUME Down
  PROVE  PollInv' /\ WatchInv' /\ CountInv' /\ BootInv'
<1>1. PollInv'
  BY ServerAssumption DEF Down, PollInv, PC, NoSnap
<1>2. WatchInv'
  BY DEF Down, WatchInv
<1>3. CountInv' /\ BootInv'
  BY DEF Down, CountInv, BootInv
<1> QED  BY <1>1, <1>2, <1>3

(* No sandbox is a sandbox whose driver is off.                             *)
LEMMA NoSandboxType ==
  NoSandbox \in Sandbox /\ NoSandbox.at = "off" /\ NoSandbox.st = "none"
BY ServerAssumption DEF NoSandbox, Sandbox

(* A sandbox that ends, or is removed, leaves no driver behind.             *)
LEMMA ExitParts ==
  ASSUME ServerInv, SbInv, WatchInv, Grow, NEW t \in Tasks,
         NEW code \in {"ok", "lost"}, Exit(t, code) \/ Remove(t)
  PROVE  SbInv' /\ WatchInv'
<1>1. PICK husk \in Sandbox :
        /\ sb' = [sb EXCEPT ![t] = husk]
        /\ husk.at = "off" /\ husk.st # "running"
  <2>1. NoSandbox \in Sandbox /\ NoSandbox.at = "off" /\ NoSandbox.st = "none"
    BY NoSandboxType
  <2>2. /\ [NoSandbox EXCEPT !.st = "exited", !.exit = code] \in Sandbox
        /\ [NoSandbox EXCEPT !.st = "exited", !.exit = code].at = "off"
        /\ [NoSandbox EXCEPT !.st = "exited", !.exit = code].st = "exited"
    BY <2>1 DEF Sandbox
  <2> QED  BY <2>1, <2>2 DEF Exit, Remove
<1>2. sb' \in [Tasks -> Sandbox]
  BY <1>1 DEF SbInv
<1>3. \A u \in Tasks : u # t => sb'[u] = sb[u]
  BY <1>1 DEF SbInv
<1>4. sb'[t] = husk
  BY <1>1 DEF SbInv
<1>5. SbInv'
  BY <1>1, <1>2, <1>3, <1>4, KnownGrows DEF SbInv, KnownRun, Live
<1>6. WatchInv'
  BY NotifiedWatch DEF Exit, Remove
<1> QED  BY <1>5, <1>6

(* A step of the poll goroutine of t: what is left to show is what it does  *)
(* to the record, the outbox, the watchers and the sandbox.                 *)
LEMMA GotoStep ==
  ASSUME LifecycleInv, NEW t \in Tasks, pc[t] # "idle", NEW where \in PC,
         Goto(t, where), UNCHANGED <<tasks, proc, toLoad, loaded, prune>>,
         sem' \in Nat, RecInv', OutInv', WatchInv', SbInv'
  PROVE  LifecycleInv'
<1>1. ServerInv' /\ Grow
  BY VersionNat DEF LifecycleInv, ServerInv, ServerTypeOK, GoodRow, Row, Grow
<1>2. PollInv'
  BY <1>1, GotoPoll DEF LifecycleInv
<1>3. CountInv'
  BY DEF LifecycleInv, CountInv
<1>4. proc = "up" /\ toLoad = {}
  BY DEF LifecycleInv, BootInv
<1>5. BootInv'
  BY <1>4 DEF LifecycleInv, BootInv
<1> QED  BY <1>1, <1>2, <1>3, <1>5 DEF LifecycleInv

(* The same for a step that touches none of those.                          *)
LEMMA QuietStep ==
  ASSUME LifecycleInv, NEW t \in Tasks, pc[t] # "idle", NEW where \in PC,
         Goto(t, where), sem' \in Nat,
         UNCHANGED <<tasks, rec, outbox, proc, toLoad, loaded, watch, prune, sb>>
  PROVE  LifecycleInv'
<1>1. Grow
  BY VersionNat DEF LifecycleInv, Grow
<1>2. RecInv' /\ OutInv' /\ WatchInv' /\ SbInv'
  BY <1>1, KeepRec, KeepOut, KeepWatch, KeepSb DEF LifecycleInv
<1> QED  BY <1>2, GotoStep

(* Released never leaves the numbers.                                       *)
LEMMA ReleasedNat == ASSUME CountInv PROVE Released \in Nat
BY DEF CountInv, Released

(* The error path of a launch reports the run of the snapshot.              *)
LEMMA StartFailedStep ==
  ASSUME LifecycleInv, NEW t \in Tasks, pc[t] = "launch", StartFailed(t),
         RecInv', SbInv'
  PROVE  LifecycleInv'
<1>1. OutInv' /\ sem' \in Nat
  <2>1. KnownRun(t, snap[t].version)
    BY DEF LifecycleInv, PollInv
  <2> QED  BY <2>1, EnqueueOut, ReleasedNat DEF LifecycleInv, StartFailed
<1>2. WatchInv'
  BY VersionNat, KeepWatch DEF LifecycleInv, StartFailed, Grow
<1> QED  BY <1>1, <1>2, GotoStep DEF StartFailed, PC

(* Every step of a poll goroutine keeps the invariant.                      *)
LEMMA PollInductive ==
  ASSUME LifecycleInv, NEW t \in Tasks, PollStep(t) \/ PollFault(t)
  PROVE  LifecycleInv'
<1> USE DEF PC
<1>1. CASE StopIdle(t)
  <2>1. pc[t] # "idle" /\ KnownRun(t, snap[t].version)
    BY <1>1 DEF LifecycleInv, PollInv, StopIdle
  <2>2. OutInv'
    BY <1>1, <2>1, EnqueueOut DEF LifecycleInv, StopIdle
  <2>3. Grow
    BY <1>1, VersionNat DEF LifecycleInv, Grow, StopIdle
  <2>4. RecInv' /\ WatchInv' /\ SbInv' /\ sem' \in Nat
    BY <1>1, <2>3, KeepRec, KeepWatch, KeepSb DEF LifecycleInv, CountInv, StopIdle
  <2> QED  BY <1>1, <2>1, <2>2, <2>4, GotoStep DEF StopIdle
<1>2. CASE SendTerm(t)
  <2>1. Grow
    BY <1>2, VersionNat DEF LifecycleInv, Grow, SendTerm
  <2>2. RecInv' /\ OutInv' /\ WatchInv' /\ sem' \in Nat
    BY <1>2, <2>1, KeepRec, KeepOut, KeepWatch DEF LifecycleInv, CountInv, SendTerm
  <2>3. SbInv'
    <3>1. [sb[t] EXCEPT !.term = TRUE] \in Sandbox
      BY DEF LifecycleInv, SbInv, Sandbox
    <3>2. sb' = [sb EXCEPT ![t] = [sb[t] EXCEPT !.term = TRUE]]
      BY <1>2 DEF SendTerm
    <3>3. \A u \in Tasks : /\ sb'[u].at = sb[u].at /\ sb'[u].st = sb[u].st
                           /\ sb'[u].version = sb[u].version
                           /\ sb'[u].launch = sb[u].launch
                           /\ sb'[u].out = sb[u].out
      BY <3>2 DEF LifecycleInv, SbInv, Sandbox
    <3>4. sb' \in [Tasks -> Sandbox]
      BY <3>1, <3>2 DEF LifecycleInv, SbInv
    <3> QED  BY <2>1, <3>3, <3>4, KnownGrows DEF LifecycleInv, SbInv, Live, KnownRun
  <2>4. Signalling(pc[t]) \in PC /\ pc[t] # "idle"
    BY <1>2 DEF SendTerm, Signalling
  <2>5. Goto(t, Signalling(pc[t]))
    BY <1>2 DEF SendTerm
  <2> QED  BY <1>2, <2>2, <2>3, <2>4, <2>5, GotoStep DEF SendTerm
<1>3. CASE SignalReturns(t) \/ KillError(t)
  <2>1. AfterKill(pc[t]) \in PC /\ pc[t] # "idle"
    BY <1>3 DEF SignalReturns, KillError, AfterKill
  <2>2. sem' \in Nat
    BY <1>3 DEF LifecycleInv, CountInv, SignalReturns, KillError
  <2> QED  BY <1>3, <2>1, <2>2, QuietStep DEF SignalReturns, KillError
<1>4. CASE KillTimeout(t)
  <2>1. AfterKill(pc[t]) \in PC /\ pc[t] # "idle"
    BY <1>4 DEF KillTimeout, AfterKill
  <2>2. Grow
    BY <1>4, VersionNat DEF LifecycleInv, Grow, KillTimeout
  <2>3. SbInv' /\ WatchInv'
    BY <1>4, <2>2, ExitParts DEF LifecycleInv, KillTimeout
  <2>4. RecInv' /\ OutInv' /\ sem' \in Nat
    BY <1>4, <2>2, KeepRec, KeepOut DEF LifecycleInv, CountInv, KillTimeout
  <2> QED  BY <1>4, <2>1, <2>3, <2>4, GotoStep DEF KillTimeout
<1>5. CASE RestartSkip(t) \/ RestartIdle(t) \/ CheckError(t) \/ StartAlreadyRunning(t)
  <2>1. sem' \in Nat
    BY <1>5 DEF LifecycleInv, CountInv, RestartSkip, RestartIdle, CheckError,
       StartAlreadyRunning
  <2> QED  BY <1>5, <2>1, QuietStep
           DEF RestartSkip, RestartDone, RestartIdle, CheckError, StartAlreadyRunning
<1>6. CASE StartCheck(t)
  <2>1. sem' \in Nat /\ pc[t] # "idle"
    BY <1>6 DEF LifecycleInv, CountInv, StartCheck
  <2>2. PICK where \in PC : Goto(t, where)
    BY <1>6 DEF StartCheck
  <2> QED  BY <1>6, <2>1, <2>2, QuietStep DEF StartCheck
<1>7. CASE TryAcquire(t)
  <2>1. sem' \in Nat /\ pc[t] # "idle"
    BY <1>7 DEF LifecycleInv, CountInv, TryAcquire
  <2>2. PICK where \in PC : Goto(t, where)
    BY <1>7 DEF TryAcquire
  <2> QED  BY <1>7, <2>1, <2>2, QuietStep DEF TryAcquire
<1>8. CASE StartGone(t)
  <2>1. Grow
    BY <1>8, VersionNat DEF LifecycleInv, Grow, StartGone, StartFailed
  <2>2. SbInv'
    BY <1>8, <2>1, KeepSb DEF LifecycleInv, StartGone
  <2>3. RecInv'
    BY <1>8, <2>1, KnownGrows DEF LifecycleInv, StartGone, RecInv, KnownRun
  <2> QED  BY <1>8, <2>2, <2>3, StartFailedStep DEF StartGone
<1>9. CASE StartConflict(t)
  <2>1. Grow
    BY <1>9, VersionNat DEF LifecycleInv, Grow, StartConflict, StartFailed
  <2>2. SbInv' /\ RecInv'
    BY <1>9, <2>1, KeepSb, KeepRec DEF LifecycleInv, StartConflict
  <2> QED  BY <1>9, <2>2, StartFailedStep DEF StartConflict
<1>10. CASE StartError(t)
  <2>1. Grow
    BY <1>10, VersionNat DEF LifecycleInv, Grow, StartError, StartFailed
  <2>2. RecInv'
    BY <1>10, <2>1, KeepRec DEF LifecycleInv, StartError
  <2>3. CASE sb' = sb
    <3>1. SbInv'
      BY <2>1, <2>3, KeepSb DEF LifecycleInv
    <3> QED  BY <1>10, <2>2, <3>1, StartFailedStep DEF StartError
  <2>4. CASE sb[t].st = "none" /\ sb' = [sb EXCEPT ![t].st = "created"]
    <3>1. [sb[t] EXCEPT !.st = "created"] \in Sandbox
      BY DEF LifecycleInv, SbInv, Sandbox
    <3>2. /\ sb' \in [Tasks -> Sandbox]
          /\ \A u \in Tasks : u # t => sb'[u] = sb[u]
          /\ sb'[t] = [sb[t] EXCEPT !.st = "created"]
      BY <2>4, <3>1 DEF LifecycleInv, SbInv
    <3>3. /\ sb'[t].at = sb[t].at /\ sb'[t].version = sb[t].version
          /\ sb'[t].out = sb[t].out /\ sb'[t].st = "created"
      BY <3>2 DEF LifecycleInv, SbInv, Sandbox
    <3>4. SbInv'
      BY <2>1, <3>2, <3>3, KnownGrows DEF LifecycleInv, SbInv, Live, KnownRun
    <3> QED  BY <1>10, <2>2, <3>4, StartFailedStep DEF StartError
  <2> QED  BY <1>10, <2>3, <2>4 DEF StartError
<1>11. CASE Launch(t)
  <2>1. Grow
    BY <1>11, VersionNat DEF LifecycleInv, Grow, Launch
  <2>2. RecInv' /\ OutInv' /\ WatchInv' /\ sem' \in Nat
    BY <1>11, <2>1, KeepRec, KeepOut, KeepWatch DEF LifecycleInv, CountInv, Launch
  <2>3. KnownRun(t, snap[t].version) /\ snap[t].version \in 0..MaxVersion
    BY <1>11, KnownInRange DEF LifecycleInv, PollInv, Launch
  <2> DEFINE b == [NoSandbox EXCEPT !.st = "running", !.at = "boot",
                                    !.launch = snap[t].version]
  <2>4. b \in Sandbox /\ b.at = "boot" /\ b.launch = snap[t].version
    BY <2>3, NoSandboxType DEF Sandbox
  <2>5. sb' = [sb EXCEPT ![t] = b]
    BY <1>11 DEF Launch
  <2> HIDE DEF b
  <2>6. /\ sb' \in [Tasks -> Sandbox] /\ sb'[t] = b
        /\ \A u \in Tasks : u # t => sb'[u] = sb[u]
    BY <2>4, <2>5 DEF LifecycleInv, SbInv
  <2>7. SbInv'
    BY <2>1, <2>3, <2>4, <2>6, KnownGrows DEF LifecycleInv, SbInv, Live, KnownRun
  <2> QED  BY <1>11, <2>2, <2>7, GotoStep DEF Launch
<1>12. CASE RecordLaunch(t)
  <2>1. Grow
    BY <1>12, VersionNat DEF LifecycleInv, Grow, RecordLaunch
  <2>2. KnownRun(t, snap[t].version) /\ snap[t].version \in 0..MaxVersion
    BY <1>12, KnownInRange DEF LifecycleInv, PollInv, RecordLaunch
  <2>3. OutInv' /\ SbInv' /\ sem' \in Nat
    BY <1>12, <2>1, KeepOut, KeepSb DEF LifecycleInv, CountInv, RecordLaunch
  <2>4. RecInv'
    BY <1>12, <2>1, <2>2, KnownGrows DEF LifecycleInv, RecInv, RecordLaunch, KnownRun
  <2>5. WatchInv'
    BY <1>12, <2>2, SpawnWatch DEF LifecycleInv, RecordLaunch
  <2> QED  BY <1>12, <2>3, <2>4, <2>5, GotoStep DEF RecordLaunch
<1>13. CASE RecordError(t)
  <2>1. KnownRun(t, snap[t].version)
    BY <1>13 DEF LifecycleInv, PollInv, RecordError
  <2>2. Grow /\ ServerInv'
    BY <1>13, VersionNat
    DEF LifecycleInv, ServerInv, ServerTypeOK, GoodRow, Row, Grow, RecordError
  <2>3. OutInv'
    BY <1>13, <2>1, EnqueueOut DEF LifecycleInv, RecordError
  <2>4. RecInv' /\ SbInv'
    BY <1>13, <2>2, KeepRec, KeepSb DEF LifecycleInv, RecordError
  <2> QED  BY <1>13, <2>2, <2>3, <2>4, DownParts DEF LifecycleInv, RecordError
<1> QED
  BY <1>1, <1>2, <1>3, <1>4, <1>5, <1>6, <1>7, <1>8, <1>9, <1>10, <1>11, <1>12,
     <1>13
  DEF PollStep, PollFault

-----------------------------------------------------------------------------
(* Refinement: a report is a step of the abstract reporter.                 *)
LEMMA ReportRefines ==
  ASSUME ServerInv, NEW t \in Tasks, NEW kind \in EventKind, NEW v, KnownRun(t, v),
         kind = "started" => ~tasks[t].archived,
         SubmitRunnerEvent(t, Event(kind, v))
  PROVE  ServerNext
<1> DEFINE e == Event(kind, v)
<1>1. e \in RunnerEvent /\ e.version = v /\ e.event = kind
  BY KnownInRange DEF Event, RunnerEvent
<1>2. v <= tasks[t].version
  BY VersionNat DEF KnownRun
<1> QED  BY <1>1, <1>2 DEF ServerNext, ReporterStep

(* Every step of the system is a step of the server or leaves the table     *)
(* alone.                                                                   *)
LEMMA StepRefines ==
  ASSUME LifecycleInv, [Next]_vars
  PROVE  [ServerNext]_tasks
<1>1. CASE User
  BY <1>1 DEF User, ServerNext
<1>2. ASSUME NEW acked \in BOOLEAN, Deliver(acked)
      PROVE  ServerNext
  <2>1. outbox # <<>> /\ outbox \in Seq(OutboxEvent)
    BY <1>2 DEF Deliver, LifecycleInv, OutInv
  <2>2. 1 \in DOMAIN outbox /\ Head(outbox) = outbox[1] /\ outbox[1] \in OutboxEvent
    BY <2>1
  <2>3. KnownRun(Head(outbox).task, Head(outbox).version)
    BY <2>2 DEF LifecycleInv, OutInv
  <2>4. Head(outbox).task \in Tasks /\ Head(outbox).event \in {"stopped", "failed"}
    BY <2>2 DEF OutboxEvent
  <2> QED  BY <1>2, <2>3, <2>4, ReportRefines DEF Deliver, LifecycleInv, EventKind
<1>3. ASSUME NEW t \in Tasks, DriverStep(t) \/ SandboxFault(t)
      PROVE  ServerNext \/ UNCHANGED tasks
  <2>1. /\ sb[t].at \in {"start", "run", "report"} => KnownRun(t, sb[t].version)
        /\ sb[t].at = "report" => sb[t].out \in {"stopped", "failed"}
    BY DEF LifecycleInv, SbInv
  <2>2. CASE DriverStarted(t)
    BY <2>1, <2>2, ReportRefines DEF DriverStarted, At, LifecycleInv, EventKind
  <2>3. CASE DriverReport(t)
    BY <2>1, <2>3, ReportRefines DEF DriverReport, At, LifecycleInv, EventKind
  <2>4. CASE DriverLostAck(t)
    BY <2>1, <2>4, ReportRefines DEF DriverLostAck, At, LifecycleInv, EventKind
  <2> QED
    BY <1>3, <2>2, <2>3, <2>4
    DEF DriverStep, SandboxFault, DriverGetTask, DriverRuns, DriverGivesUp, Vanish
<1>4. ASSUME NEW t \in Tasks, PollStep(t)
      PROVE  UNCHANGED tasks
  BY <1>4
  DEF PollStep, StopIdle, SendTerm, SignalReturns, RestartSkip, RestartIdle,
      StartCheck, TryAcquire, StartAlreadyRunning, StartGone, StartConflict,
      StartFailed, Launch, RecordLaunch
<1>5. ASSUME NEW t \in Tasks, PollFault(t)
      PROVE  UNCHANGED tasks
  BY <1>5
  DEF PollFault, KillTimeout, KillError, CheckError, StartError, StartFailed,
      RecordError
<1>6. CASE Poll \/ Crash \/ Boot \/ LoadDone \/ Prune
  BY <1>6 DEF Poll, Crash, Boot, LoadDone, Prune, PruneList, PruneCheck,
     PruneError, PruneDestroy, PruneRemove
<1>7. ASSUME NEW t \in Tasks, LoadRecord(t)
      PROVE  UNCHANGED tasks
  BY <1>7 DEF LoadRecord
<1>8. ASSUME NEW w \in Watchers, Supervise(w)
      PROVE  UNCHANGED tasks
  BY <1>8 DEF Supervise
<1>9. CASE UNCHANGED vars
  BY <1>9 DEF vars
<1> QED
  BY <1>1, <1>2, <1>3, <1>4, <1>5, <1>6, <1>7, <1>8, <1>9 DEF Next
-----------------------------------------------------------------------------
(* The rest of the inductive step.  What a step of the system does to the   *)
(* table is settled by the refinement: it keeps the server's invariant and  *)
(* no counter goes back.                                                    *)
LEMMA TableStep ==
  ASSUME LifecycleInv, [Next]_vars
  PROVE  ServerInv' /\ Grow
BY StepRefines, ServerInvInductive, ServerGrows DEF LifecycleInv

(* Poll takes its snapshots from rows that have a command, so every one of  *)
(* them names a run.                                                        *)
LEMMA PollListInductive ==
  ASSUME LifecycleInv, Poll
  PROVE  LifecycleInv'
<1>1. Grow /\ ServerInv'
  BY TableStep DEF Next
<1>2. RecInv' /\ OutInv' /\ WatchInv' /\ SbInv' /\ CountInv'
  BY <1>1, KeepRec, KeepOut, KeepWatch, KeepSb DEF LifecycleInv, CountInv, Poll
<1>3. BootInv'
  BY DEF LifecycleInv, BootInv, Poll, Up
<1>4. PollInv'
  <2>1. \A t \in Tasks : Arm(tasks[t].command) \in PC
    BY DEF Arm, PC
  <2>2. pc' \in [Tasks -> PC]
    BY <2>1 DEF Poll, PC
  <2>3. \A t \in Tasks : HasPendingWork(tasks[t]) =>
          /\ tasks[t].status \in Status
          /\ tasks[t].version \in 0..MaxVersion
          /\ KnownRun(t, tasks[t].version)
    <3> SUFFICES ASSUME NEW t \in Tasks, HasPendingWork(tasks[t])
                 PROVE  /\ tasks[t].status \in Status
                        /\ tasks[t].version \in 0..MaxVersion
                        /\ KnownRun(t, tasks[t].version)
      OBVIOUS
    <3>1. GoodRow(tasks[t])
      BY DEF LifecycleInv, ServerInv, NoTask, HasPendingWork
    <3>2. tasks[t].status \in Status
      BY <3>1 DEF GoodRow, Row
    <3> QED  BY <3>2, VersionNat DEF LifecycleInv, KnownRun
  <2>4. NoSnap \in [status : Status \cup {"Absent"}, version : 0..MaxVersion]
    BY ServerAssumption DEF NoSnap
  <2>5. snap' \in [Tasks -> [status : Status \cup {"Absent"}, version : 0..MaxVersion]]
    BY <2>3, <2>4 DEF Poll
  <2>6. \A t \in Tasks : pc'[t] # "idle" => snap'[t].version \in 1..tasks'[t].version
    BY <2>3 DEF Poll, KnownRun
  <2> QED  BY <2>2, <2>5, <2>6 DEF PollInv, KnownRun
<1> QED  BY <1>1, <1>2, <1>3, <1>4 DEF LifecycleInv

(* A step that leaves the runner's own variables alone.                     *)
LEMMA OutsideStep ==
  ASSUME LifecycleInv, Grow, ServerInv', OutInv', WatchInv', SbInv',
         UNCHANGED <<rec, proc, toLoad, loaded, pc, snap, sem, prune>>
  PROVE  LifecycleInv'
<1>1. RecInv' /\ PollInv' /\ CountInv' /\ BootInv'
  BY KeepRec, KeepPoll DEF LifecycleInv, CountInv, BootInv
<1> QED  BY <1>1 DEF LifecycleInv

(* A driver that moves on within its running sandbox.                       *)
LEMMA DriverMoves ==
  ASSUME LifecycleInv, Grow, NEW t \in Tasks, NEW b \in Sandbox,
         sb' = [sb EXCEPT ![t] = b], b.launch = sb[t].launch, Live(t),
         KnownRun(t, b.version), b.at = "report" => b.out \in {"stopped", "failed"}
  PROVE  SbInv'
<1>1. /\ sb' \in [Tasks -> Sandbox] /\ sb'[t] = b
      /\ \A u \in Tasks : u # t => sb'[u] = sb[u]
  BY DEF LifecycleInv, SbInv
<1> QED  BY <1>1, KnownGrows DEF LifecycleInv, SbInv, Live, KnownRun

(* Users, the driver, its failures and the delivery of a report.            *)
LEMMA OutsideInductive ==
  ASSUME LifecycleInv,
         \/ User
         \/ \E t \in Tasks : DriverStep(t) \/ SandboxFault(t)
         \/ \E acked \in BOOLEAN : Deliver(acked)
  PROVE  LifecycleInv'
<1>1. Grow /\ ServerInv'
  BY TableStep DEF Next
<1>2. outbox' = outbox => OutInv'
  BY <1>1, KeepOut DEF LifecycleInv
<1>3. watch' = watch => WatchInv'
  BY <1>1, KeepWatch DEF LifecycleInv
<1>4. sb' = sb => SbInv'
  BY <1>1, KeepSb DEF LifecycleInv
<1>5. CASE User
  BY <1>1, <1>2, <1>3, <1>4, <1>5, OutsideStep DEF User, runnerMem
<1>6. ASSUME NEW acked \in BOOLEAN, Deliver(acked)
      PROVE  LifecycleInv'
  <2>1. OutInv'
    <3>1. outbox \in Seq(OutboxEvent) /\ outbox # <<>>
      BY <1>6 DEF LifecycleInv, OutInv, Deliver
    <3>2. CASE outbox' = Tail(outbox)
      <4>1. outbox' \in Seq(OutboxEvent)
        BY <3>1, <3>2
      <4>2. \A i \in DOMAIN outbox' : i + 1 \in DOMAIN outbox
                                      /\ outbox'[i] = outbox[i + 1]
        BY <3>1, <3>2
      <4>3. \A i \in DOMAIN outbox : outbox[i] \in OutboxEvent
        BY <3>1
      <4>4. \A i \in DOMAIN outbox : outbox[i].task \in Tasks
        BY <4>3 DEF OutboxEvent
      <4>5. \A i \in DOMAIN outbox' :
              outbox'[i].version \in 1..tasks'[outbox'[i].task].version
        BY <1>1, <4>2, <4>4, KnownGrows DEF LifecycleInv, OutInv
      <4> QED  BY <4>1, <4>5 DEF OutInv, KnownRun
    <3> QED  BY <1>2, <1>6, <3>2 DEF Deliver
  <2> QED  BY <1>1, <1>3, <1>4, <1>6, <2>1, OutsideStep DEF Deliver, runnerMem
<1>7. ASSUME NEW t \in Tasks, DriverStep(t) \/ SandboxFault(t)
      PROVE  LifecycleInv'
  <2>1. UNCHANGED <<rec, outbox, proc, toLoad, loaded, pc, snap, sem, prune>>
    BY <1>7
    DEF DriverStep, SandboxFault, DriverGetTask, DriverStarted, DriverRuns,
        DriverReport, DriverLostAck, DriverGivesUp, Vanish, runnerMem
  <2>2. ASSUME Exit(t, "ok") \/ Exit(t, "lost") \/ Remove(t)
        PROVE  SbInv' /\ WatchInv'
    BY <1>1, <2>2, ExitParts DEF LifecycleInv
  <2>3. sb[t] \in Sandbox
    BY DEF LifecycleInv, SbInv
  <2>4. ASSUME At(t, "boot"), ~tasks[t].archived, watch' = watch,
               sb' = [sb EXCEPT ![t].at = "start", ![t].version = tasks[t].version]
        PROVE  SbInv' /\ WatchInv'
    <3> DEFINE b == [sb[t] EXCEPT !.at = "start", !.version = tasks[t].version]
    <3>1. b \in Sandbox /\ b.launch = sb[t].launch /\ b.version = tasks[t].version
          /\ b.at = "start"
      BY <2>3, VersionNat DEF LifecycleInv, Sandbox
    <3>2. sb' = [sb EXCEPT ![t] = b]
      BY <2>4 DEF LifecycleInv, SbInv
    <3>3. tasks[t].version \in 1..tasks[t].version
      <4>1. KnownRun(t, sb[t].launch)
        BY <2>4 DEF LifecycleInv, SbInv, At
      <4> QED  BY <4>1, VersionNat DEF LifecycleInv, KnownRun
    <3>4. KnownRun(t, b.version)
      BY <3>1, <3>3 DEF KnownRun
    <3> HIDE DEF b
    <3>5. SbInv'
      BY <1>1, <2>4, <3>1, <3>2, <3>4, DriverMoves DEF At
    <3> QED  BY <1>3, <2>4, <3>5
  <2>5. ASSUME At(t, "start"), watch' = watch, sb' = [sb EXCEPT ![t].at = "run"]
        PROVE  SbInv' /\ WatchInv'
    <3> DEFINE b == [sb[t] EXCEPT !.at = "run"]
    <3>1. b \in Sandbox /\ b.launch = sb[t].launch /\ b.version = sb[t].version
          /\ b.at = "run"
      BY <2>3 DEF Sandbox
    <3>2. sb' = [sb EXCEPT ![t] = b]
      BY <2>5
    <3>3. KnownRun(t, b.version)
      BY <2>5, <3>1 DEF LifecycleInv, SbInv, At
    <3> HIDE DEF b
    <3>4. SbInv'
      BY <1>1, <2>5, <3>1, <3>2, <3>3, DriverMoves DEF At
    <3> QED  BY <1>3, <2>5, <3>4
  <2>6. ASSUME NEW out \in {"stopped", "failed"}, DriverRuns(t, out)
        PROVE  SbInv' /\ WatchInv'
    <3> DEFINE b == [sb[t] EXCEPT !.at = "report", !.out = out]
    <3>1. b \in Sandbox /\ b.launch = sb[t].launch /\ b.version = sb[t].version
          /\ b.out = out
      BY <2>3 DEF Sandbox
    <3>2. sb' = [sb EXCEPT ![t] = b] /\ At(t, "run") /\ watch' = watch
      BY <2>6 DEF DriverRuns, LifecycleInv, SbInv, runnerMem
    <3>3. KnownRun(t, b.version)
      BY <3>1, <3>2 DEF LifecycleInv, SbInv, At
    <3> HIDE DEF b
    <3>4. SbInv'
      BY <1>1, <3>1, <3>2, <3>3, DriverMoves DEF At
    <3> QED  BY <1>3, <3>2, <3>4
  <2>7. SbInv' /\ WatchInv'
    <3>1. CASE DriverGetTask(t)
      BY <2>2, <2>4, <3>1 DEF DriverGetTask
    <3>2. CASE DriverStarted(t)
      BY <2>2, <2>5, <3>2 DEF DriverStarted
    <3>3. CASE DriverReport(t)
      BY <2>2, <3>3 DEF DriverReport
    <3>4. CASE DriverGivesUp(t) \/ Vanish(t)
      BY <2>2, <3>4 DEF DriverGivesUp, Vanish
    <3>5. CASE DriverLostAck(t)
      BY <1>3, <1>4, <3>5 DEF DriverLostAck, runnerMem
    <3> QED  BY <1>7, <2>6, <3>1, <3>2, <3>3, <3>4, <3>5 DEF DriverStep, SandboxFault
  <2> QED  BY <1>1, <1>2, <2>1, <2>7, OutsideStep
<1> QED  BY <1>5, <1>6, <1>7

(* A supervise goroutine reports the run it was spawned for.                *)
LEMMA SuperviseInductive ==
  ASSUME LifecycleInv, NEW w \in Watchers, Supervise(w)
  PROVE  LifecycleInv'
<1>1. Grow /\ ServerInv'
  BY TableStep DEF Next
<1>2. watch[w] # NoWatch
  BY DEF Supervise, NoWatch
<1>3. watch[w] \in Watch /\ KnownRun(watch[w].task, watch[w].version)
  BY <1>2 DEF LifecycleInv, WatchInv
<1>4. watch[w].task \in Tasks
  BY <1>3 DEF Watch
<1>5. tasks' = tasks
  BY DEF Supervise
<1>6. OutInv'
  <2>1. CASE outbox' = outbox
    BY <1>1, <2>1, KeepOut DEF LifecycleInv
  <2>2. CASE Enqueue(watch[w].task, "failed", watch[w].version)
    BY <1>3, <1>4, <1>5, <2>2, EnqueueOut DEF LifecycleInv
  <2> QED  BY <2>1, <2>2 DEF Supervise
<1>7. WatchInv'
  BY <1>5 DEF LifecycleInv, WatchInv, Supervise, KnownRun
<1>8. RecInv' /\ PollInv' /\ SbInv'
  BY <1>1, KeepRec, KeepPoll, KeepSb DEF LifecycleInv, Supervise
<1>9. CountInv' /\ BootInv'
  BY ReleasedNat DEF LifecycleInv, CountInv, BootInv, Supervise
<1> QED  BY <1>1, <1>6, <1>7, <1>8, <1>9 DEF LifecycleInv

(* The process goes down, comes up and loads.  Load meets only tasks that   *)
(* have a record, so what it reports and supervises names a known run.      *)
LEMMA BootInductive ==
  ASSUME LifecycleInv, Crash \/ Boot \/ LoadDone \/ \E t \in Tasks : LoadRecord(t)
  PROVE  LifecycleInv'
<1>1. Grow /\ ServerInv'
  BY TableStep DEF Next
<1>2. tasks' = tasks
  BY DEF Crash, Boot, LoadDone, LoadRecord
<1>3. /\ rec' = rec => RecInv'
      /\ outbox' = outbox => OutInv'
      /\ watch' = watch => WatchInv'
      /\ sb' = sb => SbInv'
      /\ pc' = pc /\ snap' = snap => PollInv'
  BY <1>1, KeepRec, KeepOut, KeepWatch, KeepSb, KeepPoll DEF LifecycleInv
<1>4. CASE Crash
  BY <1>1, <1>3, <1>4, DownParts DEF Crash, LifecycleInv
<1>5. CASE Boot
  <2>1. BootInv' /\ CountInv'
    BY <1>5 DEF Boot, LifecycleInv, BootInv, CountInv
  <2> QED  BY <1>1, <1>3, <1>5, <2>1 DEF Boot, LifecycleInv
<1>6. CASE LoadDone
  <2>1. BootInv' /\ CountInv'
    BY <1>6 DEF LoadDone, LifecycleInv, BootInv, CountInv
  <2> QED  BY <1>1, <1>3, <1>6, <2>1 DEF LoadDone, LifecycleInv
<1>7. ASSUME NEW t \in Tasks, LoadRecord(t)
      PROVE  LifecycleInv'
  <2>1. rec[t] # NoRecord /\ KnownRun(t, rec[t])
    BY <1>7 DEF LoadRecord, LifecycleInv, BootInv, RecInv
  <2>2. UNCHANGED <<tasks, proc, pc, snap, sem, prune, sb>> /\ toLoad' = toLoad \ {t}
    BY <1>7 DEF LoadRecord
  <2>3. LostReport(t) => OutInv'
    BY <1>2, <1>3, <2>1, EnqueueOut DEF LifecycleInv, LostReport
  <2>4. /\ OutInv' /\ WatchInv' /\ loaded' \in Nat
        /\ rec' = rec \/ rec' = [rec EXCEPT ![t] = NoRecord]
    <3>1. CASE LoadRunning(t)
      BY <1>2, <1>3, <2>1, <3>1, SpawnWatch DEF LifecycleInv, CountInv, LoadRunning
    <3>2. CASE LoadExited(t)
      BY <1>3, <2>3, <3>2 DEF LifecycleInv, CountInv, LoadExited
    <3>3. CASE LoadGone(t)
      BY <1>3, <2>3, <3>3 DEF LifecycleInv, CountInv, LoadGone
    <3>4. CASE LoadSkip(t)
      BY <1>3, <3>4 DEF LifecycleInv, CountInv, LoadSkip
    <3> QED  BY <1>7, <3>1, <3>2, <3>3, <3>4 DEF LoadRecord
  <2>5. RecInv'
    BY <1>2, <1>3, <2>4 DEF LifecycleInv, RecInv, KnownRun
  <2>6. BootInv'
    BY <2>2, <2>4 DEF LifecycleInv, BootInv, RecInv
  <2> QED  BY <1>1, <1>3, <2>2, <2>4, <2>5, <2>6 DEF LifecycleInv, CountInv
<1> QED  BY <1>4, <1>5, <1>6, <1>7

(* Prune forgets records and sandboxes, and works only while nothing loads. *)
LEMMA PruneInductive ==
  ASSUME LifecycleInv, Prune
  PROVE  LifecycleInv'
<1>1. Grow /\ ServerInv'
  BY TableStep DEF Next
<1>2. /\ rec' = rec => RecInv'
      /\ outbox' = outbox => OutInv'
      /\ watch' = watch => WatchInv'
      /\ sb' = sb => SbInv'
      /\ pc' = pc /\ snap' = snap => PollInv'
  BY <1>1, KeepRec, KeepOut, KeepWatch, KeepSb, KeepPoll DEF LifecycleInv
<1>3. /\ UNCHANGED <<tasks, outbox, proc, toLoad, loaded, pc, snap, sem>>
      /\ proc = "up" /\ toLoad = {}
      /\ prune' \in [Tasks -> {"no", "listed", "doomed", "destroyed"}]
  BY DEF Prune, PruneList, PruneCheck, PruneError, PruneDestroy, PruneRemove, Up,
     LifecycleInv, BootInv
<1>4. BootInv' /\ CountInv'
  BY <1>3 DEF LifecycleInv, BootInv, CountInv
<1>5. SbInv' /\ WatchInv'
  <2>1. ASSUME NEW t \in Tasks, Remove(t)
        PROVE  SbInv' /\ WatchInv'
    BY <1>1, <2>1, ExitParts DEF LifecycleInv
  <2> QED  BY <1>2, <2>1 DEF Prune, PruneList, PruneCheck, PruneError,
              PruneDestroy, PruneRemove
<1>6. RecInv'
  <2>1. ASSUME NEW t \in Tasks, rec' = [rec EXCEPT ![t] = NoRecord]
        PROVE  RecInv'
    BY <1>3, <2>1 DEF LifecycleInv, RecInv, KnownRun
  <2> QED  BY <1>2, <2>1 DEF Prune, PruneList, PruneCheck, PruneError,
              PruneDestroy, PruneRemove
<1> QED  BY <1>1, <1>2, <1>3, <1>4, <1>5, <1>6 DEF LifecycleInv

(* LifecycleInv is inductive.                                               *)
LEMMA LifecycleInvInductive ==
  /\ Init => LifecycleInv
  /\ LifecycleInv /\ [Next]_vars => LifecycleInv'
<1>1. ASSUME Init  PROVE LifecycleInv
  <2>1. ServerInv
    BY <1>1, ServerInvInductive DEF Init
  <2>2. RecInv /\ OutInv /\ WatchInv /\ CountInv /\ BootInv
    BY <1>1 DEF Init, RecInv, OutInv, WatchInv, CountInv, BootInv
  <2>3. PollInv
    BY <1>1, ServerAssumption DEF Init, PollInv, PC, NoSnap
  <2>4. SbInv
    BY <1>1, NoSandboxType DEF Init, SbInv, Live
  <2> QED  BY <2>1, <2>2, <2>3, <2>4 DEF LifecycleInv
<1>2. ASSUME LifecycleInv, [Next]_vars  PROVE LifecycleInv'
  <2>1. CASE UNCHANGED vars
    <3>1. Grow /\ ServerInv'
      BY <1>2, TableStep
    <3> QED  BY <1>2, <2>1, <3>1, KeepRec, KeepOut, KeepPoll, KeepWatch, KeepSb
             DEF vars, LifecycleInv, CountInv, BootInv
  <2> QED
    BY <1>2, <2>1, PollInductive, PollListInductive, OutsideInductive,
       SuperviseInductive, BootInductive, PruneInductive
    DEF Next
<1> QED  BY <1>1, <1>2

-----------------------------------------------------------------------------
(* Every variable of the system always holds a value of its type.           *)
THEOREM TypeCorrect == Spec => []TypeOK
<1>1. LifecycleInv => TypeOK
  BY DEF LifecycleInv, ServerInv, RecInv, OutInv, PollInv, WatchInv, SbInv,
     CountInv, BootInv, TypeOK
<1> QED  BY <1>1, LifecycleInvInductive, PTL DEF Spec

(* Nothing in flight, after any crash, loss or repetition, names a run the  *)
(* row has not had: a bump of the counter disowns all that was launched     *)
(* before it.                                                               *)
THEOREM NothingIsAhead == Spec => []NothingAhead
<1>1. LifecycleInv => NothingAhead
  BY DEF LifecycleInv, RecInv, OutInv, PollInv, WatchInv, SbInv, NothingAhead
<1> QED  BY <1>1, LifecycleInvInductive, PTL DEF Spec

(* The runner, its sandboxes and their drivers implement the abstract       *)
(* reporter of TaskServer: SubmitRunnerEvents never sees a report its own   *)
(* guarantees do not allow for.                                             *)
THEOREM LifecycleRefinesServer == Spec => RefinesServer
<1>1. Init => ServerInit
  BY DEF Init
<1>2. LifecycleInv /\ [Next]_vars => [ServerNext]_tasks
  BY StepRefines
<1> QED  BY <1>1, <1>2, LifecycleInvInductive, PTL DEF Spec, RefinesServer

(* What is proved of TaskServer therefore holds of the whole system: the    *)
(* command fits the status, archived tasks rest, and no late report of any  *)
(* runner or driver brings back a run that is over.                         *)
THEOREM SystemGuarantees ==
  Spec => /\ []CommandFitsStatus
          /\ []ArchivedAtRest
          /\ RunNeverResurrected
BY LifecycleRefinesServer, CommandAlwaysFits, ArchivedStaysAtRest,
   RunNeverResurrectedTheorem DEF RefinesServer, ServerSpec
=============================================================================
