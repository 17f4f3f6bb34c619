---------------------------- MODULE TaskRunProofs ----------------------------
(***************************************************************************)
(* Proofs about the runs behind the task rows (TaskLifecycle): the driver  *)
(* that works is the one the row says, a run that was lost is reported, a  *)
(* restart is answered, and the semaphore's slots add up.  For any number  *)
(* of tasks, watchers, slots, versions and messages; the theorems say      *)
(* which of the model's faults they exclude.                               *)
(***************************************************************************)
EXTENDS TaskLifecycleProofs, FiniteSetTheorems

-----------------------------------------------------------------------------
(* The runs behind the rows.                                                *)

Started(t) == Live(t) /\ sb[t].at \in {"start", "run", "report"}

(* A driver that has read its version serves the row that runs; its version *)
(* is not older than the launch that started it.                            *)
DriverMatches(t) ==
  Started(t) => /\ tasks[t].status = "Running" => sb[t].version = tasks[t].version
                /\ sb[t].launch <= sb[t].version

(* A driver past its "started" report has answered the restart it serves.   *)
RestartAnswered(t) ==
  /\ Live(t)
  /\ sb[t].at \in {"run", "report"}
  /\ sb[t].version = tasks[t].version
  => tasks[t].command # "Restart"

(* An exit 0 is the exit of a run the server knows to be over.              *)
OkExit(t) ==
  sb[t].exit = "ok" => ~Live(t) /\ tasks[t].status # "Running"

RunInv == \A t \in Tasks : DriverMatches(t) /\ RestartAnswered(t) /\ OkExit(t)

-----------------------------------------------------------------------------
(* What a step does to the rows.                                            *)

(* No handler of a user makes a row run: that takes a driver's report.      *)
LEMMA UserNeverRuns ==
  ASSUME ServerInv, UserStep, NEW u \in Tasks, tasks'[u].status = "Running"
  PROVE  tasks[u].status = "Running"
<1>1. ASSUME NEW t \in Tasks, NEW r, SetRow(t, r),
             r.status = "Running" => tasks[t].status = "Running"
      PROVE  tasks[u].status = "Running"
  BY <1>1 DEF SetRow, ServerInv, ServerTypeOK
<1>2. ASSUME NEW r, GoodRow(r), Start(r).status = "Running"
      PROVE  r.status = "Running"
  BY <1>2 DEF Start, GoodRow, Row
<1>3. ASSUME NEW t \in Tasks, NEW draft \in BOOLEAN,
             NEW aa \in AutoArchives \cup {0}, CreateTask(t, draft, aa)
      PROVE  tasks[u].status = "Running"
  BY <1>1, <1>3 DEF CreateTask, NewTask
<1>4. ASSUME NEW t \in Tasks, NEW start \in BOOLEAN,
             NEW aa \in AutoArchives \cup {0, tasks[t].autoArchive},
             UpdateTask(t, start, aa)
      PROVE  tasks[u].status = "Running"
  <2> DEFINE r == IF start THEN Start(tasks[t]) ELSE tasks[t]
  <2>1. GoodRow(tasks[t]) /\ GoodRow(r)
    BY <1>4, ExistsGood, StartGood DEF UpdateTask, MayBump
  <2>2. r.status = "Running" => tasks[t].status = "Running"
    BY <2>1, <1>2
  <2>3. SetRow(t, [r EXCEPT !.autoArchive = aa])
    BY <1>4 DEF UpdateTask
  <2> HIDE DEF r
  <2>4. [r EXCEPT !.autoArchive = aa].status = r.status
    BY <2>1 DEF GoodRow, Row
  <2> QED  BY <1>1, <2>2, <2>3, <2>4
<1>5. ASSUME NEW t \in Tasks,
             ArchiveTask(t) \/ UnarchiveTask(t) \/ CancelTask(t) \/ RestartTask(t)
      PROVE  tasks[u].status = "Running"
  <2>1. GoodRow(tasks[t])
    BY <1>5, ExistsGood DEF ArchiveTask, UnarchiveTask, CancelTask, RestartTask
  <2>2. /\ Archive(tasks[t]).status = tasks[t].status
        /\ Unarchive(tasks[t]).status = tasks[t].status
    BY <2>1 DEF Archive, Unarchive, GoodRow, Row
  <2>3. Cancel(tasks[t]).status = "Running" => tasks[t].status = "Running"
    BY <2>1 DEF Cancel, GoodRow, Row
  <2>4. Restart(tasks[t]).status = "Running" => tasks[t].status = "Running"
    BY <2>1 DEF Restart, GoodRow, Row
  <2> QED  BY <1>1, <1>5, <2>2, <2>3, <2>4
           DEF ArchiveTask, UnarchiveTask, CancelTask, RestartTask
<1>6. ASSUME NEW t \in Tasks, NEW s \in Sessions, OpenShell(t, s)
      PROVE  tasks[u].status = "Running"
  <2> DEFINE r == Start(tasks[t])
  <2>1. GoodRow(tasks[t]) /\ GoodRow(r)
    BY <1>6, ExistsGood, StartGood DEF OpenShell, MayBump
  <2>2. r.status = "Running" => tasks[t].status = "Running"
    BY <2>1, <1>2
  <2>3. SetRow(t, [r EXCEPT !.shellSession = s])
    BY <1>6 DEF OpenShell
  <2> HIDE DEF r
  <2>4. [r EXCEPT !.shellSession = s].status = r.status
    BY <2>1 DEF GoodRow, Row
  <2> QED  BY <1>1, <2>2, <2>3, <2>4
<1>7. ASSUME NEW s \in Sessions, ClearShellSession(s)
      PROVE  tasks[u].status = "Running"
  <2>1. CASE tasks[u].shellSession = s
    <3>1. tasks'[u] = [tasks[u] EXCEPT !.shellSession = NoSession]
      BY <1>7, <2>1 DEF ClearShellSession
    <3>2. GoodRow(tasks[u])
      BY <2>1, ServerAssumption DEF ServerInv, NoTask
    <3> QED  BY <3>1, <3>2 DEF GoodRow, Row
  <2>2. CASE tasks[u].shellSession # s
    BY <1>7, <2>2 DEF ClearShellSession
  <2> QED  BY <2>1, <2>2
<1> QED  BY <1>3, <1>4, <1>5, <1>6, <1>7 DEF UserStep

(* What a terminal report of a known run leaves: a row that did not run     *)
(* does not run now, and a row that ran this run no longer does.  A failure *)
(* settles a restart as well.                                               *)
LEMMA TerminalReport ==
  ASSUME ServerInv, NEW t \in Tasks, NEW kind \in {"stopped", "failed"}, NEW v,
         v # 0, SubmitRunnerEvent(t, Event(kind, v))
  PROVE  /\ \A u \in Tasks : tasks'[u].status = "Running" =>
              tasks[u].status = "Running" /\ (u = t => tasks[u].version # v)
         /\ kind = "failed" /\ tasks[t].version = v => tasks'[t].command # "Restart"
<1> DEFINE r == tasks[t]
           e == Event(kind, v)
<1>1. /\ GoodRow(r)
      /\ \A u \in Tasks : tasks'[u] = IF u = t THEN ApplyRunnerEvent(r, e) ELSE tasks[u]
  BY ExistsGood DEF SubmitRunnerEvent, SetRow, ServerInv, ServerTypeOK
<1>2. e.event = kind /\ e.version = v /\ e.reconcile = FALSE
  BY DEF Event
<1> HIDE DEF r, e
<1>3. CASE ~EventApplies(r, e)
  <2>1. ApplyRunnerEvent(r, e) = r
    BY <1>3 DEF ApplyRunnerEvent
  <2>2. r.version = v => r.status # "Running" /\ (kind = "failed" => r.command # "Restart")
    BY <1>1, <1>2, <1>3
    DEF EventApplies, VersionMatches, StoppedApplies, FailedApplies, GoodRow, Commands
  <2> QED  BY <1>1, <2>1, <2>2 DEF r
<1>4. CASE EventApplies(r, e) /\ kind = "failed"
  <2>1. ApplyRunnerEvent(r, e) = FailedRow(r)
    BY <1>2, <1>4 DEF ApplyRunnerEvent
  <2>2. FailedRow(r).status = "Failed" /\ FailedRow(r).command = "None"
    BY <1>1 DEF FailedRow, GoodRow, Row
  <2>3. r.status = "Running" => r.version = v
    BY <1>2, <1>4 DEF EventApplies, VersionMatches
  <2> QED  BY <1>1, <2>1, <2>2, <2>3
<1>5. CASE EventApplies(r, e) /\ kind = "stopped"
  <2>1. ApplyRunnerEvent(r, e) = StoppedRow(r)
    BY <1>2, <1>5 DEF ApplyRunnerEvent
  <2>2. StoppedRow(r).status \in {"Cancelled", "Pending", "Completed"}
    BY <1>1 DEF StoppedRow, GoodRow, Row
  <2> QED  BY <1>1, <1>5, <2>1, <2>2
<1> QED  BY <1>3, <1>4, <1>5

(* A "started" report of a known run makes a row run only when it names the *)
(* row's run, and it answers the restart it names.                          *)
LEMMA StartedReport ==
  ASSUME ServerInv, NEW t \in Tasks, NEW v, v # 0,
         SubmitRunnerEvent(t, Event("started", v))
  PROVE  /\ \A u \in Tasks : tasks'[u].status = "Running" =>
              tasks[u].status = "Running" \/ (u = t /\ tasks[u].version = v)
         /\ tasks[t].version = v => tasks'[t].command # "Restart"
         /\ \A u \in Tasks : u # t => tasks'[u] = tasks[u]
         /\ tasks'[t].version = tasks[t].version
<1> DEFINE r == tasks[t]
           e == Event("started", v)
<1>1. /\ GoodRow(r)
      /\ \A u \in Tasks : tasks'[u] = IF u = t THEN ApplyRunnerEvent(r, e) ELSE tasks[u]
  BY ExistsGood DEF SubmitRunnerEvent, SetRow, ServerInv, ServerTypeOK
<1>2. e.event = "started" /\ e.version = v /\ e.reconcile = FALSE
  BY DEF Event
<1> HIDE DEF r, e
<1>3. CASE ~EventApplies(r, e)
  <2>1. ApplyRunnerEvent(r, e) = r
    BY <1>3 DEF ApplyRunnerEvent
  <2>2. r.version = v => r.command # "Restart"
    BY <1>1, <1>2, <1>3
    DEF EventApplies, VersionMatches, StartedApplies, GoodRow, Commands
  <2> QED  BY <1>1, <2>1, <2>2 DEF r
<1>4. CASE EventApplies(r, e)
  <2>1. ApplyRunnerEvent(r, e) = StartedRow(r) /\ r.version = v
    BY <1>2, <1>4 DEF ApplyRunnerEvent, EventApplies, VersionMatches
  <2>2. StartedRow(r).command # "Restart" /\ StartedRow(r).version = r.version
    BY <1>1 DEF StartedRow, GoodRow, Row
  <2> QED  BY <1>1, <2>1, <2>2 DEF r
<1> QED  BY <1>3, <1>4

(* Only users, drivers and deliveries write rows.                           *)
LEMMA RunnerLeavesRows ==
  ASSUME [Next]_vars, ~\E t \in Tasks : DriverStep(t) \/ SandboxFault(t)
  PROVE  UNCHANGED tasks \/ User \/ \E acked \in BOOLEAN : Deliver(acked)
<1>1. ASSUME NEW t \in Tasks, PollStep(t)
      PROVE  UNCHANGED tasks
  BY <1>1
  DEF PollStep, StopIdle, SendTerm, SignalReturns, RestartSkip, RestartIdle,
      StartCheck, TryAcquire, StartAlreadyRunning, StartGone, StartConflict,
      StartFailed, Launch, RecordLaunch
<1>2. ASSUME NEW t \in Tasks, PollFault(t)
      PROVE  UNCHANGED tasks
  BY <1>2
  DEF PollFault, KillTimeout, KillError, CheckError, StartError, StartFailed,
      RecordError
<1>3. ASSUME \/ Poll \/ Crash \/ Boot \/ LoadDone \/ Prune \/ UNCHANGED vars
             \/ \E t \in Tasks : LoadRecord(t)
             \/ \E w \in Watchers : Supervise(w)
      PROVE  UNCHANGED tasks
  BY <1>3 DEF Poll, Crash, Boot, LoadDone, Prune, PruneList, PruneCheck,
     PruneError, PruneDestroy, PruneRemove, LoadRecord, Supervise, vars
<1> QED  BY <1>1, <1>2, <1>3 DEF Next

(* The report at the head of the outbox is a terminal one, of a known run.  *)
LEMMA HeadKnown ==
  ASSUME LifecycleInv, outbox # <<>>
  PROVE  /\ Head(outbox).task \in Tasks
         /\ Head(outbox).event \in {"stopped", "failed"}
         /\ Head(outbox).version # 0
<1>1. outbox \in Seq(OutboxEvent)
  BY DEF LifecycleInv, OutInv
<1>2. 1 \in DOMAIN outbox /\ Head(outbox) = outbox[1] /\ outbox[1] \in OutboxEvent
  BY <1>1
<1>3. /\ Head(outbox).task \in Tasks /\ Head(outbox).event \in {"stopped", "failed"}
      /\ KnownRun(Head(outbox).task, Head(outbox).version)
  BY <1>2 DEF OutboxEvent, LifecycleInv, OutInv
<1> QED  BY <1>3, KnownInRange DEF LifecycleInv

(* Every row makes a RowStep, whatever the system does.                     *)
LEMMA SystemRowStep ==
  ASSUME LifecycleInv, [Next]_vars, NEW u \in Tasks
  PROVE  RowStep(tasks[u], tasks'[u])
<1>1. CASE UNCHANGED tasks
  BY <1>1, StayStep DEF SameRun
<1>2. CASE ServerNext
  BY <1>2, ServerRowStep DEF LifecycleInv
<1> QED  BY <1>1, <1>2, StepRefines

-----------------------------------------------------------------------------
(* What a step does to a sandbox.                                           *)

(* Nothing but the delivery of a SIGTERM.                                   *)
SameSandbox(u) ==
  /\ sb'[u].st = sb[u].st
  /\ sb'[u].at = sb[u].at
  /\ sb'[u].version = sb[u].version
  /\ sb'[u].launch = sb[u].launch
  /\ sb'[u].exit = sb[u].exit

(* Its end, without an exit code 0.                                         *)
Dies(u) ==
  /\ Exit(u, "lost") \/ Remove(u)
  /\ UNCHANGED <<tasks, rec, outbox, proc, toLoad, loaded, sem>>
  /\ \A v \in Tasks : \/ pc'[v] = pc[v] /\ snap'[v] = snap[v]
                      \/ /\ pc[v] \in {"stopping", "restarting"}
                         /\ pc'[v] \in {"idle", "acquire"}

(* A container whose start failed.                                          *)
LeftBehind(u) ==
  /\ StartError(u)
  /\ rec[u] = NoRecord
  /\ sb' = [sb EXCEPT ![u].st = "created"]
  /\ sb[u].st = "none"

(* A driver's step that does not end it, and the one that ends it well.     *)
Reads(u) ==
  /\ At(u, "boot")
  /\ sb' = [sb EXCEPT ![u].at = "start", ![u].version = tasks[u].version]
  /\ UNCHANGED <<tasks, rec, outbox, runnerMem>>

Starts(u) ==
  /\ At(u, "start")
  /\ ~tasks[u].archived
  /\ SubmitRunnerEvent(u, Event("started", sb[u].version))
  /\ sb' = [sb EXCEPT ![u].at = "run"]
  /\ UNCHANGED <<rec, outbox, runnerMem>>

Completes(u) ==
  /\ At(u, "report")
  /\ ~tasks[u].archived
  /\ SubmitRunnerEvent(u, Event(sb[u].out, sb[u].version))
  /\ Exit(u, "ok")
  /\ UNCHANGED <<rec, outbox, proc, toLoad, loaded, pc, snap, sem, prune>>

(* A driver's step moves it on, or ends it.                                 *)
LEMMA DriverShape ==
  ASSUME NEW t \in Tasks, DriverStep(t) \/ SandboxFault(t)
  PROVE  \/ Reads(t) \/ Starts(t) \/ Completes(t) \/ Dies(t)
         \/ \E out \in {"stopped", "failed"} : DriverRuns(t, out)
         \/ DriverLostAck(t)
<1>1. CASE DriverGetTask(t)
  BY <1>1 DEF DriverGetTask, Dies, Reads, runnerMem
<1>2. CASE DriverStarted(t)
  BY <1>2 DEF DriverStarted, Dies, Starts, runnerMem
<1>3. CASE DriverReport(t)
  BY <1>3 DEF DriverReport, Dies, Completes
<1>4. CASE DriverGivesUp(t) \/ Vanish(t)
  BY <1>4 DEF DriverGivesUp, Vanish, Dies
<1> QED  BY <1>1, <1>2, <1>3, <1>4 DEF DriverStep, SandboxFault

(* So does every step of anyone else.                                       *)
LEMMA SandboxShape ==
  ASSUME LifecycleInv, [Next]_vars
  PROVE  \/ \A u \in Tasks : SameSandbox(u)
         \/ \E t \in Tasks : \/ Dies(t) \/ Launch(t) \/ LeftBehind(t)
                             \/ DriverStep(t) \/ SandboxFault(t)
<1>1. sb' = sb => \A u \in Tasks : SameSandbox(u)
  BY DEF SameSandbox
<1>2. ASSUME NEW t \in Tasks, SendTerm(t)
      PROVE  \A u \in Tasks : SameSandbox(u)
  BY <1>2 DEF SendTerm, SameSandbox, LifecycleInv, SbInv, Sandbox
<1>3. ASSUME NEW t \in Tasks, StartError(t)
      PROVE  sb' = sb \/ LeftBehind(t)
  BY <1>3 DEF StartError, LeftBehind
<1>4. ASSUME NEW t \in Tasks, KillTimeout(t)
      PROVE  Dies(t)
  <2>1. \A v \in Tasks : \/ pc'[v] = pc[v] /\ snap'[v] = snap[v]
                         \/ /\ pc[v] \in {"stopping", "restarting"}
                            /\ pc'[v] \in {"idle", "acquire"}
    BY <1>4 DEF KillTimeout, Goto, AfterKill, LifecycleInv, PollInv
  <2> QED  BY <1>4, <2>1 DEF KillTimeout, Dies
<1>5. ASSUME NEW t \in Tasks, PruneDestroy(t)
      PROVE  sb' = sb \/ Dies(t)
  BY <1>5 DEF PruneDestroy, Dies
<1>6. ASSUME NEW t \in Tasks, PollStep(t)
      PROVE  sb' = sb \/ SendTerm(t) \/ Launch(t)
  BY <1>6
  DEF PollStep, StopIdle, SignalReturns, RestartSkip, RestartIdle,
      StartCheck, TryAcquire, StartAlreadyRunning, StartGone, StartConflict,
      StartFailed, RecordLaunch
<1>7. ASSUME NEW t \in Tasks, PollFault(t)
      PROVE  sb' = sb \/ KillTimeout(t) \/ StartError(t)
  BY <1>7 DEF PollFault, KillError, CheckError, RecordError
<1>8. ASSUME Prune
      PROVE  sb' = sb \/ \E t \in Tasks : PruneDestroy(t)
  BY <1>8 DEF Prune, PruneList, PruneCheck, PruneError, PruneRemove
<1>9. ASSUME \/ User \/ Poll \/ Crash \/ Boot \/ LoadDone
             \/ \E t \in Tasks : LoadRecord(t)
             \/ \E w \in Watchers : Supervise(w)
             \/ \E acked \in BOOLEAN : Deliver(acked)
             \/ UNCHANGED vars
      PROVE  sb' = sb
  BY <1>9 DEF User, Poll, Crash, Boot, LoadDone, LoadRecord, Supervise, Deliver, vars
<1> QED
  BY <1>1, <1>2, <1>3, <1>4, <1>5, <1>6, <1>7, <1>8, <1>9 DEF Next

(* What each of these leaves in the sandbox of t.                           *)
LEMMA SandboxAfter ==
  ASSUME LifecycleInv, NEW t \in Tasks
  PROVE  /\ Dies(t) => /\ sb'[t].st \in {"none", "exited"} /\ sb'[t].at = "off"
                       /\ sb'[t].exit = "lost"
         /\ Launch(t) => /\ sb'[t].st = "running" /\ sb'[t].at = "boot"
                         /\ sb'[t].exit = "lost" /\ sb'[t].launch = snap[t].version
         /\ LeftBehind(t) => /\ sb'[t].st = "created" /\ sb'[t].at = sb[t].at
                             /\ sb'[t].exit = sb[t].exit
         /\ Reads(t) => /\ sb'[t].st = "running" /\ sb'[t].at = "start"
                        /\ sb'[t].version = tasks[t].version
                        /\ sb'[t].launch = sb[t].launch /\ sb'[t].exit = sb[t].exit
         /\ Starts(t) => /\ sb'[t].st = "running" /\ sb'[t].at = "run"
                         /\ sb'[t].version = sb[t].version
                         /\ sb'[t].launch = sb[t].launch /\ sb'[t].exit = sb[t].exit
         /\ Completes(t) => sb'[t].st = "exited" /\ sb'[t].at = "off"
         /\ \A out \in {"stopped", "failed"} : DriverRuns(t, out) =>
              /\ sb'[t].st = "running" /\ sb'[t].at = "report"
              /\ sb'[t].version = sb[t].version
              /\ sb'[t].launch = sb[t].launch /\ sb'[t].exit = sb[t].exit
         /\ \A u \in Tasks :
              /\ u # t
              /\ \/ Dies(t) \/ Launch(t) \/ LeftBehind(t) \/ Reads(t) \/ Starts(t)
                 \/ Completes(t) \/ \E out \in {"stopped", "failed"} : DriverRuns(t, out)
              => sb'[u] = sb[u]
<1>1. sb \in [Tasks -> Sandbox] /\ sb[t] \in Sandbox
  BY DEF LifecycleInv, SbInv
<1>2. NoSandbox \in Sandbox
  BY NoSandboxType
<1> USE <1>1 DEF Sandbox, At, Live
<1>3. Dies(t) => /\ sb'[t].st \in {"none", "exited"} /\ sb'[t].at = "off"
                 /\ sb'[t].exit = "lost"
  <2>1. Exit(t, "lost") => sb'[t].st = "exited" /\ sb'[t].at = "off" /\ sb'[t].exit = "lost"
    BY DEF Exit, NoSandbox
  <2>2. Remove(t) => sb'[t].st = "none" /\ sb'[t].at = "off" /\ sb'[t].exit = "lost"
    BY DEF Remove, NoSandbox
  <2> QED  BY <2>1, <2>2 DEF Dies
<1>4. Launch(t) => /\ sb'[t].st = "running" /\ sb'[t].at = "boot"
                   /\ sb'[t].exit = "lost" /\ sb'[t].launch = snap[t].version
  BY DEF Launch, NoSandbox
<1>5. LeftBehind(t) => /\ sb'[t].st = "created" /\ sb'[t].at = sb[t].at
                       /\ sb'[t].exit = sb[t].exit
  BY DEF LeftBehind
<1>6. Reads(t) => /\ sb'[t].st = "running" /\ sb'[t].at = "start"
                  /\ sb'[t].version = tasks[t].version
                  /\ sb'[t].launch = sb[t].launch /\ sb'[t].exit = sb[t].exit
  BY DEF Reads
<1>7. Starts(t) => /\ sb'[t].st = "running" /\ sb'[t].at = "run"
                   /\ sb'[t].version = sb[t].version
                   /\ sb'[t].launch = sb[t].launch /\ sb'[t].exit = sb[t].exit
  BY DEF Starts
<1>8. Completes(t) => sb'[t].st = "exited" /\ sb'[t].at = "off"
  BY DEF Completes, Exit, NoSandbox
<1>9. \A out \in {"stopped", "failed"} : DriverRuns(t, out) =>
              /\ sb'[t].st = "running" /\ sb'[t].at = "report"
              /\ sb'[t].version = sb[t].version
              /\ sb'[t].launch = sb[t].launch /\ sb'[t].exit = sb[t].exit
  BY DEF DriverRuns
<1>10. ASSUME NEW u \in Tasks, u # t, NEW b, sb' = [sb EXCEPT ![t] = b]
       PROVE  sb'[u] = sb[u]
  BY <1>10
<1>11. \/ Dies(t) \/ Launch(t) \/ LeftBehind(t) \/ Reads(t) \/ Starts(t)
       \/ Completes(t) \/ \E out \in {"stopped", "failed"} : DriverRuns(t, out)
       => \E b : sb' = [sb EXCEPT ![t] = b]
  <2>1. Dies(t) \/ Launch(t) \/ Completes(t) => \E b : sb' = [sb EXCEPT ![t] = b]
    BY DEF Dies, Launch, Completes, Exit, Remove
  <2>2. LeftBehind(t) => \E b : sb' = [sb EXCEPT ![t] = b]
    BY DEF LeftBehind
  <2>3. Reads(t) => \E b : sb' = [sb EXCEPT ![t] = b]
    BY DEF Reads
  <2>4. Starts(t) => \E b : sb' = [sb EXCEPT ![t] = b]
    BY DEF Starts
  <2>5. ASSUME NEW out \in {"stopped", "failed"}, DriverRuns(t, out)
        PROVE  \E b : sb' = [sb EXCEPT ![t] = b]
    <3>1. sb' = [sb EXCEPT ![t] = [sb[t] EXCEPT !.at = "report", !.out = out]]
      BY <2>5 DEF DriverRuns
    <3> QED  BY <3>1
  <2> QED  BY <2>1, <2>2, <2>3, <2>4, <2>5
<1> QED  BY <1>3, <1>4, <1>5, <1>6, <1>7, <1>8, <1>9, <1>10, <1>11

-----------------------------------------------------------------------------
(* RunInv is inductive.                                                     *)

RunOK(u) == DriverMatches(u) /\ RestartAnswered(u) /\ OkExit(u)

(* A sandbox left alone stays in step with its row, unless a report makes   *)
(* the row run.                                                             *)
LEMMA SameRunOK ==
  ASSUME LifecycleInv, [Next]_vars, NEW u \in Tasks, RunOK(u), SameSandbox(u),
         tasks'[u].status = "Running" => tasks[u].status = "Running"
  PROVE  RunOK(u)'
<1>1. RowStep(tasks[u], tasks'[u])
  BY SystemRowStep
<1>2. sb[u].at \in {"start", "run", "report"} => KnownRun(u, sb[u].version)
  BY DEF LifecycleInv, SbInv
<1>3. tasks[u].version \in Nat /\ tasks'[u].version \in Nat
      /\ tasks[u].version <= tasks'[u].version
  BY TableStep, VersionNat DEF LifecycleInv, Grow
<1>4. DriverMatches(u)'
  BY <1>1 DEF RunOK, DriverMatches, SameSandbox, Started, Live, RowStep
<1>5. RestartAnswered(u)'
  BY <1>1, <1>2, <1>3
  DEF RunOK, RestartAnswered, SameSandbox, Live, RowStep, KnownRun
<1>6. OkExit(u)'
  BY DEF RunOK, OkExit, SameSandbox, Live
<1> QED  BY <1>4, <1>5, <1>6 DEF RunOK

(* A sandbox without a driver under way owes nothing.                       *)
LEMMA FreshRunOK ==
  ASSUME NEW u \in Tasks, sb'[u].at \in {"off", "boot"}, sb'[u].exit = "lost"
  PROVE  RunOK(u)'
BY DEF RunOK, DriverMatches, RestartAnswered, OkExit, Started, Live

(* RunInv is inductive, given LifecycleInv.                                 *)
LEMMA RunInvInductive ==
  /\ Init => RunInv
  /\ LifecycleInv /\ RunInv /\ [Next]_vars => RunInv'
<1>1. Init => RunInv
  <2>1. NoSandbox.at = "off" /\ NoSandbox.exit = "lost" /\ NoSandbox.st = "none"
    BY DEF NoSandbox
  <2> QED  BY <2>1 DEF Init, RunInv, DriverMatches, RestartAnswered, OkExit, Started, Live
<1>2. ASSUME LifecycleInv, RunInv, [Next]_vars, NEW u \in Tasks
      PROVE  RunOK(u)'
  <2>1. RunOK(u)
    BY <1>2 DEF RunInv, RunOK
  <2>2. tasks' = tasks /\ SameSandbox(u) => RunOK(u)'
    BY <1>2, <2>1, SameRunOK
  <2>3. sb'[u] = sb[u] => SameSandbox(u)
    BY DEF SameSandbox
  <2>4. ASSUME NEW t \in Tasks, Dies(t) \/ Launch(t) \/ LeftBehind(t)
        PROVE  RunOK(u)'
    <3>1. tasks' = tasks
      BY <2>4 DEF Dies, Launch, LeftBehind, StartError, StartFailed
    <3>2. CASE u # t
      BY <1>2, <2>2, <2>3, <2>4, <3>1, <3>2, SandboxAfter
    <3>3. CASE u = t /\ (Dies(t) \/ Launch(t))
      BY <1>2, <3>3, SandboxAfter, FreshRunOK
    <3>4. CASE u = t /\ LeftBehind(t)
      <4>1. sb'[u].st = "created" /\ sb'[u].exit = sb[u].exit
        BY <1>2, <3>4, SandboxAfter
      <4> QED  BY <2>1, <3>1, <4>1
               DEF RunOK, DriverMatches, RestartAnswered, OkExit, Started, Live
    <3> QED  BY <2>4, <3>2, <3>3, <3>4
  <2>5. ASSUME NEW t \in Tasks, Reads(t)
        PROVE  RunOK(u)'
    <3>1. tasks' = tasks
      BY <2>5 DEF Reads
    <3>2. CASE u # t
      BY <1>2, <2>2, <2>3, <2>5, <3>1, <3>2, SandboxAfter
    <3>3. CASE u = t
      <4>1. /\ sb'[u].st = "running" /\ sb'[u].at = "start"
            /\ sb'[u].version = tasks[u].version
            /\ sb'[u].launch = sb[u].launch /\ sb'[u].exit = sb[u].exit
        BY <1>2, <2>5, <3>3, SandboxAfter
      <4>2. Live(u) /\ KnownRun(u, sb[u].launch)
        BY <1>2, <2>5, <3>3 DEF Reads, At, LifecycleInv, SbInv
      <4>3. sb[u].launch <= tasks[u].version
        BY <1>2, <4>2, VersionNat DEF LifecycleInv, KnownRun
      <4> QED  BY <2>1, <3>1, <4>1, <4>2, <4>3
               DEF RunOK, DriverMatches, RestartAnswered, OkExit, Started, Live
    <3> QED  BY <3>2, <3>3
  <2>6. ASSUME NEW t \in Tasks, NEW out \in {"stopped", "failed"}, DriverRuns(t, out)
        PROVE  RunOK(u)'
    <3>1. tasks' = tasks
      BY <2>6 DEF DriverRuns
    <3>2. CASE u # t
      BY <1>2, <2>2, <2>3, <2>6, <3>1, <3>2, SandboxAfter
    <3>3. CASE u = t
      <4>1. /\ sb'[u].st = "running" /\ sb'[u].at = "report"
            /\ sb'[u].version = sb[u].version
            /\ sb'[u].launch = sb[u].launch /\ sb'[u].exit = sb[u].exit
        BY <1>2, <2>6, <3>3, SandboxAfter
      <4>2. Live(u) /\ sb[u].at = "run"
        BY <2>6, <3>3 DEF DriverRuns, At
      <4> QED  BY <2>1, <3>1, <4>1, <4>2
               DEF RunOK, DriverMatches, RestartAnswered, OkExit, Started, Live
    <3> QED  BY <3>2, <3>3
  <2>7. ASSUME NEW t \in Tasks, At(t, "start"),
               SubmitRunnerEvent(t, Event("started", sb[t].version))
        PROVE  /\ \A x \in Tasks : tasks'[x].status = "Running" =>
                    tasks[x].status = "Running" \/ (x = t /\ tasks[x].version = sb[t].version)
               /\ tasks[t].version = sb[t].version => tasks'[t].command # "Restart"
               /\ tasks'[t].version = tasks[t].version
    <3>1. KnownRun(t, sb[t].version)
      BY <1>2, <2>7 DEF LifecycleInv, SbInv, At
    <3>2. sb[t].version # 0
      BY <1>2, <3>1, KnownInRange DEF LifecycleInv
    <3> QED  BY <1>2, <2>7, <3>2, StartedReport DEF LifecycleInv
  <2>8. ASSUME NEW t \in Tasks, Starts(t)
        PROVE  RunOK(u)'
    <3>1. /\ \A x \in Tasks : tasks'[x].status = "Running" =>
               tasks[x].status = "Running" \/ (x = t /\ tasks[x].version = sb[t].version)
          /\ tasks[t].version = sb[t].version => tasks'[t].command # "Restart"
          /\ tasks'[t].version = tasks[t].version
      BY <2>7, <2>8 DEF Starts
    <3>2. CASE u # t
      BY <1>2, <2>1, <2>3, <2>8, <3>1, <3>2, SandboxAfter, SameRunOK
    <3>3. CASE u = t
      <4>1. /\ sb'[u].st = "running" /\ sb'[u].at = "run"
            /\ sb'[u].version = sb[u].version
            /\ sb'[u].launch = sb[u].launch /\ sb'[u].exit = sb[u].exit
        BY <1>2, <2>8, <3>3, SandboxAfter
      <4>2. Live(u) /\ sb[u].at = "start"
        BY <2>8, <3>3 DEF Starts, At
      <4> QED  BY <2>1, <3>1, <3>3, <4>1, <4>2
               DEF RunOK, DriverMatches, RestartAnswered, OkExit, Started, Live
    <3> QED  BY <3>2, <3>3
  <2>9. ASSUME NEW t \in Tasks, DriverLostAck(t)
        PROVE  RunOK(u)'
    <3>1. SameSandbox(u)
      BY <2>9 DEF DriverLostAck, SameSandbox
    <3>2. CASE At(t, "start") /\ SubmitRunnerEvent(t, Event("started", sb[t].version))
      <4>1. /\ tasks'[u].status = "Running" =>
                 tasks[u].status = "Running" \/ (u = t /\ tasks[u].version = sb[t].version)
            /\ tasks'[t].version = tasks[t].version
        BY <2>7, <3>2
      <4>2. CASE tasks'[u].status = "Running" => tasks[u].status = "Running"
        BY <1>2, <2>1, <3>1, <4>2, SameRunOK
      <4>3. CASE u = t /\ tasks[u].version = sb[t].version
        <5>1. Live(u) /\ sb[u].at = "start"
          BY <3>2, <4>3 DEF At
        <5> QED  BY <2>1, <3>1, <4>1, <4>3, <5>1
                 DEF RunOK, DriverMatches, RestartAnswered, OkExit, Started, Live, SameSandbox
      <4> QED  BY <4>1, <4>2, <4>3
    <3>3. CASE At(t, "report") /\ SubmitRunnerEvent(t, Event(sb[t].out, sb[t].version))
      <4>1. KnownRun(t, sb[t].version) /\ sb[t].out \in {"stopped", "failed"}
        BY <1>2, <3>3 DEF LifecycleInv, SbInv, At
      <4>2. sb[t].version # 0
        BY <1>2, <4>1, KnownInRange DEF LifecycleInv
      <4>3. tasks'[u].status = "Running" => tasks[u].status = "Running"
        BY <1>2, <3>3, <4>1, <4>2, TerminalReport DEF LifecycleInv
      <4> QED  BY <1>2, <2>1, <3>1, <4>3, SameRunOK
    <3> QED  BY <2>9, <3>2, <3>3 DEF DriverLostAck
  <2>10. ASSUME NEW t \in Tasks, Completes(t)
         PROVE  RunOK(u)'
    <3>1. KnownRun(t, sb[t].version) /\ sb[t].out \in {"stopped", "failed"}
      BY <1>2, <2>10 DEF LifecycleInv, SbInv, At, Completes
    <3>2. sb[t].version # 0
      BY <1>2, <3>1, KnownInRange DEF LifecycleInv
    <3>3. tasks'[u].status = "Running" =>
            tasks[u].status = "Running" /\ (u = t => tasks[u].version # sb[t].version)
      BY <1>2, <2>10, <3>1, <3>2, TerminalReport DEF LifecycleInv, Completes
    <3>4. CASE u # t
      BY <1>2, <2>1, <2>3, <2>10, <3>3, <3>4, SandboxAfter, SameRunOK
    <3>5. CASE u = t
      <4>1. sb'[u].st = "exited" /\ sb'[u].at = "off"
        BY <1>2, <2>10, <3>5, SandboxAfter
      <4>2. tasks[u].status = "Running" => sb[u].version = tasks[u].version
        BY <2>1, <2>10, <3>5 DEF RunOK, DriverMatches, Started, Completes, At
      <4>3. tasks'[u].status # "Running"
        BY <3>3, <3>5, <4>2
      <4> QED  BY <4>1, <4>3
               DEF RunOK, DriverMatches, RestartAnswered, OkExit, Started, Live
    <3> QED  BY <3>4, <3>5
  <2>11. ASSUME SameSandbox(u), ~\E t \in Tasks : DriverStep(t) \/ SandboxFault(t)
         PROVE  RunOK(u)'
    <3>1. CASE UNCHANGED tasks
      BY <2>2, <2>11, <3>1
    <3>2. CASE User
      BY <1>2, <2>1, <2>11, <3>2, UserNeverRuns, SameRunOK DEF User, LifecycleInv
    <3>3. ASSUME NEW acked \in BOOLEAN, Deliver(acked)
          PROVE  RunOK(u)'
      <4>1. tasks'[u].status = "Running" => tasks[u].status = "Running"
        BY <1>2, <3>3, HeadKnown, TerminalReport DEF LifecycleInv, Deliver
      <4> QED  BY <1>2, <2>1, <2>11, <4>1, SameRunOK
    <3> QED  BY <1>2, <2>11, <3>1, <3>2, <3>3, RunnerLeavesRows
  <2> QED
    BY <1>2, <2>4, <2>5, <2>6, <2>8, <2>9, <2>10, <2>11, SandboxShape, DriverShape
<1> QED  BY <1>1, <1>2 DEF RunInv, RunOK

(* An agent that runs for a running row is the run the row names.           *)
THEOREM RunningMatches == Spec => []RunningMatchesDriver
<1>1. RunInv => RunningMatchesDriver
  BY DEF RunInv, DriverMatches, Started, RunningMatchesDriver
<1> QED  BY <1>1, LifecycleInvInductive, RunInvInductive, PTL DEF Spec

-----------------------------------------------------------------------------
(* Wait, for the run v of task t, has not returned.                         *)
Waiting(t, v) ==
  \E w \in Watchers :
    watch[w].task = t /\ watch[w].code = "wait" /\ watch[w].version = v

NoCrash == "crash" \notin Faults

(* A recorded sandbox that runs has a supervise goroutine for the recorded  *)
(* run, or is about to be recorded, or Load will get to it.                 *)
Supervised(t) ==
  rec[t] # NoRecord /\ Live(t) => pc[t] = "record" \/ Waiting(t, rec[t]) \/ BootPending(t)

RecordOrder(t) ==
  /\ pc[t] # "idle" /\ rec[t] # NoRecord => rec[t] <= snap[t].version
  /\ sb[t].st = "created" => rec[t] = NoRecord /\ pc[t] # "record"

(* Without a crash the runner boots once, with nothing on disk, and the     *)
(* record names the launch of the sandbox that runs.                        *)
OneBoot(t) ==
  NoCrash =>
    /\ proc # "up" => rec[t] = NoRecord
    /\ Live(t) /\ pc[t] = "record" => sb[t].launch = snap[t].version
    /\ Live(t) /\ pc[t] # "record" /\ rec[t] # NoRecord => sb[t].launch = rec[t]
    /\ sb[t].exit = "ok" /\ pc[t] = "record" /\ snap[t].version = tasks[t].version
       => tasks[t].command # "Restart"

(* The row waits for the run its record names.                              *)
Owed(t) == tasks[t].status = "Running" \/ (NoCrash /\ tasks[t].command = "Restart")

OwedServed(t) ==
  /\ Owed(t)
  /\ rec[t] = tasks[t].version
  /\ ~Live(t)
  => FailureReportDue(t) \/ BootPending(t)

ServeInv == \A t \in Tasks : /\ Supervised(t) /\ RecordOrder(t) /\ OneBoot(t)
                             /\ OwedServed(t)

-----------------------------------------------------------------------------
(* What a step does to a sandbox, in the terms of ServeInv.                 *)

(* A sandbox that runs ran before, or has just been launched; one that does *)
(* not, has just ended or did not run.                                      *)
LEMMA SandboxStep ==
  ASSUME LifecycleInv, [Next]_vars, NEW u \in Tasks
  PROVE  /\ Live(u)' => \/ /\ Live(u)
                           /\ sb'[u].launch = sb[u].launch
                           /\ sb'[u].exit = sb[u].exit
                        \/ Launch(u)
         /\ ~Live(u)' => \/ /\ ~Live(u)
                            /\ sb'[u].exit = sb[u].exit
                            /\ sb'[u].st = sb[u].st \/ LeftBehind(u)
                         \/ Dies(u)
                         \/ Completes(u)
<1> USE DEF Live
<1>1. CASE SameSandbox(u)
  BY <1>1 DEF SameSandbox
<1>2. sb'[u] = sb[u] => SameSandbox(u)
  BY DEF SameSandbox
<1>3. ASSUME NEW t \in Tasks,
             \/ Dies(t) \/ Launch(t) \/ LeftBehind(t) \/ Reads(t) \/ Starts(t)
             \/ Completes(t) \/ (\E out \in {"stopped", "failed"} : DriverRuns(t, out))
             \/ DriverLostAck(t)
      PROVE  SameSandbox(u) \/ u = t
  <2>1. DriverLostAck(t) => sb'[u] = sb[u]
    BY DEF DriverLostAck
  <2> QED  BY <1>2, <1>3, <2>1, SandboxAfter
<1>4. CASE Dies(u) \/ Launch(u) \/ Completes(u)
  BY <1>4, SandboxAfter
<1>5. CASE LeftBehind(u)
  BY <1>5, SandboxAfter DEF LeftBehind
<1>6. CASE Reads(u) \/ Starts(u)
  BY <1>6, SandboxAfter DEF Reads, Starts, At
<1>7. ASSUME NEW out \in {"stopped", "failed"}, DriverRuns(u, out)
      PROVE  Live(u) /\ Live(u)' /\ sb'[u].launch = sb[u].launch /\ sb'[u].exit = sb[u].exit
  BY <1>7, SandboxAfter DEF DriverRuns, At
<1>8. CASE DriverLostAck(u)
  BY <1>1, <1>2, <1>8 DEF DriverLostAck
<1> QED  BY <1>1, <1>3, <1>4, <1>5, <1>6, <1>7, <1>8, SandboxShape, DriverShape

(* A row that starts to run has a driver that reported it.                  *)
LEMMA RunsStep ==
  ASSUME LifecycleInv, [Next]_vars, NEW u \in Tasks, tasks'[u].status = "Running"
  PROVE  tasks[u].status = "Running" \/ Live(u)'
<1>1. ASSUME NEW t \in Tasks, At(t, "start") \/ At(t, "report")
      PROVE  sb[t].version # 0 /\ (At(t, "report") => sb[t].out \in {"stopped", "failed"})
  BY <1>1, KnownInRange DEF LifecycleInv, SbInv, At
<1>2. ASSUME NEW t \in Tasks, Starts(t) \/ (DriverLostAck(t) /\ At(t, "start"))
      PROVE  tasks[u].status = "Running" \/ Live(u)'
  <2>1. SubmitRunnerEvent(t, Event("started", sb[t].version)) /\ At(t, "start")
    BY <1>2 DEF Starts, DriverLostAck, At
  <2>2. tasks[u].status = "Running" \/ u = t
    BY <1>1, <2>1, StartedReport DEF LifecycleInv
  <2>3. Live(t)'
    BY <1>2, SandboxAfter DEF DriverLostAck, Live, At
  <2> QED  BY <2>2, <2>3
<1>3. ASSUME NEW t \in Tasks, Completes(t) \/ (DriverLostAck(t) /\ At(t, "report"))
      PROVE  tasks[u].status = "Running"
  <2>1. SubmitRunnerEvent(t, Event(sb[t].out, sb[t].version)) /\ At(t, "report")
    BY <1>3 DEF Completes, DriverLostAck, At
  <2> QED  BY <1>1, <2>1, TerminalReport DEF LifecycleInv
<1>4. ASSUME NEW t \in Tasks, DriverStep(t) \/ SandboxFault(t)
      PROVE  tasks[u].status = "Running" \/ Live(u)'
  <2>1. \/ Dies(t) \/ Reads(t) \/ (\E out \in {"stopped", "failed"} : DriverRuns(t, out))
        => tasks' = tasks
    BY DEF Dies, Reads, DriverRuns
  <2>2. DriverLostAck(t) => At(t, "start") \/ At(t, "report")
    BY DEF DriverLostAck
  <2> QED  BY <1>2, <1>3, <1>4, <2>1, <2>2, DriverShape
<1>5. CASE User
  BY <1>5, UserNeverRuns DEF User, LifecycleInv
<1>6. ASSUME NEW acked \in BOOLEAN, Deliver(acked)
      PROVE  tasks[u].status = "Running"
  BY <1>6, HeadKnown, TerminalReport DEF LifecycleInv, Deliver
<1> QED  BY <1>4, <1>5, <1>6, RunnerLeavesRows

-----------------------------------------------------------------------------
(* What a step does to the runner's own state.                              *)

(* The process ends.                                                        *)
Halts == Crash \/ \E t \in Tasks : RecordError(t)

(* A step of the poll goroutine of t, unless it takes the process down.     *)
LEMMA PollShape ==
  ASSUME LifecycleInv, NEW t \in Tasks, PollStep(t) \/ PollFault(t), ~RecordError(t)
  PROVE  /\ UNCHANGED <<tasks, proc, toLoad, loaded, prune>>
         /\ pc[t] # "idle"
         /\ pc[t] = "record" => RecordLaunch(t)
         /\ rec' = rec \/ rec' = [rec EXCEPT ![t] = NoRecord] \/ RecordLaunch(t)
         /\ \E where \in PC : Goto(t, where) /\ (where = "record" => Launch(t))
<1> DEFINE Shape ==
         /\ UNCHANGED <<tasks, proc, toLoad, loaded, prune>>
         /\ pc[t] # "idle"
         /\ pc[t] = "record" => RecordLaunch(t)
         /\ rec' = rec \/ rec' = [rec EXCEPT ![t] = NoRecord] \/ RecordLaunch(t)
         /\ \E where \in PC : Goto(t, where) /\ (where = "record" => Launch(t))
<1>1. CASE StopIdle(t) \/ RestartSkip(t) \/ CheckError(t)
  BY <1>1 DEF StopIdle, RestartSkip, RestartDone, CheckError, PC
<1>2. CASE SendTerm(t)
  BY <1>2 DEF SendTerm, Signalling, PC
<1>3. CASE SignalReturns(t) \/ KillTimeout(t) \/ KillError(t)
  BY <1>3 DEF SignalReturns, KillTimeout, KillError, AfterKill, PC
<1>4. CASE RestartIdle(t) \/ StartCheck(t)
  BY <1>4 DEF RestartIdle, StartCheck, PC
<1>5. CASE TryAcquire(t)
  BY <1>5 DEF TryAcquire, PC
<1>6. CASE StartAlreadyRunning(t) \/ StartGone(t) \/ StartConflict(t) \/ StartError(t)
  BY <1>6 DEF StartAlreadyRunning, StartGone, StartConflict, StartError, StartFailed, PC
<1>7. CASE Launch(t)
  BY <1>7 DEF Launch, PC
<1>8. CASE RecordLaunch(t)
  BY <1>8 DEF RecordLaunch, PC
<1> QED
  BY <1>1, <1>2, <1>3, <1>4, <1>5, <1>6, <1>7, <1>8
  DEF PollStep, PollFault

(* The steps that change much: the end of the process, its boot, the visit  *)
(* of Load and the record of a launch.  Between them, for one task:         *)
Ordinary(u) == ~Halts /\ ~Boot /\ ~LoadRecord(u) /\ ~RecordLaunch(u)

(* Such a step keeps the task's record or removes it, and what it does to   *)
(* the goroutines and the rest of the runner's state is this.               *)
LEMMA OrdinaryStep ==
  ASSUME LifecycleInv, [Next]_vars, NEW u \in Tasks, Ordinary(u)
  PROVE  /\ rec'[u] \in {rec[u], NoRecord}
         /\ BootPending(u) => BootPending(u)'
         /\ proc' # "up" => proc # "up"
         /\ pc[u] = "record" => pc'[u] = "record" /\ snap'[u] = snap[u]
         /\ pc'[u] = "record" => pc[u] = "record" \/ Launch(u)
         /\ pc'[u] # "idle" => \/ pc[u] # "idle" /\ snap'[u] = snap[u]
                               \/ snap'[u].version = tasks[u].version
<1> DEFINE Shape ==
         /\ rec'[u] \in {rec[u], NoRecord}
         /\ BootPending(u) => BootPending(u)'
         /\ proc' # "up" => proc # "up"
         /\ pc[u] = "record" => pc'[u] = "record" /\ snap'[u] = snap[u]
         /\ pc'[u] = "record" => pc[u] = "record" \/ Launch(u)
         /\ pc'[u] # "idle" => \/ pc[u] # "idle" /\ snap'[u] = snap[u]
                               \/ snap'[u].version = tasks[u].version
<1>1. ASSUME UNCHANGED <<rec, proc, toLoad, pc, snap>>
      PROVE  Shape
  BY <1>1 DEF BootPending
<1>2. ASSUME NEW t \in Tasks, PollStep(t) \/ PollFault(t)
      PROVE  Shape
  <2>1. /\ UNCHANGED <<proc, toLoad>>
        /\ pc[t] # "idle"
        /\ pc[t] = "record" => RecordLaunch(t)
        /\ rec' = rec \/ rec' = [rec EXCEPT ![t] = NoRecord] \/ RecordLaunch(t)
    BY <1>2, PollShape DEF Ordinary, Halts
  <2>2. PICK where \in PC : Goto(t, where) /\ (where = "record" => Launch(t))
    BY <1>2, PollShape DEF Ordinary, Halts
  <2>3. rec \in [Tasks -> 0..MaxVersion \cup {NoRecord}] /\ pc \in [Tasks -> PC]
        /\ DOMAIN snap = Tasks
    BY DEF LifecycleInv, RecInv, PollInv
  <2>4. RecordLaunch(t) => rec' = [rec EXCEPT ![t] = snap[t].version] /\ t # u
    BY DEF RecordLaunch, Ordinary
  <2>5. rec'[u] \in {rec[u], NoRecord}
    BY <2>1, <2>3, <2>4
  <2>6. BootPending(u) => BootPending(u)'
    BY <2>1 DEF BootPending
  <2>7. CASE u # t
    <3>1. pc'[u] = pc[u] /\ snap'[u] = snap[u]
      BY <2>2, <2>3, <2>7 DEF Goto
    <3> QED  BY <2>1, <2>5, <2>6, <3>1
  <2>8. CASE u = t
    <3>1. pc[u] # "record" /\ pc'[u] = where /\ (where # "idle" => snap'[u] = snap[u])
      BY <2>1, <2>2, <2>3, <2>8 DEF Goto, Ordinary
    <3> QED  BY <2>1, <2>2, <2>5, <2>6, <2>8, <3>1
  <2> QED  BY <2>7, <2>8
<1>3. CASE Poll
  <2>1. pc[u] = "idle" /\ UNCHANGED <<rec, proc, toLoad>>
    BY <1>3 DEF Poll
  <2>2. pc'[u] # "idle" => HasPendingWork(tasks[u])
    BY <1>3 DEF Poll
  <2>3. HasPendingWork(tasks[u]) => snap'[u].version = tasks[u].version
    BY <1>3 DEF Poll
  <2>4. pc'[u] # "record"
    BY <1>3 DEF Poll, Arm
  <2> QED  BY <2>1, <2>2, <2>3, <2>4 DEF BootPending
<1>4. ASSUME NEW t \in Tasks, LoadRecord(t)
      PROVE  Shape
  <2>1. t # u /\ proc' = proc /\ pc' = pc /\ snap' = snap /\ toLoad' = toLoad \ {t}
    BY <1>4 DEF LoadRecord, Ordinary
  <2>2. rec' = rec \/ rec' = [rec EXCEPT ![t] = NoRecord]
    BY <1>4 DEF LoadRecord, LoadRunning, LoadExited, LoadGone, LoadSkip
  <2>3. rec'[u] = rec[u]
    BY <2>1, <2>2 DEF LifecycleInv, RecInv
  <2> QED  BY <2>1, <2>3 DEF BootPending
<1>5. CASE LoadDone
  BY <1>5 DEF LoadDone, BootPending
<1>6. CASE Prune
  <2>1. UNCHANGED <<proc, toLoad, pc, snap>>
    BY <1>6 DEF Prune, PruneList, PruneCheck, PruneError, PruneDestroy, PruneRemove
  <2>2. rec' = rec \/ \E t \in Tasks : rec' = [rec EXCEPT ![t] = NoRecord]
    BY <1>6 DEF Prune, PruneList, PruneCheck, PruneError, PruneDestroy, PruneRemove
  <2>3. rec'[u] \in {rec[u], NoRecord}
    BY <2>2 DEF LifecycleInv, RecInv
  <2> QED  BY <2>1, <2>3 DEF BootPending
<1>7. CASE Crash \/ Boot
  BY <1>7 DEF Ordinary, Halts
<1>8. ASSUME NEW t \in Tasks, DriverStep(t) \/ SandboxFault(t)
      PROVE  Shape
  BY <1>1, <1>8
  DEF DriverStep, SandboxFault, DriverGetTask, DriverStarted, DriverRuns,
      DriverReport, DriverLostAck, DriverGivesUp, Vanish, runnerMem
<1>9. ASSUME \/ User \/ (\E w \in Watchers : Supervise(w)) \/ UNCHANGED vars
             \/ (\E acked \in BOOLEAN : Deliver(acked))
      PROVE  Shape
  BY <1>1, <1>9 DEF User, Supervise, Deliver, runnerMem, vars
<1> QED
  BY <1>2, <1>3, <1>4, <1>5, <1>6, <1>7, <1>8, <1>9 DEF Next

-----------------------------------------------------------------------------
(* What a step does to the reports that are due.                            *)

(* Supervise has the end of run v in hand, or its failure is in the outbox. *)
Losing(t, v) ==
  \E w \in Watchers :
    watch[w].task = t /\ watch[w].code = "lost" /\ watch[w].version = v

Queued(t, v) ==
  \E i \in DOMAIN outbox :
    outbox[i].task = t /\ outbox[i].event = "failed" /\ outbox[i].version = v

(* The ways a supervise goroutine appears, moves on and ends.               *)
LEMMA WatchShape ==
  ASSUME LifecycleInv, [Next]_vars, ~Halts
  PROVE  \/ watch' = watch
         \/ \E t \in Tasks : \/ Dies(t) /\ watch' = Notified(t, "lost")
                             \/ Completes(t) /\ watch' = Notified(t, "ok")
         \/ \E t \in Tasks, v \in Int : Spawn(t, v) /\ sb' = sb
         \/ \E w \in Watchers : Supervise(w)
<1>1. ASSUME NEW t \in Tasks, Dies(t)
      PROVE  watch' = Notified(t, "lost")
  BY <1>1 DEF Dies, Exit, Remove
<1>2. ASSUME NEW t \in Tasks, DriverStep(t) \/ SandboxFault(t)
      PROVE  \/ watch' = watch
             \/ Dies(t) /\ watch' = Notified(t, "lost")
             \/ Completes(t) /\ watch' = Notified(t, "ok")
  <2>1. Completes(t) => watch' = Notified(t, "ok")
    BY DEF Completes, Exit
  <2>2. Reads(t) \/ Starts(t) \/ DriverLostAck(t)
        \/ (\E out \in {"stopped", "failed"} : DriverRuns(t, out)) => watch' = watch
    BY DEF Reads, Starts, DriverLostAck, DriverRuns, runnerMem
  <2> QED  BY <1>1, <1>2, <2>1, <2>2, DriverShape
<1>3. ASSUME NEW t \in Tasks, KillTimeout(t)
      PROVE  Dies(t)
  <2>1. \A v \in Tasks : \/ pc'[v] = pc[v] /\ snap'[v] = snap[v]
                         \/ /\ pc[v] \in {"stopping", "restarting"}
                            /\ pc'[v] \in {"idle", "acquire"}
    BY <1>3 DEF KillTimeout, Goto, AfterKill, LifecycleInv, PollInv
  <2> QED  BY <1>3, <2>1 DEF KillTimeout, Dies
<1>4. ASSUME NEW t \in Tasks, PruneDestroy(t)
      PROVE  watch' = watch \/ Dies(t)
  BY <1>4 DEF PruneDestroy, Dies
<1>5. ASSUME NEW t \in Tasks, RecordLaunch(t)
      PROVE  \E v \in Int : Spawn(t, v) /\ sb' = sb
  <2>1. snap[t].version \in Int
    BY ServerAssumption DEF LifecycleInv, PollInv
  <2> QED  BY <1>5, <2>1 DEF RecordLaunch
<1>6. ASSUME NEW t \in Tasks, LoadRecord(t)
      PROVE  watch' = watch \/ \E v \in Int : Spawn(t, v) /\ sb' = sb
  <2>1. rec[t] \in Int
    BY ServerAssumption DEF LifecycleInv, RecInv, NoRecord
  <2> QED  BY <1>6, <2>1 DEF LoadRecord, LoadRunning, LoadExited, LoadGone, LoadSkip
<1>7. ASSUME NEW t \in Tasks, PollStep(t)
      PROVE  watch' = watch \/ RecordLaunch(t)
  BY <1>7
  DEF PollStep, StopIdle, SendTerm, SignalReturns, RestartSkip, RestartIdle,
      StartCheck, TryAcquire, StartAlreadyRunning, StartGone, StartConflict,
      StartFailed, Launch
<1>8. ASSUME NEW t \in Tasks, PollFault(t)
      PROVE  watch' = watch \/ KillTimeout(t)
  BY <1>8 DEF PollFault, KillError, CheckError, StartError, StartFailed, Halts
<1>9. ASSUME Prune
      PROVE  watch' = watch \/ \E t \in Tasks : PruneDestroy(t)
  BY <1>9 DEF Prune, PruneList, PruneCheck, PruneError, PruneRemove
<1>10. ASSUME \/ User \/ Poll \/ Crash \/ Boot \/ LoadDone \/ UNCHANGED vars
              \/ (\E acked \in BOOLEAN : Deliver(acked))
       PROVE  watch' = watch
  BY <1>10 DEF User, Poll, Halts, Boot, LoadDone, Deliver, runnerMem, vars
<1> QED
  BY <1>1, <1>2, <1>3, <1>4, <1>5, <1>6, <1>7, <1>8, <1>9, <1>10 DEF Next

(* What the end of a sandbox makes of the watch table.                      *)
LEMMA NotifiedRow ==
  ASSUME LifecycleInv, NEW t \in Tasks, NEW code \in {"ok", "lost"},
         watch' = Notified(t, code), NEW w \in Watchers
  PROVE  /\ watch'[w].task = watch[w].task
         /\ watch'[w].version = watch[w].version
         /\ watch'[w].code = IF watch[w].task = t /\ watch[w].code = "wait"
                               THEN code ELSE watch[w].code
<1>1. watch'[w] = IF watch[w].task = t /\ watch[w].code = "wait"
                    THEN [watch[w] EXCEPT !.code = code] ELSE watch[w]
  BY DEF Notified
<1>2. watch[w].code = "wait" => watch[w] \in Watch
  BY DEF LifecycleInv, WatchInv, NoWatch
<1> QED  BY <1>1, <1>2 DEF Watch

(* What a spawn leaves alone.                                               *)
LEMMA SpawnRow ==
  ASSUME LifecycleInv, NEW t, NEW v, Spawn(t, v), NEW w \in Watchers,
         watch[w] # NoWatch
  PROVE  watch'[w] = watch[w]
BY DEF Spawn, LifecycleInv, WatchInv

(* A goroutine waits until its sandbox ends.                                *)
LEMMA WaitingStep ==
  ASSUME LifecycleInv, [Next]_vars, ~Halts, NEW u \in Tasks, NEW v, Waiting(u, v)
  PROVE  Waiting(u, v)' \/ Dies(u) \/ Completes(u)
<1>1. PICK w \in Watchers :
        watch[w].task = u /\ watch[w].code = "wait" /\ watch[w].version = v
  BY DEF Waiting
<1>2. watch[w] # NoWatch
  BY <1>1 DEF NoWatch
<1>3. CASE watch' = watch
  BY <1>1, <1>3 DEF Waiting
<1>4. ASSUME NEW t \in Tasks, NEW code \in {"ok", "lost"}, watch' = Notified(t, code), t # u
      PROVE  Waiting(u, v)'
  BY <1>1, <1>4, NotifiedRow DEF Waiting
<1>5. ASSUME NEW t, NEW x, Spawn(t, x)
      PROVE  Waiting(u, v)'
  BY <1>1, <1>2, <1>5, SpawnRow DEF Waiting
<1>6. ASSUME NEW x \in Watchers, Supervise(x)
      PROVE  Waiting(u, v)'
  <2>1. x # w
    BY <1>1, <1>6 DEF Supervise
  <2>2. watch'[w] = watch[w]
    BY <1>6, <2>1 DEF Supervise, LifecycleInv, WatchInv
  <2> QED  BY <1>1, <2>2 DEF Waiting
<1> QED  BY <1>3, <1>4, <1>5, <1>6, WatchShape

(* A failure that is enqueued is queued.                                    *)
LEMMA EnqueueQueued ==
  ASSUME LifecycleInv, NEW u \in Tasks, NEW v, Enqueue(u, "failed", v)
  PROVE  Queued(u, v)'
<1> DEFINE e == [task |-> u, event |-> "failed", version |-> v]
<1>1. outbox \in Seq(OutboxEvent) /\ outbox' = Append(outbox, e)
  BY DEF LifecycleInv, OutInv, Enqueue
<1>2. e.task = u /\ e.event = "failed" /\ e.version = v
  OBVIOUS
<1> HIDE DEF e
<1>3. Len(outbox) + 1 \in DOMAIN outbox' /\ outbox'[Len(outbox) + 1] = e
  BY <1>1
<1> QED  BY <1>2, <1>3 DEF Queued

(* Supervise turns the end it has in hand into a report.                    *)
LEMMA LosingStep ==
  ASSUME LifecycleInv, [Next]_vars, ~Halts, NEW u \in Tasks, NEW v, Losing(u, v)
  PROVE  Losing(u, v)' \/ Queued(u, v)'
<1>1. PICK w \in Watchers :
        watch[w].task = u /\ watch[w].code = "lost" /\ watch[w].version = v
  BY DEF Losing
<1>2. watch[w] # NoWatch
  BY <1>1 DEF NoWatch
<1>3. CASE watch' = watch
  BY <1>1, <1>3 DEF Losing
<1>4. ASSUME NEW t \in Tasks, NEW code \in {"ok", "lost"}, watch' = Notified(t, code)
      PROVE  Losing(u, v)'
  BY <1>1, <1>4, NotifiedRow DEF Losing
<1>5. ASSUME NEW t, NEW x, Spawn(t, x)
      PROVE  Losing(u, v)'
  BY <1>1, <1>2, <1>5, SpawnRow DEF Losing
<1>6. ASSUME NEW x \in Watchers, Supervise(x)
      PROVE  Losing(u, v)' \/ Queued(u, v)'
  <2>1. CASE x # w
    <3>1. watch'[w] = watch[w]
      BY <1>6, <2>1 DEF Supervise, LifecycleInv, WatchInv
    <3> QED  BY <1>1, <3>1 DEF Losing
  <2>2. CASE x = w
    <3>1. Enqueue(u, "failed", v)
      BY <1>1, <1>6, <2>2 DEF Supervise
    <3> QED  BY <3>1, EnqueueQueued
  <2> QED  BY <2>1, <2>2
<1> QED  BY <1>3, <1>4, <1>5, <1>6, WatchShape

(* The ways the outbox changes.                                             *)
LEMMA OutboxShape ==
  ASSUME LifecycleInv, [Next]_vars
  PROVE  \/ outbox' = outbox
         \/ \E e \in OutboxEvent : outbox' = Append(outbox, e)
         \/ \E acked \in BOOLEAN : Deliver(acked)
<1>1. ASSUME NEW t \in Tasks, NEW kind \in {"stopped", "failed"}, NEW v \in 0..MaxVersion,
             Enqueue(t, kind, v)
      PROVE  \E e \in OutboxEvent : outbox' = Append(outbox, e)
  BY <1>1 DEF Enqueue, OutboxEvent
<1>2. ASSUME NEW t \in Tasks
      PROVE  snap[t].version \in 0..MaxVersion
  BY DEF LifecycleInv, PollInv
<1>3. ASSUME NEW t \in Tasks, PollStep(t)
      PROVE  outbox' = outbox \/ \E e \in OutboxEvent : outbox' = Append(outbox, e)
  BY <1>1, <1>2, <1>3
  DEF PollStep, StopIdle, SendTerm, SignalReturns, RestartSkip, RestartIdle,
      StartCheck, TryAcquire, StartAlreadyRunning, StartGone, StartConflict,
      StartFailed, Launch, RecordLaunch
<1>4. ASSUME NEW t \in Tasks, PollFault(t)
      PROVE  outbox' = outbox \/ \E e \in OutboxEvent : outbox' = Append(outbox, e)
  BY <1>1, <1>2, <1>4
  DEF PollFault, KillTimeout, KillError, CheckError, StartError, StartFailed,
      RecordError
<1>5. ASSUME NEW t \in Tasks, LoadRecord(t)
      PROVE  outbox' = outbox \/ \E e \in OutboxEvent : outbox' = Append(outbox, e)
  <2>1. rec[t] \in 0..MaxVersion
    BY <1>5 DEF LoadRecord, LifecycleInv, BootInv, RecInv
  <2> QED  BY <1>1, <1>5, <2>1 DEF LoadRecord, LoadRunning, LoadExited, LoadGone,
              LoadSkip, LostReport
<1>6. ASSUME NEW w \in Watchers, Supervise(w)
      PROVE  outbox' = outbox \/ \E e \in OutboxEvent : outbox' = Append(outbox, e)
  <2>1. watch[w] \in Watch
    BY <1>6 DEF Supervise, LifecycleInv, WatchInv, NoWatch
  <2>2. watch[w].task \in Tasks /\ watch[w].version \in 0..MaxVersion
    BY <2>1 DEF Watch
  <2> QED  BY <1>1, <1>6, <2>2 DEF Supervise
<1>7. ASSUME NEW t \in Tasks, DriverStep(t) \/ SandboxFault(t)
      PROVE  outbox' = outbox
  BY <1>7
  DEF DriverStep, SandboxFault, DriverGetTask, DriverStarted, DriverRuns,
      DriverReport, DriverLostAck, DriverGivesUp, Vanish, runnerMem
<1>8. ASSUME \/ User \/ Poll \/ Crash \/ Boot \/ LoadDone \/ Prune \/ UNCHANGED vars
      PROVE  outbox' = outbox
  BY <1>8 DEF User, Poll, Crash, Boot, LoadDone, Prune, PruneList, PruneCheck,
     PruneError, PruneDestroy, PruneRemove, vars
<1> QED
  BY <1>3, <1>4, <1>5, <1>6, <1>7, <1>8 DEF Next

(* A failure report stays in the outbox until the server has applied it to  *)
(* the run it names.                                                        *)
LEMMA QueuedStep ==
  ASSUME LifecycleInv, [Next]_vars, NEW u \in Tasks, NEW v, Queued(u, v)
  PROVE  \/ Queued(u, v)'
         \/ /\ tasks[u].version = v
            => tasks'[u].status # "Running" /\ tasks'[u].command # "Restart"
<1>1. PICK i \in DOMAIN outbox :
        outbox[i].task = u /\ outbox[i].event = "failed" /\ outbox[i].version = v
  BY DEF Queued
<1>2. outbox \in Seq(OutboxEvent)
  BY DEF LifecycleInv, OutInv
<1>3. CASE outbox' = outbox
  BY <1>1, <1>3 DEF Queued
<1>4. ASSUME NEW e \in OutboxEvent, outbox' = Append(outbox, e)
      PROVE  Queued(u, v)'
  <2>1. i \in DOMAIN outbox' /\ outbox'[i] = outbox[i]
    BY <1>2, <1>4
  <2> QED  BY <1>1, <2>1 DEF Queued
<1>5. ASSUME NEW acked \in BOOLEAN, Deliver(acked), outbox' = Tail(outbox), i # 1
      PROVE  Queued(u, v)'
  <2>1. i - 1 \in DOMAIN outbox' /\ outbox'[i - 1] = outbox[i]
    BY <1>2, <1>5
  <2> QED  BY <1>1, <2>1 DEF Queued
<1>6. ASSUME NEW acked \in BOOLEAN, Deliver(acked), i = 1, tasks[u].version = v
      PROVE  tasks'[u].status # "Running" /\ tasks'[u].command # "Restart"
  <2>1. Head(outbox) = outbox[1] /\ outbox # <<>>
    BY <1>2, <1>6
  <2>2. SubmitRunnerEvent(u, Event("failed", v)) /\ v # 0
    BY <1>1, <1>6, <2>1, HeadKnown DEF Deliver
  <2> QED  BY <1>6, <2>2, TerminalReport DEF LifecycleInv
<1> QED  BY <1>3, <1>4, <1>5, <1>6, OutboxShape DEF Deliver

-----------------------------------------------------------------------------
(* ServeInv is inductive where the runner does not both crash and fail to   *)
(* read what it finds when it boots.                                        *)

ServeOK(u) == Supervised(u) /\ RecordOrder(u) /\ OneBoot(u) /\ OwedServed(u)

BootsOK == "probeErr" \notin Faults \/ NoCrash

(* The versions a step compares are numbers, in their order.                *)
LEMMA Ordered ==
  ASSUME LifecycleInv, [Next]_vars, NEW u \in Tasks
  PROVE  /\ tasks[u].version \in Nat /\ tasks'[u].version \in Nat
         /\ tasks[u].version <= tasks'[u].version
         /\ rec[u] \in Int /\ rec[u] <= tasks[u].version
         /\ rec[u] # NoRecord => rec[u] \in Nat
         /\ pc[u] # "idle" => snap[u].version \in Nat /\ snap[u].version <= tasks[u].version
         /\ sb[u].launch \in Nat /\ sb[u].version \in Nat
         /\ sb[u].at \in {"start", "run", "report"} => sb[u].version <= tasks[u].version
<1>1. tasks[u].version \in Nat /\ tasks'[u].version \in Nat
      /\ tasks[u].version <= tasks'[u].version
  BY TableStep, VersionNat DEF LifecycleInv, Grow
<1>2. rec[u] # NoRecord => rec[u] \in Nat /\ rec[u] <= tasks[u].version
  BY <1>1 DEF LifecycleInv, RecInv, KnownRun
<1>3. NoRecord \in Int /\ NoRecord <= tasks[u].version
  BY <1>1 DEF NoRecord
<1>4. pc[u] # "idle" => snap[u].version \in Nat /\ snap[u].version <= tasks[u].version
  BY <1>1 DEF LifecycleInv, PollInv, KnownRun
<1>5. sb[u].launch \in Nat /\ sb[u].version \in Nat
  BY ServerAssumption DEF LifecycleInv, SbInv, Sandbox
<1>6. sb[u].at \in {"start", "run", "report"} => sb[u].version <= tasks[u].version
  BY <1>1 DEF LifecycleInv, SbInv, KnownRun
<1> QED  BY <1>1, <1>2, <1>3, <1>4, <1>5, <1>6

(* The launch is recorded: the goroutine it spawns waits for the sandbox,   *)
(* or already has its end in hand.                                          *)
LEMMA RecordServes ==
  ASSUME LifecycleInv, RunInv, ServeInv, [Next]_vars, NEW u \in Tasks, RecordLaunch(u)
  PROVE  ServeOK(u)'
<1>1. /\ pc[u] = "record" /\ rec'[u] = snap[u].version /\ pc'[u] = "idle"
      /\ tasks' = tasks /\ sb' = sb /\ proc' = proc /\ toLoad' = toLoad
  BY DEF RecordLaunch, Goto, LifecycleInv, RecInv, PollInv
<1>2. proc = "up"
  BY <1>1 DEF LifecycleInv, BootInv
<1>3. ServeOK(u) /\ OkExit(u)
  BY DEF ServeInv, ServeOK, RunInv
<1>4. PICK w \in Watchers :
        /\ watch[w] = NoWatch
        /\ watch' = [watch EXCEPT ![w] =
             [task |-> u, version |-> snap[u].version,
              code |-> IF Live(u) THEN "wait" ELSE sb[u].exit]]
  BY DEF RecordLaunch, Spawn
<1>5. /\ watch'[w].task = u /\ watch'[w].version = snap[u].version
      /\ watch'[w].code = IF Live(u) THEN "wait" ELSE sb[u].exit
  BY <1>4 DEF LifecycleInv, WatchInv
<1>6. Supervised(u)'
  BY <1>1, <1>5 DEF Supervised, Waiting, Live
<1>7. RecordOrder(u)'
  BY <1>1, <1>3 DEF ServeOK, RecordOrder
<1>8. OneBoot(u)'
  BY <1>1, <1>2, <1>3 DEF ServeOK, OneBoot, Live, NoCrash
<1>9. OwedServed(u)'
  <2>1. SUFFICES ASSUME Owed(u), snap[u].version = tasks[u].version, ~Live(u)
                 PROVE  FailureReportDue(u)'
    BY <1>1 DEF OwedServed, Owed, Live, NoCrash
  <2>2. sb[u].exit # "ok"
    BY <1>1, <1>3, <2>1 DEF OkExit, Owed, ServeOK, OneBoot
  <2>3. sb[u].exit = "lost"
    BY <2>2 DEF LifecycleInv, SbInv, Sandbox
  <2> QED  BY <1>1, <1>5, <2>1, <2>3 DEF FailureReportDue
<1> QED  BY <1>6, <1>7, <1>8, <1>9 DEF ServeOK

(* Load visits the task: a live sandbox is supervised again, and the end of *)
(* one that is not is reported if the server still has it as running.       *)
LEMMA LoadServes ==
  ASSUME BootsOK, LifecycleInv, RunInv, ServeInv, [Next]_vars, NEW u \in Tasks,
         LoadRecord(u)
  PROVE  ServeOK(u)'
<1>1. /\ proc = "loading" /\ u \in toLoad
      /\ tasks' = tasks /\ sb' = sb /\ proc' = proc /\ pc' = pc /\ snap' = snap
  BY DEF LoadRecord
<1>2. rec[u] # NoRecord /\ pc[u] = "idle"
  BY <1>1 DEF LifecycleInv, BootInv
<1>3. ServeOK(u)
  BY DEF ServeInv, ServeOK
<1>4. ~NoCrash /\ "probeErr" \notin Faults
  BY <1>1, <1>2, <1>3 DEF ServeOK, OneBoot, BootsOK
<1>5. sb[u].st # "created"
  BY <1>2, <1>3 DEF ServeOK, RecordOrder
<1>6. OneBoot(u)'
  BY <1>4 DEF OneBoot, NoCrash
<1>7. RecordOrder(u)'
  BY <1>1, <1>2, <1>5 DEF RecordOrder
<1>8. CASE LoadRunning(u)
  <2>1. PICK w \in Watchers :
          /\ watch[w] = NoWatch
          /\ watch' = [watch EXCEPT ![w] =
               [task |-> u, version |-> rec[u],
                code |-> IF Live(u) THEN "wait" ELSE sb[u].exit]]
    BY <1>8 DEF LoadRunning, Spawn
  <2>2. watch'[w].task = u /\ watch'[w].version = rec[u] /\ watch'[w].code = "wait"
    BY <1>8, <2>1 DEF LifecycleInv, WatchInv, LoadRunning
  <2>3. Supervised(u)'
    BY <1>8, <2>2 DEF Supervised, Waiting, LoadRunning
  <2>4. OwedServed(u)'
    BY <1>1, <1>8 DEF OwedServed, Live, LoadRunning
  <2> QED  BY <1>6, <1>7, <2>3, <2>4 DEF ServeOK
<1>9. CASE LoadExited(u)
  <2>1. ~Live(u)' /\ rec' = rec
    BY <1>1, <1>9 DEF LoadExited, Live
  <2>2. tasks[u].status = "Running" => Queued(u, rec[u])'
    BY <1>4, <1>9, EnqueueQueued DEF LoadExited, LostReport, Fault
  <2>3. OwedServed(u)'
    BY <1>1, <1>4, <2>1, <2>2
    DEF OwedServed, Owed, NoCrash, Queued, FailureReportDue
  <2> QED  BY <1>6, <1>7, <2>1, <2>3 DEF ServeOK, Supervised
<1>10. CASE LoadGone(u)
  <2>1. rec'[u] = NoRecord
    BY <1>10 DEF LoadGone, LifecycleInv, RecInv
  <2>2. tasks'[u].version # NoRecord
    BY Ordered DEF NoRecord
  <2> QED  BY <1>6, <1>7, <2>1, <2>2 DEF ServeOK, Supervised, OwedServed
<1> QED  BY <1>4, <1>5, <1>8, <1>9, <1>10 DEF LoadRecord, LoadSkip, Fault

(* When the process halts, Load has yet to look at everything.              *)
LEMMA HaltServes ==
  ASSUME LifecycleInv, ServeInv, NEW u \in Tasks, Halts
  PROVE  ServeOK(u)'
<1>1. /\ proc' = "down" /\ pc'[u] = "idle" /\ ~NoCrash
      /\ rec' = rec /\ sb' = sb
  BY DEF Halts, Crash, RecordError, Down, NoCrash, Fault
<1>2. ServeOK(u)
  BY DEF ServeInv, ServeOK
<1>3. Supervised(u)' /\ OwedServed(u)'
  BY <1>1 DEF Supervised, OwedServed, BootPending
<1>4. RecordOrder(u)'
  BY <1>1, <1>2 DEF ServeOK, RecordOrder
<1>5. OneBoot(u)'
  BY <1>1 DEF OneBoot, NoCrash
<1> QED  BY <1>3, <1>4, <1>5 DEF ServeOK

(* At boot, every task that has a record is one Load will look at.          *)
LEMMA BootServes ==
  ASSUME LifecycleInv, ServeInv, NEW u \in Tasks, Boot
  PROVE  ServeOK(u)'
<1>1. /\ proc # "up" /\ proc' # "up"
      /\ toLoad' = {t \in Tasks : rec[t] # NoRecord}
      /\ UNCHANGED <<tasks, rec, pc, snap, sb>>
  BY DEF Boot
<1>2. ServeOK(u) /\ pc[u] = "idle"
  BY <1>1 DEF ServeInv, ServeOK, LifecycleInv, BootInv
<1>3. tasks[u].version # NoRecord
  BY VersionNat DEF NoRecord, LifecycleInv
<1>4. Supervised(u)' /\ OwedServed(u)'
  BY <1>1, <1>3 DEF Supervised, OwedServed, BootPending
<1>5. RecordOrder(u)'
  BY <1>1, <1>2 DEF ServeOK, RecordOrder
<1>6. OneBoot(u)'
  BY <1>1, <1>2 DEF ServeOK, OneBoot, NoCrash, Live
<1> QED  BY <1>4, <1>5, <1>6 DEF ServeOK

(* Every other step keeps what is due, due, and leaves a sandbox that ends  *)
(* in somebody's hands.                                                     *)
LEMMA OrdinaryServes ==
  ASSUME LifecycleInv, RunInv, ServeInv, [Next]_vars, NEW u \in Tasks, Ordinary(u)
  PROVE  ServeOK(u)'
<1>1. ServeOK(u) /\ DriverMatches(u) /\ RestartAnswered(u)
  BY DEF ServeInv, ServeOK, RunInv
<1>2. RowStep(tasks[u], tasks'[u])
  BY SystemRowStep
<1>3. /\ rec'[u] \in {rec[u], NoRecord}
      /\ BootPending(u) => BootPending(u)'
      /\ proc' # "up" => proc # "up"
      /\ pc[u] = "record" => pc'[u] = "record" /\ snap'[u] = snap[u]
      /\ pc'[u] = "record" => pc[u] = "record" \/ Launch(u)
      /\ pc'[u] # "idle" => \/ pc[u] # "idle" /\ snap'[u] = snap[u]
                            \/ snap'[u].version = tasks[u].version
  BY OrdinaryStep
<1>4. /\ Live(u)' => \/ /\ Live(u)
                        /\ sb'[u].launch = sb[u].launch
                        /\ sb'[u].exit = sb[u].exit
                     \/ Launch(u)
      /\ ~Live(u)' => \/ /\ ~Live(u)
                         /\ sb'[u].exit = sb[u].exit
                         /\ sb'[u].st = sb[u].st \/ LeftBehind(u)
                      \/ Dies(u)
                      \/ Completes(u)
  BY SandboxStep
<1>5. /\ Launch(u) => /\ sb'[u].st = "running" /\ sb'[u].exit = "lost"
                      /\ sb'[u].launch = snap[u].version
                      /\ pc'[u] = "record" /\ snap'[u] = snap[u]
      /\ LeftBehind(u) => rec[u] = NoRecord /\ pc'[u] # "record"
      /\ Dies(u) => sb'[u].st \in {"none", "exited"} /\ sb'[u].exit = "lost"
      /\ Completes(u) => sb'[u].st = "exited"
  <2>1. Launch(u) => pc'[u] = "record" /\ snap'[u] = snap[u]
    BY DEF Launch, Goto, LifecycleInv, PollInv
  <2>2. LeftBehind(u) => rec[u] = NoRecord /\ pc'[u] # "record"
    BY DEF LeftBehind, StartError, StartFailed, Goto, LifecycleInv, PollInv
  <2> QED  BY <2>1, <2>2, SandboxAfter
<1>6. /\ tasks[u].version \in Nat /\ tasks'[u].version \in Nat
      /\ tasks[u].version <= tasks'[u].version
      /\ rec[u] \in Int /\ rec[u] <= tasks[u].version
      /\ rec[u] # NoRecord => rec[u] \in Nat
      /\ pc[u] # "idle" => snap[u].version \in Nat /\ snap[u].version <= tasks[u].version
      /\ sb[u].launch \in Nat /\ sb[u].version \in Nat
      /\ sb[u].at \in {"start", "run", "report"} => sb[u].version <= tasks[u].version
  BY Ordered
<1>7. Supervised(u)'
  <2>1. SUFFICES ASSUME rec'[u] # NoRecord, Live(u)'
                 PROVE  pc'[u] = "record" \/ Waiting(u, rec[u])' \/ BootPending(u)'
    BY <1>3 DEF Supervised, Waiting
  <2>2. rec'[u] = rec[u]
    BY <1>3, <2>1
  <2>3. CASE Launch(u)
    BY <1>5, <2>3
  <2>4. CASE Live(u)
    <3>1. Waiting(u, rec[u]) => Waiting(u, rec[u])'
      BY <1>5, <2>1, <2>2, WaitingStep DEF Ordinary, Live
    <3> QED  BY <1>1, <1>3, <2>1, <2>2, <2>4, <3>1 DEF ServeOK, Supervised
  <2> QED  BY <1>4, <2>1, <2>3, <2>4
<1>8. RecordOrder(u)'
  <2>1. pc'[u] # "idle" /\ rec'[u] # NoRecord => rec'[u] <= snap'[u].version
    BY <1>1, <1>3, <1>6 DEF ServeOK, RecordOrder
  <2>2. sb'[u].st = "created" => rec'[u] = NoRecord /\ pc'[u] # "record"
    <3>1. SUFFICES ASSUME sb'[u].st = "created"
                   PROVE  rec'[u] = NoRecord /\ pc'[u] # "record"
      OBVIOUS
    <3>2. ~Live(u)' /\ ~Launch(u) /\ ~Dies(u) /\ ~Completes(u)
      BY <1>5, <3>1 DEF Live
    <3>3. CASE LeftBehind(u)
      BY <1>3, <1>5, <3>3
    <3>4. CASE sb[u].st = "created"
      BY <1>1, <1>3, <3>2, <3>4 DEF ServeOK, RecordOrder
    <3> QED  BY <1>4, <3>1, <3>2, <3>3, <3>4
  <2> QED  BY <2>1, <2>2 DEF RecordOrder
<1>9. ASSUME NoCrash, Completes(u), pc[u] = "record" => snap[u].version = tasks[u].version,
             pc[u] # "record" => rec[u] = tasks[u].version
      PROVE  tasks[u].command # "Restart"
  <2>1. Live(u) /\ sb[u].at = "report" /\ Started(u)
    BY <1>9 DEF Completes, At, Started
  <2>2. sb[u].launch = tasks[u].version
    BY <1>1, <1>6, <1>9, <2>1 DEF ServeOK, OneBoot, NoRecord
  <2>3. sb[u].version = tasks[u].version
    BY <1>1, <1>6, <2>1, <2>2 DEF DriverMatches
  <2> QED  BY <1>1, <2>1, <2>3 DEF RestartAnswered
<1>10. OneBoot(u)'
  <2>1. SUFFICES ASSUME NoCrash
        PROVE  /\ proc' # "up" => rec'[u] = NoRecord
               /\ Live(u)' /\ pc'[u] = "record" => sb'[u].launch = snap'[u].version
               /\ Live(u)' /\ pc'[u] # "record" /\ rec'[u] # NoRecord
                  => sb'[u].launch = rec'[u]
               /\ /\ sb'[u].exit = "ok" /\ pc'[u] = "record"
                  /\ snap'[u].version = tasks'[u].version
                  => tasks'[u].command # "Restart"
    BY DEF OneBoot, NoCrash
  <2>2. proc' # "up" => rec'[u] = NoRecord
    BY <1>1, <1>3, <2>1 DEF ServeOK, OneBoot
  <2>3. Live(u)' /\ pc'[u] = "record" => sb'[u].launch = snap'[u].version
    BY <1>1, <1>3, <1>4, <1>5, <2>1 DEF ServeOK, OneBoot
  <2>4. Live(u)' /\ pc'[u] # "record" /\ rec'[u] # NoRecord => sb'[u].launch = rec'[u]
    BY <1>1, <1>3, <1>4, <1>5, <2>1 DEF ServeOK, OneBoot
  <2>5. ASSUME sb'[u].exit = "ok", pc'[u] = "record", snap'[u].version = tasks'[u].version
        PROVE  tasks'[u].command # "Restart"
    <3>1. pc[u] = "record" /\ snap'[u] = snap[u] /\ ~Launch(u)
      BY <1>3, <1>5, <2>5
    <3>2. snap[u].version = tasks[u].version /\ tasks'[u].version = tasks[u].version
      BY <1>6, <2>5, <3>1
    <3>3. tasks[u].command # "Restart"
      <4>1. CASE sb[u].exit = "ok"
        BY <1>1, <2>1, <3>1, <3>2, <4>1 DEF ServeOK, OneBoot
      <4>2. CASE Completes(u)
        BY <1>9, <2>1, <3>1, <3>2, <4>2
      <4> QED  BY <1>4, <1>5, <2>5, <3>1, <4>1, <4>2
    <3> QED  BY <1>2, <1>6, <3>2, <3>3 DEF RowStep
  <2> QED  BY <2>2, <2>3, <2>4, <2>5
<1>11. OwedServed(u)'
  <2>1. SUFFICES ASSUME Owed(u)', rec'[u] = tasks'[u].version, ~Live(u)'
                 PROVE  FailureReportDue(u)' \/ BootPending(u)'
    BY DEF OwedServed
  <2>2. rec'[u] = rec[u] /\ rec[u] = tasks[u].version /\ tasks'[u].version = tasks[u].version
        /\ rec[u] # NoRecord
    BY <1>3, <1>6, <2>1 DEF NoRecord
  <2>3. Owed(u)
    <3>1. tasks'[u].status = "Running" => tasks[u].status = "Running"
      BY <2>1, RunsStep
    <3>2. tasks'[u].command = "Restart" => tasks[u].command = "Restart"
      BY <1>2, <1>6, <2>2 DEF RowStep
    <3> QED  BY <2>1, <3>1, <3>2 DEF Owed, NoCrash
  <2>4. Losing(u, tasks[u].version)' \/ Queued(u, tasks[u].version)' => FailureReportDue(u)'
    BY <2>2 DEF Losing, Queued, FailureReportDue
  <2>5. CASE ~Live(u)
    <3>1. FailureReportDue(u) \/ BootPending(u)
      BY <1>1, <2>2, <2>3, <2>5 DEF ServeOK, OwedServed
    <3>2. CASE Queued(u, tasks[u].version)
      BY <2>1, <2>2, <2>4, <3>2, QueuedStep DEF Owed
    <3>3. CASE Losing(u, tasks[u].version)
      BY <2>2, <2>4, <3>3, LosingStep DEF Ordinary
    <3>4. CASE pc[u] = "record" /\ snap[u].version = tasks[u].version
      BY <1>3, <2>2, <3>4 DEF FailureReportDue
    <3>5. CASE BootPending(u)
      BY <1>3, <3>5
    <3> QED  BY <3>1, <3>2, <3>3, <3>4, <3>5 DEF FailureReportDue, Losing, Queued
  <2>6. CASE Live(u) /\ Dies(u)
    <3>1. pc[u] = "record" \/ Waiting(u, rec[u]) \/ BootPending(u)
      BY <1>1, <2>2, <2>6 DEF ServeOK, Supervised
    <3>2. CASE pc[u] = "record"
      <4>1. snap[u].version = tasks[u].version
        BY <1>1, <1>6, <2>2, <3>2 DEF ServeOK, RecordOrder
      <4> QED  BY <1>3, <2>2, <3>2, <4>1 DEF FailureReportDue
    <3>3. CASE Waiting(u, rec[u])
      <4>1. PICK w \in Watchers :
              watch[w].task = u /\ watch[w].code = "wait" /\ watch[w].version = rec[u]
        BY <3>3 DEF Waiting
      <4>2. watch' = Notified(u, "lost")
        BY <2>6 DEF Dies, Exit, Remove
      <4>3. watch'[w].task = u /\ watch'[w].code = "lost" /\ watch'[w].version = rec[u]
        BY <4>1, <4>2, NotifiedRow
      <4> QED  BY <2>2, <2>4, <4>3 DEF Losing
    <3> QED  BY <1>3, <3>1, <3>2, <3>3
  <2>7. CASE Live(u) /\ Completes(u)
    <3>1. tasks'[u].status # "Running"
      <4>1. sb'[u].exit = "ok"
        BY <2>7 DEF Completes, Exit, NoSandbox, LifecycleInv, SbInv
      <4>2. OkExit(u)'
        BY RunInvInductive DEF RunInv
      <4> QED  BY <4>1, <4>2 DEF OkExit
    <3>2. NoCrash /\ tasks'[u].command = "Restart"
      BY <2>1, <3>1 DEF Owed, NoCrash
    <3>3. tasks[u].command = "Restart"
      BY <1>2, <1>6, <2>2, <3>2 DEF RowStep
    <3>4. pc[u] = "record" => snap[u].version = tasks[u].version
      BY <1>1, <1>6, <2>2 DEF ServeOK, RecordOrder
    <3> QED  BY <1>9, <2>2, <2>7, <3>2, <3>3, <3>4
  <2> QED  BY <1>4, <2>1, <2>5, <2>6, <2>7
<1> QED  BY <1>7, <1>8, <1>10, <1>11 DEF ServeOK

(* ServeInv is inductive.                                                   *)
LEMMA ServeInvInductive ==
  ASSUME BootsOK
  PROVE  /\ Init => ServeInv
         /\ LifecycleInv /\ RunInv /\ ServeInv /\ [Next]_vars => ServeInv'
<1>1. ASSUME Init  PROVE ServeInv
  <2>1. NoSandbox.st = "none" /\ NoSandbox.exit = "lost"
    BY DEF NoSandbox
  <2> QED  BY <1>1, <2>1
           DEF Init, ServeInv, Supervised, RecordOrder, OneBoot, OwedServed, Live,
               BootPending
<1>2. ASSUME LifecycleInv, RunInv, ServeInv, [Next]_vars, NEW u \in Tasks
      PROVE  ServeOK(u)'
  BY <1>2, RecordServes, LoadServes, HaltServes, BootServes, OrdinaryServes DEF Ordinary
<1> QED  BY <1>1, <1>2 DEF ServeInv, ServeOK

(* A run the runner launched is never lost: unless the runner crashes and   *)
(* then fails to read what it left behind, a running row whose record names *)
(* its run has a live sandbox, or its failure report is due.                *)
THEOREM LostRunTheorem ==
  ASSUME "probeErr" \notin Faults \/ "crash" \notin Faults
  PROVE  Spec => []LostRunReported
<1>1. BootsOK
  BY DEF BootsOK, NoCrash
<1>2. ServeInv => LostRunReported
  BY DEF ServeInv, OwedServed, Owed, LostRunReported
<1> QED  BY <1>1, <1>2, LifecycleInvInductive, RunInvInductive, ServeInvInductive, PTL
         DEF Spec

(* As long as the runner does not crash, a restart whose run is on record   *)
(* is alive or its failure is due, so the guard of the restart arm never    *)
(* waits for nothing.                                                       *)
THEOREM RestartTheorem ==
  ASSUME "crash" \notin Faults
  PROVE  Spec => []RestartServed
<1>1. BootsOK /\ NoCrash
  BY DEF BootsOK, NoCrash
<1>2. ServeInv => RestartServed
  BY <1>1 DEF ServeInv, OwedServed, Owed, RestartServed
<1> QED  BY <1>1, <1>2, LifecycleInvInductive, RunInvInductive, ServeInvInductive, PTL
         DEF Spec

-----------------------------------------------------------------------------
(* The semaphore.                                                           *)

Busy    == {w \in Watchers : watch[w] # NoWatch}
Holding == {t \in Tasks : pc[t] \in {"launch", "record"}}
Tracked == {t \in Tasks : HasRunning(t)}

(* Every holder of a slot is counted; a crash may leave more slots taken    *)
(* than there are holders, never fewer.                                     *)
SlotInv ==
  /\ proc = "up" => Cardinality(Busy) + Cardinality(Holding) <= sem /\ sem <= Concurrency
  /\ proc = "loading" => /\ Cardinality(Busy) <= loaded
                         /\ loaded + Cardinality(Tracked \cap toLoad) <= Concurrency
  /\ proc = "down" => Busy = {} /\ loaded = 0 /\ Cardinality(Tracked) <= Concurrency
  /\ proc # "up" => sem = 0

(* Without crashes and failed kills the count is exact, because no launch   *)
(* meets a sandbox that runs.                                               *)
ExactInv ==
  /\ \A t \in Tasks : pc[t] \in {"acquire", "launch"} => ~HasRunning(t)
  /\ proc = "up" => sem = Cardinality(Busy) + Cardinality(Holding)
  /\ proc # "up" => Busy = {} /\ loaded = 0 /\ sem = 0 /\ toLoad = {}

(* What a step does to the holders and to the count.                        *)
SlotShape ==
  \/ Busy' = Busy /\ Holding' = Holding /\ sem' = sem /\ loaded' = loaded
  \/ \E t \in Tasks \ Holding :
       /\ proc = "up"
       /\ Busy' = Busy /\ Holding' = Holding \cup {t} /\ loaded' = loaded
       /\ sem' = sem + 1 /\ sem' <= Concurrency
  \/ \E t \in Holding :
       /\ proc = "up"
       /\ Busy' = Busy /\ Holding' = Holding \ {t} /\ loaded' = loaded
       /\ sem' = Released \/ (sem' = sem /\ StartAlreadyRunning(t))
  \/ \E t \in Holding, w \in Watchers \ Busy :
       /\ proc = "up"
       /\ Busy' = Busy \cup {w} /\ Holding' = Holding \ {t}
       /\ sem' = sem /\ loaded' = loaded
  \/ \E w \in Busy :
       /\ Busy' = Busy \ {w} /\ Holding' = Holding
       /\ sem' = Released /\ loaded' = loaded
  \/ \E t \in Tracked \cap toLoad, w \in Watchers \ Busy :
       /\ proc = "loading"
       /\ Busy' = Busy \cup {w} /\ Holding' = Holding
       /\ sem' = sem /\ loaded' = loaded + 1 /\ toLoad' = toLoad \ {t}

(* A spawn makes one more goroutine busy.                                   *)
LEMMA SpawnBusy ==
  ASSUME LifecycleInv, NEW t \in Tasks, NEW v, Spawn(t, v), t # "none" \/ v # 0
  PROVE  \E w \in Watchers \ Busy : Busy' = Busy \cup {w}
<1>1. PICK w \in Watchers :
        /\ watch[w] = NoWatch
        /\ watch' = [watch EXCEPT ![w] =
             [task |-> t, version |-> v,
              code |-> IF Live(t) THEN "wait" ELSE sb[t].exit]]
  BY DEF Spawn
<1>2. watch'[w].task = t /\ watch'[w].version = v
  BY <1>1 DEF LifecycleInv, WatchInv
<1>3. watch'[w] # NoWatch
  BY <1>2 DEF NoWatch
<1>4. \A x \in Watchers : x # w => watch'[x] = watch[x]
  BY <1>1 DEF LifecycleInv, WatchInv
<1> QED  BY <1>1, <1>3, <1>4 DEF Busy

(* The end of a sandbox leaves the goroutines that wait for it busy.        *)
LEMMA NotifiedBusy ==
  ASSUME LifecycleInv, NEW t \in Tasks, NEW code \in {"ok", "lost"},
         watch' = Notified(t, code)
  PROVE  Busy' = Busy
<1>1. ASSUME NEW w \in Watchers
      PROVE  watch[w] # NoWatch <=> watch'[w] # NoWatch
  <2>1. watch'[w] = IF watch[w].task = t /\ watch[w].code = "wait"
                      THEN [watch[w] EXCEPT !.code = code] ELSE watch[w]
    BY DEF Notified
  <2>2. watch[w].code = "wait" => watch'[w].code # "none" \/ watch'[w] = watch[w]
    BY <2>1, NotifiedRow
  <2> QED  BY <2>1, <2>2 DEF NoWatch
<1> QED  BY <1>1 DEF Busy

(* A poll goroutine that moves on changes Holding by its own task.          *)
LEMMA GotoHolding ==
  ASSUME LifecycleInv, NEW t \in Tasks, NEW where, Goto(t, where)
  PROVE  Holding' = IF where \in {"launch", "record"} THEN Holding \cup {t}
                                                      ELSE Holding \ {t}
<1>1. \A u \in Tasks : pc'[u] = IF u = t THEN where ELSE pc[u]
  BY DEF Goto, LifecycleInv, PollInv
<1> QED  BY <1>1 DEF Holding

(* Every step but a halt, a boot and the end of Load has that shape.        *)
LEMMA SlotStep ==
  ASSUME LifecycleInv, [Next]_vars, ~Halts, ~Boot, ~LoadDone
  PROVE  SlotShape /\ proc' = proc
<1>1. watch' = watch => Busy' = Busy
  BY DEF Busy
<1>2. pc' = pc => Holding' = Holding
  BY DEF Holding
<1>3. ASSUME Busy' = Busy, Holding' = Holding, sem' = sem, loaded' = loaded
      PROVE  SlotShape
  BY <1>3 DEF SlotShape
<1>4. ASSUME NEW t \in Tasks, PollStep(t) \/ PollFault(t)
      PROVE  SlotShape /\ proc' = proc
  <2>1. ~RecordError(t)
    BY DEF Halts
  <2>2. proc = "up" /\ proc' = proc /\ loaded' = loaded
    BY <1>4, <2>1, PollShape DEF LifecycleInv, BootInv
  <2>3. ASSUME NEW where, Goto(t, where), where \notin {"launch", "record"}, t \notin Holding
        PROVE  Holding' = Holding
    BY <2>3, GotoHolding
  <2>4. ASSUME pc[t] \notin {"launch", "record"}
        PROVE  t \notin Holding
    BY <2>4 DEF Holding
  <2>5. ASSUME pc[t] \in {"launch", "record"}
        PROVE  t \in Holding
    BY <2>5 DEF Holding
  <2>6. CASE StopIdle(t) \/ RestartSkip(t) \/ CheckError(t) \/ RestartIdle(t)
    BY <1>1, <1>3, <2>2, <2>3, <2>4, <2>6
    DEF StopIdle, RestartSkip, RestartDone, CheckError, RestartIdle
  <2>7. CASE StartCheck(t)
    <3>1. PICK where \in {"idle", "acquire"} : Goto(t, where)
      BY <2>7 DEF StartCheck
    <3> QED  BY <1>1, <1>3, <2>2, <2>3, <2>4, <2>7, <3>1 DEF StartCheck
  <2>8. CASE SendTerm(t)
    <3>1. Signalling(pc[t]) \notin {"launch", "record"} /\ Goto(t, Signalling(pc[t]))
      BY <2>8 DEF SendTerm, Signalling
    <3> QED  BY <1>1, <1>3, <2>2, <2>3, <2>4, <2>8, <3>1 DEF SendTerm
  <2>9. CASE SignalReturns(t) \/ KillTimeout(t) \/ KillError(t)
    <3>1. /\ AfterKill(pc[t]) \notin {"launch", "record"} /\ Goto(t, AfterKill(pc[t]))
          /\ pc[t] \notin {"launch", "record"} /\ sem' = sem
      BY <2>9 DEF SignalReturns, KillTimeout, KillError, AfterKill
    <3>2. Busy' = Busy
      BY <1>1, <2>9, NotifiedBusy DEF SignalReturns, KillTimeout, KillError, Exit
    <3> QED  BY <1>3, <2>2, <2>3, <2>4, <3>1, <3>2
  <2>10. CASE TryAcquire(t)
    <3>1. t \in Tasks \ Holding /\ Busy' = Busy
      BY <1>1, <2>4, <2>10 DEF TryAcquire
    <3>2. CASE sem' = sem /\ Goto(t, "idle")
      BY <1>3, <2>2, <2>3, <3>1, <3>2
    <3>3. CASE sem + 1 <= Concurrency /\ sem' = sem + 1 /\ Goto(t, "launch")
      <4>1. Holding' = Holding \cup {t}
        BY <3>3, GotoHolding
      <4> QED  BY <2>2, <3>1, <3>3, <4>1 DEF SlotShape
    <3> QED  BY <2>10, <3>2, <3>3 DEF TryAcquire
  <2>11. CASE StartAlreadyRunning(t) \/ StartGone(t) \/ StartConflict(t) \/ StartError(t)
    <3>1. t \in Holding /\ Goto(t, "idle") /\ watch' = watch
          /\ (sem' = Released \/ (sem' = sem /\ StartAlreadyRunning(t)))
      BY <2>5, <2>11
      DEF StartAlreadyRunning, StartGone, StartConflict, StartError, StartFailed
    <3>2. Holding' = Holding \ {t}
      BY <3>1, GotoHolding
    <3> QED  BY <1>1, <2>2, <3>1, <3>2 DEF SlotShape
  <2>12. CASE Launch(t)
    <3>1. Holding' = Holding \cup {t} /\ t \in Holding
      BY <2>5, <2>12, GotoHolding DEF Launch
    <3> QED  BY <1>1, <1>3, <2>2, <2>12, <3>1 DEF Launch
  <2>13. CASE RecordLaunch(t)
    <3>1. Holding' = Holding \ {t} /\ t \in Holding /\ sem' = sem
      BY <2>5, <2>13, GotoHolding DEF RecordLaunch
    <3>2. snap[t].version # 0 /\ Spawn(t, snap[t].version)
      BY <2>13, KnownInRange DEF RecordLaunch, LifecycleInv, PollInv
    <3>3. PICK w \in Watchers \ Busy : Busy' = Busy \cup {w}
      BY <3>2, SpawnBusy
    <3> QED  BY <2>2, <3>1, <3>3 DEF SlotShape
  <2> QED
    BY <1>4, <2>1, <2>6, <2>7, <2>8, <2>9, <2>10, <2>11, <2>12, <2>13
    DEF PollStep, PollFault
<1>5. CASE Poll
  <2>1. Holding = {}
    BY <1>5 DEF Poll, Holding
  <2>2. Holding' = {}
    BY <1>5 DEF Poll, Holding, Arm
  <2> QED  BY <1>1, <1>3, <1>5, <2>1, <2>2 DEF Poll
<1>6. ASSUME NEW w \in Watchers, Supervise(w)
      PROVE  SlotShape /\ proc' = proc
  <2>1. w \in Busy
    BY <1>6 DEF Supervise, NoWatch, Busy
  <2>2. \A x \in Watchers : watch'[x] = IF x = w THEN NoWatch ELSE watch[x]
    BY <1>6 DEF Supervise, LifecycleInv, WatchInv
  <2>3. Busy' = Busy \ {w}
    BY <2>2 DEF Busy
  <2> QED  BY <1>2, <1>6, <2>1, <2>3 DEF Supervise, SlotShape
<1>7. ASSUME NEW t \in Tasks, LoadRecord(t)
      PROVE  SlotShape /\ proc' = proc
  <2>1. /\ proc = "loading" /\ t \in toLoad /\ toLoad' = toLoad \ {t} /\ proc' = proc
        /\ sem' = sem /\ pc' = pc
    BY <1>7 DEF LoadRecord
  <2>2. rec[t] # NoRecord /\ KnownRun(t, rec[t])
    BY <2>1 DEF LifecycleInv, BootInv, RecInv
  <2>3. CASE LoadRunning(t)
    <3>1. t \in Tracked \cap toLoad /\ loaded' = loaded + 1 /\ Spawn(t, rec[t])
      BY <2>1, <2>2, <2>3 DEF LoadRunning, Tracked, HasRunning
    <3>2. rec[t] # 0
      BY <2>2, KnownInRange DEF LifecycleInv
    <3>3. PICK w \in Watchers \ Busy : Busy' = Busy \cup {w}
      BY <3>1, <3>2, SpawnBusy
    <3> QED  BY <1>2, <2>1, <3>1, <3>3 DEF SlotShape
  <2>4. CASE LoadExited(t) \/ LoadGone(t) \/ LoadSkip(t)
    BY <1>1, <1>2, <1>3, <2>1, <2>4 DEF LoadExited, LoadGone, LoadSkip
  <2> QED  BY <1>7, <2>3, <2>4 DEF LoadRecord
<1>8. ASSUME NEW t \in Tasks, DriverStep(t) \/ SandboxFault(t)
      PROVE  SlotShape /\ proc' = proc
  <2>1. UNCHANGED <<proc, loaded, pc, sem>>
    BY <1>8
    DEF DriverStep, SandboxFault, DriverGetTask, DriverStarted, DriverRuns,
        DriverReport, DriverLostAck, DriverGivesUp, Vanish, runnerMem
  <2>2. watch' = watch \/ \E code \in {"ok", "lost"} : watch' = Notified(t, code)
    BY <1>8
    DEF DriverStep, SandboxFault, DriverGetTask, DriverStarted, DriverRuns,
        DriverReport, DriverLostAck, DriverGivesUp, Vanish, runnerMem, Exit, Remove
  <2> QED  BY <1>1, <1>2, <1>3, <2>1, <2>2, NotifiedBusy
<1>9. CASE Prune
  <2>1. UNCHANGED <<proc, loaded, pc, sem>>
    BY <1>9 DEF Prune, PruneList, PruneCheck, PruneError, PruneDestroy, PruneRemove
  <2>2. watch' = watch \/ \E t \in Tasks : watch' = Notified(t, "lost")
    BY <1>9 DEF Prune, PruneList, PruneCheck, PruneError, PruneDestroy, PruneRemove,
       Remove
  <2> QED  BY <1>1, <1>2, <1>3, <2>1, <2>2, NotifiedBusy
<1>10. ASSUME User \/ UNCHANGED vars \/ (\E acked \in BOOLEAN : Deliver(acked))
       PROVE  SlotShape /\ proc' = proc
  BY <1>1, <1>2, <1>3, <1>10 DEF User, Deliver, runnerMem, vars
<1> QED
  BY <1>4, <1>5, <1>6, <1>7, <1>8, <1>9, <1>10 DEF Next, Halts

Finite == IsFiniteSet(Tasks) /\ IsFiniteSet(Watchers)

(* The holders can be counted, before and after a step.                     *)
LEMMA Countable ==
  ASSUME Finite
  PROVE  /\ IsFiniteSet(Busy) /\ Cardinality(Busy) \in Nat
         /\ IsFiniteSet(Holding) /\ Cardinality(Holding) \in Nat
         /\ IsFiniteSet(Tracked) /\ Cardinality(Tracked) \in Nat
         /\ IsFiniteSet(Tracked \cap toLoad) /\ Cardinality(Tracked \cap toLoad) \in Nat
         /\ IsFiniteSet(Tracked') /\ Cardinality(Tracked') \in Nat
         /\ IsFiniteSet((Tracked \cap toLoad)')
         /\ Cardinality((Tracked \cap toLoad)') \in Nat
<1>1. /\ Busy \subseteq Watchers /\ Holding \subseteq Tasks /\ Tracked \subseteq Tasks
      /\ Tracked \cap toLoad \subseteq Tasks
      /\ Tracked' \subseteq Tasks /\ (Tracked \cap toLoad)' \subseteq Tasks
  BY DEF Busy, Holding, Tracked
<1>2. ASSUME NEW S, NEW T, IsFiniteSet(T), S \subseteq T
      PROVE  IsFiniteSet(S) /\ Cardinality(S) \in Nat
  BY <1>2, FS_Subset, FS_CardinalityType
<1> QED  BY <1>1, <1>2 DEF Finite

(* Every sandbox that counts against the limit is held by a goroutine, or   *)
(* Load will get to it.                                                     *)
LEMMA Covered ==
  ASSUME Finite, LifecycleInv, ServeInv, proc # "down"
  PROVE  Cardinality(Tracked) <=
           Cardinality(Busy) + Cardinality(Holding) + Cardinality(Tracked \cap toLoad)
<1> DEFINE A == Tracked \ (Holding \cup toLoad)
           f == [t \in A |-> CHOOSE w \in Busy : watch[w].task = t]
<1>1. ASSUME NEW t \in A
      PROVE  \E w \in Busy : watch[w].task = t
  <2>1. t \in Tasks /\ rec[t] # NoRecord /\ Live(t) /\ pc[t] # "record" /\ t \notin toLoad
    BY DEF Tracked, HasRunning, Holding
  <2>2. Waiting(t, rec[t])
    BY <2>1 DEF ServeInv, Supervised, BootPending
  <2>3. PICK w \in Watchers : watch[w].task = t /\ watch[w].code = "wait"
    BY <2>2 DEF Waiting
  <2> QED  BY <2>3 DEF Busy, NoWatch
<1>2. f \in [A -> Busy] /\ \A t \in A : watch[f[t]].task = t
  BY <1>1
<1>3. f \in Injection(A, Busy)
  <2>1. \A x, y \in A : f[x] = f[y] => x = y
    BY <1>2
  <2> QED  BY <1>2, <2>1 DEF Injection, IsInjective
<1> HIDE DEF f
<1>4. IsFiniteSet(A) /\ Cardinality(A) <= Cardinality(Busy)
  BY <1>3, Countable, FS_Injection
<1> HIDE DEF A
<1> DEFINE L == Tracked \cap toLoad
           B == A \cup Holding
<1>5. /\ IsFiniteSet(B)
      /\ Cardinality(B) = Cardinality(A) + Cardinality(Holding) - Cardinality(A \cap Holding)
  BY <1>4, Countable, FS_Union
<1>6. /\ IsFiniteSet(B \cup L)
      /\ Cardinality(B \cup L) = Cardinality(B) + Cardinality(L) - Cardinality(B \cap L)
  BY <1>5, Countable, FS_Union
<1>7. Tracked \subseteq B \cup L
  BY DEF A
<1>8. Cardinality(Tracked) <= Cardinality(B \cup L)
  BY <1>6, <1>7, FS_Subset
<1>9. /\ Cardinality(A \cap Holding) \in Nat /\ Cardinality(B \cap L) \in Nat
      /\ Cardinality(A) \in Nat /\ Cardinality(B) \in Nat
  <2>1. ASSUME NEW S, NEW T, IsFiniteSet(S)
        PROVE  Cardinality(S \cap T) \in Nat
    BY <2>1, FS_Subset, FS_CardinalityType
  <2> QED  BY <1>4, <1>5, <2>1, FS_CardinalityType
<1>10. /\ Cardinality(Tracked) \in Nat /\ Cardinality(Busy) \in Nat
       /\ Cardinality(Holding) \in Nat /\ Cardinality(L) \in Nat
  BY Countable
<1> HIDE DEF L, B
<1>11. Cardinality(Tracked) <= Cardinality(Busy) + Cardinality(Holding) + Cardinality(L)
  BY <1>4, <1>5, <1>6, <1>8, <1>9, <1>10
<1> QED  BY <1>11 DEF L

(* SlotInv gives the limit.                                                 *)
LEMMA LimitFromSlots ==
  ASSUME Finite, LifecycleInv, ServeInv, SlotInv
  PROVE  Cardinality(Tracked) <= Concurrency
<1>1. /\ Cardinality(Tracked) \in Nat /\ Cardinality(Busy) \in Nat
      /\ Cardinality(Holding) \in Nat /\ Cardinality(Tracked \cap toLoad) \in Nat
      /\ sem \in Nat /\ loaded \in Nat /\ Concurrency \in Nat
  BY Countable, LifecycleAssumption DEF LifecycleInv, CountInv
<1>2. CASE proc = "up"
  <2>1. Tracked \cap toLoad = {}
    BY <1>2 DEF LifecycleInv, BootInv
  <2>2. Cardinality(Tracked \cap toLoad) = 0
    BY <2>1, FS_EmptySet
  <2> QED  BY <1>1, <1>2, <2>2, Covered DEF SlotInv
<1>3. CASE proc = "loading"
  <2>1. Holding = {}
    BY <1>3 DEF LifecycleInv, BootInv, Holding
  <2>2. Cardinality(Holding) = 0
    BY <2>1, FS_EmptySet
  <2> QED  BY <1>1, <1>3, <2>2, Covered DEF SlotInv
<1>4. CASE proc = "down"
  BY <1>4 DEF SlotInv
<1> QED  BY <1>2, <1>3, <1>4 DEF LifecycleInv, BootInv

(* Nothing becomes tracked while the runner is not up.                      *)
LEMMA TrackedShrinks ==
  ASSUME LifecycleInv, [Next]_vars, proc # "up"
  PROVE  Tracked' \subseteq Tracked
<1> SUFFICES ASSUME NEW u \in Tasks, rec'[u] # NoRecord, Live(u)'
             PROVE  rec[u] # NoRecord /\ Live(u)
  BY DEF Tracked, HasRunning
<1>1. pc[u] = "idle"
  BY DEF LifecycleInv, BootInv
<1>2. Live(u)
  BY <1>1, SandboxStep DEF Launch
<1>3. ~RecordLaunch(u)
  BY <1>1 DEF RecordLaunch
<1>4. CASE Halts \/ Boot
  BY <1>2, <1>4 DEF Halts, Crash, RecordError, Boot
<1>5. CASE LoadRecord(u)
  BY <1>2, <1>5 DEF LoadRecord, LoadRunning, LoadExited, LoadGone, LoadSkip, LifecycleInv,
     RecInv
<1>6. CASE Ordinary(u)
  BY <1>2, <1>6, OrdinaryStep
<1> QED  BY <1>2, <1>3, <1>4, <1>5, <1>6 DEF Ordinary

(* Load only ever has less to visit, once it runs.                          *)
LEMMA ToLoadShrinks ==
  ASSUME [Next]_vars, proc = "loading", proc' = "loading"
  PROVE  toLoad' \subseteq toLoad
<1>1. ASSUME NEW t \in Tasks, PollStep(t)
      PROVE  toLoad' = toLoad
  BY <1>1
  DEF PollStep, StopIdle, SendTerm, SignalReturns, RestartSkip, RestartIdle,
      StartCheck, TryAcquire, StartAlreadyRunning, StartGone, StartConflict,
      StartFailed, Launch, RecordLaunch
<1>2. ASSUME NEW t \in Tasks, PollFault(t)
      PROVE  toLoad' \subseteq toLoad
  BY <1>2
  DEF PollFault, KillTimeout, KillError, CheckError, StartError, StartFailed,
      RecordError, Down
<1>3. ASSUME NEW t \in Tasks, DriverStep(t) \/ SandboxFault(t) \/ LoadRecord(t)
      PROVE  toLoad' \subseteq toLoad
  BY <1>3
  DEF DriverStep, SandboxFault, DriverGetTask, DriverStarted, DriverRuns,
      DriverReport, DriverLostAck, DriverGivesUp, Vanish, LoadRecord, runnerMem
<1>4. ASSUME \/ User \/ Poll \/ Crash \/ Boot \/ LoadDone \/ Prune \/ UNCHANGED vars
             \/ (\E w \in Watchers : Supervise(w))
             \/ (\E acked \in BOOLEAN : Deliver(acked))
      PROVE  toLoad' \subseteq toLoad
  BY <1>4 DEF User, Poll, Crash, Down, Boot, LoadDone, Prune, PruneList, PruneCheck,
     PruneError, PruneDestroy, PruneRemove, Supervise, Deliver, runnerMem, vars
<1> QED  BY <1>1, <1>2, <1>3, <1>4 DEF Next

(* One more or one fewer.                                                   *)
LEMMA CountSteps ==
  ASSUME NEW S, IsFiniteSet(S), NEW x
  PROVE  /\ Cardinality(S) \in Nat
         /\ x \notin S => Cardinality(S \cup {x}) = Cardinality(S) + 1
         /\ x \in S => /\ Cardinality(S \ {x}) = Cardinality(S) - 1
                       /\ Cardinality(S) >= 1
<1>1. Cardinality(S) \in Nat /\ Cardinality(S \ {x}) \in Nat
  BY FS_CardinalityType, FS_RemoveElement
<1> QED  BY <1>1, FS_AddElement, FS_RemoveElement

(* SlotInv is inductive.                                                    *)
LEMMA SlotInvInductive ==
  ASSUME Finite
  PROVE  /\ Init => SlotInv
         /\ LifecycleInv /\ ServeInv /\ SlotInv /\ [Next]_vars => SlotInv'
<1>1. ASSUME Init  PROVE SlotInv
  <2>1. Tracked = {} /\ Busy = {} /\ loaded = 0 /\ sem = 0 /\ proc = "down"
    BY <1>1 DEF Init, Tracked, HasRunning, Busy
  <2>2. Cardinality(Tracked) = 0 /\ 0 <= Concurrency
    BY <2>1, FS_EmptySet, LifecycleAssumption
  <2> QED  BY <2>1, <2>2 DEF SlotInv
<1>2. ASSUME LifecycleInv, ServeInv, SlotInv, [Next]_vars
      PROVE  SlotInv'
  <2> DEFINE nb == Cardinality(Busy)
             nh == Cardinality(Holding)
             nl == Cardinality(Tracked \cap toLoad)
             nlp == Cardinality((Tracked \cap toLoad)')
  <2>1. /\ nb \in Nat /\ nh \in Nat /\ nl \in Nat /\ nlp \in Nat
        /\ IsFiniteSet(Busy) /\ IsFiniteSet(Holding)
        /\ IsFiniteSet(Tracked) /\ IsFiniteSet(Tracked \cap toLoad)
        /\ sem \in Nat /\ loaded \in Nat /\ Concurrency \in Nat
    BY <1>2, Countable, LifecycleAssumption DEF LifecycleInv, CountInv
  <2>2. CASE Halts
    <3>1. /\ proc' = "down" /\ loaded' = 0 /\ sem' = 0 /\ rec' = rec /\ sb' = sb
          /\ watch' = [w \in Watchers |-> NoWatch]
      BY <2>2 DEF Halts, Crash, RecordError, Down
    <3>2. Tracked' = Tracked /\ Busy' = {}
      BY <3>1 DEF Tracked, HasRunning, Live, Busy
    <3>3. Cardinality(Tracked') <= Concurrency
      BY <1>2, <3>2, LimitFromSlots
    <3> QED  BY <3>1, <3>2, <3>3 DEF SlotInv
  <2>3. CASE Boot
    <3>1. /\ proc = "down" /\ proc' = "loading" /\ loaded' = loaded /\ sem' = sem
          /\ UNCHANGED <<watch, rec, sb>>
          /\ toLoad' = {t \in Tasks : rec[t] # NoRecord}
      BY <2>3 DEF Boot
    <3>2. Tracked' = Tracked /\ (Tracked \cap toLoad)' = Tracked /\ Busy' = Busy
      BY <3>1 DEF Tracked, HasRunning, Live, Busy
    <3>3. Busy = {} /\ loaded = 0 /\ sem = 0 /\ Cardinality(Tracked) <= Concurrency
      BY <1>2, <3>1 DEF SlotInv
    <3>4. Cardinality(Busy') = 0
      BY <3>2, <3>3, FS_EmptySet
    <3>5. /\ Cardinality(Busy') <= loaded'
          /\ loaded' + Cardinality((Tracked \cap toLoad)') <= Concurrency
      <4>1. Cardinality((Tracked \cap toLoad)') \in Nat
        BY <2>1
      <4> QED  BY <3>1, <3>2, <3>3, <3>4, <4>1
    <3> QED  BY <3>1, <3>3, <3>5 DEF SlotInv
  <2>4. CASE LoadDone
    <3>1. /\ proc = "loading" /\ proc' = "up" /\ sem' = loaded
          /\ UNCHANGED <<watch, pc>>
      BY <2>4 DEF LoadDone
    <3>2. Busy' = Busy /\ Holding' = Holding /\ Holding = {}
      BY <1>2, <3>1 DEF Busy, Holding, LifecycleInv, BootInv
    <3>3. nh = 0
      BY <3>2, FS_EmptySet
    <3>4. nb + nh <= loaded /\ loaded <= Concurrency
      BY <1>2, <2>1, <3>1, <3>3 DEF SlotInv
    <3> QED  BY <3>1, <3>2, <3>4 DEF SlotInv
  <2>5. CASE ~Halts /\ ~Boot /\ ~LoadDone
    <3>1. SlotShape /\ proc' = proc
      BY <1>2, <2>5, SlotStep
    <3>2. CASE proc = "up"
      <4>1. nb + nh <= sem /\ sem <= Concurrency
        BY <1>2, <3>2 DEF SlotInv
      <4>2. SUFFICES Cardinality(Busy') + Cardinality(Holding') <= sem' /\ sem' <= Concurrency
        BY <3>1, <3>2 DEF SlotInv
      <4>3. CASE Busy' = Busy /\ Holding' = Holding /\ sem' = sem
        BY <4>1, <4>3
      <4>4. ASSUME NEW t \in Tasks \ Holding, Busy' = Busy, Holding' = Holding \cup {t},
                   sem' = sem + 1, sem' <= Concurrency
            PROVE  Cardinality(Busy') + Cardinality(Holding') <= sem' /\ sem' <= Concurrency
        BY <2>1, <4>1, <4>4, CountSteps
      <4>5. ASSUME NEW t \in Holding, Busy' = Busy, Holding' = Holding \ {t},
                   sem' = Released \/ sem' = sem
            PROVE  Cardinality(Busy') + Cardinality(Holding') <= sem' /\ sem' <= Concurrency
        <5>1. Cardinality(Holding') = nh - 1 /\ nh >= 1
          BY <2>1, <4>5, CountSteps
        <5> QED  BY <2>1, <4>1, <4>5, <5>1 DEF Released
      <4>6. ASSUME NEW t \in Holding, NEW w \in Watchers \ Busy, Busy' = Busy \cup {w},
                   Holding' = Holding \ {t}, sem' = sem
            PROVE  Cardinality(Busy') + Cardinality(Holding') <= sem' /\ sem' <= Concurrency
        <5>1. Cardinality(Holding') = nh - 1 /\ nh >= 1 /\ Cardinality(Busy') = nb + 1
          BY <2>1, <4>6, CountSteps
        <5> QED  BY <2>1, <4>1, <4>6, <5>1
      <4>7. ASSUME NEW w \in Busy, Busy' = Busy \ {w}, Holding' = Holding, sem' = Released
            PROVE  Cardinality(Busy') + Cardinality(Holding') <= sem' /\ sem' <= Concurrency
        <5>1. Cardinality(Busy') = nb - 1 /\ nb >= 1
          BY <2>1, <4>7, CountSteps
        <5> QED  BY <2>1, <4>1, <4>7, <5>1 DEF Released
      <4> QED  BY <3>1, <3>2, <4>3, <4>4, <4>5, <4>6, <4>7 DEF SlotShape
    <3>3. CASE proc = "loading"
      <4>1. nb <= loaded /\ loaded + nl <= Concurrency /\ sem = 0
        BY <1>2, <3>3 DEF SlotInv
      <4>2. (Tracked \cap toLoad)' \subseteq Tracked \cap toLoad
        BY <1>2, <3>1, <3>3, TrackedShrinks, ToLoadShrinks
      <4>3. nlp <= nl
        BY <2>1, <4>2, FS_Subset
      <4>4. SUFFICES Cardinality(Busy') <= loaded' /\ loaded' + nlp <= Concurrency /\ sem' = 0
        BY <3>1, <3>3 DEF SlotInv
      <4>5. CASE Busy' = Busy /\ sem' = sem /\ loaded' = loaded
        BY <2>1, <4>1, <4>3, <4>5
      <4>6. ASSUME NEW w \in Busy, Busy' = Busy \ {w}, sem' = Released, loaded' = loaded
            PROVE  Cardinality(Busy') <= loaded' /\ loaded' + nlp <= Concurrency /\ sem' = 0
        <5>1. Cardinality(Busy') = nb - 1 /\ nb >= 1
          BY <2>1, <4>6, CountSteps
        <5> QED  BY <2>1, <4>1, <4>3, <4>6, <5>1 DEF Released
      <4>7. ASSUME NEW t \in Tracked \cap toLoad, NEW w \in Watchers \ Busy,
                   Busy' = Busy \cup {w}, sem' = sem, loaded' = loaded + 1,
                   toLoad' = toLoad \ {t}
            PROVE  Cardinality(Busy') <= loaded' /\ loaded' + nlp <= Concurrency /\ sem' = 0
        <5>1. Cardinality(Busy') = nb + 1
          BY <2>1, <4>7, CountSteps
        <5>2. (Tracked \cap toLoad)' \subseteq (Tracked \cap toLoad) \ {t}
          BY <4>2, <4>7
        <5>3. /\ IsFiniteSet((Tracked \cap toLoad) \ {t})
              /\ Cardinality((Tracked \cap toLoad) \ {t}) = nl - 1 /\ nl >= 1
          BY <2>1, <4>7, FS_RemoveElement, CountSteps
        <5>4. nlp <= nl - 1
          BY <5>2, <5>3, FS_Subset
        <5> QED  BY <2>1, <4>1, <4>7, <5>1, <5>4
      <4> QED  BY <3>1, <3>3, <4>5, <4>6, <4>7 DEF SlotShape
    <3>4. CASE proc = "down"
      <4>1. Busy = {} /\ loaded = 0 /\ Cardinality(Tracked) <= Concurrency /\ sem = 0
        BY <1>2, <3>4 DEF SlotInv
      <4>2. Busy' = Busy /\ sem' = sem /\ loaded' = loaded
        BY <3>1, <3>4, <4>1 DEF SlotShape
      <4>3. Tracked' \subseteq Tracked
        BY <1>2, <3>4, TrackedShrinks
      <4>4. Cardinality(Tracked') <= Cardinality(Tracked)
        BY <2>1, <4>3, FS_Subset
      <4>5. Cardinality(Tracked') \in Nat /\ Cardinality(Tracked) \in Nat
        BY Countable
      <4>6. Cardinality(Tracked') <= Concurrency
        BY <2>1, <4>1, <4>4, <4>5
      <4> QED  BY <3>1, <3>4, <4>1, <4>2, <4>6 DEF SlotInv
    <3> QED  BY <1>2, <3>2, <3>3, <3>4 DEF LifecycleInv, BootInv
  <2> QED  BY <2>2, <2>3, <2>4, <2>5
<1> QED  BY <1>1, <1>2

(* --concurrency is a limit, whatever crashes: no more than Concurrency     *)
(* tracked sandboxes run at once, provided that a runner that has crashed   *)
(* can read what it left behind.                                            *)
THEOREM LimitTheorem ==
  ASSUME IsFiniteSet(Tasks), IsFiniteSet(Watchers),
         "probeErr" \notin Faults \/ "crash" \notin Faults
  PROVE  Spec => []WithinLimit
<1>1. BootsOK /\ Finite
  BY DEF BootsOK, NoCrash, Finite
<1>2. LifecycleInv /\ ServeInv /\ SlotInv => WithinLimit
  BY <1>1, LimitFromSlots DEF WithinLimit, Tracked
<1> QED  BY <1>1, <1>2, LifecycleInvInductive, RunInvInductive, ServeInvInductive,
            SlotInvInductive, PTL DEF Spec

(* A launch that follows a kill, a check or an idle restart finds no        *)
(* sandbox that runs.                                                       *)
LEMMA NoneRunning ==
  ASSUME LifecycleInv, [Next]_vars, "crash" \notin Faults, "killErr" \notin Faults,
         NEW u \in Tasks, pc[u] \in {"acquire", "launch"} => ~HasRunning(u),
         pc'[u] \in {"acquire", "launch"}
  PROVE  ~HasRunning(u)'
<1>1. ~Halts /\ ~RecordLaunch(u)
  BY DEF Halts, Crash, RecordError, RecordLaunch, Fault, Goto, LifecycleInv, PollInv
<1>2. ASSUME pc[u] \in {"acquire", "launch"}
      PROVE  ~HasRunning(u)'
  <2>1. ~Live(u)' \/ Live(u) \/ Launch(u)
    BY SandboxStep
  <2>2. ~Launch(u)
    BY DEF Launch, Goto, LifecycleInv, PollInv
  <2>3. ~Boot /\ ~LoadRecord(u)
    BY <1>2 DEF Boot, LoadRecord, LifecycleInv, BootInv
  <2>4. rec'[u] \in {rec[u], NoRecord}
    BY <1>1, <2>3, OrdinaryStep DEF Ordinary
  <2> QED  BY <1>2, <2>1, <2>2, <2>4 DEF HasRunning
<1>3. ASSUME NEW t \in Tasks, PollStep(t) \/ PollFault(t), t # u
      PROVE  pc'[u] = pc[u]
  <2>1. PICK where \in PC : Goto(t, where)
    BY <1>1, <1>3, PollShape DEF Halts
  <2> QED  BY <1>3, <2>1 DEF Goto, LifecycleInv, PollInv
<1>4. ASSUME pc[u] \notin {"acquire", "launch"}, PollStep(u)
      PROVE  ~HasRunning(u)'
  <2>1. \A where : Goto(u, where) => pc'[u] = where
    BY DEF Goto, LifecycleInv, PollInv
  <2>2. CASE SignalReturns(u)
    BY <2>2 DEF SignalReturns, HasRunning, Live
  <2>3. CASE RestartIdle(u)
    BY <2>3 DEF RestartIdle, HasRunning, Live
  <2>4. CASE StartCheck(u)
    <3>1. ~HasRunning(u)
      BY <2>1, <2>4 DEF StartCheck
    <3> QED  BY <2>4, <3>1 DEF StartCheck, HasRunning, Live
  <2>5. CASE StopIdle(u) \/ RestartSkip(u)
    BY <2>1, <2>5 DEF StopIdle, RestartSkip
  <2>6. CASE SendTerm(u)
    BY <2>1, <2>6 DEF SendTerm, Signalling
  <2> QED
    BY <1>1, <1>4, <2>2, <2>3, <2>4, <2>5, <2>6
    DEF PollStep, TryAcquire, StartAlreadyRunning, StartGone, StartConflict, Launch
<1>5. ASSUME pc[u] \notin {"acquire", "launch"}, PollFault(u)
      PROVE  ~HasRunning(u)'
  <2>1. \A where : Goto(u, where) => pc'[u] = where
    BY DEF Goto, LifecycleInv, PollInv
  <2>2. CASE KillTimeout(u)
    <3>1. Dies(u) => ~Live(u)'
      BY SandboxAfter DEF Live
    <3>2. Exit(u, "lost") /\ sb \in [Tasks -> Sandbox]
      BY <2>2 DEF KillTimeout, LifecycleInv, SbInv
    <3>3. sb'[u].st = "exited"
      BY <3>2 DEF Exit, NoSandbox
    <3> QED  BY <3>3 DEF HasRunning, Live
  <2>3. CASE CheckError(u)
    BY <2>1, <2>3 DEF CheckError
  <2> QED  BY <1>1, <1>5, <2>2, <2>3
           DEF PollFault, KillError, StartError, Halts, Fault
<1>6. ASSUME pc[u] \notin {"acquire", "launch"}
      PROVE  pc'[u] # pc[u] /\ ~Poll
    <2>1. Poll => pc'[u] \in {"stop", "restart", "start", "idle"}
      BY DEF Poll, Arm
    <2> QED  BY <1>6, <2>1
<1>7. ASSUME NEW t \in Tasks, DriverStep(t) \/ SandboxFault(t) \/ LoadRecord(t)
      PROVE  pc' = pc
  BY <1>7
  DEF DriverStep, SandboxFault, DriverGetTask, DriverStarted, DriverRuns,
      DriverReport, DriverLostAck, DriverGivesUp, Vanish, LoadRecord, runnerMem
<1>8. ASSUME \/ User \/ Boot \/ LoadDone \/ Prune \/ UNCHANGED vars
             \/ (\E w \in Watchers : Supervise(w))
             \/ (\E acked \in BOOLEAN : Deliver(acked))
      PROVE  pc' = pc
  BY <1>8 DEF User, Boot, LoadDone, Prune, PruneList, PruneCheck, PruneError,
     PruneDestroy, PruneRemove, Supervise, Deliver, runnerMem, vars
<1> QED
  BY <1>1, <1>2, <1>3, <1>4, <1>5, <1>6, <1>7, <1>8 DEF Next, Halts

(* ExactInv is inductive.                                                   *)
LEMMA ExactInvInductive ==
  ASSUME Finite, "crash" \notin Faults, "killErr" \notin Faults
  PROVE  /\ Init => ExactInv
         /\ LifecycleInv /\ ServeInv /\ ExactInv /\ [Next]_vars => ExactInv'
<1>1. ASSUME Init  PROVE ExactInv
  BY <1>1 DEF Init, ExactInv, Busy
<1>2. ASSUME LifecycleInv, ServeInv, ExactInv, [Next]_vars
      PROVE  ExactInv'
  <2> DEFINE nb == Cardinality(Busy)
             nh == Cardinality(Holding)
  <2>1. /\ nb \in Nat /\ nh \in Nat /\ sem \in Nat
        /\ IsFiniteSet(Busy) /\ IsFiniteSet(Holding)
    BY <1>2, Countable DEF LifecycleInv, CountInv
  <2>2. \A t \in Tasks : pc'[t] \in {"acquire", "launch"} => ~HasRunning(t)'
    BY <1>2, NoneRunning DEF ExactInv
  <2>3. ~Halts
    BY DEF Halts, Crash, RecordError, Fault
  <2>4. CASE Boot
    <3>1. /\ proc = "down" /\ proc' = "loading"
          /\ toLoad' = {t \in Tasks : rec[t] # NoRecord}
          /\ UNCHANGED <<watch, loaded, sem>>
      BY <2>4 DEF Boot
    <3>2. \A t \in Tasks : rec[t] = NoRecord
      BY <1>2, <3>1 DEF ServeInv, OneBoot, NoCrash
    <3>3. Busy' = Busy
      BY <3>1 DEF Busy
    <3> QED  BY <1>2, <2>2, <3>1, <3>2, <3>3 DEF ExactInv
  <2>5. CASE LoadDone
    <3>1. proc = "loading" /\ proc' = "up" /\ sem' = loaded /\ UNCHANGED <<watch, pc>>
      BY <2>5 DEF LoadDone
    <3>2. Busy' = {} /\ Holding' = {} /\ sem' = 0
      BY <1>2, <3>1 DEF ExactInv, Busy, Holding, LifecycleInv, BootInv
    <3>3. sem' = Cardinality(Busy') + Cardinality(Holding')
      BY <3>2, FS_EmptySet
    <3> QED  BY <2>2, <3>1, <3>3 DEF ExactInv
  <2>6. CASE ~Boot /\ ~LoadDone
    <3>1. SlotShape /\ proc' = proc
      BY <1>2, <2>3, <2>6, SlotStep
    <3>2. CASE proc = "up"
      <4>1. sem = nb + nh
        BY <1>2, <3>2 DEF ExactInv
      <4>2. SUFFICES sem' = Cardinality(Busy') + Cardinality(Holding')
        BY <2>2, <3>1, <3>2 DEF ExactInv
      <4>3. CASE Busy' = Busy /\ Holding' = Holding /\ sem' = sem
        BY <4>1, <4>3
      <4>4. ASSUME NEW t \in Tasks \ Holding, Busy' = Busy, Holding' = Holding \cup {t},
                   sem' = sem + 1
            PROVE  sem' = Cardinality(Busy') + Cardinality(Holding')
        BY <2>1, <4>1, <4>4, CountSteps
      <4>5. ASSUME NEW t \in Holding, Busy' = Busy, Holding' = Holding \ {t},
                   sem' = Released \/ (sem' = sem /\ StartAlreadyRunning(t))
            PROVE  sem' = Cardinality(Busy') + Cardinality(Holding')
        <5>1. Cardinality(Holding') = nh - 1 /\ nh >= 1
          BY <2>1, <4>5, CountSteps
        <5>2. ~StartAlreadyRunning(t)
          BY <1>2 DEF ExactInv, StartAlreadyRunning, Holding
        <5> QED  BY <2>1, <4>1, <4>5, <5>1, <5>2 DEF Released
      <4>6. ASSUME NEW t \in Holding, NEW w \in Watchers \ Busy, Busy' = Busy \cup {w},
                   Holding' = Holding \ {t}, sem' = sem
            PROVE  sem' = Cardinality(Busy') + Cardinality(Holding')
        <5>1. Cardinality(Holding') = nh - 1 /\ nh >= 1 /\ Cardinality(Busy') = nb + 1
          BY <2>1, <4>6, CountSteps
        <5> QED  BY <2>1, <4>1, <4>6, <5>1
      <4>7. ASSUME NEW w \in Busy, Busy' = Busy \ {w}, Holding' = Holding, sem' = Released
            PROVE  sem' = Cardinality(Busy') + Cardinality(Holding')
        <5>1. Cardinality(Busy') = nb - 1 /\ nb >= 1
          BY <2>1, <4>7, CountSteps
        <5> QED  BY <2>1, <4>1, <4>7, <5>1 DEF Released
      <4> QED  BY <3>1, <3>2, <4>3, <4>4, <4>5, <4>6, <4>7 DEF SlotShape
    <3>3. CASE proc # "up"
      <4>1. Busy = {} /\ loaded = 0 /\ sem = 0 /\ toLoad = {}
        BY <1>2, <3>3 DEF ExactInv
      <4>2. Busy' = Busy /\ sem' = sem /\ loaded' = loaded
        BY <3>1, <3>3, <4>1 DEF SlotShape
      <4>3. toLoad' = {}
        <5>1. CASE proc = "loading"
          BY <1>2, <3>1, <4>1, <5>1, ToLoadShrinks
        <5>2. CASE proc = "down"
          BY <1>2, <3>1, <5>2, LifecycleInvInductive DEF LifecycleInv, BootInv
        <5> QED  BY <1>2, <3>3, <5>1, <5>2 DEF LifecycleInv, BootInv
      <4> QED  BY <2>2, <3>1, <3>3, <4>1, <4>2, <4>3 DEF ExactInv
    <3> QED  BY <3>2, <3>3
  <2> QED  BY <2>4, <2>5, <2>6
<1> QED  BY <1>1, <1>2

(* As long as the runner does not crash and its kills do not fail, the      *)
(* semaphore counts exactly the goroutines that hold a slot: none leaks     *)
(* and none is released twice.                                              *)
THEOREM SlotsTheorem ==
  ASSUME IsFiniteSet(Tasks), IsFiniteSet(Watchers),
         "crash" \notin Faults, "killErr" \notin Faults
  PROVE  Spec => []SlotsAccounted
<1>1. BootsOK /\ Finite
  BY DEF BootsOK, NoCrash, Finite
<1>2. ExactInv => SlotsAccounted
  BY DEF ExactInv, SlotsAccounted, Holders, Busy, Holding, Up
<1> QED  BY <1>1, <1>2, LifecycleInvInductive, RunInvInductive, ServeInvInductive,
            ExactInvInductive, PTL DEF Spec

=============================================================================
