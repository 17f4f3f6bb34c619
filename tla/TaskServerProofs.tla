-------------------------- MODULE TaskServerProofs --------------------------
(***************************************************************************)
(* The guarantees of TaskServer, proved for any number of tasks, sessions  *)
(* and runs.  The inductive invariant ServerInv speaks of one row at a     *)
(* time: a lemma per transition of module Task shows that it takes a good  *)
(* row to a good row, and ServerNext changes rows only by transitions.     *)
(***************************************************************************)
EXTENDS TaskServer, TLAPS

(* What every row of the table satisfies.  The first four parts are the     *)
(* invariants of TaskServer; the last is the strengthening that makes the   *)
(* type invariant inductive: a start queued on a running task bumps the     *)
(* counter when the run stops, so it must be under the bound already.       *)
GoodRow(r) ==
  /\ r \in Row
  /\ r.command \in Commands(r.status)
  /\ r.archived => r.status \in Terminal \cup {"Draft"} /\ r.command = "None"
  /\ r.version = 0 <=> r.status = "Draft"
  /\ r.status = "Running" /\ r.command = "Start" => r.version < MaxVersion

ServerInv ==
  /\ ServerTypeOK
  /\ \A t \in Tasks : tasks[t] = NoTask \/ GoodRow(tasks[t])

-----------------------------------------------------------------------------
(* Lemmas about the transitions of module Task.                             *)

(* A bump below the bound stays within it.                                  *)
LEMMA BumpFits ==
  ASSUME NEW v \in 0..MaxVersion, v < MaxVersion
  PROVE  v + 1 \in 0..MaxVersion /\ v + 1 # 0
BY ServerAssumption

(* Start keeps a row good, if a bump it makes or promises fits the bound.   *)
LEMMA StartGood ==
  ASSUME NEW r, GoodRow(r), CanStart(r) => r.version < MaxVersion
  PROVE  GoodRow(Start(r))
<1>1. CASE ~CanStart(r)
  BY <1>1 DEF Start
<1>2. CASE CanStart(r) /\ r.status = "Running"
  <2>1. Start(r) = [r EXCEPT !.command = "Start"]
    BY <1>2 DEF Start
  <2> QED  BY <1>2, <2>1 DEF GoodRow, CanStart, Row, Status, Terminal, Command,
              Commands
<1>3. CASE CanStart(r) /\ r.status # "Running"
  <2>1. Start(r) = [r EXCEPT !.status = "Pending", !.command = "Start",
                             !.version = r.version + 1]
    BY <1>3 DEF Start
  <2>2. r.version + 1 \in 0..MaxVersion /\ r.version + 1 # 0
    BY <1>3, BumpFits DEF GoodRow, Row
  <2> QED  BY <1>3, <2>1, <2>2 DEF GoodRow, CanStart, Row, Status, Terminal,
              Command, Commands
<1> QED  BY <1>1, <1>2, <1>3

(* Restart keeps a row good, if the bump fits the bound.                    *)
LEMMA RestartGood ==
  ASSUME NEW r, GoodRow(r), CanRestart(r) => r.version < MaxVersion
  PROVE  GoodRow(Restart(r))
<1>1. CASE ~CanRestart(r)
  BY <1>1 DEF Restart
<1>2. CASE CanRestart(r)
  <2>1. PICK s \in {"Restarting", "Pending"} :
          Restart(r) = [r EXCEPT !.status = s, !.command = "Restart",
                                 !.version = r.version + 1]
    BY <1>2 DEF Restart
  <2>2. r.version + 1 \in 0..MaxVersion /\ r.version + 1 # 0
    BY <1>2, BumpFits DEF GoodRow, Row
  <2> QED  BY <1>2, <2>1, <2>2 DEF GoodRow, CanRestart, Row, Status, Terminal,
              Command, Commands
<1> QED  BY <1>1, <1>2

(* Cancel keeps a row good.                                                 *)
LEMMA CancelGood ==
  ASSUME NEW r, GoodRow(r)
  PROVE  GoodRow(Cancel(r))
BY DEF GoodRow, CanCancel, Cancel, Row, Status, Terminal, Command, Commands

(* Archive and Unarchive keep a row good.                                   *)
LEMMA ArchiveGood ==
  ASSUME NEW r, GoodRow(r)
  PROVE  GoodRow(Archive(r)) /\ GoodRow(Unarchive(r))
BY DEF GoodRow, IsDone, CanArchive, Archive, CanUnarchive, Unarchive, Row,
   Status, Terminal, Command, Commands

(* A report keeps a row good, whichever run it is about, except a started   *)
(* report for an archived row, which no driver's token lets through.        *)
LEMMA EventGood ==
  ASSUME NEW r, GoodRow(r), NEW e, e.event = "started" => ~r.archived
  PROVE  GoodRow(ApplyRunnerEvent(r, e))
<1>1. CASE ~EventApplies(r, e)
  BY <1>1 DEF ApplyRunnerEvent
<1>2. CASE EventApplies(r, e) /\ e.event = "started"
  <2>1. ApplyRunnerEvent(r, e) = StartedRow(r) /\ StartedApplies(r)
    BY <1>2 DEF ApplyRunnerEvent, EventApplies
  <2>2. GoodRow(StartedRow(r))
    BY <1>2, <2>1 DEF GoodRow, StartedApplies, StartedRow, Row, Status,
       Terminal, Command, Commands
  <2> QED  BY <2>1, <2>2
<1>3. CASE EventApplies(r, e) /\ e.event = "stopped"
  <2>1. ApplyRunnerEvent(r, e) = StoppedRow(r) /\ StoppedApplies(r)
    BY <1>3 DEF ApplyRunnerEvent, EventApplies
  <2>2. CASE r.command = "Start"
    <3>1. r.version + 1 \in 0..MaxVersion /\ r.version + 1 # 0
      BY <2>1, <2>2, BumpFits DEF GoodRow, Row, StoppedApplies, Commands
    <3>2. StoppedRow(r) = [r EXCEPT !.status = "Pending",
                                    !.version = r.version + 1]
      BY <2>2 DEF StoppedRow
    <3> QED  BY <2>1, <2>2, <3>1, <3>2 DEF GoodRow, StoppedApplies, Row, Status,
                Terminal, Command, Commands
  <2>3. CASE r.command # "Start"
    <3>1. \/ StoppedRow(r) = [r EXCEPT !.status = "Cancelled", !.command = "None"]
          \/ StoppedRow(r) = [r EXCEPT !.status = "Completed"] /\ r.command # "Stop"
      BY <2>3 DEF StoppedRow
    <3> QED  BY <2>1, <2>3, <3>1 DEF GoodRow, StoppedApplies, Row, Status,
                Terminal, Command, Commands
  <2> QED  BY <2>1, <2>2, <2>3
<1>4. CASE EventApplies(r, e) /\ e.event = "failed"
  <2>1. ApplyRunnerEvent(r, e) = FailedRow(r) /\ FailedApplies(r)
    BY <1>4 DEF ApplyRunnerEvent, EventApplies
  <2>2. GoodRow(FailedRow(r))
    BY <2>1 DEF GoodRow, FailedApplies, FailedRow, Row, Status, Terminal,
       Command, Commands
  <2> QED  BY <2>1, <2>2
<1> QED  BY <1>1, <1>2, <1>3, <1>4 DEF EventApplies

(* NoTask is told apart from every row by its status.                       *)
LEMMA NoTaskAbsent ==
  /\ NoTask.status = "Absent"
  /\ \A r : GoodRow(r) => r.status # "Absent"
BY DEF NoTask, GoodRow, Row, Status, Terminal

-----------------------------------------------------------------------------
(* A step that sets one row to a good row preserves the invariant.          *)
LEMMA SetRowInv ==
  ASSUME ServerInv, NEW t \in Tasks, NEW r, GoodRow(r), SetRow(t, r)
  PROVE  ServerInv'
<1>1. r \in Row
  BY DEF GoodRow
<1>2. tasks' \in [Tasks -> Row \cup {NoTask}]
  BY <1>1 DEF ServerInv, ServerTypeOK, SetRow
<1>3. \A u \in Tasks : tasks'[u] = IF u = t THEN r ELSE tasks[u]
  BY DEF ServerInv, ServerTypeOK, SetRow
<1>4. \A u \in Tasks : tasks'[u] = NoTask \/ GoodRow(tasks'[u])
  BY <1>3 DEF ServerInv
<1> QED  BY <1>2, <1>4 DEF ServerInv, ServerTypeOK, GoodRow, Row

(* Changing the columns no transition depends on keeps a row good.          *)
LEMMA ColumnsGood ==
  ASSUME NEW r, GoodRow(r)
  PROVE  /\ \A aa \in AutoArchives \cup {0} : GoodRow([r EXCEPT !.autoArchive = aa])
         /\ \A s \in Sessions \cup {NoSession} : GoodRow([r EXCEPT !.shellSession = s])
BY DEF GoodRow, Row, Commands

(* A row that exists is a good one.                                         *)
LEMMA ExistsGood ==
  ASSUME ServerInv, NEW t \in Tasks, Exists(t)
  PROVE  GoodRow(tasks[t])
BY NoTaskAbsent DEF ServerInv, Exists

(* The invariant holds initially and every step of the server keeps it.     *)
LEMMA ServerInvInductive ==
  /\ ServerInit => ServerInv
  /\ ServerInv /\ [ServerNext]_tasks => ServerInv'
<1>1. ServerInit => ServerInv
  BY DEF ServerInit, ServerInv, ServerTypeOK
<1>2. ASSUME ServerInv, [ServerNext]_tasks PROVE ServerInv'
  <2> USE <1>2
  <2>1. CASE UNCHANGED tasks
    BY <2>1 DEF ServerInv, ServerTypeOK, GoodRow, Row
  <2>2. ASSUME NEW t \in Tasks, NEW draft \in BOOLEAN,
               NEW aa \in AutoArchives \cup {0}, CreateTask(t, draft, aa)
        PROVE  ServerInv'
    <3>1. 0 \in 0..MaxVersion /\ 1 \in 0..MaxVersion
      BY ServerAssumption
    <3>2. GoodRow(NewTask(TRUE, aa))
      BY <3>1 DEF NewTask, GoodRow, Row, Status, Terminal, Command, Commands
    <3>3. GoodRow(NewTask(FALSE, aa))
      BY <3>1, ServerAssumption
      DEF NewTask, GoodRow, Row, Status, Terminal, Command, Commands
    <3>4. GoodRow(NewTask(draft, aa))
      BY <3>2, <3>3
    <3> QED  BY <2>2, <3>4, SetRowInv DEF CreateTask
  <2>3. ASSUME NEW t \in Tasks, NEW start \in BOOLEAN,
               NEW aa \in AutoArchives \cup {0, tasks[t].autoArchive},
               UpdateTask(t, start, aa)
        PROVE  ServerInv'
    <3> DEFINE r == IF start THEN Start(tasks[t]) ELSE tasks[t]
    <3>1. GoodRow(tasks[t])
      BY <2>3, ExistsGood DEF UpdateTask
    <3>2. GoodRow(r)
      BY <2>3, <3>1, StartGood DEF UpdateTask, MayBump
    <3>3. aa \in AutoArchives \cup {0}
      BY <3>1 DEF GoodRow, Row
    <3>4. SetRow(t, [r EXCEPT !.autoArchive = aa])
      BY <2>3 DEF UpdateTask
    <3> HIDE DEF r
    <3> QED  BY <3>2, <3>3, <3>4, ColumnsGood, SetRowInv
  <2>4. ASSUME NEW t \in Tasks, ArchiveTask(t) \/ UnarchiveTask(t)
        PROVE  ServerInv'
    BY <2>4, ExistsGood, ArchiveGood, SetRowInv DEF ArchiveTask, UnarchiveTask
  <2>5. ASSUME NEW t \in Tasks, CancelTask(t)
        PROVE  ServerInv'
    BY <2>5, ExistsGood, CancelGood, SetRowInv DEF CancelTask
  <2>6. ASSUME NEW t \in Tasks, RestartTask(t)
        PROVE  ServerInv'
    BY <2>6, ExistsGood, RestartGood, SetRowInv DEF RestartTask, MayBump
  <2>7. ASSUME NEW t \in Tasks, NEW s \in Sessions, OpenShell(t, s)
        PROVE  ServerInv'
    <3>1. GoodRow(Start(tasks[t]))
      BY <2>7, ExistsGood, StartGood DEF OpenShell, MayBump
    <3>2. GoodRow([Start(tasks[t]) EXCEPT !.shellSession = s])
      BY <3>1, ColumnsGood
    <3> QED  BY <2>7, <3>2, SetRowInv DEF OpenShell
  <2>8. ASSUME NEW s \in Sessions, ClearShellSession(s)
        PROVE  ServerInv'
    <3>1. ASSUME NEW t \in Tasks
          PROVE  tasks'[t] = NoTask \/ GoodRow(tasks'[t])
      <4>1. CASE tasks[t].shellSession = s
        <5>1. GoodRow(tasks[t])
          BY <4>1, ServerAssumption DEF ServerInv, NoTask
        <5>2. tasks'[t] = [tasks[t] EXCEPT !.shellSession = NoSession]
          BY <2>8, <4>1 DEF ClearShellSession
        <5> QED  BY <5>1, <5>2, ColumnsGood
      <4>2. CASE tasks[t].shellSession # s
        <5>1. tasks'[t] = tasks[t]
          BY <2>8, <4>2 DEF ClearShellSession
        <5> QED  BY <5>1 DEF ServerInv
      <4> QED  BY <4>1, <4>2
    <3>2. tasks' = [t \in Tasks |-> tasks'[t]]
      BY <2>8 DEF ClearShellSession
    <3>3. tasks' \in [Tasks -> Row \cup {NoTask}]
      <4>1. \A t \in Tasks : tasks'[t] \in Row \cup {NoTask}
        BY <3>1 DEF GoodRow
      <4> QED  BY <3>2, <4>1
    <3> QED  BY <3>1, <3>3 DEF ServerInv, ServerTypeOK, GoodRow, Row
  <2>9. ASSUME NEW t \in Tasks, NEW e \in RunnerEvent,
               e.event = "started" => ~tasks[t].archived,
               SubmitRunnerEvent(t, e)
        PROVE  ServerInv'
    BY <2>9, ExistsGood, EventGood, SetRowInv DEF SubmitRunnerEvent
  <2>10. CASE UserStep
    BY <2>10, <2>2, <2>3, <2>4, <2>5, <2>6, <2>7, <2>8 DEF UserStep
  <2>11. CASE ReporterStep
    BY <2>11, <2>9 DEF ReporterStep
  <2> QED  BY <1>2, <2>1, <2>10, <2>11 DEF ServerNext
<1> QED  BY <1>1, <1>2

-----------------------------------------------------------------------------
(* Every column always holds a value of its type.                           *)
THEOREM ServerTypeCorrect == ServerSpec => []ServerTypeOK
<1>1. ServerInv => ServerTypeOK
  BY DEF ServerInv
<1> QED  BY <1>1, ServerInvInductive, PTL DEF ServerSpec

(* Whatever reports arrive, in whatever order, the command a row carries is *)
(* the one its status waits for.                                            *)
THEOREM CommandAlwaysFits == ServerSpec => []CommandFitsStatus
<1>1. ServerInv => CommandFitsStatus
  <2> SUFFICES ASSUME ServerInv, NEW t \in Tasks
               PROVE  tasks[t].command \in Commands(tasks[t].status)
    BY DEF CommandFitsStatus
  <2>1. CASE tasks[t] = NoTask
    BY <2>1 DEF NoTask, Commands
  <2>2. CASE GoodRow(tasks[t])
    BY <2>2 DEF GoodRow
  <2> QED  BY <2>1, <2>2 DEF ServerInv
<1> QED  BY <1>1, ServerInvInductive, PTL DEF ServerSpec

(* No report moves an archived task out of rest.                            *)
THEOREM ArchivedStaysAtRest == ServerSpec => []ArchivedAtRest
<1>1. ServerInv => ArchivedAtRest
  BY DEF ServerInv, ArchivedAtRest, NoTask, GoodRow
<1> QED  BY <1>1, ServerInvInductive, PTL DEF ServerSpec

(* Exactly the drafts are at version 0.                                     *)
THEOREM DraftsUnprovisioned == ServerSpec => []DraftIffUnprovisioned
<1>1. ServerInv => DraftIffUnprovisioned
  BY ExistsGood DEF DraftIffUnprovisioned, GoodRow
<1> QED  BY <1>1, ServerInvInductive, PTL DEF ServerSpec

-----------------------------------------------------------------------------
(* The action properties.  RowStep says of one row what they say of the     *)
(* table, and that only a new run is asked for by a restart; the same       *)
(* lemmas as above show it of every transition.                             *)

RowStep(r, q) ==
  /\ q.version # r.version =>
       /\ q.version = r.version + 1
       /\ q.status \in {"Pending", "Restarting"}
       /\ HasPendingWork(q)
  /\ Over(r) /\ q.version = r.version => Over(q)
  /\ /\ r.status = "Running" /\ r.command = "Start"
     /\ q.status \notin {"Running", "Failed", "Cancelling", "Restarting"}
     => /\ q.status = "Pending"
        /\ q.command = "Start"
        /\ q.version = r.version + 1
  /\ q.command = "Restart" /\ r.command # "Restart" => q.version = r.version + 1

(* What RowStep looks at.                                                   *)
SameRun(r, q) ==
  /\ q.status = r.status
  /\ q.command = r.command
  /\ q.version = r.version
  /\ q.archived = r.archived

(* RowStep does not look at the other columns of the row it reaches.        *)
LEMMA SameRunStep ==
  ASSUME NEW r, NEW q, NEW p, RowStep(r, q), SameRun(q, p)
  PROVE  RowStep(r, p)
BY DEF RowStep, SameRun, HasPendingWork, Over

(* A row whose run does not change makes a RowStep.                         *)
LEMMA StayStep ==
  ASSUME NEW r, NEW q, SameRun(r, q)
  PROVE  RowStep(r, q)
BY DEF RowStep, SameRun, HasPendingWork, Over

(* Start bumps by one onto a pending row, or queues.                        *)
LEMMA StartStep ==
  ASSUME NEW r, GoodRow(r)
  PROVE  RowStep(r, Start(r))
<1>1. CASE ~CanStart(r)
  BY <1>1, StayStep DEF Start, SameRun
<1>2. CASE CanStart(r) /\ r.status = "Running"
  <2>1. Start(r) = [r EXCEPT !.command = "Start"]
    BY <1>2 DEF Start
  <2> QED  BY <1>2, <2>1 DEF GoodRow, Row, RowStep, Over, Terminal
<1>3. CASE CanStart(r) /\ r.status # "Running"
  <2>1. Start(r) = [r EXCEPT !.status = "Pending", !.command = "Start",
                             !.version = r.version + 1]
    BY <1>3 DEF Start
  <2> QED  BY <1>3, <2>1, ServerAssumption
           DEF GoodRow, Row, RowStep, CanStart, HasPendingWork
<1> QED  BY <1>1, <1>2, <1>3

(* Restart bumps by one onto a row that waits for the restart.              *)
LEMMA RestartStep ==
  ASSUME NEW r, GoodRow(r), CanRestart(r)
  PROVE  RowStep(r, Restart(r))
<1>1. PICK s \in {"Restarting", "Pending"} :
        /\ Restart(r) = [r EXCEPT !.status = s, !.command = "Restart",
                                  !.version = r.version + 1]
        /\ r.status = "Running" => s = "Restarting"
  BY DEF Restart
<1> QED  BY <1>1, ServerAssumption
         DEF GoodRow, Row, RowStep, CanRestart, HasPendingWork

(* Cancel never bumps, and leaves a run that is over, over.                 *)
LEMMA CancelStep ==
  ASSUME NEW r, GoodRow(r)
  PROVE  RowStep(r, Cancel(r))
BY DEF GoodRow, Row, RowStep, CanCancel, Cancel, Over, Terminal

(* A report bumps only to provision a queued wake, and revives nothing.     *)
LEMMA EventStep ==
  ASSUME NEW r, GoodRow(r), NEW e, e.event = "started" => ~r.archived
  PROVE  RowStep(r, ApplyRunnerEvent(r, e))
<1>1. CASE ~EventApplies(r, e)
  BY <1>1, StayStep DEF ApplyRunnerEvent, SameRun
<1>2. CASE EventApplies(r, e) /\ e.event = "started"
  <2>1. ApplyRunnerEvent(r, e) = StartedRow(r) /\ StartedApplies(r)
    BY <1>2 DEF ApplyRunnerEvent, EventApplies
  <2>2. RowStep(r, StartedRow(r))
    BY <1>2, <2>1 DEF GoodRow, Row, StartedApplies, StartedRow, RowStep, Over,
       Terminal
  <2> QED  BY <2>1, <2>2
<1>3. CASE EventApplies(r, e) /\ e.event = "stopped"
  <2>1. ApplyRunnerEvent(r, e) = StoppedRow(r) /\ StoppedApplies(r)
    BY <1>3 DEF ApplyRunnerEvent, EventApplies
  <2>2. CASE r.command = "Start"
    <3>1. StoppedRow(r) = [r EXCEPT !.status = "Pending",
                                    !.version = r.version + 1]
      BY <2>2 DEF StoppedRow
    <3> QED  BY <2>1, <2>2, <3>1, ServerAssumption
             DEF GoodRow, Row, StoppedApplies, RowStep, HasPendingWork, Commands,
                 Terminal
  <2>3. CASE r.command # "Start"
    <3>1. \/ StoppedRow(r) = [r EXCEPT !.status = "Cancelled", !.command = "None"]
          \/ StoppedRow(r) = [r EXCEPT !.status = "Completed"]
      BY <2>3 DEF StoppedRow
    <3>2. /\ StoppedRow(r).version = r.version
          /\ StoppedRow(r).status \in Terminal
          /\ StoppedRow(r).command \in {"None", r.command}
      BY <3>1 DEF GoodRow, Row, Terminal
    <3>3. RowStep(r, StoppedRow(r))
      BY <2>3, <3>2 DEF RowStep, Over
    <3> QED  BY <2>1, <3>3
  <2> QED  BY <2>1, <2>2, <2>3
<1>4. CASE EventApplies(r, e) /\ e.event = "failed"
  <2>1. ApplyRunnerEvent(r, e) = FailedRow(r)
    BY <1>4 DEF ApplyRunnerEvent, EventApplies
  <2>2. RowStep(r, FailedRow(r))
    BY DEF GoodRow, Row, FailedRow, RowStep, Over, Terminal
  <2> QED  BY <2>1, <2>2
<1> QED  BY <1>1, <1>2, <1>3, <1>4 DEF EventApplies

(* A handler steps one row and leaves the others alone.                     *)
LEMMA SetRowStep ==
  ASSUME ServerInv, NEW t \in Tasks, NEW r, SetRow(t, r), RowStep(tasks[t], r)
  PROVE  \A u \in Tasks : RowStep(tasks[u], tasks'[u])
<1>1. \A u \in Tasks : tasks'[u] = IF u = t THEN r ELSE tasks[u]
  BY DEF ServerInv, ServerTypeOK, SetRow
<1>2. \A u \in Tasks : RowStep(tasks[u], tasks[u])
  BY StayStep DEF SameRun
<1> QED  BY <1>1, <1>2

(* Every step of the server is a RowStep of every row.                      *)
LEMMA ServerRowStep ==
  ASSUME ServerInv, ServerNext
  PROVE  \A u \in Tasks : RowStep(tasks[u], tasks'[u])
<1>1. ASSUME NEW t \in Tasks, NEW draft \in BOOLEAN,
             NEW aa \in AutoArchives \cup {0}, CreateTask(t, draft, aa)
      PROVE  \A u \in Tasks : RowStep(tasks[u], tasks'[u])
  <2>1. tasks[t] = NoTask
    BY <1>1, NoTaskAbsent DEF CreateTask, ServerInv, Exists
  <2>2. RowStep(NoTask, NewTask(draft, aa))
    BY DEF NoTask, NewTask, RowStep, Over, HasPendingWork, Terminal
  <2> QED  BY <1>1, <2>1, <2>2, SetRowStep DEF CreateTask
<1>2. ASSUME NEW t \in Tasks, NEW start \in BOOLEAN,
             NEW aa \in AutoArchives \cup {0, tasks[t].autoArchive},
             UpdateTask(t, start, aa)
      PROVE  \A u \in Tasks : RowStep(tasks[u], tasks'[u])
  <2> DEFINE r == IF start THEN Start(tasks[t]) ELSE tasks[t]
  <2>1. GoodRow(tasks[t]) /\ GoodRow(r)
    BY <1>2, ExistsGood, StartGood DEF UpdateTask, MayBump
  <2>2. RowStep(tasks[t], r)
    BY <2>1, StartStep, StayStep DEF SameRun
  <2>3. SetRow(t, [r EXCEPT !.autoArchive = aa])
    BY <1>2 DEF UpdateTask
  <2> HIDE DEF r
  <2>4. SameRun(r, [r EXCEPT !.autoArchive = aa])
    BY <2>1 DEF GoodRow, Row, SameRun
  <2> QED  BY <2>2, <2>3, <2>4, SameRunStep, SetRowStep
<1>3. ASSUME NEW t \in Tasks, ArchiveTask(t) \/ UnarchiveTask(t)
      PROVE  \A u \in Tasks : RowStep(tasks[u], tasks'[u])
  <2>1. GoodRow(tasks[t])
    BY <1>3, ExistsGood DEF ArchiveTask, UnarchiveTask
  <2>2. RowStep(tasks[t], Archive(tasks[t])) /\ RowStep(tasks[t], Unarchive(tasks[t]))
    BY <2>1 DEF GoodRow, Row, RowStep, Archive, Unarchive, Over
  <2> QED  BY <1>3, <2>2, SetRowStep DEF ArchiveTask, UnarchiveTask
<1>4. ASSUME NEW t \in Tasks, CancelTask(t)
      PROVE  \A u \in Tasks : RowStep(tasks[u], tasks'[u])
  BY <1>4, ExistsGood, CancelStep, SetRowStep DEF CancelTask
<1>5. ASSUME NEW t \in Tasks, RestartTask(t)
      PROVE  \A u \in Tasks : RowStep(tasks[u], tasks'[u])
  BY <1>5, ExistsGood, RestartStep, SetRowStep DEF RestartTask
<1>6. ASSUME NEW t \in Tasks, NEW s \in Sessions, OpenShell(t, s)
      PROVE  \A u \in Tasks : RowStep(tasks[u], tasks'[u])
  <2> DEFINE r == Start(tasks[t])
  <2>1. GoodRow(tasks[t]) /\ GoodRow(r)
    BY <1>6, ExistsGood, StartGood DEF OpenShell, MayBump
  <2>2. RowStep(tasks[t], r)
    BY <2>1, StartStep
  <2>3. SetRow(t, [r EXCEPT !.shellSession = s])
    BY <1>6 DEF OpenShell
  <2> HIDE DEF r
  <2>4. SameRun(r, [r EXCEPT !.shellSession = s])
    BY <2>1 DEF GoodRow, Row, SameRun
  <2> QED  BY <2>2, <2>3, <2>4, SameRunStep, SetRowStep
<1>7. ASSUME NEW s \in Sessions, ClearShellSession(s)
      PROVE  \A u \in Tasks : RowStep(tasks[u], tasks'[u])
  <2> SUFFICES ASSUME NEW u \in Tasks
               PROVE  RowStep(tasks[u], tasks'[u])
    OBVIOUS
  <2>1. CASE tasks[u].shellSession = s
    <3>1. tasks'[u] = [tasks[u] EXCEPT !.shellSession = NoSession]
      BY <1>7, <2>1 DEF ClearShellSession
    <3>2. GoodRow(tasks[u])
      BY <2>1, ServerAssumption DEF ServerInv, NoTask
    <3>3. SameRun(tasks[u], tasks'[u])
      BY <3>1, <3>2 DEF GoodRow, Row, SameRun
    <3> QED  BY <3>3, StayStep
  <2>2. CASE tasks[u].shellSession # s
    <3>1. tasks'[u] = tasks[u]
      BY <1>7, <2>2 DEF ClearShellSession
    <3> QED  BY <3>1, StayStep DEF SameRun
  <2> QED  BY <2>1, <2>2
<1>8. ASSUME NEW t \in Tasks, NEW e \in RunnerEvent,
             e.event = "started" => ~tasks[t].archived,
             SubmitRunnerEvent(t, e)
      PROVE  \A u \in Tasks : RowStep(tasks[u], tasks'[u])
  BY <1>8, ExistsGood, EventStep, SetRowStep DEF SubmitRunnerEvent
<1>9. CASE UserStep
  BY <1>9, <1>1, <1>2, <1>3, <1>4, <1>5, <1>6, <1>7 DEF UserStep
<1>10. CASE ReporterStep
  BY <1>10, <1>8 DEF ReporterStep
<1> QED  BY <1>9, <1>10 DEF ServerNext

(* The run counter only ever moves by one, onto a row that asks for the new *)
(* run.                                                                     *)
THEOREM RunCounterTheorem == ServerSpec => RunCounterMonotone
<1>1. ServerInv /\ [ServerNext]_tasks
        => [\A t \in Tasks :
              tasks'[t].version # tasks[t].version =>
                /\ tasks'[t].version = tasks[t].version + 1
                /\ tasks'[t].status \in {"Pending", "Restarting"}
                /\ HasPendingWork(tasks'[t])]_tasks
  BY ServerRowStep DEF RowStep
<1> QED  BY <1>1, ServerInvInductive, PTL DEF ServerSpec, RunCounterMonotone

(* A run that is over is never brought back to running.                     *)
THEOREM RunNeverResurrectedTheorem == ServerSpec => RunNeverResurrected
<1>1. ServerInv /\ [ServerNext]_tasks
        => [\A t \in Tasks :
              /\ Over(tasks[t])
              /\ tasks'[t].version = tasks[t].version
              => Over(tasks'[t])]_tasks
  BY ServerRowStep DEF RowStep
<1> QED  BY <1>1, ServerInvInductive, PTL DEF ServerSpec, RunNeverResurrected

(* An ordinary stop provisions the next run for a queued wake.              *)
THEOREM QueuedWakeTheorem == ServerSpec => QueuedWakeProvisions
<1>1. ServerInv /\ [ServerNext]_tasks
        => [\A t \in Tasks :
              /\ tasks[t].status = "Running" /\ tasks[t].command = "Start"
              /\ tasks'[t].status \notin {"Running", "Failed", "Cancelling", "Restarting"}
              => /\ tasks'[t].status = "Pending"
                 /\ tasks'[t].command = "Start"
                 /\ tasks'[t].version = tasks[t].version + 1]_tasks
  BY ServerRowStep DEF RowStep
<1> QED  BY <1>1, ServerInvInductive, PTL DEF ServerSpec, QueuedWakeProvisions
=============================================================================
