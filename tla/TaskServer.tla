----------------------------- MODULE TaskServer -----------------------------
(***************************************************************************)
(* The server's half of a task: the rows of the tasks table and the        *)
(* handlers of internal/server/apiserver that write them.  Every handler   *)
(* runs SELECT ... FOR UPDATE, the model transition and the UPDATE in one  *)
(* transaction, so each is one atomic action on one row.                   *)
(*                                                                         *)
(* Runner events come from an unconstrained reporter: any event, of any    *)
(* run the row has had or of none (version 0), in any order and any number *)
(* of times.  The one restriction is the one the tokens enforce: "started" *)
(* is only sent by a driver, whose token requires task.archived = false.   *)
(* The module is therefore both the server component and the abstract      *)
(* specification that TaskLifecycle, with a concrete runner and driver,    *)
(* is shown to implement.                                                  *)
(***************************************************************************)
EXTENDS Task

CONSTANTS
  Tasks,          \* task ids
  Sessions,       \* shell session ids OpenShell can mint
  AutoArchives,   \* auto_archive durations a request can carry
  MaxVersion      \* bound on the run counter

ASSUME ServerAssumption ==
  /\ MaxVersion \in Nat \ {0}
  /\ AutoArchives \subseteq Int
  /\ NoSession \notin Sessions

VARIABLE tasks    \* the tasks table: a row per id, NoTask before the insert

Row == [status       : Status,
        command      : Command,
        version      : 0..MaxVersion,
        archived     : BOOLEAN,
        autoArchive  : AutoArchives \cup {0},
        shellSession : Sessions \cup {NoSession}]

NoTask == [status       |-> "Absent",
           command      |-> "None",
           version      |-> 0,
           archived     |-> FALSE,
           autoArchive  |-> 0,
           shellSession |-> NoSession]

Exists(t) == tasks[t].status # "Absent"

RunnerEvent ==
  [event : EventKind, version : 0..MaxVersion, reconcile : BOOLEAN]

Event(kind, v) == [event |-> kind, version |-> v, reconcile |-> FALSE]

(* A bump past MaxVersion is the one thing the bound forbids.  A start      *)
(* queued on a running task bumps later, when the run stops, so it must fit *)
(* under the bound as well.                                                 *)
MayBump(t) == tasks[t].version < MaxVersion

SetRow(t, row) == tasks' = [tasks EXCEPT ![t] = row]

ServerInit == tasks = [t \in Tasks |-> NoTask]

-----------------------------------------------------------------------------
NewTask(draft, aa) ==
  [status       |-> IF draft THEN "Draft" ELSE "Pending",
   command      |-> IF draft THEN "None" ELSE "Start",
   version      |-> IF draft THEN 0 ELSE 1,
   archived     |-> FALSE,
   autoArchive  |-> aa,
   shellSession |-> NoSession]

CreateTask(t, draft, aa) ==
  /\ ~Exists(t)
  /\ SetRow(t, NewTask(draft, aa))

(* UpdateTask discards the result of Start: a request to start a task that  *)
(* cannot be started still writes the other fields.                         *)
UpdateTask(t, start, aa) ==
  LET started == IF start THEN Start(tasks[t]) ELSE tasks[t]
  IN  /\ Exists(t)
      /\ start /\ CanStart(tasks[t]) => MayBump(t)
      /\ SetRow(t, [started EXCEPT !.autoArchive = aa])

ArchiveTask(t) ==
  /\ Exists(t)
  /\ CanArchive(tasks[t])
  /\ SetRow(t, Archive(tasks[t]))

UnarchiveTask(t) ==
  /\ Exists(t)
  /\ CanUnarchive(tasks[t])
  /\ SetRow(t, Unarchive(tasks[t]))

CancelTask(t) ==
  /\ Exists(t)
  /\ CanCancel(tasks[t])
  /\ SetRow(t, Cancel(tasks[t]))

RestartTask(t) ==
  /\ Exists(t)
  /\ CanRestart(tasks[t])
  /\ MayBump(t)
  /\ SetRow(t, Restart(tasks[t]))

(* Session ids are random, so one that another task holds is never minted.  *)
OpenShell(t, s) ==
  /\ Exists(t)
  /\ IsDone(tasks[t])
  /\ CanStart(tasks[t])
  /\ MayBump(t)
  /\ \A u \in Tasks : tasks[u].shellSession # s
  /\ SetRow(t, [Start(tasks[t]) EXCEPT !.shellSession = s])

(* The relay's onClose callback: UPDATE ... WHERE shell_session = s.        *)
ClearShellSession(s) ==
  /\ \E t \in Tasks : tasks[t].shellSession = s
  /\ tasks' = [t \in Tasks |->
                 IF tasks[t].shellSession = s
                   THEN [tasks[t] EXCEPT !.shellSession = NoSession]
                   ELSE tasks[t]]

(* One event of SubmitRunnerEvents: an event that does not apply is acked   *)
(* and nothing is written.                                                  *)
SubmitRunnerEvent(t, e) ==
  /\ Exists(t)
  /\ SetRow(t, ApplyRunnerEvent(tasks[t], e))

UserStep ==
  \/ \E t \in Tasks :
       \/ \E draft \in BOOLEAN, aa \in AutoArchives \cup {0} :
            CreateTask(t, draft, aa)
       \/ \E start \in BOOLEAN :
            \E aa \in AutoArchives \cup {0, tasks[t].autoArchive} :
              UpdateTask(t, start, aa)
       \/ ArchiveTask(t)
       \/ UnarchiveTask(t)
       \/ CancelTask(t)
       \/ RestartTask(t)
       \/ \E s \in Sessions : OpenShell(t, s)
  \/ \E s \in Sessions : ClearShellSession(s)

ReporterStep ==
  \E t \in Tasks, e \in RunnerEvent :
    /\ e.version <= tasks[t].version
    /\ e.event = "started" => ~tasks[t].archived
    /\ SubmitRunnerEvent(t, e)

ServerNext == UserStep \/ ReporterStep

ServerSpec == ServerInit /\ [][ServerNext]_tasks

-----------------------------------------------------------------------------
(* Every column holds a value of its type.                                  *)
ServerTypeOK == tasks \in [Tasks -> Row \cup {NoTask}]

(* The command a row carries is the one its status is waiting for.  A       *)
(* status that waits for the runner (pending, restarting, cancelling)       *)
(* always carries the command that makes ListTasksForRunner return the      *)
(* task, a status that waits for nobody carries none, and stop or restart   *)
(* is never left on a running task, where applyRunnerEventStopped would     *)
(* misread or refuse the exit report.                                       *)
Commands(status) ==
  CASE status = "Pending"    -> {"Start", "Restart"}
    [] status = "Restarting" -> {"Restart"}
    [] status = "Cancelling" -> {"Stop"}
    [] status = "Running"    -> {"None", "Start"}
    [] OTHER                 -> {"None"}

CommandFitsStatus ==
  \A t \in Tasks : tasks[t].command \in Commands(tasks[t].status)

(* An archived task is at rest: no report, however late or duplicated,      *)
(* moves it back to a status that waits for a runner which, by              *)
(* ListTasksForRunner, would never see it.                                  *)
ArchivedAtRest ==
  \A t \in Tasks :
    tasks[t].archived => /\ tasks[t].status \in Terminal \cup {"Draft"}
                         /\ tasks[t].command = "None"

(* Version 0 means "never provisioned": exactly the drafts are at 0, so a   *)
(* version-0 report can only be the unscoped bypass.                        *)
DraftIffUnprovisioned ==
  \A t \in Tasks : Exists(t) => (tasks[t].version = 0) <=> (tasks[t].status = "Draft")

(* The run counter never goes back, moves by one, and moves only onto a row *)
(* that asks the runner for that new run.                                   *)
RunCounterMonotone ==
  [][\A t \in Tasks :
       tasks'[t].version # tasks[t].version =>
         /\ tasks'[t].version = tasks[t].version + 1
         /\ tasks'[t].status \in {"Pending", "Restarting"}
         /\ HasPendingWork(tasks'[t])]_tasks

(* A run that is over stays over: once run N is done, or is being           *)
(* cancelled, no report brings it back to running.  Only a new run does.    *)
Over(row) == row.status \in Terminal \cup {"Cancelling"}

RunNeverResurrected ==
  [][\A t \in Tasks :
       /\ Over(tasks[t])
       /\ tasks'[t].version = tasks[t].version
       => Over(tasks'[t])]_tasks

(* A wake queued on a running task (running with the start command) leaves  *)
(* that state only by provisioning the next run, by a failed run, by an     *)
(* explicit cancel or restart, or by a repeated started report; an ordinary *)
(* stop never completes the task over it.                                   *)
QueuedWakeProvisions ==
  [][\A t \in Tasks :
       /\ tasks[t].status = "Running" /\ tasks[t].command = "Start"
       /\ tasks'[t].status \notin {"Running", "Failed", "Cancelling", "Restarting"}
       => /\ tasks'[t].status = "Pending"
          /\ tasks'[t].command = "Start"
          /\ tasks'[t].version = tasks[t].version + 1]_tasks

=============================================================================
