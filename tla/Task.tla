-------------------------------- MODULE Task --------------------------------
(***************************************************************************)
(* The task row of internal/model/task.go and its state machine.           *)
(*                                                                         *)
(* A Go method that mutates the task and returns a bool becomes two        *)
(* operators: the condition under which it returns true (CanCancel,        *)
(* EventApplies, ...) and the row it leaves (Cancel, ApplyRunnerEvent,     *)
(* ...), which is the argument itself when the method returns false.       *)
(* Columns no transition reads (name, runner, workspace, timestamps) are   *)
(* left out.                                                               *)
(*                                                                         *)
(* An operator marked "Mutant" is a plausible bug in the definition that   *)
(* follows it.  No specification uses it: it is there to show which        *)
(* property notices.                                                       *)
(***************************************************************************)
EXTENDS Integers

Terminal == {"Completed", "Failed", "Cancelled"}
Status   == Terminal \cup {"Pending", "Running", "Restarting", "Cancelling",
                           "Draft"}
Command  == {"None", "Restart", "Stop", "Start"}

NoSession == "no-session"

-----------------------------------------------------------------------------
(* Runner events.  Version 0 is the unscoped bypass.                       *)

EventKind == {"started", "stopped", "failed"}

(* Mutant: a started report no longer catches a cancelled task.             *)
StartedIgnoresCancelled(t) ==
  \/ t.archived
  \/ /\ t.status \in {"Pending", "Restarting", "Running"}
     /\ t.command \in {"Restart", "Start"}

StartedApplies(t) ==
  \/ t.archived
  \/ /\ t.status \in {"Pending", "Restarting", "Running"}
     /\ t.command \in {"Restart", "Start"}
  \/ t.status = "Cancelled"

(* Mutant: a started report runs a cancelled task instead of stopping it.   *)
StartedRunsCancelled(t) == [t EXCEPT !.status = "Running", !.command = "None"]

StartedRow(t) ==
  IF t.archived \/ t.status = "Cancelled"
    THEN [t EXCEPT !.status = "Cancelling", !.command = "Stop"]
    ELSE [t EXCEPT !.status = "Running", !.command = "None"]

StoppedApplies(t) ==
  \/ t.status = "Running" /\ t.command # "Restart"
  \/ t.status = "Cancelling" /\ t.command = "Stop"

(* Mutant: the queued start is not looked at.                               *)
StoppedForgetsStart(t) ==
  IF t.command = "Stop" THEN [t EXCEPT !.status = "Cancelled", !.command = "None"]
                        ELSE [t EXCEPT !.status = "Completed", !.command = "None"]

StoppedRow(t) ==
  CASE t.command = "Stop"  -> [t EXCEPT !.status = "Cancelled",
                                        !.command = "None"]
    [] t.command = "Start" -> [t EXCEPT !.status = "Pending",
                                        !.version = @ + 1]
    [] OTHER               -> [t EXCEPT !.status = "Completed"]

FailedApplies(t) ==
  t.status \in {"Pending", "Restarting", "Running", "Cancelling"}

FailedRow(t) == [t EXCEPT !.status = "Failed", !.command = "None"]

(* Mutant: no version guard.                                                *)
AnyVersion(t, e) == TRUE

VersionMatches(t, e) == e.version = 0 \/ e.version = t.version

EventApplies(t, e) ==
  /\ ~e.reconcile
  /\ VersionMatches(t, e)
  /\ \/ e.event = "started" /\ StartedApplies(t)
     \/ e.event = "stopped" /\ StoppedApplies(t)
     \/ e.event = "failed"  /\ FailedApplies(t)

ApplyRunnerEvent(t, e) ==
  IF EventApplies(t, e)
    THEN CASE e.event = "started" -> StartedRow(t)
           [] e.event = "stopped" -> StoppedRow(t)
           [] e.event = "failed"  -> FailedRow(t)
    ELSE t

-----------------------------------------------------------------------------
(* User transitions.                                                       *)

IsDone(t) == t.status \in Terminal

CanArchive(t) ==
  /\ ~t.archived
  /\ t.command = "None"
  /\ IsDone(t) \/ t.status = "Draft"

Archive(t) == IF CanArchive(t) THEN [t EXCEPT !.archived = TRUE] ELSE t

CanUnarchive(t) == t.archived

Unarchive(t) ==
  IF CanUnarchive(t) THEN [t EXCEPT !.archived = FALSE, !.autoArchive = 0]
                     ELSE t

CanCancel(t) ==
  ~t.archived /\ t.status \in {"Running", "Restarting", "Pending"}

Cancel(t) ==
  IF CanCancel(t)
    THEN IF t.status = "Pending"
           THEN [t EXCEPT !.status = "Cancelled", !.command = "None"]
           ELSE [t EXCEPT !.status = "Cancelling", !.command = "Stop"]
    ELSE t

CanRestart(t) == ~t.archived /\ t.status \in {"Running"} \cup Terminal

Restart(t) ==
  IF CanRestart(t)
    THEN [t EXCEPT !.status = IF @ = "Running" THEN "Restarting" ELSE "Pending",
                   !.command = "Restart",
                   !.version = @ + 1]
    ELSE t

CanStart(t) ==
  ~t.archived /\ t.status \in {"Running", "Draft"} \cup Terminal

Start(t) ==
  IF CanStart(t)
    THEN IF t.status = "Running"
           THEN [t EXCEPT !.command = "Start"]
           ELSE [t EXCEPT !.status = "Pending", !.command = "Start",
                          !.version = @ + 1]
    ELSE t

(* The condition of PendingRunner and of the ListTasksForRunner query.      *)
HasPendingWork(t) == t.command # "None" /\ ~t.archived

=============================================================================
