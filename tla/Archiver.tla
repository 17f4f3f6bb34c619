------------------------------ MODULE Archiver ------------------------------
(***************************************************************************)
(* The auto-archive worker of internal/server/archiver, beside every other *)
(* writer of the tasks table.  A tick lists the due tasks and then         *)
(* archives them one transaction at a time, so a listed task may have been *)
(* restarted, edited, archived or unarchived by the time its turn comes;   *)
(* the only thing carried from the listing is the version.                 *)
(*                                                                         *)
(* Time is relative: age[t] is now - updated_at in clock units, counted up *)
(* to MaxAge.  The router's wake and the creations of the router and the   *)
(* scheduler are UpdateTask and CreateTask steps of TaskServer.  rerun is  *)
(* a history variable.                                                     *)
(***************************************************************************)
EXTENDS TaskServer, SequencesExt

CONSTANTS
  MaxAge,      \* ages above it are not told apart
  BatchSize    \* tasks listed per tick

ASSUME ArchiverAssumption ==
  /\ MaxAge \in Nat /\ \A aa \in AutoArchives : aa < MaxAge
  /\ BatchSize \in Nat \ {0}

VARIABLES
  age,         \* now - updated_at
  order,       \* the tasks by updated_at, oldest first
  sweep,       \* what is left of the tick's listing: [id, version] records
  rerun        \* listed tasks that had a run asked for or under way since

archiverVars == <<tasks, age, order, sweep>>

ArchiverTypeOK ==
  /\ ServerTypeOK
  /\ age \in [Tasks -> 0..MaxAge]
  /\ order \in Seq(Tasks) /\ ToSet(order) = Tasks
  /\ sweep \in Seq([id : Tasks, version : 0..MaxVersion])
  /\ rerun \subseteq Tasks

ArchiverInit ==
  /\ ServerInit
  /\ age = [t \in Tasks |-> 0]
  /\ order = SetToSeq(Tasks)
  /\ sweep = <<>> /\ rerun = {}

-----------------------------------------------------------------------------
(* Store.CreateTask and Store.UpdateTask stamp updated_at.                  *)
Stamp(t) ==
  /\ age' = [age EXCEPT ![t] = 0]
  /\ order' = Append(Remove(order, t), t)

Wrote(t) == Stamp(t) /\ UNCHANGED sweep

UserWrite(t) ==
  /\ \/ \E draft \in BOOLEAN, aa \in AutoArchives \cup {0} :
          CreateTask(t, draft, aa)
     \/ \E start \in BOOLEAN :
          \E aa \in AutoArchives \cup {0, tasks[t].autoArchive} :
            UpdateTask(t, start, aa)
     \/ ArchiveTask(t)
     \/ UnarchiveTask(t)
     \/ CancelTask(t)
     \/ RestartTask(t)
     \/ \E s \in Sessions : OpenShell(t, s)
  /\ Wrote(t)

(* ClearShellSession leaves updated_at alone.                               *)
ShellClosed ==
  /\ \E s \in Sessions : ClearShellSession(s)
  /\ UNCHANGED <<age, order, sweep>>

(* A report that does not apply writes nothing.                             *)
Reported(t, e) ==
  /\ e.version <= tasks[t].version
  /\ e.event = "started" => ~tasks[t].archived
  /\ EventApplies(tasks[t], e)
  /\ SubmitRunnerEvent(t, e)
  /\ Wrote(t)

ClockTick ==
  /\ \E t \in Tasks : age[t] < MaxAge
  /\ age' = [t \in Tasks |-> IF age[t] < MaxAge THEN age[t] + 1 ELSE age[t]]
  /\ UNCHANGED <<tasks, order, sweep>>

-----------------------------------------------------------------------------
(* updated_at + auto_archive < now, of an unarchived row at rest.           *)
Due(t) ==
  /\ Exists(t)
  /\ ~tasks[t].archived
  /\ tasks[t].autoArchive # 0
  /\ tasks[t].command = "None"
  /\ tasks[t].status \in Terminal \cup {"Draft"}
  /\ age[t] > tasks[t].autoArchive

(* ORDER BY updated_at LIMIT BatchSize: pick holds the places of the oldest  *)
(* due tasks, in order, all of them when they fit.                          *)
ListTasksDueForArchive ==
  LET due    == {i \in DOMAIN order : Due(order[i])}
      row(t) == [id |-> t, version |-> tasks[t].version]
  IN  /\ sweep = <<>>
      /\ \E n \in 1..BatchSize : \E pick \in [1..n -> due] :
           /\ \A j, k \in 1..n : j < k => pick[j] < pick[k]
           /\ \A i \in due \ Range(pick) : n = BatchSize /\ pick[n] < i
           /\ sweep' = [k \in 1..n |-> row(order[pick[k]])]
      /\ UNCHANGED <<tasks, age, order>>

(* Mutant: the version of the listing is not compared.                      *)
ArchiveAnyRun ==
  LET t == Head(sweep).id
  IN  /\ sweep # <<>>
      /\ sweep' = Tail(sweep)
      /\ IF CanArchive(tasks[t])
           THEN SetRow(t, Archive(tasks[t])) /\ Stamp(t)
           ELSE UNCHANGED <<tasks, age, order>>

(* Mutant: only a task of the first run is archived.                        *)
ArchiveFirstRun ==
  LET t == Head(sweep).id
  IN  /\ sweep # <<>>
      /\ sweep' = Tail(sweep)
      /\ IF tasks[t].version = Head(sweep).version /\ tasks[t].version = 1
            /\ CanArchive(tasks[t])
           THEN SetRow(t, Archive(tasks[t])) /\ Stamp(t)
           ELSE UNCHANGED <<tasks, age, order>>

archive ==
  LET t == Head(sweep).id
  IN  /\ sweep # <<>>
      /\ sweep' = Tail(sweep)
      /\ IF /\ ~tasks[t].archived
            /\ tasks[t].version = Head(sweep).version
            /\ CanArchive(tasks[t])
           THEN SetRow(t, Archive(tasks[t])) /\ Stamp(t)
           ELSE UNCHANGED <<tasks, age, order>>

(* The context ends, or the process does: the rest of the listing is lost.  *)
TickAborts ==
  /\ sweep # <<>>
  /\ sweep' = <<>>
  /\ UNCHANGED <<tasks, age, order>>

Sweep == ListTasksDueForArchive \/ archive

(* What the history remembers of a listed task until the sweep is past it.  *)
UnderWay == {"Pending", "Running", "Restarting"}
Listed   == {sweep[i].id : i \in DOMAIN sweep}
Remember == rerun' = {t \in Listed' : t \in rerun \/ tasks'[t].status \in UnderWay}

ArchiverStep ==
  \/ \E t \in Tasks : UserWrite(t)
  \/ ShellClosed
  \/ \E t \in Tasks, e \in RunnerEvent : Reported(t, e)
  \/ ClockTick
  \/ Sweep
  \/ TickAborts

ArchiverNext == ArchiverStep /\ Remember

Archives(t) == sweep # <<>> /\ Head(sweep).id = t /\ archive

(* The worker ticks for as long as the server runs, and not every tick is   *)
(* cut short before it comes to a task it keeps listing.                    *)
ArchiverSpec ==
  /\ ArchiverInit /\ [][ArchiverNext]_<<archiverVars, rerun>>
  /\ WF_archiverVars(Sweep)
  /\ \A t \in Tasks : SF_archiverVars(Archives(t))

-----------------------------------------------------------------------------
(* Everything a tick does to the table is something a user could have done: *)
(* with the worker and its stale listing the server still implements its    *)
(* specification, every property of TaskServer included.                    *)
ArchiverRefinesServer == ServerInit /\ [][ServerNext]_tasks

(* A task that has been started or restarted since it was listed is left    *)
(* alone by that sweep, even when the later run is over again by the time   *)
(* its turn comes: every run leaves its mark on the version the worker      *)
(* compares (archiver.go archive, "restarted ... between the list and the   *)
(* update"; task.go Start, Restart).                                        *)
SweepSparesLaterRuns ==
  [][\A t \in Tasks :
       /\ sweep' # sweep
       /\ tasks'[t].archived /\ ~tasks[t].archived
       => t \notin rerun]_archiverVars

(* A due task does not stay due for ever: it is archived, or somebody writes *)
(* it, however many ticks are cut short and whatever else is being swept.   *)
DueIsSwept == \A t \in Tasks : Due(t) ~> ~Due(t)

(* What the worker is for: it archives tasks past their deadline.  A task   *)
(* whose auto_archive was cleared, or whose deadline moved, after the       *)
(* listing is archived all the same.                                        *)
ArchivesOnlyDue ==
  [][\A t \in Tasks :
       /\ sweep' # sweep
       /\ tasks'[t].archived /\ ~tasks[t].archived
       => Due(t)]_archiverVars
=============================================================================
