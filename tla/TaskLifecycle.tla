---------------------------- MODULE TaskLifecycle ----------------------------
(***************************************************************************)
(* One task's life across the whole system: the server's rows, one runner  *)
(* process (internal/runner/runner.go), the sandbox it launches per task   *)
(* (internal/runner/backend) and the driver inside it                      *)
(* (internal/runner/agent/driver.go), which reports to the server itself.  *)
(*                                                                         *)
(* The runner polls from a snapshot, works on every listed task in its own *)
(* goroutine, keeps a record and an outbox on disk, counts concurrency     *)
(* slots in memory and supervises each sandbox until it exits.  Everything *)
(* in memory is lost in a crash; sandboxes outlive it.                     *)
(*                                                                         *)
(* A goroutine's steps are separate actions wherever another actor can get *)
(* in between: after the listing, while Signal waits for the sandbox,      *)
(* between the slot and the launch, between the launch and the record.     *)
(***************************************************************************)
EXTENDS TaskServer, Sequences, FiniteSets

CONSTANTS
  Concurrency,    \* slots of the runner's semaphore
  Watchers,       \* ids for supervise goroutines: 1..n, enough never to run out
  MaxOutbox,      \* bound on undelivered outbox entries
  Faults          \* the failures this instance admits

FaultKind ==
  { "crash",      \* the runner process stops, gracefully or not
    "lostAck",    \* a request commits and its response is lost; it is retried
    "noReply",    \* the driver gives up on a request
    "killErr",    \* Signal returns an error
    "probeErr",   \* a record, probe, destroy or GetTask of the runner fails
    "launchErr",  \* the spec or the launch fails
    "die",        \* the sandbox's process is killed from outside
    "vanish" }    \* the sandbox is removed from outside

ASSUME LifecycleAssumption ==
  /\ Concurrency \in Nat \ {0}
  /\ MaxOutbox \in Nat \ {0}
  /\ Watchers \subseteq Nat
  /\ Faults \subseteq FaultKind

VARIABLES
  rec,      \* taskstate: the version in the task's record, NoRecord if none
  outbox,   \* the durable outbox, oldest first
  proc,     \* the runner process: "down", "loading" or "up"
  toLoad,   \* records Load has yet to visit
  loaded,   \* Load's count of running sandboxes
  pc,       \* where the poll goroutine of each task is
  snap,     \* the row each poll goroutine works from
  sem,      \* slots taken
  watch,    \* supervise goroutines
  prune,    \* how far Prune is with each task
  sb        \* the sandbox of each task, and the driver in it

runnerMem == <<proc, toLoad, loaded, pc, snap, sem, watch, prune>>
vars == <<tasks, rec, outbox, proc, toLoad, loaded, pc, snap, sem, watch,
          prune, sb>>

NoRecord == -1

PC == {"idle", "stop", "stopping", "restart", "restarting", "start",
       "acquire", "launch", "record"}

NoSnap == [status |-> "Absent", version |-> 0]

(* code is what Wait has returned: "wait" while it has not.                *)
NoWatch == [task |-> "none", version |-> 0, code |-> "none"]
Watch   == [task : Tasks, version : 0..MaxVersion, code : {"wait", "ok", "lost"}]

(* st is what the backend sees; at is the driver's position; version is    *)
(* the run the driver read from the server; out the report it owes; term   *)
(* whether SIGTERM has been sent; exit the stored exit code.               *)
Sandbox ==
  [st      : {"none", "created", "running", "exited"},
   at      : {"off", "boot", "start", "run", "report"},
   version : 0..MaxVersion,
   launch  : 0..MaxVersion,
   out     : {"none", "stopped", "failed"},
   term    : BOOLEAN,
   exit    : {"ok", "lost"}]

NoSandbox == [st |-> "none", at |-> "off", version |-> 0, launch |-> 0,
              out |-> "none", term |-> FALSE, exit |-> "lost"]

(* Only the driver reports "started".                                       *)
OutboxEvent ==
  [task : Tasks, event : {"stopped", "failed"}, version : 0..MaxVersion]

Live(t)    == sb[t].st = "running"
Fault(f)   == f \in Faults
Up         == proc = "up"

-----------------------------------------------------------------------------
(* Effects shared by several actions.                                      *)

Enqueue(t, kind, v) ==
  /\ Len(outbox) < MaxOutbox
  /\ outbox' = Append(outbox, [task |-> t, event |-> kind, version |-> v])

Released == IF sem > 0 THEN sem - 1 ELSE 0

(* The watch table after sandbox t has ended: Wait returns its code to      *)
(* every goroutine waiting on it.                                           *)
Notified(t, code) ==
  [w \in Watchers |-> IF watch[w].task = t /\ watch[w].code = "wait"
                        THEN [watch[w] EXCEPT !.code = code]
                        ELSE watch[w]]

(* The driver's process ends: the sandbox becomes an exited husk.           *)
Exit(t, code) ==
  /\ sb' = [sb EXCEPT ![t] = [NoSandbox EXCEPT !.st = "exited", !.exit = code]]
  /\ watch' = Notified(t, code)

(* The sandbox is removed: Wait has no code to recover.                     *)
Remove(t) ==
  /\ sb' = [sb EXCEPT ![t] = NoSandbox]
  /\ watch' = Notified(t, "lost")

(* Wait on a sandbox that is not running returns at once.                   *)
Spawn(t, v) ==
  \E w \in Watchers :
    /\ watch[w] = NoWatch
    /\ \A u \in Watchers : u < w => watch[u] # NoWatch
    /\ watch' = [watch EXCEPT ![w] =
         [task |-> t, version |-> v,
          code |-> IF Live(t) THEN "wait" ELSE sb[t].exit]]

(* The runner process ends; what it keeps in memory is lost.                *)
Down ==
  /\ proc' = "down"
  /\ toLoad' = {}
  /\ loaded' = 0
  /\ pc' = [t \in Tasks |-> "idle"]
  /\ snap' = [t \in Tasks |-> NoSnap]
  /\ sem' = 0
  /\ watch' = [w \in Watchers |-> NoWatch]
  /\ prune' = [t \in Tasks |-> "no"]

Goto(t, where) ==
  /\ pc' = [pc EXCEPT ![t] = where]
  /\ snap' = IF where = "idle" THEN [snap EXCEPT ![t] = NoSnap] ELSE snap

-----------------------------------------------------------------------------
(* The server's handlers, called by users and integrations.                 *)

User == UserStep /\ UNCHANGED <<rec, outbox, runnerMem, sb>>

-----------------------------------------------------------------------------
(* Runner.Poll: the listing, then one goroutine per listed task.  The next  *)
(* poll starts only after every goroutine of this one has returned.         *)

Arm(command) ==
  CASE command = "Stop"    -> "stop"
    [] command = "Restart" -> "restart"
    [] OTHER               -> "start"

Poll ==
  /\ Up
  /\ \A t \in Tasks : pc[t] = "idle"
  /\ \E t \in Tasks : HasPendingWork(tasks[t])
  /\ pc' = [t \in Tasks |-> IF HasPendingWork(tasks[t])
                              THEN Arm(tasks[t].command) ELSE "idle"]
  /\ snap' = [t \in Tasks |-> IF HasPendingWork(tasks[t])
                THEN [status |-> tasks[t].status, version |-> tasks[t].version]
                ELSE NoSnap]
  /\ UNCHANGED <<tasks, rec, outbox, proc, toLoad, loaded, sem, watch, prune, sb>>

(* errgroup.SetLimit(concurrency): a goroutine takes its first step only    *)
(* when fewer than Concurrency others are under way.                        *)
Turn(t) ==
  Cardinality({u \in Tasks \ {t} : pc[u] \notin {"idle", "stop", "restart", "start"}})
    < Concurrency

(* Kill in the stop arm.  With no running sandbox there is no driver to     *)
(* complete the cancel, so the runner reports "stopped" itself; otherwise   *)
(* SIGTERM is sent and Signal waits for the exit.                           *)
HasRunning(t) == rec[t] # NoRecord /\ Live(t)

(* Mutant: no report on behalf of the driver that is not there.             *)
StopIdleSilent(t) ==
  /\ pc[t] = "stop" /\ Turn(t)
  /\ ~HasRunning(t)
  /\ Goto(t, "idle")
  /\ UNCHANGED <<tasks, rec, outbox, proc, toLoad, loaded, sem, watch, prune, sb>>

StopIdle(t) ==
  /\ pc[t] = "stop" /\ Turn(t)
  /\ ~HasRunning(t)
  /\ Enqueue(t, "stopped", snap[t].version)
  /\ Goto(t, "idle")
  /\ UNCHANGED <<tasks, rec, proc, toLoad, loaded, sem, watch, prune, sb>>

(* Where a goroutine waits for Signal, and where it goes on afterwards.     *)
Signalling(where) == CASE where = "stop" -> "stopping" [] OTHER -> "restarting"
AfterKill(where)  == CASE where \in {"stop", "stopping"} -> "idle"
                       [] OTHER -> "acquire"

(* The restart arm's guard: a record already on this version means an       *)
(* earlier poll carried this restart out.                                   *)
RestartDone(t) == pc[t] = "restart" /\ rec[t] = snap[t].version

SendTerm(t) ==
  /\ pc[t] \in {"stop", "restart"} /\ Turn(t)
  /\ ~RestartDone(t)
  /\ HasRunning(t)
  /\ sb' = [sb EXCEPT ![t].term = TRUE]
  /\ Goto(t, Signalling(pc[t]))
  /\ UNCHANGED <<tasks, rec, outbox, proc, toLoad, loaded, sem, watch, prune>>

SignalReturns(t) ==
  /\ pc[t] \in {"stopping", "restarting"}
  /\ ~Live(t)
  /\ Goto(t, AfterKill(pc[t]))
  /\ UNCHANGED <<tasks, rec, outbox, proc, toLoad, loaded, sem, watch, prune, sb>>

(* The 30s grace period is over: SIGKILL.                                   *)
KillTimeout(t) ==
  /\ pc[t] \in {"stopping", "restarting"}
  /\ Live(t)
  /\ Exit(t, "lost")
  /\ Goto(t, AfterKill(pc[t]))
  /\ UNCHANGED <<tasks, rec, outbox, proc, toLoad, loaded, sem, prune>>

(* A failed Signal: the stop arm leaves the command for the next poll, the  *)
(* restart arm only logs the error and carries on.                          *)
KillError(t) ==
  /\ Fault("killErr")
  /\ pc[t] \in {"stop", "stopping", "restart", "restarting"} /\ Turn(t)
  /\ rec[t] # NoRecord
  /\ ~RestartDone(t)
  /\ Goto(t, AfterKill(pc[t]))
  /\ UNCHANGED <<tasks, rec, outbox, proc, toLoad, loaded, sem, watch, prune, sb>>

RestartSkip(t) ==
  /\ RestartDone(t) /\ Turn(t)
  /\ Goto(t, "idle")
  /\ UNCHANGED <<tasks, rec, outbox, proc, toLoad, loaded, sem, watch, prune, sb>>

RestartIdle(t) ==
  /\ pc[t] = "restart" /\ Turn(t)
  /\ ~RestartDone(t)
  /\ ~HasRunning(t)
  /\ Goto(t, "acquire")
  /\ UNCHANGED <<tasks, rec, outbox, proc, toLoad, loaded, sem, watch, prune, sb>>

(* The start arm leaves a running task, by its snapshot or by its sandbox,  *)
(* to finish on its own.                                                    *)
StartCheck(t) ==
  /\ pc[t] = "start" /\ Turn(t)
  /\ Goto(t, IF snap[t].status = "Running" \/ HasRunning(t) THEN "idle"
                                                             ELSE "acquire")
  /\ UNCHANGED <<tasks, rec, outbox, proc, toLoad, loaded, sem, watch, prune, sb>>

(* The record cannot be read, or the probe fails: the command waits for the *)
(* next poll.                                                               *)
CheckError(t) ==
  /\ Fault("probeErr")
  /\ pc[t] \in {"restart", "start"} /\ Turn(t)
  /\ rec[t] # NoRecord
  /\ Goto(t, "idle")
  /\ UNCHANGED <<tasks, rec, outbox, proc, toLoad, loaded, sem, watch, prune, sb>>

TryAcquire(t) ==
  /\ pc[t] = "acquire"
  /\ IF sem + 1 <= Concurrency
       THEN sem' = sem + 1 /\ Goto(t, "launch")
       ELSE sem' = sem /\ Goto(t, "idle")
  /\ UNCHANGED <<tasks, rec, outbox, proc, toLoad, loaded, watch, prune, sb>>

-----------------------------------------------------------------------------
(* Runner.Start, entered with a slot held.                                  *)

(* The tracked sandbox is already running: nothing to launch, no error, so  *)
(* the caller keeps the slot and no supervise goroutine is spawned.         *)
StartAlreadyRunning(t) ==
  /\ pc[t] = "launch"
  /\ HasRunning(t)
  /\ Goto(t, "idle")
  /\ UNCHANGED <<tasks, rec, outbox, proc, toLoad, loaded, sem, watch, prune, sb>>

(* Mutant: the error path keeps the slot.                                   *)
StartFailedKeepsSlot(t) ==
  /\ Enqueue(t, "failed", snap[t].version)
  /\ Goto(t, "idle")
  /\ UNCHANGED <<tasks, proc, toLoad, loaded, sem, watch, prune>>

(* The error path of the start and restart arms.                            *)
StartFailed(t) ==
  /\ sem' = Released
  /\ Enqueue(t, "failed", snap[t].version)
  /\ Goto(t, "idle")
  /\ UNCHANGED <<tasks, proc, toLoad, loaded, watch, prune>>

(* backend.ErrGone: the recorded sandbox no longer exists.                  *)
StartGone(t) ==
  /\ pc[t] = "launch"
  /\ rec[t] # NoRecord
  /\ sb[t].st = "none"
  /\ rec' = [rec EXCEPT ![t] = NoRecord]
  /\ StartFailed(t)
  /\ UNCHANGED sb

(* A fresh sandbox is named after its task, so it cannot be created beside  *)
(* one that exists and that no record tracks.                               *)
StartConflict(t) ==
  /\ pc[t] = "launch"
  /\ rec[t] = NoRecord
  /\ sb[t].st # "none"
  /\ StartFailed(t)
  /\ UNCHANGED <<rec, sb>>

(* The probe, the token, the image or the launch itself fails.  A fresh     *)
(* container whose start fails stays behind, created and untracked.         *)
StartError(t) ==
  /\ Fault("launchErr")
  /\ pc[t] = "launch"
  /\ StartFailed(t)
  /\ sb' = sb \/ /\ rec[t] = NoRecord
                 /\ sb[t].st = "none"
                 /\ sb' = [sb EXCEPT ![t].st = "created"]
  /\ UNCHANGED rec

(* Launch adopts the recorded sandbox, or creates one for a task without a  *)
(* record; a driver boots in it either way.                                 *)
Launch(t) ==
  /\ pc[t] = "launch"
  /\ IF rec[t] = NoRecord THEN sb[t].st = "none"
                          ELSE sb[t].st \in {"created", "exited"}
  /\ sb' = [sb EXCEPT ![t] = [NoSandbox EXCEPT !.st = "running", !.at = "boot",
                                               !.launch = snap[t].version]]
  /\ Goto(t, "record")
  /\ UNCHANGED <<tasks, rec, outbox, proc, toLoad, loaded, sem, watch, prune>>

(* The record is written, then supervise is spawned.                        *)
RecordLaunch(t) ==
  /\ pc[t] = "record"
  /\ rec' = [rec EXCEPT ![t] = snap[t].version]
  /\ Spawn(t, snap[t].version)
  /\ Goto(t, "idle")
  /\ UNCHANGED <<tasks, outbox, proc, toLoad, loaded, sem, prune, sb>>

(* The record cannot be written: the launch counts as failed, and die ends  *)
(* the runner.                                                              *)
RecordError(t) ==
  /\ Fault("crash")
  /\ pc[t] = "record"
  /\ Enqueue(t, "failed", snap[t].version)
  /\ Down
  /\ UNCHANGED <<tasks, rec, sb>>

PollStep(t) ==
  \/ StopIdle(t) \/ SendTerm(t) \/ SignalReturns(t) \/ RestartSkip(t)
  \/ RestartIdle(t) \/ StartCheck(t) \/ TryAcquire(t) \/ StartAlreadyRunning(t)
  \/ StartGone(t) \/ StartConflict(t) \/ Launch(t) \/ RecordLaunch(t)

PollFault(t) ==
  KillTimeout(t) \/ KillError(t) \/ CheckError(t) \/ StartError(t)
  \/ RecordError(t)

(* Mutant: an exit is never reported.                                       *)
SuperviseSilent(w) ==
  /\ watch[w].code \in {"ok", "lost"}
  /\ sem' = Released
  /\ watch' = [watch EXCEPT ![w] = NoWatch]
  /\ UNCHANGED <<tasks, rec, outbox, proc, toLoad, loaded, pc, snap, prune, sb>>

(* supervise, once Wait has returned: the slot is released, and an exit     *)
(* that is not 0 is reported on the driver's behalf.                        *)
Supervise(w) ==
  /\ watch[w].code \in {"ok", "lost"}
  /\ sem' = Released
  /\ watch' = [watch EXCEPT ![w] = NoWatch]
  /\ IF watch[w].code = "ok" THEN UNCHANGED outbox
     ELSE Enqueue(watch[w].task, "failed", watch[w].version)
  /\ UNCHANGED <<tasks, rec, proc, toLoad, loaded, pc, snap, prune, sb>>

-----------------------------------------------------------------------------
(* The outbox delivers its head, in order, while the runner is up.  A lost  *)
(* response leaves the entry in place for another attempt.                  *)

Deliver(acked) ==
  LET e == Head(outbox)
  IN  /\ Up
      /\ outbox # <<>>
      /\ acked \/ Fault("lostAck")
      /\ SubmitRunnerEvent(e.task, Event(e.event, e.version))
      /\ outbox' = IF acked THEN Tail(outbox) ELSE outbox
      /\ UNCHANGED <<rec, runnerMem, sb>>

-----------------------------------------------------------------------------
(* The runner process stops and boots.  Load visits every record before     *)
(* polling and delivery begin, and seeds the semaphore last.                *)

Crash ==
  /\ Fault("crash")
  /\ proc # "down"
  /\ Down
  /\ UNCHANGED <<tasks, rec, outbox, sb>>

Boot ==
  /\ proc = "down"
  /\ proc' = "loading"
  /\ toLoad' = {t \in Tasks : rec[t] # NoRecord}
  /\ UNCHANGED <<tasks, rec, outbox, loaded, pc, snap, sem, watch, prune, sb>>

(* failIfTaskRunning: only a task the server still has as running; a        *)
(* GetTask that fails is logged, and what Load does next it still does.     *)
LostReport(t) ==
  \/ tasks[t].status = "Running" /\ Enqueue(t, "failed", rec[t])
  \/ (tasks[t].status # "Running" \/ Fault("probeErr")) /\ UNCHANGED outbox

LoadRunning(t) ==
  /\ Live(t)
  /\ Spawn(t, rec[t])
  /\ loaded' = loaded + 1
  /\ UNCHANGED <<rec, outbox>>

(* Mutant: an exited husk is left alone at boot.                            *)
LoadExitedSilent(t) ==
  /\ sb[t].st = "exited"
  /\ UNCHANGED <<rec, outbox, loaded, watch>>

LoadExited(t) ==
  /\ sb[t].st = "exited"
  /\ LostReport(t)
  /\ UNCHANGED <<rec, loaded, watch>>

LoadGone(t) ==
  /\ sb[t].st = "none"
  /\ LostReport(t)
  /\ rec' = [rec EXCEPT ![t] = NoRecord]
  /\ UNCHANGED <<loaded, watch>>

(* An error is logged and the record passed over, like a created sandbox.   *)
LoadSkip(t) ==
  /\ Fault("probeErr") \/ sb[t].st = "created"
  /\ UNCHANGED <<rec, outbox, loaded, watch>>

LoadRecord(t) ==
  /\ proc = "loading"
  /\ t \in toLoad
  /\ LoadRunning(t) \/ LoadExited(t) \/ LoadGone(t) \/ LoadSkip(t)
  /\ toLoad' = toLoad \ {t}
  /\ UNCHANGED <<tasks, proc, pc, snap, sem, prune, sb>>

(* Mutant: the semaphore is not seeded.                                     *)
LoadDoneUnseeded ==
  /\ proc = "loading"
  /\ toLoad = {}
  /\ loaded' = 0
  /\ proc' = "up"
  /\ UNCHANGED <<tasks, rec, outbox, toLoad, pc, snap, sem, watch, prune, sb>>

LoadDone ==
  /\ proc = "loading"
  /\ toLoad = {}
  /\ sem' = loaded
  /\ loaded' = 0
  /\ proc' = "up"
  /\ UNCHANGED <<tasks, rec, outbox, toLoad, pc, snap, watch, prune, sb>>

-----------------------------------------------------------------------------
(* Prune: list the records whose sandbox is not running, then per task look *)
(* at the row, destroy the sandbox and remove the record.                   *)

PruneList ==
  /\ Up
  /\ \A t \in Tasks : prune[t] = "no"
  /\ \E t \in Tasks : rec[t] # NoRecord /\ ~Live(t)
  /\ prune' = [t \in Tasks |-> IF rec[t] # NoRecord /\ ~Live(t) THEN "listed"
                                                                ELSE "no"]
  /\ UNCHANGED <<tasks, rec, outbox, proc, toLoad, loaded, pc, snap, sem, watch, sb>>

PruneCheck(t) ==
  /\ prune[t] = "listed"
  /\ prune' = [prune EXCEPT ![t] = IF tasks[t].archived THEN "doomed" ELSE "no"]
  /\ UNCHANGED <<tasks, rec, outbox, proc, toLoad, loaded, pc, snap, sem, watch, sb>>

(* GetTask or Destroy fails: the record stays for the next round.           *)
PruneError(t) ==
  /\ Fault("probeErr")
  /\ prune[t] \in {"listed", "doomed"}
  /\ prune' = [prune EXCEPT ![t] = "no"]
  /\ UNCHANGED <<tasks, rec, outbox, proc, toLoad, loaded, pc, snap, sem, watch, sb>>

(* Destroy is forced: it removes a running sandbox as well.                 *)
PruneDestroy(t) ==
  /\ prune[t] = "doomed"
  /\ IF rec[t] = NoRecord
       THEN prune' = [prune EXCEPT ![t] = "no"] /\ UNCHANGED <<sb, watch>>
       ELSE prune' = [prune EXCEPT ![t] = "destroyed"] /\ Remove(t)
  /\ UNCHANGED <<tasks, rec, outbox, proc, toLoad, loaded, pc, snap, sem>>

PruneRemove(t) ==
  /\ prune[t] = "destroyed"
  /\ rec' = [rec EXCEPT ![t] = NoRecord]
  /\ prune' = [prune EXCEPT ![t] = "no"]
  /\ UNCHANGED <<tasks, outbox, proc, toLoad, loaded, pc, snap, sem, watch, sb>>

Prune == PruneList \/ \E t \in Tasks : \/ PruneCheck(t)
                                       \/ PruneError(t)
                                       \/ PruneDestroy(t)
                                       \/ PruneRemove(t)

-----------------------------------------------------------------------------
(* The driver.  Its token is refused once the task is archived.             *)

At(t, where) == Live(t) /\ sb[t].at = where

(* The version is whatever the row holds when the driver reads it.          *)
DriverGetTask(t) ==
  /\ At(t, "boot")
  /\ IF sb[t].term \/ tasks[t].archived
       THEN Exit(t, "lost")
       ELSE /\ sb' = [sb EXCEPT ![t].at = "start",
                                ![t].version = tasks[t].version]
            /\ UNCHANGED watch
  /\ UNCHANGED <<tasks, rec, outbox, proc, toLoad, loaded, pc, snap, sem, prune>>

(* Mutant: the token outlives the archive.                                  *)
DriverStartedArchived(t) ==
  /\ At(t, "start")
  /\ SubmitRunnerEvent(t, Event("started", sb[t].version))
  /\ sb' = [sb EXCEPT ![t].at = "run"]
  /\ UNCHANGED <<rec, outbox, proc, toLoad, loaded, pc, snap, sem, watch, prune>>

DriverStarted(t) ==
  /\ At(t, "start")
  /\ IF tasks[t].archived
       THEN Exit(t, "lost") /\ UNCHANGED tasks
       ELSE /\ SubmitRunnerEvent(t, Event("started", sb[t].version))
            /\ sb' = [sb EXCEPT ![t].at = "run"]
            /\ UNCHANGED watch
  /\ UNCHANGED <<rec, outbox, proc, toLoad, loaded, pc, snap, sem, prune>>

(* The agent, or the shell, ends.  After SIGTERM any error is a graceful    *)
(* stop.                                                                    *)
DriverRuns(t, out) ==
  /\ At(t, "run")
  /\ sb[t].term => out = "stopped"
  /\ sb' = [sb EXCEPT ![t].at = "report", ![t].out = out]
  /\ UNCHANGED <<tasks, rec, outbox, runnerMem>>

(* An acked terminal report is the only way to exit 0.                      *)
DriverReport(t) ==
  /\ At(t, "report")
  /\ IF tasks[t].archived
       THEN Exit(t, "lost") /\ UNCHANGED tasks
       ELSE /\ SubmitRunnerEvent(t, Event(sb[t].out, sb[t].version))
            /\ Exit(t, "ok")
  /\ UNCHANGED <<rec, outbox, proc, toLoad, loaded, pc, snap, sem, prune>>

(* The report commits, its response is lost, and the client's retry         *)
(* interceptor will send it again.                                          *)
DriverLostAck(t) ==
  /\ Fault("lostAck")
  /\ \/ At(t, "start")
        /\ SubmitRunnerEvent(t, Event("started", sb[t].version))
     \/ At(t, "report")
        /\ SubmitRunnerEvent(t, Event(sb[t].out, sb[t].version))
  /\ ~tasks[t].archived
  /\ UNCHANGED <<rec, outbox, runnerMem, sb>>

(* The retries are exhausted; or the process is killed.                     *)
DriverGivesUp(t) ==
  /\ \/ Fault("noReply") /\ sb[t].at \in {"boot", "start", "report"}
     \/ Fault("die") /\ sb[t].at # "off"
  /\ Live(t)
  /\ Exit(t, "lost")
  /\ UNCHANGED <<tasks, rec, outbox, proc, toLoad, loaded, pc, snap, sem, prune>>

Vanish(t) ==
  /\ Fault("vanish")
  /\ sb[t].st # "none"
  /\ Remove(t)
  /\ UNCHANGED <<tasks, rec, outbox, proc, toLoad, loaded, pc, snap, sem, prune>>

DriverStep(t) ==
  \/ DriverGetTask(t) \/ DriverStarted(t)
  \/ \E out \in {"stopped", "failed"} : DriverRuns(t, out)
  \/ DriverReport(t)

SandboxFault(t) == DriverLostAck(t) \/ DriverGivesUp(t) \/ Vanish(t)

-----------------------------------------------------------------------------
Init ==
  /\ ServerInit
  /\ rec = [t \in Tasks |-> NoRecord]
  /\ outbox = <<>>
  /\ proc = "down"
  /\ toLoad = {}
  /\ loaded = 0
  /\ pc = [t \in Tasks |-> "idle"]
  /\ snap = [t \in Tasks |-> NoSnap]
  /\ sem = 0
  /\ watch = [w \in Watchers |-> NoWatch]
  /\ prune = [t \in Tasks |-> "no"]
  /\ sb = [t \in Tasks |-> NoSandbox]

Next ==
  \/ User
  \/ Poll
  \/ \E t \in Tasks : \/ PollStep(t) \/ PollFault(t) \/ LoadRecord(t)
                      \/ DriverStep(t) \/ SandboxFault(t)
  \/ \E w \in Watchers : Supervise(w)
  \/ \E acked \in BOOLEAN : Deliver(acked)
  \/ Crash \/ Boot \/ LoadDone
  \/ Prune

(* The scheduling the code guarantees: the runner is restarted after a      *)
(* crash, boots, polls on every wake and at least every poll interval, and  *)
(* its goroutines run; the outbox retries its head; a driver makes its      *)
(* requests and obeys SIGTERM.  An agent owes no end of its own accord;     *)
(* users, faults and Prune owe nothing.                                     *)
Fairness ==
  /\ WF_vars(Poll) /\ WF_vars(Boot) /\ WF_vars(LoadDone)
  /\ WF_vars(Deliver(TRUE))
  /\ \A t \in Tasks : /\ WF_vars(PollStep(t)) /\ WF_vars(LoadRecord(t))
                      /\ WF_vars(DriverGetTask(t)) /\ WF_vars(DriverStarted(t))
                      /\ WF_vars(sb[t].term /\ DriverRuns(t, "stopped"))
                      /\ WF_vars(DriverReport(t))
  /\ \A w \in Watchers : WF_vars(Supervise(w))

(* Every agent run ends, one way or the other.                              *)
AgentsEnd == \A t \in Tasks : WF_vars(DriverStep(t))

Spec       == Init /\ [][Next]_vars
FairSpec   == Spec /\ Fairness
EndingSpec == FairSpec /\ AgentsEnd

-----------------------------------------------------------------------------
(* Every variable holds a value of its type.                                *)
TypeOK ==
  /\ ServerTypeOK
  /\ rec \in [Tasks -> 0..MaxVersion \cup {NoRecord}]
  /\ outbox \in Seq(OutboxEvent)
  /\ proc \in {"down", "loading", "up"}
  /\ toLoad \subseteq Tasks
  /\ loaded \in Nat
  /\ pc \in [Tasks -> PC]
  /\ snap \in [Tasks -> [status : Status \cup {"Absent"}, version : 0..MaxVersion]]
  /\ sem \in Nat
  /\ watch \in [Watchers -> Watch \cup {NoWatch}]
  /\ prune \in [Tasks -> {"no", "listed", "doomed", "destroyed"}]
  /\ sb \in [Tasks -> Sandbox]

(* The whole system implements the server's abstract specification: the     *)
(* reports of the concrete runner and driver, late, repeated or lost, are   *)
(* all reports the server's own guarantees allow for.                       *)
RefinesServer == ServerInit /\ [][ServerNext]_tasks

(* Nothing in flight is ahead of the row: a record, a snapshot, a driver, a *)
(* supervise goroutine or an outbox entry names the current run or an       *)
(* earlier one, never 0.  With the version guard of ApplyRunnerEvent this   *)
(* is what makes a bump of the counter disown everything launched before.   *)
KnownRun(t, v) == v \in 1..tasks[t].version

NothingAhead ==
  /\ \A t \in Tasks :
       /\ rec[t] # NoRecord => KnownRun(t, rec[t])
       /\ pc[t] # "idle" => KnownRun(t, snap[t].version)
       /\ sb[t].at \in {"start", "run", "report"} => KnownRun(t, sb[t].version)
       /\ Live(t) => KnownRun(t, sb[t].launch)
  /\ \A w \in Watchers :
       watch[w] # NoWatch => KnownRun(watch[w].task, watch[w].version)
  /\ \A i \in DOMAIN outbox : KnownRun(outbox[i].task, outbox[i].version)

(* Slots taken = goroutines that hold one: a supervise goroutine, or a poll *)
(* goroutine between TryAcquire and its end.                                *)
Holders == Cardinality({w \in Watchers : watch[w] # NoWatch})
         + Cardinality({t \in Tasks : pc[t] \in {"launch", "record"}})

SlotsAccounted == Up => sem = Holders

(* --concurrency is a limit on the tracked sandboxes that run at once.      *)
WithinLimit ==
  Cardinality({t \in Tasks : HasRunning(t)}) <= Concurrency

(* A "failed" for the task's current run is on its way to the server: in    *)
(* the outbox, in the hands of supervise, or, once the launch in flight has *)
(* been recorded, about to be.                                              *)
FailureReportDue(t) ==
  \/ \E i \in DOMAIN outbox : /\ outbox[i].task = t
                              /\ outbox[i].event = "failed"
                              /\ outbox[i].version = tasks[t].version
  \/ \E w \in Watchers : /\ watch[w].task = t
                         /\ watch[w].code = "lost"
                         /\ watch[w].version = tasks[t].version
  \/ pc[t] = "record" /\ snap[t].version = tasks[t].version

(* While the runner is down or loading, Load has yet to look at the task.   *)
BootPending(t) == proc = "down" \/ t \in toLoad

(* A run the runner launched is never lost: while the row says running and  *)
(* the record names that run, either its sandbox is alive or a failure      *)
(* report for it is due.                                                    *)
LostRunReported ==
  \A t \in Tasks :
    /\ tasks[t].status = "Running"
    /\ rec[t] = tasks[t].version
    /\ ~Live(t)
    => FailureReportDue(t) \/ BootPending(t)

(* The restart guard waits for "started" whenever the record already names  *)
(* the restarted run.  That run is then alive, or its failure is due.       *)
RestartServed ==
  \A t \in Tasks :
    /\ tasks[t].command = "Restart"
    /\ rec[t] = tasks[t].version
    /\ ~Live(t)
    => FailureReportDue(t) \/ BootPending(t)

(* Any running row has something behind it: a live sandbox or a report due. *)
RunningBacked ==
  \A t \in Tasks :
    tasks[t].status = "Running" => Live(t) \/ FailureReportDue(t) \/ BootPending(t)

(* The agent the user sees running is the run the row names.                *)
RunningMatchesDriver ==
  \A t \in Tasks :
    /\ tasks[t].status = "Running"
    /\ Live(t)
    /\ sb[t].at \in {"run", "report"}
    => sb[t].version = tasks[t].version

(* A start queued on a running task is consumed by the next run, by a       *)
(* failure, a cancel or a restart, never silently.                          *)
QueuedWakeKept ==
  [][\A t \in Tasks :
       /\ tasks[t].status = "Running" /\ tasks[t].command = "Start"
       /\ tasks'[t].status = "Running"
       => tasks'[t].command = "Start"]_vars

(* Prune never destroys the running sandbox of a task that is not archived. *)
PruneSparesLive ==
  [][\A t \in Tasks :
       prune'[t] = "destroyed" /\ prune[t] # "destroyed" /\ ~tasks[t].archived
       => ~Live(t)]_vars

(* The runner is not restarted for ever, and what it asks of the backend    *)
(* does not fail for ever.                                                  *)
RunnerSettles ==
  <>[][~Crash /\ \A t \in Tasks : ~KillError(t) /\ ~CheckError(t)]_vars

(* A cancel completes, whatever fails on the way, if the runner stays up    *)
(* long enough to carry it out.                                             *)
CancelResolves ==
  RunnerSettles =>
    \A t \in Tasks :
      tasks[t].status = "Cancelling" ~> tasks[t].status # "Cancelling"

(* A cancel that overtakes the launch it cancels still takes effect: the    *)
(* driver about to report that run as started is stopped, unless the user   *)
(* asks for another run or a late failure report closes this one meanwhile. *)
(* The sandbox has to be tracked, and not about to be forgotten by a Prune  *)
(* that still works on an earlier archiving of the task.                    *)
LateLaunchStopped ==
  RunnerSettles =>
    \A t \in Tasks, v \in 1..MaxVersion :
      /\ tasks[t].status = "Cancelled" /\ tasks[t].version = v
      /\ At(t, "start") /\ sb[t].version = v
      /\ rec[t] = v /\ prune[t] = "no"
      ~> tasks[t].version > v \/ tasks[t].status = "Failed" \/ ~Live(t)

(* A cancelled task never keeps a live agent for good.                      *)
CancelledDrains ==
  \A t \in Tasks :
    tasks[t].status = "Cancelled" /\ Live(t)
      ~> tasks[t].status # "Cancelled" \/ ~Live(t)

(* A task that waits for the runner is served.                              *)
PendingResolves ==
  RunnerSettles =>
    \A t \in Tasks :
      tasks[t].status \in {"Pending", "Restarting"}
        ~> tasks[t].status \notin {"Pending", "Restarting"}

=============================================================================
