------------------------------ MODULE MicroVM ------------------------------
(***************************************************************************)
(* The Lambda MicroVM backend of the runner for one task: the VMs of the   *)
(* cloud, the shim inside each (internal/runner/microvmshim) that runs the *)
(* driver and tells its exit over an SSE stream, Wait, Launch, Probe,      *)
(* Signal and Destroy of internal/runner/backend/lambdamicrovm, and the    *)
(* parts of the runner that call them (Poll, Start, supervise, Load).      *)
(*                                                                         *)
(* A run of the driver is named by the task version it reads at boot, and  *)
(* its started report is part of that step (TaskLifecycle has it apart).   *)
(* TERMINATING, TERMINATED and an absent VM are one state: the code treats *)
(* them alike, and a VM whose hook fails ends there (the cloud's part,     *)
(* external).  The cloud may reap a VM, drop a stream and refuse to        *)
(* suspend, and the runner may crash, each a bounded number of times.      *)
(***************************************************************************)
EXTENDS Integers, FiniteSets

CONSTANTS
  Concurrency,    \* --concurrency
  MaxVersion,     \* bound on the versions of the task
  MaxVMs,         \* bound on the VMs run for it
  MaxDrop,        \* bound on dropped streams
  MaxReap,        \* bound on VMs reaped at their maximum duration
  MaxRefuse,      \* bound on refused suspends
  MaxCrash        \* bound on runner crashes

ASSUME MicroVMAssumption ==
  /\ {Concurrency, MaxVersion, MaxVMs} \subseteq Nat \ {0}
  /\ {MaxDrop, MaxReap, MaxRefuse, MaxCrash} \subseteq Nat

VARIABLES
  vms,       \* the VMs, with what their shim knows
  task,      \* version and command of the task
  rec,       \* its taskstate record: run version and VM, NoRec when none
  sup,       \* the supervise goroutine of each launched version
  poll,      \* where the poll of this task is
  job,       \* the version it listed, and the VM Launch gave it
  sem,       \* slots taken in the concurrency semaphore
  up,        \* the runner runs
  faults     \* drops, reaps, refusals and crashes so far

microVars == <<vms, task, rec, sup, poll, job, sem, up, faults>>

Versions == 1..MaxVersion
VMs      == 1..MaxVMs
NoRec    == [version |-> 0, vm |-> 0]
Idle     == [pc |-> "off", vm |-> 0, subscribed |-> FALSE, event |-> 0]

(* StateRunning and StateGone of Probe; the rest is StateExited.            *)
Running(i) == vms[i].state \in {"PENDING", "RUNNING"}
Gone(i)    == vms[i].state = "TERMINATED"

MicroInit ==
  /\ vms = [i \in VMs |-> [state |-> "none", started |-> FALSE, run |-> 0,
                           dead |-> 0, sticky |-> 0]]
  /\ task = [version |-> 1, command |-> "start"]
  /\ rec = NoRec /\ sup = [v \in Versions |-> Idle]
  /\ poll = "idle" /\ job = NoRec /\ sem = 0 /\ up = TRUE
  /\ faults = [drop |-> 0, reap |-> 0, refuse |-> 0, crash |-> 0]

Fault(kind, max) ==
  /\ faults[kind] < max /\ faults' = [faults EXCEPT ![kind] = @ + 1]

-----------------------------------------------------------------------------
(* The cloud and the shim of the VM i.  spawn clears the sticky exit and    *)
(* starts the driver, which reads the task and takes its command.           *)
spawn(i) ==
  /\ vms' = [vms EXCEPT ![i].state = "RUNNING", ![i].started = TRUE,
                        ![i].sticky = 0, ![i].run = task.version]
  /\ task' = [task EXCEPT !.command = "none"]

HookFails(i) == /\ vms' = [vms EXCEPT ![i].state = "TERMINATED", ![i].sticky = 0]
                /\ UNCHANGED task

RunHook(i) ==
  /\ vms[i].state = "PENDING" /\ ~vms[i].started
  /\ spawn(i) \/ HookFails(i)
  /\ UNCHANGED <<rec, sup, poll, job, sem, up, faults>>

ResumeHook(i) ==
  /\ vms[i].state = "PENDING" /\ vms[i].started
  /\ spawn(i) \/ HookFails(i)
  /\ UNCHANGED <<rec, sup, poll, job, sem, up, faults>>

(* Mutant: the sticky exit survives the suspend.                            *)
SuspendHookKeepsSticky(i) ==
  /\ vms[i].state = "SUSPENDING"
  /\ vms' = [vms EXCEPT ![i].state = "SUSPENDED"]
  /\ UNCHANGED <<task, rec, sup, poll, job, sem, up, faults>>
SuspendHook(i) ==
  /\ vms[i].state = "SUSPENDING"
  /\ vms' = [vms EXCEPT ![i].state = "SUSPENDED", ![i].sticky = 0]
  /\ UNCHANGED <<task, rec, sup, poll, job, sem, up, faults>>

Reap(i) ==
  /\ vms[i].state \notin {"none", "TERMINATED"}
  /\ Fault("reap", MaxReap)
  /\ vms' = [vms EXCEPT ![i].state = "TERMINATED", ![i].run = 0, ![i].dead = 0]
  /\ UNCHANGED <<task, rec, sup, poll, job, sem, up>>

(* The driver process ends, and supervise publishes that: the exit becomes  *)
(* the sticky one and goes to every open stream.                            *)
DriverExits(i) ==
  /\ vms[i].state = "RUNNING" /\ vms[i].run # 0
  /\ vms' = [vms EXCEPT ![i].run = 0, ![i].dead = vms[i].run]
  /\ UNCHANGED <<task, rec, sup, poll, job, sem, up, faults>>

Reaches(v, i) == sup[v].vm = i /\ sup[v].subscribed

(* Mutant: an exit reaches only the streams open now.                       *)
PublishToOpen(i) ==
  /\ vms[i].state = "RUNNING" /\ vms[i].dead # 0
  /\ vms' = [vms EXCEPT ![i].dead = 0]
  /\ sup' = [v \in Versions |-> IF Reaches(v, i)
               THEN [sup[v] EXCEPT !.event = vms[i].dead] ELSE sup[v]]
  /\ UNCHANGED <<task, rec, poll, job, sem, up, faults>>
PublishExit(i) ==
  /\ vms[i].state = "RUNNING" /\ vms[i].dead # 0
  /\ vms' = [vms EXCEPT ![i].dead = 0, ![i].sticky = vms[i].dead]
  /\ sup' = [v \in Versions |-> IF Reaches(v, i)
               THEN [sup[v] EXCEPT !.event = vms[i].dead] ELSE sup[v]]
  /\ UNCHANGED <<task, rec, poll, job, sem, up, faults>>

-----------------------------------------------------------------------------
(* Backend.Wait, called by the supervise goroutine of version v: mint a     *)
(* token, open the stream (subscribing takes the sticky exit in the same    *)
(* critical section), read it.  A token for a VM that is gone, and a drop   *)
(* of the stream of a VM that is not running, end it; any other drop makes  *)
(* it start over.                                                           *)
Returned(v) == /\ sup' = [sup EXCEPT ![v] = Idle]
               /\ sem' = IF sem = 0 THEN 0 ELSE sem - 1

Mint(v) ==
  /\ sup[v].pc = "mint"
  /\ \/ /\ Gone(sup[v].vm) /\ Returned(v)
     \/ /\ ~Gone(sup[v].vm)
        /\ sup' = [sup EXCEPT ![v].pc = "open"] /\ UNCHANGED sem
  /\ UNCHANGED <<vms, task, rec, poll, job, up, faults>>

Serving(i) == Running(i) /\ vms[i].started
SubscribeExit(v) ==
  /\ sup[v].pc = "open" /\ Serving(sup[v].vm)
  /\ sup' = [sup EXCEPT ![v].pc = "read", ![v].subscribed = TRUE,
                        ![v].event = vms[sup[v].vm].sticky]
  /\ UNCHANGED <<vms, task, rec, poll, job, sem, up, faults>>

Dropped(v) ==
  /\ sup[v].pc \in {"open", "read"}
  /\ IF Serving(sup[v].vm) THEN Fault("drop", MaxDrop) ELSE UNCHANGED faults
  /\ sup' = [sup EXCEPT ![v].pc = "arbitrate", ![v].subscribed = FALSE, ![v].event = 0]
  /\ UNCHANGED <<vms, task, rec, poll, job, sem, up>>

Arbitrate(v) ==
  /\ sup[v].pc = "arbitrate"
  /\ \/ /\ Running(sup[v].vm)
        /\ sup' = [sup EXCEPT ![v].pc = "mint"] /\ UNCHANGED sem
     \/ /\ ~Running(sup[v].vm) /\ Returned(v)
  /\ UNCHANGED <<vms, task, rec, poll, job, up, faults>>

WaitSuspends(v) ==
  /\ sup[v].pc = "read" /\ sup[v].event # 0
  /\ LET i == sup[v].vm IN
     \/ /\ vms' = IF vms[i].state = "RUNNING"
                  THEN [vms EXCEPT ![i].state = "SUSPENDING"] ELSE vms
        /\ UNCHANGED faults
     \/ Fault("refuse", MaxRefuse) /\ UNCHANGED vms
  /\ Returned(v)
  /\ UNCHANGED <<task, rec, poll, job, up>>

-----------------------------------------------------------------------------
(* Runner.Poll for this task.  A start waits while the sandbox runs; a      *)
(* restart that this version has not launched yet signals the old run       *)
(* first.  Then both take a slot and call Start for the version listed.     *)
Poll ==
  /\ up /\ poll = "idle"
  /\ \/ task.command = "start" /\ (rec # NoRec => ~Running(rec.vm)) /\ poll' = "acquire"
     \/ task.command = "restart" /\ rec.version # task.version /\ poll' = "kill"
  /\ job' = [version |-> task.version, vm |-> 0]
  /\ UNCHANGED <<vms, task, rec, sup, sem, up, faults>>

(* The shim's stop waits for the driver to be dead.                         *)
stopDriver(i) ==
  /\ vms[i].state = "RUNNING" /\ vms[i].run # 0
  /\ vms' = [vms EXCEPT ![i].run = 0, ![i].dead = vms[i].run]

(* Backend.Signal returns when the driver is dead, or without an effect: no *)
(* token, no answer in 30 seconds, a refusal.  The restart goes on.         *)
Signal ==
  /\ poll = "kill"
  /\ poll' = "acquire"
  /\ (rec # NoRec /\ stopDriver(rec.vm)) \/ UNCHANGED vms
  /\ UNCHANGED <<task, rec, sup, job, sem, up, faults>>

(* The poll of this task is over.                                           *)
PollEnds == poll' = "idle" /\ job' = NoRec

TryAcquire ==
  /\ poll = "acquire"
  /\ \/ sem < Concurrency /\ sem' = sem + 1 /\ poll' = "start" /\ UNCHANGED job
     \/ ~(sem < Concurrency) /\ PollEnds /\ UNCHANGED sem
  /\ UNCHANGED <<vms, task, rec, sup, up, faults>>

(* Start failed: the slot is given back and the run of the version listed   *)
(* reported failed.                                                         *)
StartFails ==
  /\ PollEnds /\ sem' = IF sem = 0 THEN 0 ELSE sem - 1
  /\ task' = IF task.version = job.version THEN [task EXCEPT !.command = "none"] ELSE task

(* Start up to Launch.  Probe: a running sandbox makes Start a no-op, a     *)
(* gone one drops the record; the probe and the spec may fail.              *)
Probe ==
  /\ poll = "start"
  /\ \/ /\ rec # NoRec /\ Running(rec.vm)
        /\ PollEnds /\ UNCHANGED <<rec, sem, task>>
     \/ /\ rec # NoRec /\ Gone(rec.vm)
        /\ rec' = NoRec /\ StartFails
     \/ /\ rec # NoRec => ~Running(rec.vm) /\ ~Gone(rec.vm)
        /\ poll' = "launch" /\ UNCHANGED <<rec, job, sem, task>>
     \/ StartFails /\ UNCHANGED rec
  /\ UNCHANGED <<vms, sup, up, faults>>

(* Backend.Launch without a handle runs a VM, with one it resumes a         *)
(* suspended VM, adopts a running one and calls any other gone.  Either may *)
(* fail; else the VM is up and nothing on disk says so yet.                 *)
Launched(i) == poll' = "record" /\ job' = [job EXCEPT !.vm = i]

launchFresh ==
  /\ poll = "launch" /\ rec = NoRec
  /\ \/ \E i \in VMs :
          /\ vms[i].state = "none" /\ \A j \in 1..(i - 1) : vms[j].state # "none"
          /\ vms' = [vms EXCEPT ![i].state = "PENDING"]
          /\ Launched(i) /\ UNCHANGED <<sem, task>>
     \/ StartFails /\ UNCHANGED vms
  /\ UNCHANGED <<rec, sup, up, faults>>

tryResume ==
  /\ poll = "launch" /\ rec # NoRec
  /\ \/ /\ vms[rec.vm].state = "SUSPENDED"
        /\ vms' = [vms EXCEPT ![rec.vm].state = "PENDING"]
        /\ Launched(rec.vm) /\ UNCHANGED <<rec, sem, task>>
     \/ /\ Running(rec.vm)
        /\ Launched(rec.vm) /\ UNCHANGED <<vms, rec, sem, task>>
     \/ /\ vms[rec.vm].state \in {"SUSPENDING", "TERMINATED"}
        /\ rec' = NoRec /\ StartFails /\ UNCHANGED vms
     \/ StartFails /\ UNCHANGED <<vms, rec>>
  /\ UNCHANGED <<sup, up, faults>>

(* The rest of Start: the handle is persisted, then supervise is spawned.   *)
(* A write that fails kills the runner, as Crash does.                      *)
WriteRecord ==
  /\ poll = "record" /\ poll' = "supervise"
  /\ rec' = job
  /\ UNCHANGED <<vms, task, sup, job, sem, up, faults>>

Supervised(r) == sup' = [sup EXCEPT ![r.version] = [Idle EXCEPT !.pc = "mint", !.vm = r.vm]]
SpawnSupervise ==
  /\ poll = "supervise" /\ PollEnds
  /\ Supervised(job)
  /\ UNCHANGED <<vms, task, rec, sem, up, faults>>

(* The user asks for another run.                                           *)
Ask(command) ==
  /\ task.command = "none" /\ task.version < MaxVersion
  /\ (command = "start") => \A i \in VMs : vms[i].run = 0
  /\ task' = [version |-> task.version + 1, command |-> command]
  /\ UNCHANGED <<vms, rec, sup, poll, job, sem, up, faults>>

(* Prune of an archived task: Destroy, then the record is removed.          *)
Destroy ==
  /\ up /\ poll = "idle" /\ rec # NoRec /\ ~Running(rec.vm) /\ task.command = "none"
  /\ vms' = [vms EXCEPT ![rec.vm].state = "TERMINATED"]
  /\ rec' = NoRec
  /\ UNCHANGED <<task, sup, poll, job, sem, up, faults>>

(* The runner dies and boots again: Load supervises what still runs.        *)
Crash ==
  /\ up /\ Fault("crash", MaxCrash)
  /\ up' = FALSE /\ PollEnds /\ sem' = 0 /\ sup' = [v \in Versions |-> Idle]
  /\ UNCHANGED <<vms, task, rec>>

Load ==
  /\ ~up /\ up' = TRUE
  /\ IF rec # NoRec /\ Running(rec.vm)
     THEN Supervised(rec) /\ sem' = 1
     ELSE UNCHANGED <<sup, sem>>
  /\ UNCHANGED <<vms, task, rec, poll, job, faults>>

-----------------------------------------------------------------------------
ShimStep(i) == RunHook(i) \/ ResumeHook(i) \/ SuspendHook(i) \/ PublishExit(i)
WaitStep(v) == Mint(v) \/ SubscribeExit(v) \/ WaitSuspends(v) \/ Arbitrate(v)
StartStep   == Signal \/ TryAcquire \/ Probe \/ launchFresh \/ tryResume
RunnerStep  == StartStep \/ WriteRecord \/ SpawnSupervise \/ Load

MicroNext ==
  \/ \E i \in VMs : ShimStep(i) \/ Reap(i) \/ DriverExits(i)
  \/ \E v \in Versions : WaitStep(v) \/ Dropped(v)
  \/ Poll \/ RunnerStep \/ Destroy \/ Crash
  \/ \E command \in {"start", "restart"} : Ask(command)

(* The shim and the goroutines of a living runner run on, and a stream to a *)
(* VM that does not serve fails.                                            *)
MicroFairness ==
  /\ WF_microVars(Load) /\ WF_microVars(WriteRecord) /\ WF_microVars(SpawnSupervise)
  /\ \A i \in VMs : WF_microVars(ShimStep(i))
  /\ \A v \in Versions : WF_microVars(WaitStep(v) \/ (Dropped(v) /\ UNCHANGED faults))

MicroSpec == MicroInit /\ [][MicroNext]_microVars /\ MicroFairness

-----------------------------------------------------------------------------
(* Every variable has its type, and what is supervised was recorded.        *)
MicroTypeOK ==
  /\ {rec, job} \subseteq [version : 0..MaxVersion, vm : 0..MaxVMs]
  /\ sem \in 0..Concurrency
  /\ \A i \in VMs :
       /\ vms[i].state \in {"none", "PENDING", "RUNNING", "SUSPENDING", "SUSPENDED", "TERMINATED"}
       /\ vms[i].run \in 0..MaxVersion /\ vms[i].sticky \in 0..MaxVersion
  /\ \A v \in Versions : sup[v].pc \in {"off", "mint", "open", "read", "arbitrate"}

(* Wait never ends a run with the exit of an earlier one: the sticky exit   *)
(* does not survive a suspend or a spawn (suspendHook, "so a stream that    *)
(* reconnects after the resume does not replay the previous run's exit").   *)
NoStaleExit == \A v \in Versions : sup[v].event # 0 => sup[v].event >= v

(* A VM is never suspended under a live driver: only the exit of its driver *)
(* makes Wait suspend it, across dropped streams and runner crashes.        *)
NoRunFrozen ==
  \A i \in VMs : vms[i].state \in {"SUSPENDING", "SUSPENDED"} =>
                   vms[i].run = 0 /\ vms[i].dead = 0

(* A VM on record whose driver is gone is suspended in the end, exits while *)
(* the runner was away, the stream was down or the handle was not yet       *)
(* written included, unless the cloud refused (lifecycle, "delivering an    *)
(* exit that happened while the runner was disconnected rather than losing  *)
(* it"; Start, "an exit in the launch->persist window is not lost").  A VM  *)
(* that runs is off record only after a crash between Launch and the write. *)
OnRecord(i) == i \in {rec.vm, job.vm}
Spent(i) == vms[i].state = "RUNNING" /\ vms[i].run = 0 /\ faults.refuse = 0
ExitSuspends == \A i \in VMs : Spent(i) ~> ~Spent(i) \/ ~OnRecord(i)

(* A record is dropped only for a sandbox that is gone (Runner.gone, "the   *)
(* task's recorded sandbox no longer exists").                              *)
GoneIsGone ==
  [][rec' = NoRec /\ rec # NoRec => vms'[rec.vm].state = "TERMINATED"]_microVars

(* A slot is held by a supervise goroutine or by the poll that took it.     *)
SlotsHeld ==
  up => sem = Cardinality({v \in Versions : sup[v].pc # "off"})
                + (IF poll \in {"start", "launch", "record", "supervise"} THEN 1 ELSE 0)
=============================================================================
