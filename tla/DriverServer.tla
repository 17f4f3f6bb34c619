---------------------------- MODULE DriverServer ----------------------------
(***************************************************************************)
(* internal/runner/driverserver, the long-lived driver of a sandbox, with  *)
(* its run record on disk (internal/runner/runrecord): Run starts the run  *)
(* of a version or attaches to it and streams until that run's Finished,   *)
(* Stop and Shutdown cancel, and New reconciles the record a crash left.   *)
(*                                                                         *)
(* Callers are the runner's Run requests, one after the other or at the    *)
(* same time, with any version, with a spec or without.  A run ends on its *)
(* own or because it is stopped; its last report to the server is          *)
(* acknowledged, or its answer is lost, or it never arrives.  Writing the  *)
(* record fails or replaces the file (atomicio); the process may die       *)
(* between any two steps.                                                  *)
(***************************************************************************)
EXTENDS Integers, FiniteSets

CONSTANTS
  Callers,       \* Run requests
  MaxRun,        \* bound on the versions
  MaxDeath,      \* bound on the deaths of the process
  MaxBadWrite    \* bound on failing writes of the record

NoCaller == "nobody"

ASSUME DriverServerAssumption ==
  {MaxRun, MaxDeath, MaxBadWrite} \subseteq Nat /\ NoCaller \notin Callers

VARIABLES
  disk,        \* the run record, NoRecord before the first run
  record,      \* Server.rec
  active,      \* the run of this process: version, phase, reported
  streaming,   \* the caller whose stream is open, NoCaller when none is
  closed,      \* Shutdown was called
  alive,       \* the process runs
  call,        \* every Run request and how it ended
  acked,       \* versions whose terminal report the server has (history)
  starts,      \* how often the run of each version was executed (history)
  deaths, badWrites

driverVars == <<disk, record, active, streaming, closed, alive, call, acked,
                starts, deaths, badWrites>>

Runs     == 1..MaxRun
NoRecord == [version |-> 0, state |-> "none", reported |-> FALSE]
NoRun    == [version |-> 0, phase |-> "none", reported |-> FALSE]
Record(v, state, reported) == [version |-> v, state |-> state, reported |-> reported]

(* The write of the record replaces the file, or fails and leaves it.       *)
BadWrite == badWrites < MaxBadWrite /\ badWrites' = badWrites + 1

DriverInit ==
  /\ disk = NoRecord /\ record = NoRecord /\ active = NoRun
  /\ streaming = NoCaller /\ closed = FALSE /\ alive = TRUE
  /\ call = [c \in Callers |-> [pc |-> "idle", version |-> 0, reported |-> FALSE]]
  /\ acked = {} /\ starts = [v \in Runs |-> 0]
  /\ deaths = 0 /\ badWrites = 0

-----------------------------------------------------------------------------
(* Server.open.  The stream is claimed by a caller whose version is the     *)
(* record's, or whose spec may start the run.                               *)
Claimed(c, v) ==
  /\ streaming' = c
  /\ call' = [call EXCEPT ![c] = [@ EXCEPT !.pc = "open", !.version = v]]
Refused(c) == call' = [call EXCEPT ![c].pc = "refused"] /\ UNCHANGED streaming

(* Mutant: the record of the run that starts is kept in memory only.        *)
startUnrecorded(v) ==
  /\ record' = Record(v, "running", FALSE) /\ UNCHANGED disk
  /\ active' = [version |-> v, phase |-> "running", reported |-> FALSE]
  /\ starts' = [starts EXCEPT ![v] = @ + 1]
start(v) ==
  /\ disk' = Record(v, "running", FALSE) /\ record' = disk'
  /\ active' = [version |-> v, phase |-> "running", reported |-> FALSE]
  /\ starts' = [starts EXCEPT ![v] = @ + 1]

open(c, v, spec) ==
  /\ alive /\ call[c].pc = "idle"
  /\ \/ /\ streaming # NoCaller \/ record.version > v
        /\ Refused(c) /\ UNCHANGED <<disk, record, active, starts, badWrites>>
     \/ /\ streaming = NoCaller /\ record.version = v
        /\ Claimed(c, v) /\ UNCHANGED <<disk, record, active, starts, badWrites>>
     \/ /\ streaming = NoCaller /\ record.version < v
        /\ record.state = "running" \/ ~spec \/ closed
        /\ Refused(c) /\ UNCHANGED <<disk, record, active, starts, badWrites>>
     \/ /\ streaming = NoCaller /\ record.version < v
        /\ record.state # "running" /\ spec /\ ~closed
        /\ \/ Claimed(c, v) /\ start(v) /\ UNCHANGED badWrites
           \/ BadWrite /\ Refused(c) /\ UNCHANGED <<disk, record, active, starts>>
  /\ UNCHANGED <<closed, alive, acked, deaths>>

(* Server.Run's loop: Finished once the run is done (at once for a run an   *)
(* earlier process finished), and release; a caller that hung up is noticed *)
(* by the next keep-alive.                                                  *)
Done(v)       == active.version # v \/ active.phase = "done"
ReportedOf(v) == IF active.version = v THEN active.reported ELSE record.reported

Finish(c) ==
  /\ alive /\ streaming = c /\ call[c].pc = "open" /\ Done(call[c].version)
  /\ call' = [call EXCEPT ![c].pc = "finished",
                          ![c].reported = ReportedOf(call[c].version)]
  /\ streaming' = NoCaller
  /\ UNCHANGED <<disk, record, active, closed, alive, acked, starts, deaths, badWrites>>

HangUp(c) ==
  /\ call[c].pc = "open" /\ call' = [call EXCEPT ![c].pc = "hungup"]
  /\ UNCHANGED <<disk, record, active, streaming, closed, alive, acked, starts, deaths, badWrites>>

Detach(c) ==
  /\ alive /\ streaming = c /\ call[c].pc = "hungup"
  /\ streaming' = NoCaller
  /\ UNCHANGED <<disk, record, active, closed, alive, call, acked, starts, deaths, badWrites>>

(* Server.execute: the driver's run ends and its report is acknowledged or  *)
(* not; the record is written, which may fail; then rec and done are set.   *)
RunEnds ==
  /\ alive /\ active.phase \in {"running", "stopping"}
  /\ \E ack \in BOOLEAN, arrived \in BOOLEAN :
       /\ ack => arrived
       /\ active' = [active EXCEPT !.phase = "ended", !.reported = ack]
       /\ acked' = IF arrived THEN acked \cup {active.version} ELSE acked
  /\ UNCHANGED <<disk, record, streaming, closed, alive, call, starts, deaths, badWrites>>

Written ==
  /\ alive /\ active.phase = "ended"
  /\ \/ /\ disk' = Record(active.version, "finished", active.reported)
        /\ UNCHANGED badWrites
     \/ BadWrite /\ UNCHANGED disk
  /\ active' = [active EXCEPT !.phase = "written"]
  /\ UNCHANGED <<record, streaming, closed, alive, call, acked, starts, deaths>>

RunDone ==
  /\ alive /\ active.phase = "written"
  /\ record' = Record(active.version, "finished", active.reported)
  /\ active' = [active EXCEPT !.phase = "done"]
  /\ UNCHANGED <<disk, streaming, closed, alive, call, acked, starts, deaths, badWrites>>

(* Stop cancels the run of the version asked for while it is not done;      *)
(* Shutdown does the same for the active one and lets no other start.       *)
stop == active' = IF active.phase = "running"
                  THEN [active EXCEPT !.phase = "stopping"] ELSE active
Stop(v) ==
  /\ alive /\ active.version = v /\ active.phase = "running" /\ stop
  /\ UNCHANGED <<disk, record, streaming, closed, alive, call, acked, starts, deaths, badWrites>>

Shutdown ==
  /\ alive /\ ~closed /\ closed' = TRUE /\ stop
  /\ UNCHANGED <<disk, record, streaming, alive, call, acked, starts, deaths, badWrites>>

(* The process dies, and with it its streams.                               *)
Die ==
  /\ alive /\ deaths < MaxDeath /\ deaths' = deaths + 1
  /\ alive' = FALSE /\ active' = NoRun /\ streaming' = NoCaller /\ closed' = FALSE
  /\ call' = [c \in Callers |->
                IF call[c].pc = "open" THEN [call[c] EXCEPT !.pc = "hungup"] ELSE call[c]]
  /\ UNCHANGED <<disk, record, acked, starts, badWrites>>

(* Mutant: the run that died with the server counts as reported.            *)
ReconciledAsReported(r) ==
  IF r.state = "running" THEN Record(r.version, "finished", TRUE) ELSE r
(* New: Reconcile turns a record still running into a finished, unreported  *)
(* one before anything is served.                                           *)
Reconciled(r) ==
  IF r.state = "running" THEN Record(r.version, "finished", FALSE) ELSE r
New ==
  /\ ~alive /\ alive' = TRUE
  /\ disk' = Reconciled(disk) /\ record' = Reconciled(disk)
  /\ UNCHANGED <<active, streaming, closed, call, acked, starts, deaths, badWrites>>

-----------------------------------------------------------------------------
ServerSteps == RunEnds \/ Written \/ RunDone \/ New
                 \/ \E c \in Callers : Finish(c) \/ Detach(c)

DriverNext ==
  \/ \E c \in Callers :
       \/ \E v \in Runs, spec \in BOOLEAN : open(c, v, spec)
       \/ HangUp(c)
  \/ \E v \in Runs : Stop(v)
  \/ Shutdown \/ Die \/ ServerSteps

(* The process is started again when it dies and its goroutines run on;     *)
(* that a run ends is the agent's business, and the reports of TaskLifecycle *)
(* assume it too.                                                           *)
DriverFairness == WF_driverVars(ServerSteps)

DriverSpec == DriverInit /\ [][DriverNext]_driverVars /\ DriverFairness

-----------------------------------------------------------------------------
(* Every variable has its type, and the memory's record is the disk's       *)
(* unless a write is under way or failed.                                   *)
DriverTypeOK ==
  /\ record.version \in 0..MaxRun /\ disk.version \in 0..MaxRun
  /\ active.phase \in {"none", "running", "stopping", "ended", "written", "done"}
  /\ streaming \in Callers \cup {NoCaller}
  /\ (alive /\ badWrites = 0 /\ active.phase \notin {"written"}) => record = disk

(* The run of a version is executed once, whatever is retried, reconnected  *)
(* or restarted: a runner that asks again attaches or hears that it is over *)
(* (Run, "attaches to or starts the run with the request's version").       *)
RunsOnce == \A v \in Runs : starts[v] <= 1

(* Versions only go up on disk, so a stale request never starts anything.   *)
RecordMonotone == [][disk'.version >= disk.version]_driverVars

(* A Finished that says reported is true: the server has that run's         *)
(* terminal event (Finished.reported), across crashes and failed writes.    *)
ReportedTruthful ==
  \A c \in Callers : (call[c].pc = "finished" /\ call[c].reported) =>
                       call[c].version \in acked

(* A caller that stays is told the end of its run, and a stream whose       *)
(* caller left does not block the next one for ever.                        *)
StreamEnds == \A c \in Callers : streaming = c ~> streaming # c
=============================================================================
