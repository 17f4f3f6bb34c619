------------------------------ MODULE MCFlows ------------------------------
(* The streams for TLC, side by side: a task's events and the driver that   *)
(* drains them, the schedules and their workers, the runner's outbox, and   *)
(* the notifications that wake its poll loop.  They share no state, so a    *)
(* behaviour moves one of them and leaves the others where they start.      *)
(* Outbox and Notify have fair steps there, so their fairness is asked of   *)
(* their own behaviours only.                                               *)
EXTENDS EventStream, Scheduler, MCOutbox, Notify

VARIABLE flow      \* the component this behaviour is about

flowVars == <<streamVars, schedulerVars, vars, notifyVars, flow>>

FlowsInit ==
  /\ flow \in {"events", "schedules", "outbox", "notify"}
  /\ StreamInit /\ SchedulerInit /\ Init /\ NotifyInit

FlowsNext ==
  /\ UNCHANGED flow
  /\ \/ /\ flow = "events" /\ StreamNext
        /\ UNCHANGED <<schedulerVars, vars, notifyVars>>
     \/ /\ flow = "schedules" /\ SchedulerNext
        /\ UNCHANGED <<streamVars, vars, notifyVars>>
     \/ /\ flow = "outbox" /\ Next
        /\ UNCHANGED <<streamVars, schedulerVars, notifyVars>>
     \/ /\ flow = "notify" /\ NotifyNext
        /\ UNCHANGED <<streamVars, schedulerVars, vars>>

(* Fairness of Outbox and of Notify, in their own behaviours.               *)
OutboxFair ==
  /\ WF_vars(flow = "outbox" /\ Engine) /\ WF_vars(flow = "outbox" /\ Boot)
  /\ \A p \in Producers : WF_vars(flow = "outbox" /\ (Push(p) \/ Wake(p)))
NotifyFair ==
  /\ \A a \in Audience : WF_notifyVars(flow = "notify" /\ Publish(a))
  /\ \A i \in Streams : WF_notifyVars(flow = "notify" /\ ServeStream(i))
  /\ WF_notifyVars(flow = "notify" /\ Connect)
  /\ WF_notifyVars(flow = "notify" /\ Read)
  /\ WF_notifyVars(flow = "notify" /\ TakeWake)
  /\ WF_notifyVars(flow = "notify" /\ Interval)
  /\ SF_notifyVars(flow = "notify" /\ ListRunnerTasks)

FlowsSpec ==
  /\ FlowsInit /\ [][FlowsNext]_flowVars
  /\ StreamFairness /\ SchedulerFairness
  /\ OutboxFair /\ NotifyFair
=============================================================================
