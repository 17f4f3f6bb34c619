----------------------------- MODULE Scheduler -----------------------------
(***************************************************************************)
(* Schedules: the handlers of internal/server/apiserver/schedule.go and    *)
(* the workers of internal/server/scheduler that fire due ones into tasks. *)
(*                                                                         *)
(* A tick is one transaction: it locks the due rows that nobody else holds *)
(* (FOR UPDATE SKIP LOCKED), fires each, and commits; between the claim    *)
(* and the commit the rows are locked and time goes on.  The claim reads   *)
(* the database's clock, the next occurrence is computed from the          *)
(* server's, which is Skew behind.  A cron spec is reduced to its period:  *)
(* it occurs at the positive multiples.  Occurrence 0 is a NULL            *)
(* next_run_at.  What a fire writes into the tasks table is CreateTask of  *)
(* TaskServer; here only the occurrence is recorded.                       *)
(***************************************************************************)
EXTENDS Integers, FiniteSets

CONSTANTS
  Schedules,    \* schedule ids
  Workers,      \* server instances
  Periods,      \* cron specs, by their period
  BatchSize,    \* schedules claimed per tick
  Skew,         \* how far the server's clock is behind the database's
  MaxTime,      \* bound on the clock
  MaxManual     \* bound on the manual runs

ASSUME SchedulerAssumption ==
  /\ Periods \subseteq Nat \ {0}
  /\ BatchSize \in Nat \ {0} /\ Skew \in Nat
  /\ MaxTime \in Nat /\ MaxManual \in Nat

VARIABLES
  schedules,    \* the schedules table
  claims,       \* the rows each worker's tick has locked
  now,          \* the database's clock
  tzKnown,      \* the tz database still resolves the schedules' timezone
  fired,        \* occurrences fired, per schedule (history)
  twice,        \* occurrences fired more than once (history)
  manual        \* tasks created by RunSchedule (history)

schedulerVars == <<schedules, claims, now, tzKnown, fired, twice, manual>>

Null     == 0
Unused   == [state |-> "unused", period |-> 0, next |-> Null]
Deleted  == [state |-> "deleted", period |-> 0, next |-> Null]
Schedule == [state : {"enabled", "disabled"}, period : Periods, next : Nat]

SchedulerTypeOK ==
  /\ schedules \in [Schedules -> Schedule \cup {Unused, Deleted}]
  /\ claims \in [Workers -> SUBSET Schedules]
  /\ now \in 0..MaxTime /\ tzKnown \in BOOLEAN
  /\ fired \in [Schedules -> SUBSET (1..MaxTime)]
  /\ twice \subseteq Schedules \X (1..MaxTime)
  /\ manual \in 0..MaxManual

SchedulerInit ==
  /\ schedules = [s \in Schedules |-> Unused]
  /\ claims = [w \in Workers |-> {}]
  /\ now = 0 /\ tzKnown = TRUE
  /\ fired = [s \in Schedules |-> {}] /\ twice = {} /\ manual = 0

-----------------------------------------------------------------------------
Stored(s) == schedules[s].state \in {"enabled", "disabled"}
RowLocked(s) == \E w \in Workers : s \in claims[w]

(* time.Now() of a server.                                                  *)
Clock == IF now > Skew THEN now - Skew ELSE 0

(* The first occurrence strictly after the server's now.                    *)
NextRun(period) == (Clock \div period + 1) * period

-----------------------------------------------------------------------------
(* The handlers.  Validate and Next refuse a timezone that does not load.   *)

CreateSchedule(s, period, enabled) ==
  /\ schedules[s] = Unused /\ tzKnown
  /\ schedules' = [schedules EXCEPT ![s] =
                     [state  |-> IF enabled THEN "enabled" ELSE "disabled",
                      period |-> period,
                      next   |-> IF enabled THEN NextRun(period) ELSE Null]]
  /\ UNCHANGED <<claims, now, tzKnown, fired, twice, manual>>

(* An enabled schedule re-aligns to its grid; a disabled one keeps NULL.    *)
UpdateSchedule(s, period) ==
  /\ Stored(s) /\ ~RowLocked(s) /\ tzKnown
  /\ schedules' = [schedules EXCEPT ![s].period = period,
                     ![s].next = IF schedules[s].state = "enabled"
                                   THEN NextRun(period) ELSE @]
  /\ UNCHANGED <<claims, now, tzKnown, fired, twice, manual>>

SetScheduleEnabled(s, enabled) ==
  /\ Stored(s) /\ ~RowLocked(s)
  /\ enabled => tzKnown
  /\ schedules' = [schedules EXCEPT
                     ![s].state = IF enabled THEN "enabled" ELSE "disabled",
                     ![s].next = IF enabled THEN NextRun(schedules[s].period)
                                            ELSE Null]
  /\ UNCHANGED <<claims, now, tzKnown, fired, twice, manual>>

DeleteSchedule(s) ==
  /\ Stored(s) /\ ~RowLocked(s)
  /\ schedules' = [schedules EXCEPT ![s] = Deleted]
  /\ UNCHANGED <<claims, now, tzKnown, fired, twice, manual>>

(* A manual run needs no lock, no timezone and no enabled schedule, and     *)
(* records nothing on the row.                                              *)
RunSchedule(s) ==
  /\ Stored(s) /\ manual < MaxManual
  /\ manual' = manual + 1
  /\ UNCHANGED <<schedules, claims, now, tzKnown, fired, twice>>

-----------------------------------------------------------------------------
(* The worker.                                                              *)

DueNow(s) ==
  /\ schedules[s].state = "enabled"
  /\ schedules[s].next # Null /\ schedules[s].next <= now

(* Mutant: plain SELECT, rows another instance is firing are claimed too.   *)
ClaimUnlocked(w) ==
  LET due == {s \in Schedules : DueNow(s)}
  IN  /\ claims[w] = {} /\ due # {}
      /\ claims' = [claims EXCEPT ![w] = due]
      /\ UNCHANGED <<schedules, now, tzKnown, fired, twice, manual>>

(* ORDER BY next_run_at LIMIT BatchSize FOR UPDATE SKIP LOCKED.             *)
ClaimDueSchedules(w) ==
  LET due == {s \in Schedules : DueNow(s) /\ ~RowLocked(s)}
  IN  /\ claims[w] = {}
      /\ \E batch \in (SUBSET due) \ {{}} :
           /\ \/ batch = due /\ Cardinality(due) <= BatchSize
              \/ Cardinality(batch) = BatchSize
           /\ \A s \in batch, r \in due \ batch :
                schedules[s].next <= schedules[r].next
           /\ claims' = [claims EXCEPT ![w] = batch]
      /\ UNCHANGED <<schedules, now, tzKnown, fired, twice, manual>>

(* The row fire leaves: advanced past now, or disabled when the next        *)
(* occurrence cannot be computed any more.                                  *)
Advance(s) ==
  IF tzKnown
    THEN [schedules[s] EXCEPT !.next = NextRun(schedules[s].period)]
    ELSE [schedules[s] EXCEPT !.state = "disabled", !.next = Null]

(* Mutant: an occurrence that cannot be computed fails the fire.            *)
FireNeedsTimezone(w) ==
  /\ claims[w] # {} /\ tzKnown
  /\ schedules' = [s \in Schedules |->
                     IF s \in claims[w] THEN Advance(s) ELSE schedules[s]]
  /\ fired' = [s \in Schedules |->
                 IF s \in claims[w] THEN fired[s] \cup {schedules[s].next}
                                    ELSE fired[s]]
  /\ twice' = twice \cup {<<s, schedules[s].next>> :
                            s \in {r \in claims[w] :
                                     schedules[r].next \in fired[r]}}
  /\ claims' = [claims EXCEPT ![w] = {}]
  /\ UNCHANGED <<now, tzKnown, manual>>

(* The commit of a tick: every claimed schedule has fired and advanced.     *)
Tick(w) ==
  /\ claims[w] # {}
  /\ schedules' = [s \in Schedules |->
                     IF s \in claims[w] THEN Advance(s) ELSE schedules[s]]
  /\ fired' = [s \in Schedules |->
                 IF s \in claims[w] THEN fired[s] \cup {schedules[s].next}
                                    ELSE fired[s]]
  /\ twice' = twice \cup {<<s, schedules[s].next>> :
                            s \in {r \in claims[w] :
                                     schedules[r].next \in fired[r]}}
  /\ claims' = [claims EXCEPT ![w] = {}]
  /\ UNCHANGED <<now, tzKnown, manual>>

(* An error or a crash before the commit: nothing of the tick happened.     *)
TickRollsBack(w) ==
  /\ claims[w] # {}
  /\ claims' = [claims EXCEPT ![w] = {}]
  /\ UNCHANGED <<schedules, now, tzKnown, fired, twice, manual>>

-----------------------------------------------------------------------------
TimePasses ==
  /\ now < MaxTime
  /\ now' = now + 1
  /\ UNCHANGED <<schedules, claims, tzKnown, fired, twice, manual>>

TimezoneDropped ==
  /\ tzKnown
  /\ tzKnown' = FALSE
  /\ UNCHANGED <<schedules, claims, now, fired, twice, manual>>

SchedulerNext ==
  \/ \E s \in Schedules, p \in Periods, b \in BOOLEAN : CreateSchedule(s, p, b)
  \/ \E s \in Schedules, p \in Periods : UpdateSchedule(s, p)
  \/ \E s \in Schedules, b \in BOOLEAN : SetScheduleEnabled(s, b)
  \/ \E s \in Schedules : DeleteSchedule(s) \/ RunSchedule(s)
  \/ \E w \in Workers : ClaimDueSchedules(w) \/ Tick(w) \/ TickRollsBack(w)
  \/ TimePasses
  \/ TimezoneDropped

(* The workers tick for as long as the server runs, and not every tick      *)
(* fails.                                                                   *)
SchedulerFairness ==
  \A w \in Workers : /\ WF_schedulerVars(ClaimDueSchedules(w))
                     /\ SF_schedulerVars(Tick(w))

SchedulerSpec ==
  SchedulerInit /\ [][SchedulerNext]_schedulerVars /\ SchedulerFairness

-----------------------------------------------------------------------------
(* An occurrence fires at most once, with any number of servers ticking,    *)
(* ticks that roll back and retry, and edits and toggles in between         *)
(* (scheduler.go Tick, "made exactly-once by pairing the advance with the   *)
(* fire").                                                                  *)
FiredOnce == twice = {}

(* No due schedule is wedged: it fires, or somebody changes it, even when   *)
(* its next occurrence can no longer be computed.                           *)
DueFires == \A s \in Schedules : DueNow(s) ~> ~DueNow(s)
=============================================================================
