----------------------------- MODULE FlowsProofs -----------------------------
(***************************************************************************)
(* Proofs about the three streams of the server, for every value of their  *)
(* constants: the schedules and the workers that fire them (Scheduler), a  *)
(* run's log, its shipper and its reader (LogStream), a task's events and  *)
(* the driver that drains them behind a saved cursor (EventStream).  The   *)
(* last two rest on what a page of a list holds (Pagination), in the       *)
(* middle of this module.                                                  *)
(***************************************************************************)
EXTENDS Scheduler, LogStream, EventStream, FiniteSetTheorems, SequenceTheorems, TLAPS

-----------------------------------------------------------------------------
(* Schedules.  What has fired lies in the past, what is to fire comes after *)
(* everything that has fired, and a claimed row is due and claimed once.    *)
RowsTyped ==
  /\ schedules \in [Schedules -> Schedule \cup {Unused, Deleted}]
  /\ claims \in [Workers -> SUBSET Schedules]
  /\ now \in 0..MaxTime
  /\ fired \in [Schedules -> SUBSET (1..MaxTime)]
FiredPast ==
  \A s \in Schedules : \A o \in fired[s] : o <= now
NextAhead ==
  \A s \in Schedules : schedules[s].state = "enabled" =>
    schedules[s].next # Null /\ \A o \in fired[s] : o < schedules[s].next
ClaimedDue ==
  \A w \in Workers : \A s \in claims[w] : DueNow(s)
ClaimsApart ==
  \A v, w \in Workers : v # w => claims[v] \cap claims[w] = {}

SchedulerInv ==
  /\ RowsTyped /\ FiredPast /\ NextAhead /\ ClaimedDue /\ ClaimsApart
  /\ twice = {} /\ tzKnown \in BOOLEAN /\ manual \in 0..MaxManual

(* An occurrence is computed strictly after the server's now.               *)
LEMMA NextRunAfter ==
  ASSUME NEW c \in Nat, NEW p \in Nat \ {0}
  PROVE  (c \div p + 1) * p \in Nat /\ (c \div p + 1) * p > c
<1>1. c \div p \in Nat
  OBVIOUS
<1>2. (c \div p + 1) * p > c
  OBVIOUS
<1> QED  BY <1>1, <1>2

(* With the clocks together, that is after everything fired so far.         *)
LEMMA NextRunAhead ==
  ASSUME SchedulerInv, Skew = 0, NEW p \in Periods
  PROVE  NextRun(p) \in Nat /\ NextRun(p) # Null /\ NextRun(p) > now
<1>1. Clock = now /\ now \in Nat
  BY SchedulerAssumption DEF Clock, SchedulerInv, RowsTyped
<1>2. p \in Nat \ {0}
  BY SchedulerAssumption
<1>3. NextRun(p) \in Nat /\ NextRun(p) > now
  BY <1>1, <1>2, NextRunAfter DEF NextRun
<1> QED  BY <1>1, <1>3 DEF Null

(* A handler writes one row that nobody has claimed.                        *)
LEMMA OneRow ==
  ASSUME SchedulerInv, NEW s \in Schedules, ~RowLocked(s),
         NEW r \in Schedule \cup {Unused, Deleted},
         r.state = "enabled" => r.next # Null /\ r.next > now,
         schedules' = [schedules EXCEPT ![s] = r],
         UNCHANGED <<claims, now, tzKnown, fired, twice, manual>>
  PROVE  SchedulerInv'
<1>1. RowsTyped' /\ schedules'[s] = r /\ \A q \in Schedules : q # s => schedules'[q] = schedules[q]
  BY DEF SchedulerInv, RowsTyped
<1>2. FiredPast' /\ ClaimsApart'
  BY DEF SchedulerInv, FiredPast, ClaimsApart
<1>3. NextAhead'
  <2> SUFFICES ASSUME NEW q \in Schedules, schedules'[q].state = "enabled"
               PROVE  schedules'[q].next # Null /\ \A o \in fired[q] : o < schedules'[q].next
    BY DEF NextAhead
  <2>1. CASE q = s
    <3>1. r.next # Null /\ r.next > now /\ r.state = "enabled"
      BY <1>1, <2>1
    <3>2. r \in Schedule
      BY <3>1 DEF Unused, Deleted
    <3>3. r.next \in Nat /\ now \in Nat
      BY <3>2 DEF Schedule, SchedulerInv, RowsTyped
    <3>4. \A o \in fired[q] : o \in Nat /\ o <= now
      BY DEF SchedulerInv, FiredPast, RowsTyped
    <3> QED  BY <1>1, <2>1, <3>1, <3>3, <3>4
  <2>2. CASE q # s
    BY <1>1, <2>2 DEF SchedulerInv, NextAhead
  <2> QED  BY <2>1, <2>2
<1>4. ClaimedDue'
  BY <1>1 DEF SchedulerInv, ClaimedDue, DueNow, RowLocked
<1> QED  BY <1>1, <1>2, <1>3, <1>4 DEF SchedulerInv

(* The handlers.                                                            *)
LEMMA HandlerSteps ==
  ASSUME SchedulerInv, Skew = 0, NEW s \in Schedules,
         \/ \E p \in Periods, b \in BOOLEAN : CreateSchedule(s, p, b)
         \/ \E p \in Periods : UpdateSchedule(s, p)
         \/ \E b \in BOOLEAN : SetScheduleEnabled(s, b)
         \/ DeleteSchedule(s)
  PROVE  SchedulerInv'
<1>0. schedules \in [Schedules -> Schedule \cup {Unused, Deleted}]
  BY DEF SchedulerInv, RowsTyped
<1>1. ASSUME NEW p \in Periods, NEW b \in BOOLEAN, CreateSchedule(s, p, b)
      PROVE  SchedulerInv'
  <2>1. DEFINE r == [state  |-> IF b THEN "enabled" ELSE "disabled", period |-> p,
                     next   |-> IF b THEN NextRun(p) ELSE Null]
  <2>2. schedules' = [schedules EXCEPT ![s] = r] /\ schedules[s] = Unused
        /\ UNCHANGED <<claims, now, tzKnown, fired, twice, manual>>
    BY <1>1 DEF CreateSchedule
  <2>3. NextRun(p) \in Nat /\ NextRun(p) # Null /\ NextRun(p) > now
    BY NextRunAhead
  <2>4. r \in Schedule /\ (r.state = "enabled" => r.next # Null /\ r.next > now)
    <3>1. CASE b
      BY <2>3, <3>1 DEF Schedule
    <3>2. CASE ~b
      BY <3>2 DEF Schedule, Null
    <3> QED  BY <3>1, <3>2
  <2>5. ~RowLocked(s)
    BY <2>2 DEF RowLocked, SchedulerInv, ClaimedDue, DueNow, Unused
  <2> HIDE DEF r
  <2> QED  BY <2>2, <2>4, <2>5, OneRow
<1>2. ASSUME Stored(s) PROVE schedules[s] \in Schedule
  BY <1>0, <1>2 DEF Stored, Unused, Deleted
<1>3. ASSUME NEW p \in Periods, UpdateSchedule(s, p) PROVE SchedulerInv'
  <2>1. DEFINE r == [schedules[s] EXCEPT !.period = p,
                       !.next = IF schedules[s].state = "enabled" THEN NextRun(p) ELSE schedules[s].next]
  <2>2. schedules' = [schedules EXCEPT ![s] = r] /\ Stored(s) /\ ~RowLocked(s)
        /\ UNCHANGED <<claims, now, tzKnown, fired, twice, manual>>
    BY <1>0, <1>3 DEF UpdateSchedule
  <2>3. NextRun(p) \in Nat /\ NextRun(p) # Null /\ NextRun(p) > now
    BY NextRunAhead
  <2>4. schedules[s] \in Schedule
    BY <1>2, <2>2
  <2>5. r \in Schedule /\ (r.state = "enabled" => r.next # Null /\ r.next > now)
    BY <2>3, <2>4 DEF Schedule
  <2> HIDE DEF r
  <2> QED  BY <2>2, <2>5, OneRow
<1>4. ASSUME NEW b \in BOOLEAN, SetScheduleEnabled(s, b) PROVE SchedulerInv'
  <2>1. DEFINE r == [schedules[s] EXCEPT !.state = IF b THEN "enabled" ELSE "disabled",
                       !.next = IF b THEN NextRun(schedules[s].period) ELSE Null]
  <2>2. schedules' = [schedules EXCEPT ![s] = r] /\ Stored(s) /\ ~RowLocked(s)
        /\ UNCHANGED <<claims, now, tzKnown, fired, twice, manual>>
    BY <1>0, <1>4 DEF SetScheduleEnabled
  <2>3. schedules[s] \in Schedule
    BY <1>2, <2>2
  <2>4. schedules[s].period \in Periods
    BY <2>3 DEF Schedule
  <2>5. LET n == NextRun(schedules[s].period) IN n \in Nat /\ n # Null /\ n > now
    BY <2>4, NextRunAhead
  <2>6. r \in Schedule /\ (r.state = "enabled" => r.next # Null /\ r.next > now)
    <3>1. CASE b
      BY <2>3, <2>5, <3>1 DEF Schedule
    <3>2. CASE ~b
      BY <2>3, <3>2 DEF Schedule, Null
    <3> QED  BY <3>1, <3>2
  <2> HIDE DEF r
  <2> QED  BY <2>2, <2>6, OneRow
<1>5. ASSUME DeleteSchedule(s) PROVE SchedulerInv'
  <2>1. schedules' = [schedules EXCEPT ![s] = Deleted] /\ ~RowLocked(s)
        /\ UNCHANGED <<claims, now, tzKnown, fired, twice, manual>>
    BY <1>5 DEF DeleteSchedule
  <2>2. Deleted \in Schedule \cup {Unused, Deleted} /\ Deleted.state # "enabled"
    BY DEF Deleted
  <2> HIDE DEF Deleted
  <2> QED  BY <2>1, <2>2, OneRow
<1> QED  BY <1>1, <1>3, <1>4, <1>5

(* The commit of a tick fires what lies ahead of everything fired before,   *)
(* and moves the claimed rows beyond now.                                   *)
LEMMA TickStep ==
  ASSUME SchedulerInv, Skew = 0, NEW w \in Workers, Tick(w)
  PROVE  SchedulerInv'
<1> USE SchedulerAssumption
<1>0. /\ schedules \in [Schedules -> Schedule \cup {Unused, Deleted}]
      /\ claims \in [Workers -> SUBSET Schedules]
      /\ now \in 0..MaxTime /\ MaxTime \in Nat
      /\ fired \in [Schedules -> SUBSET (1..MaxTime)]
  BY DEF SchedulerInv, RowsTyped
<1>1. /\ UNCHANGED <<now, tzKnown, manual>> /\ claims' = [claims EXCEPT ![w] = {}]
      /\ schedules' = [s \in Schedules |-> IF s \in claims[w] THEN Advance(s) ELSE schedules[s]]
      /\ fired' = [s \in Schedules |-> IF s \in claims[w] THEN fired[s] \cup {schedules[s].next}
                                                          ELSE fired[s]]
  BY DEF Tick
<1>2. ASSUME NEW s \in claims[w]
      PROVE  /\ s \in Schedules /\ schedules[s] \in Schedule /\ schedules[s].state = "enabled"
             /\ schedules[s].next \in 1..MaxTime /\ schedules[s].next <= now
             /\ schedules[s].next \notin fired[s]
  <2>1. s \in Schedules /\ DueNow(s)
    BY <1>0 DEF SchedulerInv, ClaimedDue
  <2>2. schedules[s] \in Schedule
    BY <1>0, <2>1 DEF DueNow, Unused, Deleted
  <2>3. schedules[s].next \in Nat /\ schedules[s].next # 0 /\ schedules[s].next <= now
    BY <2>1, <2>2 DEF DueNow, Schedule, Null
  <2>4. \A o \in fired[s] : o < schedules[s].next
    BY <2>1 DEF SchedulerInv, NextAhead, DueNow
  <2> QED  BY <1>0, <2>1, <2>2, <2>3, <2>4 DEF DueNow
<1>3. twice' = {}
  BY <1>2 DEF Tick, SchedulerInv
<1>4. ASSUME NEW s \in claims[w]
      PROVE  /\ Advance(s) \in Schedule
             /\ Advance(s).state = "enabled" => Advance(s).next # Null /\ Advance(s).next > now
  <2>1. schedules[s] \in Schedule /\ schedules[s].period \in Periods
    BY <1>2 DEF Schedule
  <2>2. LET n == NextRun(schedules[s].period) IN n \in Nat /\ n # Null /\ n > now
    BY <2>1, NextRunAhead
  <2>3. CASE tzKnown
    BY <2>1, <2>2, <2>3 DEF Advance, Schedule
  <2>4. CASE ~tzKnown
    BY <2>1, <2>4 DEF Advance, Schedule, Null
  <2> QED  BY <2>3, <2>4
<1> HIDE DEF Advance
<1>5. RowsTyped'
  <2>1. \A s \in Schedules : schedules'[s] \in Schedule \cup {Unused, Deleted}
    BY <1>0, <1>1, <1>4
  <2>2. \A s \in Schedules : fired'[s] \in SUBSET (1..MaxTime)
    BY <1>0, <1>1, <1>2
  <2>3. claims' \in [Workers -> SUBSET Schedules]
    BY <1>0, <1>1
  <2>4. /\ schedules' = [s \in Schedules |-> schedules'[s]]
        /\ fired' = [s \in Schedules |-> fired'[s]]
    BY <1>1
  <2>5. /\ schedules' \in [Schedules -> Schedule \cup {Unused, Deleted}]
        /\ fired' \in [Schedules -> SUBSET (1..MaxTime)]
    BY <2>1, <2>2, <2>4
  <2> QED  BY <1>0, <1>1, <2>3, <2>5 DEF RowsTyped
<1>6. FiredPast'
  BY <1>1, <1>2 DEF SchedulerInv, FiredPast
<1>7. NextAhead'
  <2> SUFFICES ASSUME NEW s \in Schedules, schedules'[s].state = "enabled"
               PROVE  schedules'[s].next # Null /\ \A o \in fired'[s] : o < schedules'[s].next
    BY DEF NextAhead
  <2>1. CASE s \in claims[w]
    <3>1. schedules'[s] = Advance(s)
      BY <1>1, <2>1
    <3>2. Advance(s).next # Null /\ Advance(s).next > now /\ Advance(s).next \in Nat
      BY <1>4, <2>1, <3>1 DEF Schedule
    <3>3. \A o \in fired'[s] : o \in Nat /\ o <= now
      BY <1>0, <1>1, <1>5, <1>6 DEF RowsTyped, FiredPast
    <3> QED  BY <1>0, <3>1, <3>2, <3>3
  <2>2. CASE s \notin claims[w]
    BY <1>1, <2>2 DEF SchedulerInv, NextAhead
  <2> QED  BY <2>1, <2>2
<1>8. ClaimedDue' /\ ClaimsApart'
  <2>1. ClaimsApart'
    BY <1>0, <1>1 DEF SchedulerInv, ClaimsApart
  <2>2. ASSUME NEW v \in Workers, NEW s \in claims'[v] PROVE DueNow(s)'
    <3>1. v # w /\ s \in claims[v] /\ s \in Schedules /\ s \notin claims[w]
      BY <1>0, <1>1, <2>2 DEF SchedulerInv, ClaimsApart
    <3>2. schedules'[s] = schedules[s] /\ DueNow(s)
      BY <1>1, <3>1 DEF SchedulerInv, ClaimedDue
    <3> QED  BY <1>1, <3>2 DEF DueNow
  <2> QED  BY <2>1, <2>2 DEF ClaimedDue
<1> QED  BY <1>1, <1>3, <1>5, <1>6, <1>7, <1>8 DEF SchedulerInv

(* Claims, roll-backs, time and the rest.                                   *)
LEMMA OtherSchedulerSteps ==
  ASSUME SchedulerInv,
         \/ \E s \in Schedules : RunSchedule(s)
         \/ \E w \in Workers : ClaimDueSchedules(w) \/ TickRollsBack(w)
         \/ TimePasses \/ TimezoneDropped
  PROVE  SchedulerInv'
<1> USE SchedulerAssumption
<1>0. /\ schedules \in [Schedules -> Schedule \cup {Unused, Deleted}]
      /\ claims \in [Workers -> SUBSET Schedules]
      /\ now \in 0..MaxTime /\ MaxTime \in Nat
      /\ fired \in [Schedules -> SUBSET (1..MaxTime)]
  BY DEF SchedulerInv, RowsTyped
<1>1. ASSUME NEW s \in Schedules, RunSchedule(s) PROVE SchedulerInv'
  <2>1. manual' \in 0..MaxManual
    BY <1>1 DEF RunSchedule, SchedulerInv
  <2> QED  BY <1>1, <2>1 DEF RunSchedule, SchedulerInv, RowsTyped, FiredPast, NextAhead,
                            ClaimedDue, ClaimsApart, DueNow
<1>2. ASSUME NEW w \in Workers, NEW batch \in SUBSET Schedules,
             \A s \in batch : DueNow(s) /\ \A v \in Workers : v # w => s \notin claims[v],
             claims' = [claims EXCEPT ![w] = batch],
             UNCHANGED <<schedules, now, tzKnown, fired, twice, manual>>
      PROVE  SchedulerInv'
  <2>1. RowsTyped'
    BY <1>0, <1>2 DEF RowsTyped
  <2>2. ClaimedDue' /\ ClaimsApart'
    BY <1>0, <1>2 DEF SchedulerInv, ClaimedDue, ClaimsApart, DueNow
  <2> QED  BY <1>2, <2>1, <2>2 DEF SchedulerInv, FiredPast, NextAhead
<1>3. ASSUME NEW w \in Workers, ClaimDueSchedules(w) PROVE SchedulerInv'
  <2>1. PICK batch \in SUBSET {s \in Schedules : DueNow(s) /\ ~RowLocked(s)} :
          claims' = [claims EXCEPT ![w] = batch]
    BY <1>3 DEF ClaimDueSchedules
  <2>2. batch \in SUBSET Schedules
        /\ \A s \in batch : DueNow(s) /\ \A v \in Workers : v # w => s \notin claims[v]
    BY <2>1 DEF RowLocked
  <2>3. UNCHANGED <<schedules, now, tzKnown, fired, twice, manual>>
    BY <1>3 DEF ClaimDueSchedules
  <2> QED  BY <1>2, <2>1, <2>2, <2>3
<1>4. ASSUME NEW w \in Workers, TickRollsBack(w) PROVE SchedulerInv'
  <2>1. claims' = [claims EXCEPT ![w] = {}] /\ UNCHANGED <<schedules, now, tzKnown, fired, twice, manual>>
    BY <1>4 DEF TickRollsBack
  <2>2. {} \in SUBSET Schedules
    OBVIOUS
  <2> QED  BY <1>2, <2>1, <2>2
<1>5. ASSUME TimePasses PROVE SchedulerInv'
  <2>1. now' = now + 1 /\ now' \in 0..MaxTime
        /\ UNCHANGED <<schedules, claims, tzKnown, fired, twice, manual>>
    BY <1>0, <1>5 DEF TimePasses
  <2>2. RowsTyped'
    BY <1>0, <2>1 DEF RowsTyped
  <2>3. FiredPast'
    <3>1. \A s \in Schedules : \A o \in fired[s] : o \in Nat /\ o <= now
      BY <1>0 DEF SchedulerInv, FiredPast
    <3> QED  BY <1>0, <2>1, <3>1 DEF FiredPast
  <2>4. ClaimedDue'
    <3> SUFFICES ASSUME NEW w \in Workers, NEW s \in claims[w] PROVE DueNow(s)'
      BY <2>1 DEF ClaimedDue
    <3>1. DueNow(s) /\ s \in Schedules
      BY <1>0 DEF SchedulerInv, ClaimedDue
    <3>2. schedules[s] \in Schedule
      BY <1>0, <3>1 DEF DueNow, Unused, Deleted
    <3>3. schedules[s].next \in Nat
      BY <3>2 DEF Schedule
    <3> QED  BY <1>0, <2>1, <3>1, <3>3 DEF DueNow
  <2> QED  BY <2>1, <2>2, <2>3, <2>4 DEF SchedulerInv, NextAhead, ClaimsApart
<1>6. ASSUME TimezoneDropped PROVE SchedulerInv'
  <2>1. tzKnown' \in BOOLEAN
    BY <1>6, Zenon DEF TimezoneDropped
  <2> QED  BY <1>6, <2>1
            DEF TimezoneDropped, SchedulerInv, RowsTyped, FiredPast, NextAhead,
                            ClaimedDue, ClaimsApart, DueNow
<1> QED  BY <1>1, <1>3, <1>4, <1>5, <1>6

(* With the servers' clocks not behind the database's, an occurrence fires  *)
(* at most once, for any number of servers, schedules and periods and any   *)
(* batch size (scheduler.go Tick).                                          *)
THEOREM FiredOnceTheorem ==
  ASSUME Skew = 0
  PROVE  SchedulerSpec => [](SchedulerTypeOK /\ FiredOnce)
<1> USE SchedulerAssumption
<1>1. SchedulerInit => SchedulerInv
  <2> SUFFICES ASSUME SchedulerInit PROVE SchedulerInv
    OBVIOUS
  <2>1. tzKnown \in BOOLEAN
    BY Zenon DEF SchedulerInit
  <2>2. Unused.state # "enabled"
    BY DEF Unused
  <2>3. RowsTyped
    BY DEF SchedulerInit, RowsTyped
  <2>4. FiredPast /\ NextAhead /\ ClaimedDue /\ ClaimsApart
    BY <2>2 DEF SchedulerInit, FiredPast, NextAhead, ClaimedDue, ClaimsApart
  <2> QED  BY <2>1, <2>3, <2>4 DEF SchedulerInit, SchedulerInv
<1>2. SchedulerInv /\ [SchedulerNext]_schedulerVars => SchedulerInv'
  <2> SUFFICES ASSUME SchedulerInv, [SchedulerNext]_schedulerVars PROVE SchedulerInv'
    OBVIOUS
  <2>1. CASE SchedulerNext
    BY <2>1, HandlerSteps, TickStep, OtherSchedulerSteps DEF SchedulerNext
  <2>2. CASE UNCHANGED schedulerVars
    BY <2>2 DEF schedulerVars, SchedulerInv, RowsTyped, FiredPast, NextAhead,
                ClaimedDue, ClaimsApart, DueNow
  <2> QED  BY <2>1, <2>2
<1>3. SchedulerInv => SchedulerTypeOK /\ FiredOnce
  BY DEF SchedulerInv, RowsTyped, SchedulerTypeOK, FiredOnce
<1> QED  BY <1>1, <1>2, <1>3, PTL DEF SchedulerSpec

-----------------------------------------------------------------------------
(* Pages.  The n numbers after a, and what a page of an interval is.        *)
After(a, n) == [i \in 1..n |-> a + i]
Smaller(m, n) == IF m < n THEN m ELSE n

(* The run as a sequence.                                                   *)
LEMMA AfterIs ==
  ASSUME NEW a \in Nat, NEW n \in Nat
  PROVE  /\ After(a, n) \in Seq(Nat) /\ Len(After(a, n)) = n
         /\ \A i \in 1..n : After(a, n)[i] = a + i
         /\ After(a, n) = <<>> <=> n = 0
<1>1. /\ After(a, n) \in Seq(Nat) /\ Len(After(a, n)) = n
      /\ \A i \in 1..n : After(a, n)[i] = a + i
  BY DEF After
<1>2. After(a, n) = <<>> => n = 0
  BY <1>1
<1>3. ASSUME n = 0 PROVE After(a, n) = <<>>
  <2>1. Len(After(a, n)) = 0
    BY <1>1, <1>3
  <2> QED  BY <1>1, <2>1, EmptySeq
<1> QED  BY <1>1, <1>2, <1>3

(* A page is computed from the rows of one query.                           *)
LEMMA ListIs ==
  ASSUME NEW keys, NEW size, NEW token
  PROVE  List(keys, size, token, TRUE)
           = LET rows == Query(keys, token, size + 1)
             IN  Page(IF Len(rows) > size THEN Front(rows) ELSE rows, Len(rows) > size,
                      token, TRUE)
<1> DEFINE P(r) == Page(IF Len(r) > size THEN Front(r) ELSE r, Len(r) > size, token, TRUE)
           rows == Query(keys, token, size + 1)
<1>1. List(keys, size, token, TRUE) = CHOOSE page \in {P(r) : r \in {rows}} : TRUE
  BY Zenon DEF List
<1> HIDE DEF P
<1>2. {P(r) : r \in {rows}} = {P(rows)}
  OBVIOUS
<1>3. (CHOOSE page \in {P(rows)} : TRUE) = P(rows)
  OBVIOUS
<1>4. List(keys, size, token, TRUE) = P(rows)
  BY <1>1, <1>2, <1>3
<1> QED  BY <1>4, Zenon DEF P

(* The page of a token towards newer rows, and of one towards older rows.   *)
NewestOf(items, c) == Token(IF items # <<>> THEN Last(items) ELSE c, TRUE)

(* Towards newer rows a page keeps the order of the query.                  *)
LEMMA BackwardItems ==
  ASSUME NEW items, NEW len, NEW size, NEW c
  PROVE  Page(items, len > size, Token(c, TRUE), TRUE).items = items
<1> DEFINE token == Token(c, TRUE)
<1>1. token.backward = TRUE
  BY DEF Token
<1> HIDE DEF token
<1>2. Page(items, len > size, token, TRUE).items
        = IF token.backward # TRUE THEN Reverse(items) ELSE items
  BY Zenon DEF Page
<1>3. Page(items, len > size, token, TRUE).items = items
  BY <1>1, <1>2
<1> QED  BY <1>3, Zenon DEF token

(* Its previous token points at the newest row it holds.                    *)
LEMMA BackwardPrev ==
  ASSUME NEW items, NEW len, NEW size, NEW c
  PROVE  Page(items, len > size, Token(c, TRUE), TRUE).prev = NewestOf(items, c)
<1> DEFINE token == Token(c, TRUE)
           prev  == Page(items, len > size, token, TRUE).prev
<1>1. token.backward = TRUE
  BY DEF Token
<1> HIDE DEF token
<1>2. prev = IF items # <<>> THEN Token(IF token.backward THEN Last(items)
                                        ELSE Head(items), TRUE)
             ELSE IF token.backward THEN token
             ELSE NoToken
  BY Zenon DEF Page
<1> HIDE DEF prev
<1>3. ASSUME items # <<>> PROVE prev = Token(Last(items), TRUE)
  <2>1. prev = Token(IF token.backward THEN Last(items) ELSE Head(items), TRUE)
    BY <1>2, <1>3
  <2>2. (IF token.backward THEN Last(items) ELSE Head(items)) = Last(items)
    BY <1>1
  <2> QED  BY <2>1, <2>2, Zenon
<1>4. ASSUME items = <<>> PROVE prev = token
  BY <1>1, <1>2, <1>4
<1>5. prev = NewestOf(items, c)
  BY <1>3, <1>4 DEF NewestOf, token
<1> QED  BY <1>5, Zenon DEF prev, token

(* An interval in ascending order.                                          *)
LEMMA OrderedInterval ==
  ASSUME NEW a \in Nat, NEW n \in Nat
  PROVE  Ordered((a + 1)..(a + n)) = After(a, n)
<1> DEFINE K == (a + 1)..(a + n)
<1>1. Cardinality(K) = n
  <2>1. Cardinality(K) = IF a + 1 > a + n THEN 0 ELSE a + n - (a + 1) + 1
    BY FS_Interval
  <2> QED  BY <2>1
<1>2. ASSUME NEW k \in K PROVE Cardinality({j \in K : j < k}) = k - a - 1
  <2>1. {j \in K : j < k} = (a + 1)..(k - 1)
    OBVIOUS
  <2>2. Cardinality((a + 1)..(k - 1)) = IF a + 1 > k - 1 THEN 0 ELSE k - 1 - (a + 1) + 1
    BY FS_Interval
  <2>3. (IF a + 1 > k - 1 THEN 0 ELSE k - 1 - (a + 1) + 1) = k - a - 1
    OBVIOUS
  <2> HIDE DEF K
  <2> QED  BY <2>1, <2>2, <2>3, Zenon
<1>3. ASSUME NEW i \in 1..n
      PROVE  (CHOOSE k \in K : Cardinality({j \in K : j < k}) = i - 1) = a + i
  <2>1. a + i \in K /\ \A k \in K : k - a - 1 = i - 1 <=> k = a + i
    OBVIOUS
  <2>2. \A k \in K : Cardinality({j \in K : j < k}) = i - 1 <=> k = a + i
    BY <1>2, <2>1
  <2> DEFINE R(k) == Cardinality({j \in K : j < k}) = i - 1
  <2>3. \A k \in K : R(k) <=> k = a + i
    BY <2>2
  <2> HIDE DEF R, K
  <2>4. (CHOOSE k \in K : R(k)) = a + i
    BY <2>1, <2>3
  <2> QED  BY <2>4, Zenon DEF R
<1> HIDE DEF K
<1>4. Ordered(K) = [i \in 1..n |-> CHOOSE k \in K : Cardinality({j \in K : j < k}) = i - 1]
  BY <1>1, Zenon DEF Ordered
<1>5. Ordered(K) = [i \in 1..n |-> a + i]
  BY <1>3, <1>4, Zenon
<1> QED  BY <1>5, Zenon DEF After, K

(* A prefix of an ascending run.                                            *)
LEMMA PrefixOfRun ==
  ASSUME NEW a \in Nat, NEW n \in Nat, NEW m \in 0..n
  PROVE  SubSeq(After(a, n), 1, m) = After(a, m)
<1>1. /\ After(a, n) \in Seq(Nat) /\ \A i \in 1..n : After(a, n)[i] = a + i
      /\ After(a, m) \in Seq(Nat) /\ Len(After(a, m)) = m /\ \A i \in 1..m : After(a, m)[i] = a + i
  BY AfterIs
<1>2. \A i \in 1..m : i \in 1..n /\ After(a, n)[i] \in Nat
  BY <1>1
<1> DEFINE s == SubSeq(After(a, n), 1, m)
<1>3. /\ s \in Seq(Nat) /\ Len(s) = IF 1 <= m THEN m - 1 + 1 ELSE 0
      /\ \A i \in 1..(m - 1 + 1) : s[i] = After(a, n)[1 + i - 1]
  BY <1>2, SubSeqProperties
<1> HIDE DEF s
<1>4. m - 1 + 1 = m /\ \A i \in 1..m : 1 + i - 1 = i
  OBVIOUS
<1>5. Len(s) = m /\ \A i \in 1..m : s[i] = a + i
  BY <1>1, <1>2, <1>3, <1>4
<1>6. s = After(a, m)
  BY <1>1, <1>3, <1>5, SeqEqual
<1> QED  BY <1>6 DEF s

(* A page of the rows after a cursor: the next ones in order, and the       *)
(* cursor moved to the last of them.                                        *)
LEMMA NewerPage ==
  ASSUME NEW n \in Nat, NEW c \in 0..n, NEW size \in Nat \ {0}
  PROVE  LET page == List(1..n, size, Token(c, TRUE), TRUE)
             m    == Smaller(size, n - c)
         IN  /\ page.items = After(c, m) /\ page.prev = Token(c + m, TRUE)
             /\ m \in 0..(n - c)
<1> DEFINE tok  == Token(c, TRUE)
           l    == Smaller(size + 1, n - c)
           m    == Smaller(size, n - c)
           rows == After(c, l)
           items == IF l > size THEN Front(rows) ELSE rows
<1>1. l \in 0..(n - c) /\ m \in 0..(n - c) /\ l \in Nat /\ m \in Nat /\ n - c \in Nat /\ c \in Nat
  BY DEF Smaller
<1>2. tok.backward = TRUE /\ tok.cursor = c
  BY DEF Token
<1> HIDE DEF tok
<1>3. {k \in 1..n : k > c} = (c + 1)..(c + (n - c))
  OBVIOUS
<1>4. Ordered({k \in 1..n : k > c}) = After(c, n - c) /\ Len(After(c, n - c)) = n - c
  BY <1>1, <1>3, OrderedInterval, AfterIs
<1>5. Query(1..n, tok, size + 1) = rows
  <2>1. Query(1..n, tok, size + 1) = Asc(1..n, c, size + 1)
    BY <1>2, Zenon DEF Query
  <2>2. Asc(1..n, c, size + 1) = SubSeq(After(c, n - c), 1, l)
    BY <1>4, Zenon DEF Asc, Smaller
  <2> QED  BY <1>1, <2>1, <2>2, PrefixOfRun
<1>6. Len(rows) = l
  BY <1>1, AfterIs
<1>7. items = After(c, m)
  <2>1. CASE l > size
    <3>1. l - 1 = m /\ l - 1 \in 0..l
      BY <1>1, <2>1 DEF Smaller
    <3>2. Front(rows) = SubSeq(rows, 1, l - 1)
      BY <1>6, Zenon DEF Front
    <3> QED  BY <1>1, <2>1, <3>1, <3>2, PrefixOfRun
  <2>2. CASE ~(l > size)
    <3>1. l = m
      BY <1>1, <2>2 DEF Smaller
    <3> QED  BY <2>2, <3>1
  <2> QED  BY <2>1, <2>2
<1> HIDE DEF rows
<1>8. List(1..n, size, tok, TRUE) = Page(items, l > size, tok, TRUE)
  <2>1. List(1..n, size, tok, TRUE)
          = Page(IF Len(rows) > size THEN Front(rows) ELSE rows, Len(rows) > size, tok, TRUE)
    BY <1>5, ListIs, Zenon
  <2> QED  BY <1>6, <2>1, Zenon
<1> HIDE DEF items
<1>9. /\ List(1..n, size, tok, TRUE).items = items
      /\ List(1..n, size, tok, TRUE).prev = NewestOf(items, c)
  <2> DEFINE page == Page(items, l > size, tok, TRUE)
  <2> HIDE DEF l
  <2>1. page.items = items
    BY BackwardItems, Zenon DEF tok
  <2>3. page.prev = NewestOf(items, c)
    BY BackwardPrev, Zenon DEF tok
  <2> HIDE DEF page
  <2>2. List(1..n, size, tok, TRUE) = page
    BY <1>8, Zenon DEF page
  <2> QED  BY <2>1, <2>2, <2>3, Zenon
<1>10. List(1..n, size, tok, TRUE).prev = Token(c + m, TRUE)
  <2>1. CASE m = 0
    <3>1. items = <<>> /\ c + m = c
      BY <1>1, <1>7, <2>1, AfterIs
    <3> QED  BY <1>9, <3>1 DEF NewestOf
  <2>2. CASE m # 0
    <3>1. m \in 1..m
      BY <1>1, <2>2
    <3>2. /\ After(c, m) # <<>> /\ Len(After(c, m)) = m
          /\ \A i \in 1..m : After(c, m)[i] = c + i
      BY <1>1, <2>2, AfterIs, Zenon
    <3>3. items # <<>> /\ Last(items) = c + m
      BY <1>7, <3>1, <3>2, Zenon DEF Last
    <3> QED  BY <1>9, <3>3 DEF NewestOf
  <2> QED  BY <2>1, <2>2
<1> QED  BY <1>1, <1>7, <1>9, <1>10, Zenon DEF tok, m

OldestOf(items, more) ==
  IF items # <<>> /\ more THEN Token(Last(items), FALSE) ELSE NoToken
HeadOf(items) == IF items # <<>> THEN Token(Head(items), TRUE) ELSE NoToken

(* Towards older rows a page turns the order of the query round.            *)
LEMMA ForwardItems ==
  ASSUME NEW items, NEW len, NEW size, NEW c
  PROVE  Page(items, len > size, Token(c, FALSE), TRUE).items = Reverse(items)
<1> DEFINE token == Token(c, FALSE)
<1>1. token.backward = FALSE
  BY DEF Token
<1> HIDE DEF token
<1>2. Page(items, len > size, token, TRUE).items
        = IF token.backward # TRUE THEN Reverse(items) ELSE items
  BY Zenon DEF Page
<1>3. Page(items, len > size, token, TRUE).items = Reverse(items)
  BY <1>1, <1>2
<1> QED  BY <1>3, Zenon DEF token

(* It says there is more when the query returned one row too many.          *)
LEMMA ForwardMore ==
  ASSUME NEW items, NEW len, NEW size, NEW c
  PROVE  Page(items, len > size, Token(c, FALSE), TRUE).more = (len > size)
BY Zenon DEF Page

(* Its previous token points at the newest row it holds.                    *)
LEMMA ForwardPrev ==
  ASSUME NEW items, NEW len, NEW size, NEW c
  PROVE  Page(items, len > size, Token(c, FALSE), TRUE).prev = HeadOf(items)
<1> DEFINE token == Token(c, FALSE)
           prev  == Page(items, len > size, token, TRUE).prev
<1>1. ~token.backward
  BY DEF Token
<1> HIDE DEF token
<1>2. prev = IF items # <<>> THEN Token(IF token.backward THEN Last(items)
                                        ELSE Head(items), TRUE)
             ELSE IF token.backward THEN token
             ELSE NoToken
  BY Zenon DEF Page
<1> HIDE DEF prev
<1>3. (IF token.backward THEN Last(items) ELSE Head(items)) = Head(items)
  BY <1>1
<1>4. prev = HeadOf(items)
  BY <1>1, <1>2, <1>3, Zenon DEF HeadOf
<1> QED  BY <1>4, Zenon DEF prev, token

(* Its next token points at the oldest row it holds, if there is more.      *)
LEMMA ForwardNext ==
  ASSUME NEW items, NEW len, NEW size, NEW c
  PROVE  Page(items, len > size, Token(c, FALSE), TRUE).next = OldestOf(items, len > size)
<1> DEFINE token == Token(c, FALSE)
           next  == Page(items, len > size, token, TRUE).next
<1>1. ~token.backward
  BY DEF Token
<1> HIDE DEF token
<1>2. next = IF items = <<>> THEN NoToken
             ELSE IF token.backward THEN Token(Head(items), FALSE)
             ELSE IF len > size THEN Token(Last(items), FALSE)
             ELSE NoToken
  BY Zenon DEF Page
<1> HIDE DEF next
<1>3. next = OldestOf(items, len > size)
  BY <1>1, <1>2, Zenon DEF OldestOf
<1> QED  BY <1>3, Zenon DEF next, token

(* The rows from t down to 1.                                               *)
Down(t) == [i \in 1..t |-> t - i + 1]

(* The same rows, as a sequence and turned round.                           *)
LEMMA DownIs ==
  ASSUME NEW t \in Nat
  PROVE  /\ Down(t) \in Seq(Nat) /\ Len(Down(t)) = t
         /\ \A i \in 1..t : Down(t)[i] = t - i + 1
         /\ Reverse(After(0, t)) = Down(t) /\ Reverse(Down(t)) = After(0, t)
<1>1. /\ Down(t) \in Seq(Nat) /\ Len(Down(t)) = t
      /\ \A i \in 1..t : Down(t)[i] = t - i + 1
  BY DEF Down
<1>2. /\ After(0, t) \in Seq(Nat) /\ Len(After(0, t)) = t
      /\ \A i \in 1..t : After(0, t)[i] = 0 + i
  BY AfterIs
<1>3. \A i \in 1..t : t - i + 1 \in 1..t /\ t - (t - i + 1) + 1 = i /\ 0 + i = i
  OBVIOUS
<1>4. Reverse(After(0, t)) = [i \in 1..t |-> After(0, t)[t - i + 1]]
  BY <1>2, Zenon DEF Reverse
<1>5. Reverse(After(0, t)) = Down(t)
  <2>1. \A i \in 1..t : After(0, t)[t - i + 1] = t - i + 1
    BY <1>2, <1>3
  <2> QED  BY <1>4, <2>1, Zenon DEF Down
<1>6. Reverse(Down(t)) = [i \in 1..t |-> Down(t)[t - i + 1]]
  BY <1>1, Zenon DEF Reverse
<1>7. Reverse(Down(t)) = After(0, t)
  <2>1. \A i \in 1..t : Down(t)[t - i + 1] = 0 + i
    BY <1>1, <1>3
  <2> QED  BY <1>6, <2>1, Zenon DEF After
<1> QED  BY <1>1, <1>5, <1>7, Zenon

(* A page towards older rows is followed by an older one, or it is all the  *)
(* rows up to some t, oldest first, and its newest row is the cursor.       *)
IsOlderPage(page, n) ==
  \/ page.more /\ \E d \in Nat \ {0} : page.next = Token(d, FALSE)
  \/ /\ ~page.more
     /\ \E t \in 0..n : /\ page.items = After(0, t)
                        /\ page.prev = IF t = 0 THEN NoToken ELSE Token(t, TRUE)

(* A page of the run towards older rows, in three cases of its token.       *)
LEMMA OlderPage ==
  ASSUME NEW n \in Nat, NEW c \in Nat, NEW size \in Nat \ {0}
  PROVE  IsOlderPage(List(1..n, size, Token(c, FALSE), TRUE), n)
<1> DEFINE tok == Token(c, FALSE)
           t   == IF c = 0 \/ c > n THEN n ELSE c - 1
           l   == Smaller(size + 1, t)
           page == List(1..n, size, tok, TRUE)
<1>1. t \in Nat /\ t <= n /\ t \in 0..n
  OBVIOUS
<1>2. {k \in 1..n : c # NoCursor => k < c} = (0 + 1)..(0 + t)
  BY DEF NoCursor
<1> HIDE DEF t
<1>3. l \in 0..t /\ l \in Nat
  BY <1>1 DEF Smaller
<1>4. ~tok.backward /\ tok.cursor = c
  BY DEF Token
<1>5. Reverse(Ordered({k \in 1..n : c # NoCursor => k < c})) = Down(t) /\ Len(Down(t)) = t
  BY <1>1, <1>2, OrderedInterval, DownIs
<1> DEFINE rows == SubSeq(Down(t), 1, l)
<1>6. Query(1..n, tok, size + 1) = rows
  <2> HIDE DEF tok
  <2>1. Query(1..n, tok, size + 1) = Desc(1..n, c, size + 1)
    BY <1>4, Zenon DEF Query
  <2>2. Desc(1..n, c, size + 1) = rows
    BY <1>5, Zenon DEF Desc, Smaller
  <2> QED  BY <2>1, <2>2
<1>7. rows \in Seq(Nat) /\ Len(rows) = l /\ \A i \in 1..l : rows[i] = t - i + 1
  <2>1. \A i \in 1..l : i \in 1..t
    BY <1>1, <1>3
  <2>2. \A i \in 1..l : Down(t)[i] = t - i + 1 /\ t - i + 1 \in Nat
    BY <1>1, <2>1, DownIs
  <2>3. /\ rows \in Seq(Nat) /\ Len(rows) = IF 1 <= l THEN l - 1 + 1 ELSE 0
        /\ \A i \in 1..(l - 1 + 1) : rows[i] = Down(t)[1 + i - 1]
    BY <1>3, <2>2, SubSeqProperties
  <2> HIDE DEF rows, l
  <2>4. l - 1 + 1 = l /\ \A i \in 1..l : 1 + i - 1 = i
    BY <1>3
  <2> QED  BY <1>3, <2>2, <2>3, <2>4
<1> DEFINE items == IF l > size THEN Front(rows) ELSE rows
<1> HIDE DEF rows
<1>8. page = Page(items, l > size, tok, TRUE)
  <2>1. page = Page(IF Len(rows) > size THEN Front(rows) ELSE rows, Len(rows) > size, tok, TRUE)
    BY <1>6, ListIs, Zenon
  <2> QED  BY <1>7, <2>1, Zenon
<1> HIDE DEF items, page, l
<1>9. page.items = Reverse(items)
  BY <1>8, ForwardItems, Zenon
<1>10. page.more = (l > size)
  BY <1>8, ForwardMore, Zenon
<1>11. page.prev = HeadOf(items)
  BY <1>8, ForwardPrev, Zenon
<1>12. page.next = OldestOf(items, l > size)
  BY <1>8, ForwardNext, Zenon
<1> HIDE DEF tok
<1>13. CASE l > size
  <2>1. items = SubSeq(rows, 1, l - 1)
    BY <1>7, <1>13, Zenon DEF items, Front
  <2>2. l - 1 \in Nat /\ l - 1 >= 1 /\ l - 1 \in 1..l
    BY <1>3, <1>13
  <2>3. \A i \in 1..(l - 1) : rows[i] \in Nat
    BY <1>3, <1>7, ElementOfSeq
  <2>4. /\ items \in Seq(Nat) /\ Len(items) = IF 1 <= l - 1 THEN l - 1 - 1 + 1 ELSE 0
        /\ \A i \in 1..(l - 1 - 1 + 1) : items[i] = rows[1 + i - 1]
    BY <2>1, <2>2, <2>3, SubSeqProperties
  <2>5. l - 1 - 1 + 1 = l - 1 /\ 1 + (l - 1) - 1 = l - 1
    BY <1>3
  <2>6. Len(items) = l - 1 /\ l - 1 \in 1..(l - 1)
    BY <2>2, <2>4, <2>5
  <2>7. items[l - 1] = rows[l - 1]
    BY <2>2, <2>4, <2>5
  <2>8. rows[l - 1] = t - (l - 1) + 1
    BY <1>7, <2>2
  <2>9. t - (l - 1) + 1 \in Nat \ {0}
    BY <1>1, <1>3
  <2>10. items # <<>>
    BY <2>2, <2>4, <2>6, EmptySeq
  <2>11. page.next = Token(t - (l - 1) + 1, FALSE)
    BY <1>12, <1>13, <2>6, <2>7, <2>8, <2>10, Zenon DEF OldestOf, Last
  <2>12. page.more
    BY <1>10, <1>13
  <2> QED  BY <2>9, <2>11, <2>12 DEF page, tok, IsOlderPage
<1>14. CASE ~(l > size)
  <2>1. l = t
    BY <1>1, <1>14 DEF l, Smaller
  <2>2. items = rows
    BY <1>14 DEF items
  <2>3. rows = Down(t)
    BY <1>1, <1>7, <2>1, DownIs, SeqEqual
  <2>4. page.items = After(0, t)
    BY <1>1, <1>9, <2>2, <2>3, DownIs
  <2>5. page.prev = IF t = 0 THEN NoToken ELSE Token(t, TRUE)
    <3>1. CASE t = 0
      <4>1. Len(rows) = 0
        BY <1>7, <2>1, <3>1
      <4>2. items = <<>>
        BY <1>7, <2>2, <4>1, EmptySeq
      <4> QED  BY <1>11, <3>1, <4>2, Zenon DEF HeadOf
    <3>2. CASE t # 0
      <4>1. 1 \in 1..l /\ t - 1 + 1 = t /\ l # 0
        BY <1>1, <2>1, <3>2
      <4>2. rows[1] = t
        BY <1>7, <4>1
      <4>3. rows # <<>>
        BY <1>7, <4>1, EmptySeq
      <4>4. Head(rows) = rows[1]
        BY <1>7, <4>3
      <4> QED  BY <1>11, <2>2, <3>2, <4>2, <4>3, <4>4, Zenon DEF HeadOf
    <3> QED  BY <3>1, <3>2
  <2>6. ~page.more
    BY <1>10, <1>14
  <2> QED  BY <1>1, <2>4, <2>5, <2>6 DEF page, tok, IsOlderPage
<1> QED  BY <1>13, <1>14

Below(keys, k) == {j \in keys : j < k}

(* The rank of a key: between 0 and the number of keys, and it grows.       *)
LEMMA RankGrows ==
  ASSUME NEW keys \in SUBSET Nat, IsFiniteSet(keys)
  PROVE  /\ Cardinality(keys) \in Nat
         /\ \A k \in keys : /\ Cardinality(Below(keys, k)) \in Nat
                            /\ Cardinality(Below(keys, k)) < Cardinality(keys)
         /\ \A j, k \in keys :
              j < k => Cardinality(Below(keys, j)) < Cardinality(Below(keys, k))
<1>1. Cardinality(keys) \in Nat
  BY FS_CardinalityType
<1>2. ASSUME NEW k \in keys
      PROVE  /\ IsFiniteSet(Below(keys, k)) /\ Cardinality(Below(keys, k)) \in Nat
             /\ Cardinality(Below(keys, k)) < Cardinality(keys)
  <2>1. Below(keys, k) \in SUBSET keys /\ k \notin Below(keys, k)
    BY DEF Below
  <2>2. /\ IsFiniteSet(Below(keys, k)) /\ Cardinality(Below(keys, k)) <= Cardinality(keys)
        /\ Cardinality(keys) = Cardinality(Below(keys, k)) => keys = Below(keys, k)
    BY <2>1, FS_Subset
  <2>3. Cardinality(Below(keys, k)) \in Nat
    BY <2>2, FS_CardinalityType
  <2>4. Cardinality(keys) # Cardinality(Below(keys, k))
    BY <2>1, <2>2
  <2> QED  BY <1>1, <2>2, <2>3, <2>4
<1>3. ASSUME NEW j \in keys, NEW k \in keys, j < k
      PROVE  Cardinality(Below(keys, j)) < Cardinality(Below(keys, k))
  <2>1. Below(keys, j) \in SUBSET Below(keys, k) /\ j \in Below(keys, k) /\ j \notin Below(keys, j)
    <3>1. j \in Nat /\ k \in Nat /\ \A i \in keys : i \in Nat
      OBVIOUS
    <3>2. \A i \in keys : i < j => i < k
      BY <1>3, <3>1
    <3>3. Below(keys, j) \in SUBSET Below(keys, k)
      BY <3>2, Zenon DEF Below
    <3>4. ~(j < j)
      BY <3>1
    <3>5. j \in Below(keys, k) /\ j \notin Below(keys, j)
      BY <1>3, <3>4, Zenon DEF Below
    <3> QED  BY <3>3, <3>5
  <2>2. /\ Cardinality(Below(keys, j)) <= Cardinality(Below(keys, k))
        /\ Cardinality(Below(keys, k)) = Cardinality(Below(keys, j)) =>
             Below(keys, k) = Below(keys, j)
    BY <1>2, <2>1, FS_Subset
  <2>3. Cardinality(Below(keys, k)) # Cardinality(Below(keys, j))
    BY <2>1, <2>2
  <2> QED  BY <1>2, <2>2, <2>3
<1> QED  BY <1>1, <1>2, <1>3

(* The keys in ascending order: all of them, each once.                     *)
LEMMA OrderedIs ==
  ASSUME NEW keys \in SUBSET Nat, IsFiniteSet(keys)
  PROVE  /\ Ordered(keys) \in Seq(keys) /\ Len(Ordered(keys)) = Cardinality(keys)
         /\ \A k \in keys : \E i \in 1..Cardinality(keys) : Ordered(keys)[i] = k
         /\ \A i, j \in 1..Cardinality(keys) : i < j => Ordered(keys)[i] < Ordered(keys)[j]
<1> DEFINE n == Cardinality(keys)
           r(k) == Cardinality(Below(keys, k))
           f == [k \in keys |-> r(k) + 1]
<1>1. /\ n \in Nat /\ \A k \in keys : r(k) \in Nat /\ r(k) < n
      /\ \A j, k \in keys : j < k => r(j) < r(k)
  BY RankGrows
<1> HIDE DEF n, r
<1>2. \A j, k \in keys : r(j) = r(k) => j = k
  <2> SUFFICES ASSUME NEW j \in keys, NEW k \in keys, r(j) = r(k), j # k PROVE FALSE
    OBVIOUS
  <2>1. j \in Nat /\ k \in Nat /\ r(j) \in Nat /\ r(k) \in Nat
    BY <1>1
  <2>2. j < k \/ k < j
    BY <2>1
  <2> QED  BY <1>1, <2>1, <2>2
<1>3. f \in Injection(keys, 1..n)
  <2>1. \A k \in keys : r(k) + 1 \in 1..n
    BY <1>1
  <2>2. f \in [keys -> 1..n]
    BY <2>1
  <2>3. \A j, k \in keys : f[j] = f[k] => j = k
    BY <1>1, <1>2
  <2> QED  BY <2>2, <2>3 DEF Injection, IsInjective
<1>4. IsFiniteSet(1..n) /\ Cardinality(1..n) = n
  <2>1. IsFiniteSet(1..n) /\ Cardinality(1..n) = IF 1 > n THEN 0 ELSE n - 1 + 1
    BY <1>1, FS_Interval
  <2> QED  BY <1>1, <2>1
<1>5. f \in Surjection(keys, 1..n)
  <2>1. Cardinality(keys) = Cardinality(1..n)
    BY <1>4 DEF n
  <2> HIDE DEF f
  <2> QED  BY <1>3, <1>4, <2>1, FS_Injection
<1>6. \A i \in 1..n : \E k \in keys : r(k) = i - 1
  <2> TAKE i \in 1..n
  <2>1. PICK k \in keys : f[k] = i
    BY <1>5 DEF Surjection
  <2>2. r(k) + 1 = i
    BY <2>1
  <2> QED  BY <1>1, <2>2
<1> DEFINE s == Ordered(keys)
<1>7. s = [i \in 1..n |-> CHOOSE k \in keys : r(k) = i - 1]
  BY Zenon DEF Ordered, n, r, Below
<1> HIDE DEF s
<1>8. \A i \in 1..n : s[i] \in keys /\ r(s[i]) = i - 1
  <2> TAKE i \in 1..n
  <2>1. s[i] = CHOOSE k \in keys : r(k) = i - 1
    BY <1>7
  <2>2. \E k \in keys : r(k) = i - 1
    BY <1>6
  <2> QED  BY <2>1, <2>2
<1>9. s \in Seq(keys) /\ Len(s) = n
  <2>1. s \in [1..n -> keys]
    <3>1. s = [i \in 1..n |-> s[i]]
      BY <1>7
    <3> QED  BY <1>8, <3>1
  <2> QED  BY <1>1, <2>1
<1>10. \A k \in keys : \E i \in 1..n : s[i] = k
  <2> TAKE k \in keys
  <2>1. PICK i \in 1..n : i = r(k) + 1
    BY <1>1
  <2>2. r(s[i]) = r(k) /\ s[i] \in keys
    BY <1>1, <1>8, <2>1
  <2> QED  BY <1>2, <2>2
<1>11. ASSUME NEW i \in 1..n, NEW j \in 1..n, i < j PROVE s[i] < s[j]
  <2>1. s[i] \in keys /\ s[j] \in keys /\ s[i] \in Nat /\ s[j] \in Nat /\ r(s[i]) < r(s[j])
    <3>1. s[i] \in keys /\ s[j] \in keys /\ r(s[i]) = i - 1 /\ r(s[j]) = j - 1
      BY <1>8
    <3>2. i - 1 < j - 1
      BY <1>1, <1>11
    <3> QED  BY <3>1, <3>2
  <2>2. s[i] # s[j]
    BY <1>1, <2>1
  <2>3. ~(s[j] < s[i])
    BY <1>1, <2>1
  <2> QED  BY <2>1, <2>2, <2>3
<1> QED  BY <1>9, <1>10, <1>11, Zenon DEF s, n

(* A page of any keys after a cursor: it misses none up to its new cursor.  *)
IsNewerPage(page, keys, c) ==
  /\ page.items \in Seq(Nat)
  /\ \E d \in Nat : /\ page.prev = Token(d, TRUE) /\ d >= c /\ (d = c \/ d \in keys)
                    /\ \A k \in keys : c < k /\ k <= d => k \in Range(page.items)

(* A prefix of a sequence holds the same elements.                          *)
LEMMA PrefixIs ==
  ASSUME NEW S, NEW s \in Seq(S), NEW m \in 0..Len(s)
  PROVE  /\ SubSeq(s, 1, m) \in Seq(S) /\ Len(SubSeq(s, 1, m)) = m
         /\ \A i \in 1..m : SubSeq(s, 1, m)[i] = s[i]
<1> DEFINE t == SubSeq(s, 1, m)
<1>1. Len(s) \in Nat /\ \A i \in 1..Len(s) : s[i] \in S
  BY LenProperties, ElementOfSeq
<1>2. m \in Nat /\ \A i \in 1..m : i \in 1..Len(s)
  BY <1>1
<1>3. \A i \in 1..m : s[i] \in S
  BY <1>1, <1>2
<1>4. /\ t \in Seq(S) /\ Len(t) = IF 1 <= m THEN m - 1 + 1 ELSE 0
      /\ \A i \in 1..(m - 1 + 1) : t[i] = s[1 + i - 1]
  BY <1>2, <1>3, SubSeqProperties
<1>5. m - 1 + 1 = m /\ \A i \in 1..m : 1 + i - 1 = i
  BY <1>2
<1> HIDE DEF t
<1>6. t \in Seq(S) /\ Len(t) = m /\ \A i \in 1..m : t[i] = s[i]
  BY <1>2, <1>4, <1>5
<1> QED  BY <1>6, Zenon DEF t

(* The page after a cursor is such a page, however sparse the keys.         *)
LEMMA NewerKeys ==
  ASSUME NEW keys \in SUBSET Nat, IsFiniteSet(keys), NEW c \in Nat, NEW size \in Nat \ {0}
  PROVE  IsNewerPage(List(keys, size, Token(c, TRUE), TRUE), keys, c)
<1> DEFINE tok == Token(c, TRUE)
           new == {k \in keys : k > c}
           s   == Ordered(new)
           n   == Cardinality(new)
           l   == Smaller(size + 1, n)
           m   == Smaller(size, n)
           rows == SubSeq(s, 1, l)
           items == IF l > size THEN Front(rows) ELSE rows
           page == List(keys, size, tok, TRUE)
<1>1. new \in SUBSET Nat /\ IsFiniteSet(new) /\ n \in Nat
  <2>1. new \in SUBSET keys /\ new \in SUBSET Nat
    OBVIOUS
  <2>2. IsFiniteSet(new)
    BY <2>1, FS_Subset
  <2> QED  BY <2>1, <2>2, FS_CardinalityType
<1>2. /\ s \in Seq(new) /\ Len(s) = n
      /\ \A k \in new : \E i \in 1..n : s[i] = k
      /\ \A i, j \in 1..n : i < j => s[i] < s[j]
  <2> HIDE DEF new
  <2> QED  BY <1>1, OrderedIs
<1>3. l \in 0..n /\ l \in Nat /\ m \in 0..n /\ m \in Nat
  BY <1>1 DEF Smaller
<1>4. tok.backward = TRUE /\ tok.cursor = c
  BY DEF Token
<1>5. Query(keys, tok, size + 1) = rows
  <2>1. Query(keys, tok, size + 1) = Asc(keys, c, size + 1)
    <3> HIDE DEF tok
    <3> QED  BY <1>4, Zenon DEF Query
  <2>2. Asc(keys, c, size + 1) = rows
    BY <1>2, Zenon DEF Asc, Smaller
  <2> QED  BY <2>1, <2>2, Zenon
<1> HIDE DEF s, n
<1>6. rows \in Seq(new) /\ Len(rows) = l /\ \A i \in 1..l : rows[i] = s[i]
  <2> HIDE DEF new, l
  <2> QED  BY <1>2, <1>3, PrefixIs
<1>7. page = Page(items, l > size, tok, TRUE)
  <2> HIDE DEF rows
  <2>1. page = Page(IF Len(rows) > size THEN Front(rows) ELSE rows, Len(rows) > size, tok, TRUE)
    BY <1>5, ListIs, Zenon
  <2> QED  BY <1>6, <2>1, Zenon
<1> HIDE DEF rows, new
<1>8. items \in Seq(new) /\ Len(items) = m /\ \A i \in 1..m : items[i] = s[i]
  <2>1. CASE l > size
    <3>1. l - 1 = m /\ l - 1 \in 0..l /\ \A i \in 1..m : i \in 1..l
      BY <1>1, <1>3, <2>1 DEF Smaller
    <3> HIDE DEF l, m
    <3>2. items = SubSeq(rows, 1, l - 1)
      BY <1>6, <2>1, Zenon DEF Front
    <3> HIDE DEF items
    <3>3. /\ items \in Seq(new) /\ Len(items) = l - 1 /\ \A i \in 1..(l - 1) : items[i] = rows[i]
      BY <1>6, <3>1, <3>2, PrefixIs
    <3> QED  BY <1>6, <3>1, <3>3
  <2>2. CASE ~(l > size)
    <3>1. l = m
      BY <1>1, <1>3, <2>2 DEF Smaller
    <3> HIDE DEF l, m
    <3> QED  BY <1>6, <2>2, <3>1
  <2> QED  BY <2>1, <2>2
<1>9. m = 0 => n = 0
  BY <1>1 DEF Smaller
<1> HIDE DEF l, m, items
<1>10. page.items = items
  BY <1>7, BackwardItems, Zenon
<1>11. page.prev = NewestOf(items, c)
  BY <1>7, BackwardPrev, Zenon
<1> HIDE DEF page
<1>12. items \in Seq(Nat)
  BY <1>1, <1>8, SeqMonotonic
<1>13. CASE m = 0
  <2>1. items = <<>>
    BY <1>8, <1>13, EmptySeq
  <2>2. page.prev = Token(c, TRUE)
    BY <1>11, <2>1 DEF NewestOf
  <2>3. \A k \in keys : ~(c < k /\ k <= c)
    OBVIOUS
  <2>4. c >= c /\ c \in Nat
    OBVIOUS
  <2>5. IsNewerPage(page, keys, c)
    BY <1>10, <1>12, <2>2, <2>3, <2>4 DEF IsNewerPage
  <2> QED  BY <2>5, Zenon DEF page, tok
<1>14. CASE m # 0
  <2>1. m \in 1..m /\ m \in 1..n /\ \A i \in 1..m : i \in 1..n
    BY <1>1, <1>3, <1>14
  <2>2. items[m] = s[m] /\ items[m] \in new
    BY <1>8, <2>1, ElementOfSeq
  <2>3. items # <<>>
    BY <1>8, <1>14, EmptySeq
  <2> DEFINE d == items[m]
  <2>4. page.prev = Token(d, TRUE)
    BY <1>8, <1>11, <2>3 DEF NewestOf, Last
  <2>5. d \in keys /\ d > c /\ d \in Nat
    BY <2>2 DEF new
  <2>6. ASSUME NEW k \in keys, c < k, k <= d PROVE k \in Range(items)
    <3>1. k \in new
      BY <2>6 DEF new
    <3>2. PICK i \in 1..n : s[i] = k
      BY <1>2, <3>1
    <3>3. i <= m
      <4>1. m < i => s[m] < s[i]
        BY <1>2, <2>1
      <4>2. ~(s[m] < s[i])
        BY <2>2, <2>5, <2>6, <3>2
      <4> QED  BY <1>1, <1>3, <4>1, <4>2
    <3>4. i \in 1..m
      BY <1>1, <1>3, <3>3
    <3>5. items[i] = k
      BY <1>8, <3>2, <3>4
    <3>6. Range(items) = {items[j] : j \in 1..m}
      BY <1>8, RangeEquality
    <3> QED  BY <3>4, <3>5, <3>6
  <2>7. d >= c
    BY <2>5
  <2> HIDE DEF d
  <2>8. IsNewerPage(page, keys, c)
    BY <1>10, <1>12, <2>4, <2>5, <2>6, <2>7 DEF IsNewerPage
  <2> QED  BY <2>8, Zenon DEF page, tok
<1> QED  BY <1>13, <1>14

(* The newest page: what it leaves out is older than all it holds.          *)
IsNewestPage(page, keys) ==
  /\ page.items \in Seq(Nat)
  /\ \A k \in keys : k \in Range(page.items) \/ \A j \in Range(page.items) : k < j
  /\ page.prev = NoToken \/ \E d \in keys : page.prev = Token(d, TRUE)

(* Turning a sequence round keeps its elements.                             *)
LEMMA ReverseIs ==
  ASSUME NEW S, NEW s \in Seq(S)
  PROVE  /\ Reverse(s) \in Seq(S)
         /\ Range(Reverse(s)) = {s[i] : i \in 1..Len(s)}
<1> DEFINE n == Len(s)
           r == Reverse(s)
<1>1. n \in Nat /\ \A i \in 1..n : s[i] \in S
  BY LenProperties, ElementOfSeq
<1>2. r = [i \in 1..n |-> s[n - i + 1]]
  BY Zenon DEF Reverse
<1> HIDE DEF n, r
<1>3. \A i \in 1..n : n - i + 1 \in 1..n /\ n - (n - i + 1) + 1 = i
  BY <1>1
<1>4. r \in Seq(S) /\ Len(r) = n /\ \A i \in 1..n : r[i] = s[n - i + 1]
  BY <1>1, <1>2, <1>3
<1>5. Range(r) = {r[i] : i \in 1..n}
  BY <1>4, RangeEquality
<1>6. ASSUME NEW i \in 1..n PROVE r[i] \in {s[j] : j \in 1..n}
  BY <1>3, <1>4
<1>7. ASSUME NEW i \in 1..n PROVE s[i] \in {r[j] : j \in 1..n}
  <2>1. r[n - i + 1] = s[i] /\ n - i + 1 \in 1..n
    BY <1>3, <1>4
  <2> QED  BY <2>1
<1>8. Range(r) = {s[i] : i \in 1..n}
  BY <1>5, <1>6, <1>7
<1> QED  BY <1>4, <1>8, Zenon DEF n, r

(* Without a token the page is the newest one.                              *)
LEMMA NewestKeys ==
  ASSUME NEW keys \in SUBSET Nat, IsFiniteSet(keys), NEW size \in Nat \ {0}
  PROVE  IsNewestPage(List(keys, size, NoToken, TRUE), keys)
<1> DEFINE tok == Token(NoCursor, FALSE)
           s   == Ordered(keys)
           n   == Cardinality(keys)
           o   == Reverse(s)
           l   == Smaller(size + 1, n)
           m   == Smaller(size, n)
           rows == SubSeq(o, 1, l)
           items == IF l > size THEN Front(rows) ELSE rows
           page == List(keys, size, tok, TRUE)
<1>0. NoToken = tok
  BY DEF NoToken, Token
<1>1. /\ s \in Seq(keys) /\ Len(s) = n /\ n \in Nat
      /\ \A k \in keys : \E i \in 1..n : s[i] = k
      /\ \A i, j \in 1..n : i < j => s[i] < s[j]
  BY OrderedIs, FS_CardinalityType
<1>2. {k \in keys : NoCursor # NoCursor => k < NoCursor} = keys
  BY Zenon
<1>3. ~tok.backward /\ tok.cursor = NoCursor
  BY DEF Token
<1> HIDE DEF s, n
<1>4. o = [i \in 1..n |-> s[n - i + 1]]
  BY <1>1, Zenon DEF Reverse
<1>5. \A i \in 1..n : n - i + 1 \in 1..n /\ n - (n - i + 1) + 1 = i
  BY <1>1
<1>6. o \in Seq(keys) /\ Len(o) = n /\ \A i \in 1..n : o[i] = s[n - i + 1]
  <2>1. \A i \in 1..n : s[n - i + 1] \in keys
    BY <1>1, <1>5, ElementOfSeq
  <2> QED  BY <1>1, <1>4, <2>1
<1>7. Query(keys, tok, size + 1) = rows
  <2>1. Query(keys, tok, size + 1) = Desc(keys, NoCursor, size + 1)
    <3> HIDE DEF tok
    <3> QED  BY <1>3, Zenon DEF Query
  <2>2. Desc(keys, NoCursor, size + 1)
          = SubSeq(o, 1, IF size + 1 < Len(o) THEN size + 1 ELSE Len(o))
    BY <1>2, Zenon DEF Desc, s
  <2> HIDE DEF o
  <2>3. Desc(keys, NoCursor, size + 1) = rows
    BY <1>6, <2>2, Zenon DEF Smaller
  <2> QED  BY <2>1, <2>3, Zenon
<1> HIDE DEF o
<1>8. l \in 0..n /\ l \in Nat /\ m \in 0..n /\ m \in Nat
  BY <1>1 DEF Smaller
<1>9. rows \in Seq(keys) /\ Len(rows) = l /\ \A i \in 1..l : rows[i] = o[i]
  <2> HIDE DEF l
  <2> QED  BY <1>6, <1>8, PrefixIs
<1>10. page = Page(items, l > size, tok, TRUE)
  <2> HIDE DEF rows
  <2>1. page = Page(IF Len(rows) > size THEN Front(rows) ELSE rows, Len(rows) > size, tok, TRUE)
    BY <1>7, ListIs, Zenon
  <2> QED  BY <1>9, <2>1, Zenon
<1> HIDE DEF rows
<1>11. items \in Seq(keys) /\ Len(items) = m /\ \A i \in 1..m : items[i] = o[i]
  <2>1. CASE l > size
    <3>1. l - 1 = m /\ l - 1 \in 0..l /\ \A i \in 1..m : i \in 1..l
      BY <1>1, <1>8, <2>1 DEF Smaller
    <3> HIDE DEF l, m
    <3>2. items = SubSeq(rows, 1, l - 1)
      BY <1>9, <2>1, Zenon DEF Front
    <3> HIDE DEF items
    <3>3. /\ items \in Seq(keys) /\ Len(items) = l - 1 /\ \A i \in 1..(l - 1) : items[i] = rows[i]
      BY <1>9, <3>1, <3>2, PrefixIs
    <3> QED  BY <1>9, <3>1, <3>3
  <2>2. CASE ~(l > size)
    <3>1. l = m
      BY <1>1, <1>8, <2>2 DEF Smaller
    <3> HIDE DEF l, m
    <3> QED  BY <1>9, <2>2, <3>1
  <2> QED  BY <2>1, <2>2
<1> HIDE DEF l, m, items
<1>12. page.items = Reverse(items)
  BY <1>10, ForwardItems, Zenon
<1>13. page.prev = HeadOf(items)
  BY <1>10, ForwardPrev, Zenon
<1> HIDE DEF page
<1>14. page.items \in Seq(Nat)
  <2>1. Reverse(items) \in Seq(keys)
    BY <1>11, ReverseIs
  <2> QED  BY <1>12, <2>1, SeqMonotonic
<1>15. Range(page.items) = {s[n - i + 1] : i \in 1..m}
  <2>1. Range(page.items) = {items[i] : i \in 1..m}
    BY <1>11, <1>12, ReverseIs
  <2>2. \A i \in 1..m : i \in 1..n /\ items[i] = s[n - i + 1]
    BY <1>1, <1>6, <1>8, <1>11
  <2> QED  BY <2>1, <2>2
<1>16. ASSUME NEW k \in keys
       PROVE  k \in Range(page.items) \/ \A j \in Range(page.items) : k < j
  <2>1. PICK i \in 1..n : s[i] = k
    BY <1>1
  <2>2. CASE n - i + 1 <= m
    <3>1. n - i + 1 \in 1..m /\ n - (n - i + 1) + 1 = i
      BY <1>1, <1>5, <1>8, <2>2
    <3> QED  BY <1>15, <2>1, <3>1
  <2>3. CASE m < n - i + 1
    <3>1. ASSUME NEW q \in 1..m PROVE s[i] < s[n - q + 1]
      <4>1. n - q + 1 \in 1..n /\ i < n - q + 1
        BY <1>1, <1>8, <2>3
      <4> QED  BY <1>1, <4>1
    <3> QED  BY <1>15, <2>1, <3>1
  <2> QED  BY <1>1, <1>8, <2>2, <2>3
<1>17. page.prev = NoToken \/ \E d \in keys : page.prev = Token(d, TRUE)
  <2>1. items # <<>> => Head(items) \in keys
    BY <1>11, HeadTailProperties
  <2> QED  BY <1>13, <2>1 DEF HeadOf
<1>18. IsNewestPage(page, keys)
  BY <1>14, <1>16, <1>17 DEF IsNewestPage
<1> QED  BY <1>0, <1>18, Zenon DEF page

-----------------------------------------------------------------------------
(* The log.  Bytes are buffered in ascending order, and what is in flight   *)
(* or stored comes before what is buffered.                                 *)
Ascending(s) == \A i, j \in 1..Len(s) : i < j => s[i] < s[j]
Before(s, t) == \A a \in ToSet(s), b \in ToSet(t) : a < b
AtMost(s, w) == \A a \in ToSet(s) : a <= w
NextBytes(b, w, n) ==
  b \in Seq(Nat) /\ Len(b) = n /\ \A i \in 1..n : b[i] = w + i
StoredBytes == UNION {ToSet(chunks[i]) : i \in Rows}

(* The elements of a sequence are the values of its places.                 *)
LEMMA Elements ==
  ASSUME NEW S, NEW s \in Seq(S)
  PROVE  ToSet(s) = {s[i] : i \in 1..Len(s)} /\ ToSet(s) \subseteq S
<1>1. DOMAIN s = 1..Len(s) /\ \A i \in 1..Len(s) : s[i] \in S
  BY LenProperties, ElementOfSeq
<1> QED  BY <1>1 DEF ToSet

(* The empty sequence has no element.                                       *)
LEMMA NoElements ==
  <<>> \in Seq(Nat) /\ ToSet(<<>>) = {}
<1>1. <<>> \in Seq(Nat) /\ 1..Len(<<>>) = {}
  OBVIOUS
<1>2. DOMAIN <<>> = {}
  BY <1>1, LenProperties
<1> QED  BY <1>1, <1>2 DEF ToSet

(* A cut takes a prefix: nothing is lost, and the rest comes after it.      *)
LEMMA CutApart ==
  ASSUME NEW s \in Seq(Nat), NEW n \in 0..Len(s), Ascending(s)
  PROVE  LET h == SubSeq(s, 1, n)
             t == SubSeq(s, n + 1, Len(s))
         IN  /\ h \in Seq(Nat) /\ t \in Seq(Nat)
             /\ Len(h) = n /\ Len(t) = Len(s) - n
             /\ Ascending(t) /\ Before(h, t)
             /\ ToSet(s) = ToSet(h) \cup ToSet(t)
<1> DEFINE h == SubSeq(s, 1, n)
           t == SubSeq(s, n + 1, Len(s))
           l == Len(s)
<1>1. l \in Nat /\ \A i \in 1..l : s[i] \in Nat
  BY LenProperties, ElementOfSeq
<1>2. n \in Nat /\ n <= l
  BY <1>1
<1> HIDE DEF l
<1>3. h \in Seq(Nat) /\ Len(h) = n /\ \A i \in 1..n : h[i] = s[i]
  <2>1. \A i \in 1..n : s[i] \in Nat
    BY <1>1, <1>2
  <2>2. /\ h \in Seq(Nat) /\ Len(h) = IF 1 <= n THEN n - 1 + 1 ELSE 0
        /\ \A i \in 1..(n - 1 + 1) : h[i] = s[1 + i - 1]
    BY <1>2, <2>1, SubSeqProperties
  <2>3. n - 1 + 1 = n /\ \A i \in 1..n : 1 + i - 1 = i
    BY <1>2
  <2> HIDE DEF h
  <2> QED  BY <1>2, <2>2, <2>3
<1>4. t \in Seq(Nat) /\ Len(t) = l - n /\ \A i \in 1..(l - n) : t[i] = s[n + i]
  <2>1. \A i \in (n + 1)..l : s[i] \in Nat
    BY <1>1, <1>2
  <2>2. n + 1 \in Int /\ l \in Int
    BY <1>1, <1>2
  <2>3. /\ t \in Seq(Nat) /\ Len(t) = IF n + 1 <= l THEN l - (n + 1) + 1 ELSE 0
        /\ \A i \in 1..(l - (n + 1) + 1) : t[i] = s[n + 1 + i - 1]
    BY <2>1, <2>2, SubSeqProperties DEF l
  <2>4. l - (n + 1) + 1 = l - n /\ \A i \in 1..(l - n) : n + 1 + i - 1 = n + i
    BY <1>1, <1>2
  <2>5. (IF n + 1 <= l THEN l - (n + 1) + 1 ELSE 0) = l - n
    BY <1>1, <1>2
  <2> HIDE DEF t
  <2> QED  BY <2>3, <2>4, <2>5
<1> HIDE DEF h, t
<1>5. /\ ToSet(h) = {h[i] : i \in 1..n} /\ ToSet(t) = {t[i] : i \in 1..(l - n)}
      /\ ToSet(s) = {s[i] : i \in 1..l}
  BY <1>3, <1>4, Elements DEF l
<1>6. \A i, j \in 1..l : i < j => s[i] < s[j]
  BY DEF Ascending, l
<1>7. Ascending(t)
  <2> SUFFICES ASSUME NEW i \in 1..(l - n), NEW j \in 1..(l - n), i < j PROVE t[i] < t[j]
    BY <1>4 DEF Ascending
  <2>1. n + i \in 1..l /\ n + j \in 1..l /\ n + i < n + j
    BY <1>1, <1>2
  <2> QED  BY <1>4, <1>6, <2>1
<1>8. Before(h, t)
  <2> SUFFICES ASSUME NEW a \in ToSet(h), NEW b \in ToSet(t) PROVE a < b
    BY DEF Before
  <2>1. PICK i \in 1..n : a = s[i]
    BY <1>3, <1>5
  <2>2. PICK j \in 1..(l - n) : b = s[n + j]
    BY <1>4, <1>5
  <2>3. i \in 1..l /\ n + j \in 1..l /\ i < n + j
    BY <1>1, <1>2
  <2> QED  BY <1>6, <2>1, <2>2, <2>3
<1>9. ToSet(s) \subseteq ToSet(h) \cup ToSet(t)
  <2> SUFFICES ASSUME NEW i \in 1..l PROVE s[i] \in ToSet(h) \cup ToSet(t)
    BY <1>5
  <2>1. CASE i <= n
    <3>1. i \in 1..n
      BY <1>1, <1>2, <2>1
    <3> QED  BY <1>3, <1>5, <3>1
  <2>2. CASE ~(i <= n)
    <3>1. i - n \in 1..(l - n) /\ n + (i - n) = i
      BY <1>1, <1>2, <2>2
    <3>2. t[i - n] = s[i]
      BY <1>4, <3>1
    <3> QED  BY <1>5, <3>1, <3>2
  <2> QED  BY <2>1, <2>2
<1>10. ToSet(h) \subseteq ToSet(s) /\ ToSet(t) \subseteq ToSet(s)
  <2>1. \A i \in 1..n : i \in 1..l
    BY <1>1, <1>2
  <2>2. \A i \in 1..(l - n) : n + i \in 1..l
    BY <1>1, <1>2
  <2> QED  BY <1>3, <1>4, <1>5, <2>1, <2>2
<1>11. ToSet(s) = ToSet(h) \cup ToSet(t)
  BY <1>9, <1>10
<1> QED  BY <1>3, <1>4, <1>7, <1>8, <1>11, Zenon DEF h, t, l

(* A write adds the next numbers at the end.                                *)
LEMMA WriteAfter ==
  ASSUME NEW s \in Seq(Nat), Ascending(s), NEW w \in Nat, NEW n \in Nat,
         AtMost(s, w), NEW b, NextBytes(b, w, n)
  PROVE  /\ s \o b \in Seq(Nat) /\ Ascending(s \o b) /\ Len(s \o b) = Len(s) + n
         /\ ToSet(b) = (w + 1)..(w + n)
         /\ ToSet(s \o b) = ToSet(s) \cup (w + 1)..(w + n)
<1>0. /\ b \in Seq(Nat) /\ Len(b) = n /\ \A i \in 1..n : b[i] = w + i
      /\ \A a \in ToSet(s) : a <= w
  BY DEF AtMost, NextBytes
<1> DEFINE c == s \o b
           l == Len(s)
<1>1. l \in Nat /\ \A i \in 1..l : s[i] \in Nat /\ s[i] <= w
  BY <1>0, LenProperties, ElementOfSeq, Elements
<1> HIDE DEF l
<1>2. b \in Seq(Nat) /\ Len(b) = n /\ \A i \in 1..n : b[i] = w + i
  BY <1>0
<1>3. /\ c \in Seq(Nat) /\ Len(c) = l + n
      /\ \A i \in 1..(l + n) : c[i] = IF i <= l THEN s[i] ELSE b[i - l]
  <2>1. /\ c \in Seq(Nat) /\ Len(c) = Len(s) + Len(b)
        /\ \A i \in 1..(Len(s) + Len(b)) : c[i] = IF i <= Len(s) THEN s[i] ELSE b[i - Len(s)]
    BY <1>2, ConcatProperties, Zenon
  <2> QED  BY <1>2, <2>1, Zenon DEF l
<1> HIDE DEF c
<1>4. \A i \in 1..l : c[i] = s[i]
  BY <1>1, <1>3
<1>5. \A i \in 1..n : c[l + i] = w + i
  <2> TAKE i \in 1..n
  <2>1. PICK k \in 1..(l + n) : k = l + i /\ ~(k <= l) /\ k - l = i
    BY <1>1
  <2>2. c[k] = b[k - l]
    BY <1>3, <2>1, Zenon
  <2> QED  BY <1>2, <2>1, <2>2
<1>6. \A i \in 1..(l + n) : i \in 1..l \/ \E k \in 1..n : i = l + k
  <2> TAKE i \in 1..(l + n)
  <2>1. CASE i <= l
    BY <1>1, <2>1
  <2>2. CASE ~(i <= l)
    <3>1. i - l \in 1..n /\ i = l + (i - l)
      BY <1>1, <2>2
    <3> QED  BY <3>1
  <2> QED  BY <2>1, <2>2
<1>7. /\ ToSet(s) = {s[i] : i \in 1..l} /\ ToSet(b) = {b[i] : i \in 1..n}
      /\ ToSet(c) = {c[i] : i \in 1..(l + n)}
  BY <1>2, <1>3, Elements DEF l
<1>8. ToSet(b) = (w + 1)..(w + n)
  <2>1. \A i \in 1..n : w + i \in (w + 1)..(w + n)
    OBVIOUS
  <2>2. \A x \in (w + 1)..(w + n) : x - w \in 1..n /\ w + (x - w) = x
    OBVIOUS
  <2>3. ASSUME NEW x \in (w + 1)..(w + n) PROVE x \in ToSet(b)
    <3>1. PICK i \in 1..n : x = w + i
      BY <2>2
    <3> QED  BY <1>2, <1>7, <3>1
  <2> QED  BY <1>2, <1>7, <2>1, <2>3
<1>9. ToSet(c) = ToSet(s) \cup ToSet(b)
  <2>1. ToSet(c) \subseteq ToSet(s) \cup ToSet(b)
    BY <1>2, <1>4, <1>5, <1>6, <1>7
  <2>2. \A i \in 1..l : i \in 1..(l + n)
    BY <1>1
  <2>3. \A i \in 1..n : l + i \in 1..(l + n)
    BY <1>1
  <2>4. ToSet(s) \subseteq ToSet(c)
    BY <1>4, <1>7, <2>2
  <2>5. ToSet(b) \subseteq ToSet(c)
    <3> SUFFICES ASSUME NEW i \in 1..n PROVE b[i] \in ToSet(c)
      BY <1>7
    <3>1. b[i] = c[l + i]
      BY <1>2, <1>5
    <3> QED  BY <1>7, <2>3, <3>1
  <2> QED  BY <2>1, <2>4, <2>5
<1>10. Ascending(c)
  <2> SUFFICES ASSUME NEW i \in 1..(l + n), NEW j \in 1..(l + n), i < j PROVE c[i] < c[j]
    BY <1>3 DEF Ascending
  <2>1. CASE j <= l
    <3>1. i \in 1..l /\ j \in 1..l
      BY <1>1, <2>1
    <3> QED  BY <1>4, <3>1 DEF Ascending, l
  <2>2. CASE ~(j <= l)
    <3>1. j - l \in 1..n /\ l + (j - l) = j
      BY <1>1, <2>2
    <3>2. c[j] = w + (j - l)
      BY <1>5, <3>1
    <3>3. CASE i <= l
      <4>1. i \in 1..l
        BY <1>1, <3>3
      <4>2. c[i] = s[i] /\ s[i] \in Nat /\ s[i] <= w
        BY <1>1, <1>4, <4>1
      <4> QED  BY <3>1, <3>2, <4>2
    <3>4. CASE ~(i <= l)
      <4>1. i - l \in 1..n /\ l + (i - l) = i /\ i - l < j - l
        BY <1>1, <3>4
      <4>2. c[i] = w + (i - l)
        BY <1>5, <4>1
      <4> QED  BY <3>1, <3>2, <4>1, <4>2
    <3> QED  BY <3>3, <3>4
  <2> QED  BY <2>1, <2>2
<1> QED  BY <1>3, <1>8, <1>9, <1>10, Zenon DEF c, l

DataTyped ==
  /\ written \in Nat /\ buf \in Seq(Nat) /\ inflight \in Seq(Nat)
  /\ chunks \in Seq(Seq(Nat))
LastRow(C, f) == C # <<>> => C[Len(C)] = f \/ Before(C[Len(C)], f)
InOrder ==
  /\ Ascending(buf) /\ Before(inflight, buf)
  /\ \A i \in Rows : Before(chunks[i], buf)
  /\ LastRow(chunks, inflight)
RowsInOrder ==
  \A i \in 1..(Len(chunks) - 1) :
    chunks[i + 1] = chunks[i] \/ Before(chunks[i], chunks[i + 1])
Covered ==
  1..written = dropped \cup ToSet(buf) \cup ToSet(inflight) \cup StoredBytes

TranscriptInv == DataTyped /\ InOrder /\ RowsInOrder /\ Covered

(* A row that is added is the chunk in flight, which repeats the last row   *)
(* or comes after it.                                                       *)
LEMMA RowAdded ==
  ASSUME TranscriptInv, chunks' = Append(chunks, inflight),
         UNCHANGED <<written, buf, dropped>>,
         inflight' \in {inflight, <<>>}
  PROVE  TranscriptInv'
<1> DEFINE n == Len(chunks)
<1>1. /\ chunks \in Seq(Seq(Nat)) /\ inflight \in Seq(Nat) /\ n \in Nat
      /\ \A i \in 1..n : chunks[i] \in Seq(Nat)
  BY LenProperties, ElementOfSeq DEF TranscriptInv, DataTyped
<1>2. /\ chunks' \in Seq(Seq(Nat)) /\ Len(chunks') = n + 1 /\ chunks' # <<>>
      /\ (\A i \in 1..n : chunks'[i] = chunks[i]) /\ chunks'[n + 1] = inflight
  BY <1>1, AppendProperties
<1> HIDE DEF n
<1>3. ToSet(<<>>) = {} /\ <<>> \in Seq(Nat)
  BY NoElements
<1>4. inflight' \in Seq(Nat)
  BY <1>1, <1>3
<1>5. DataTyped'
  BY <1>2, <1>4 DEF TranscriptInv, DataTyped
<1>6. ToSet(inflight') \subseteq ToSet(inflight)
  BY <1>3
<1>7. Ascending(buf') /\ Before(inflight', buf')
  BY <1>6 DEF TranscriptInv, InOrder, Before
<1>8. \A i \in 1..(n + 1) : i \in 1..n \/ i = n + 1
  BY <1>1
<1>9. \A i \in Rows' : Before(chunks'[i], buf')
  BY <1>2, <1>8 DEF TranscriptInv, InOrder, Rows, n
<1>10. LastRow(chunks', inflight')
  BY <1>2, <1>3 DEF LastRow, Before
<1>11. InOrder'
  BY <1>7, <1>9, <1>10 DEF InOrder
<1>12. RowsInOrder'
  <2> SUFFICES ASSUME NEW i \in 1..n
               PROVE  chunks'[i + 1] = chunks'[i] \/ Before(chunks'[i], chunks'[i + 1])
    <3>1. Len(chunks') - 1 = n
      BY <1>1, <1>2
    <3> QED  BY <3>1 DEF RowsInOrder
  <2>1. CASE i = n
    <3>1. chunks # <<>>
      <4>1. n # 0
        BY <1>1
      <4> QED  BY <1>1, <4>1, EmptySeq DEF n
    <3>2. chunks[n] = inflight \/ Before(chunks[n], inflight)
      BY <3>1 DEF TranscriptInv, InOrder, LastRow, n
    <3> QED  BY <1>2, <2>1, <3>2
  <2>2. CASE i # n
    <3>1. i \in 1..(n - 1) /\ i \in 1..n /\ i + 1 \in 1..n
      BY <1>1, <2>2
    <3>2. chunks[i + 1] = chunks[i] \/ Before(chunks[i], chunks[i + 1])
      BY <3>1 DEF TranscriptInv, RowsInOrder, n
    <3> QED  BY <1>2, <3>1, <3>2
  <2> QED  BY <2>1, <2>2
<1>13. StoredBytes' = StoredBytes \cup ToSet(inflight)
  <2>1. StoredBytes' = UNION {ToSet(chunks'[i]) : i \in 1..(n + 1)}
    BY <1>2 DEF StoredBytes, Rows
  <2>2. StoredBytes = UNION {ToSet(chunks[i]) : i \in 1..n}
    BY DEF StoredBytes, Rows, n
  <2>3. \A i \in 1..n : i \in 1..(n + 1)
    BY <1>1
  <2>4. n + 1 \in 1..(n + 1)
    BY <1>1
  <2>5. StoredBytes' \subseteq StoredBytes \cup ToSet(inflight)
    <3> SUFFICES ASSUME NEW i \in 1..(n + 1) PROVE ToSet(chunks'[i]) \subseteq StoredBytes \cup ToSet(inflight)
      BY <2>1
    <3> QED  BY <1>2, <1>8, <2>2
  <2>6. StoredBytes \subseteq StoredBytes'
    BY <1>2, <2>1, <2>2, <2>3
  <2>7. ToSet(inflight) \subseteq StoredBytes'
    BY <1>2, <2>1, <2>4
  <2> QED  BY <2>5, <2>6, <2>7
<1>14. Covered'
  BY <1>6, <1>13 DEF TranscriptInv, Covered
<1> QED  BY <1>5, <1>11, <1>12, <1>14 DEF TranscriptInv

(* The chunk in flight is given up.                                         *)
LEMMA ChunkDropped ==
  ASSUME TranscriptInv, dropped' = dropped \cup ToSet(inflight), inflight' = <<>>,
         UNCHANGED <<written, buf, chunks>>
  PROVE  TranscriptInv'
<1>1. ToSet(<<>>) = {} /\ <<>> \in Seq(Nat)
  BY NoElements
<1>2. DataTyped' /\ RowsInOrder'
  BY <1>1 DEF TranscriptInv, DataTyped, RowsInOrder
<1>3. InOrder'
  BY <1>1 DEF TranscriptInv, InOrder, Before, LastRow, Rows
<1>4. Covered'
  BY <1>1 DEF TranscriptInv, Covered, StoredBytes, Rows
<1> QED  BY <1>2, <1>3, <1>4 DEF TranscriptInv

(* A chunk is cut from the buffer while none is in flight.                  *)
LEMMA CutStep ==
  ASSUME TranscriptInv, NEW s \in Senders, Cut(s)
  PROVE  TranscriptInv' /\ Len(inflight') <= ChunkSize /\ Len(buf') <= Len(buf)
<1> DEFINE n == IF Len(buf) < ChunkSize THEN Len(buf) ELSE ChunkSize
<1>1. /\ inflight = <<>> /\ inflight' = SubSeq(buf, 1, n) /\ buf' = SubSeq(buf, n + 1, Len(buf))
      /\ UNCHANGED <<written, dropped, chunks>>
  BY DEF Cut
<1>2. buf \in Seq(Nat) /\ Len(buf) \in Nat /\ ChunkSize \in Nat /\ Ascending(buf)
  BY LogAssumption, LenProperties DEF TranscriptInv, DataTyped, InOrder
<1>3. n \in 0..Len(buf) /\ n <= ChunkSize
  BY <1>2
<1> HIDE DEF n
<1>4. /\ inflight' \in Seq(Nat) /\ buf' \in Seq(Nat)
      /\ Len(inflight') = n /\ Len(buf') = Len(buf) - n
      /\ Ascending(buf') /\ Before(inflight', buf')
      /\ ToSet(buf) = ToSet(inflight') \cup ToSet(buf')
  BY <1>1, <1>2, <1>3, CutApart
<1>5. ToSet(inflight) = {}
  BY <1>1, NoElements
<1>6. DataTyped' /\ RowsInOrder'
  BY <1>1, <1>4 DEF TranscriptInv, DataTyped, RowsInOrder
<1>7. \A i \in Rows : Before(chunks[i], buf') /\ Before(chunks[i], inflight')
  BY <1>4 DEF TranscriptInv, InOrder, Before
<1>8. LastRow(chunks', inflight')
  <2> SUFFICES ASSUME chunks # <<>> PROVE Before(chunks[Len(chunks)], inflight')
    BY <1>1 DEF LastRow
  <2>1. chunks \in Seq(Seq(Nat)) /\ Len(chunks) \in Nat
    BY LenProperties DEF TranscriptInv, DataTyped
  <2>2. Len(chunks) # 0
    BY <2>1, EmptySeq
  <2>3. Len(chunks) \in Rows
    BY <2>1, <2>2 DEF Rows
  <2> QED  BY <1>7, <2>3
<1>9. InOrder'
  BY <1>1, <1>4, <1>7, <1>8 DEF InOrder, Rows
<1>10. Covered'
  BY <1>1, <1>4, <1>5 DEF TranscriptInv, Covered, StoredBytes, Rows
<1>11. Len(inflight') <= ChunkSize /\ Len(buf') <= Len(buf)
  BY <1>2, <1>3, <1>4
<1> QED  BY <1>6, <1>9, <1>10, <1>11 DEF TranscriptInv

(* What is written follows everything, whether it fits or is dropped.       *)
LEMMA WriteStep ==
  ASSUME TranscriptInv, NEW n \in 1..MaxWrite, Write(n)
  PROVE  TranscriptInv' /\ (Len(buf) <= MaxPending => Len(buf') <= MaxPending)
<1> DEFINE bytes == [i \in 1..n |-> written + i]
           fits  == Len(buf) + n <= MaxPending
<1>1. /\ written' = written + n
      /\ buf' = IF fits THEN buf \o bytes ELSE buf
      /\ dropped' = IF fits THEN dropped ELSE dropped \cup ToSet(bytes)
      /\ UNCHANGED <<inflight, chunks>>
  BY DEF Write
<1>2. n \in Nat /\ written \in Nat /\ buf \in Seq(Nat) /\ Ascending(buf)
  BY LogAssumption DEF TranscriptInv, DataTyped, InOrder
<1>3. /\ \A a \in ToSet(buf) \cup ToSet(inflight) \cup StoredBytes : a \in 1..written
  BY DEF TranscriptInv, Covered
<1>4. AtMost(buf, written)
  BY <1>2, <1>3 DEF AtMost
<1>40. NextBytes(bytes, written, n)
  BY <1>2 DEF NextBytes
<1> HIDE DEF bytes
<1>5. /\ buf \o bytes \in Seq(Nat) /\ Ascending(buf \o bytes)
      /\ Len(buf \o bytes) = Len(buf) + n
      /\ ToSet(bytes) = (written + 1)..(written + n)
      /\ ToSet(buf \o bytes) = ToSet(buf) \cup (written + 1)..(written + n)
  BY <1>2, <1>4, <1>40, WriteAfter, SMT
<1>6. /\ buf' \in Seq(Nat) /\ Ascending(buf')
      /\ ToSet(buf') \cup dropped' = ToSet(buf) \cup dropped \cup (written + 1)..(written + n)
      /\ ToSet(buf') \subseteq ToSet(buf) \cup (written + 1)..(written + n)
      /\ Len(buf') = IF fits THEN Len(buf) + n ELSE Len(buf)
  <2>1. CASE fits
    BY <1>1, <1>5, <2>1
  <2>2. CASE ~fits
    BY <1>1, <1>2, <1>5, <2>2
  <2> QED  BY <2>1, <2>2
<1>7. DataTyped' /\ RowsInOrder' /\ StoredBytes' = StoredBytes
  BY <1>1, <1>2, <1>6 DEF TranscriptInv, DataTyped, RowsInOrder, StoredBytes, Rows
<1>8. ASSUME NEW t, ToSet(t) \subseteq ToSet(inflight) \cup StoredBytes, Before(t, buf)
      PROVE  Before(t, buf')
  <2> SUFFICES ASSUME NEW a \in ToSet(t), NEW b \in ToSet(buf') PROVE a < b
    BY DEF Before
  <2>1. CASE b \in ToSet(buf)
    BY <1>8, <2>1 DEF Before
  <2>2. CASE b \in (written + 1)..(written + n)
    <3>1. a \in 1..written
      BY <1>3, <1>8
    <3> QED  BY <1>2, <2>2, <3>1
  <2> QED  BY <1>6, <2>1, <2>2
<1>9. Before(inflight, buf')
  BY <1>8 DEF TranscriptInv, InOrder
<1>10. \A i \in Rows : Before(chunks[i], buf')
  <2> TAKE i \in Rows
  <2>1. ToSet(chunks[i]) \subseteq StoredBytes /\ Before(chunks[i], buf)
    BY DEF StoredBytes, TranscriptInv, InOrder
  <2> QED  BY <1>8, <2>1
<1>11. InOrder'
  BY <1>1, <1>6, <1>9, <1>10 DEF TranscriptInv, InOrder, Rows
<1>12. 1..(written + n) = 1..written \cup (written + 1)..(written + n)
  BY <1>2
<1>13. Covered'
  BY <1>1, <1>6, <1>7, <1>12 DEF TranscriptInv, Covered
<1>14. Len(buf) <= MaxPending => Len(buf') <= MaxPending
  BY <1>6
<1> QED  BY <1>7, <1>11, <1>13, <1>14 DEF TranscriptInv

(* Whatever the senders do, a chunk leaves the buffer once and in order.    *)
LEMMA TranscriptSteps ==
  ASSUME TranscriptInv, [LogNext]_logVars
  PROVE  TranscriptInv'
<1>1. ASSUME UNCHANGED <<written, buf, dropped, inflight, chunks>> PROVE TranscriptInv'
  BY <1>1 DEF TranscriptInv, DataTyped, InOrder, RowsInOrder, Covered, StoredBytes, Rows
<1>2. ASSUME NEW s \in Senders, SenderStep(s) PROVE TranscriptInv'
  <2>1. CASE Acquire(s) \/ Resume(s) \/ Drained(s)
    BY <1>1, <2>1 DEF Acquire, Resume, Drained
  <2>2. CASE Cut(s)
    BY <2>2, CutStep
  <2>3. CASE Delivered(s)
    BY <2>3, RowAdded DEF Delivered
  <2>4. CASE FailPermanent(s)
    BY <2>4, ChunkDropped DEF FailPermanent
  <2>5. ASSUME NEW c \in BOOLEAN, FailTransient(s, c) PROVE TranscriptInv'
    <3>1. CASE c
      BY <2>5, <3>1, RowAdded DEF FailTransient
    <3>2. CASE ~c
      BY <1>1, <2>5, <3>2 DEF FailTransient
    <3> QED  BY <3>1, <3>2
  <2> QED  BY <1>2, <2>1, <2>2, <2>3, <2>4, <2>5 DEF SenderStep
<1>3. ASSUME NEW n \in 1..MaxWrite, Write(n) PROVE TranscriptInv'
  BY <1>3, WriteStep
<1>4. ASSUME \/ StartRun \/ Flush \/ CancelRun \/ OpenTaskLog
             \/ Ticker \/ Notified \/ RunReturns \/ ReaderStep
             \/ \E s \in Senders : GivesUp(s)
      PROVE  TranscriptInv'
  BY <1>1, <1>4 DEF StartRun, Flush, CancelRun, OpenTaskLog, Ticker, Notified, RunReturns,
       ReaderStep, HistoryBack, Forward, Reopen, GivesUp, shipVars
<1>5. CASE UNCHANGED logVars
  BY <1>1, <1>5 DEF logVars, shipVars
<1>6. "run" \in Senders /\ "flush" \in Senders
  BY DEF Senders
<1> QED  BY <1>2, <1>3, <1>4, <1>5, <1>6 DEF LogNext, RunStep

(* Nothing is written at the start.                                         *)
LEMMA TranscriptInit ==
  ASSUME LogInit PROVE TranscriptInv
<1>1. /\ written = 0 /\ buf = <<>> /\ inflight = <<>> /\ chunks = <<>> /\ dropped = {}
  BY DEF LogInit
<1>2. ToSet(<<>>) = {} /\ <<>> \in Seq(Nat)
  BY NoElements
<1>3. chunks \in Seq(Seq(Nat)) /\ Len(chunks) = 0 /\ Len(buf) = 0
  BY <1>1
<1>4. DataTyped
  BY <1>1, <1>2, <1>3 DEF DataTyped
<1>5. InOrder
  BY <1>1, <1>2, <1>3 DEF InOrder, Ascending, Before, Rows, LastRow
<1>6. RowsInOrder
  BY <1>3 DEF RowsInOrder
<1>7. Covered
  BY <1>1, <1>2, <1>3 DEF Covered, StoredBytes, Rows
<1> QED  BY <1>4, <1>5, <1>6, <1>7 DEF TranscriptInv

(* The transcript is what was written, in order and without a hole, for any *)
(* chunk size, any cap, any number of bytes, failures and lost answers, and *)
(* however Run and Flush take turns (logship.go drain, cut).                *)
THEOREM TranscriptTheorem ==
  LogSpec => []TranscriptFaithful
<1>1. LogInit => TranscriptInv
  BY TranscriptInit
<1>2. TranscriptInv /\ [LogNext]_logVars => TranscriptInv'
  BY TranscriptSteps
<1>3. TranscriptInv => TranscriptFaithful
  BY DEF TranscriptInv, RowsInOrder, Covered, StoredBytes, Before, TranscriptFaithful
<1> QED  BY <1>1, <1>2, <1>3, PTL DEF LogSpec

(* What the reader has printed is the rows from the first to its cursor.    *)
ReaderTyped ==
  /\ reader \in [pc : {"off", "open", "back", "forward", "follow"},
                 token : [cursor : Nat, backward : {FALSE}],
                 follow : [cursor : Nat, backward : BOOLEAN],
                 paged : BOOLEAN, seen : Seq(Nat)]
  /\ chunks \in Seq(Seq(Nat))
ReaderPlace ==
  \/ reader.seen = <<>> /\ reader.follow = NoToken
  \/ /\ reader.pc \in {"forward", "follow"}
     /\ \E c \in 1..Len(chunks) :
          reader.seen = After(0, c) /\ reader.follow = Token(c, TRUE)

ReaderInv == ReaderTyped /\ ReaderPlace

(* Tokens with a cursor are not the empty token.                            *)
LEMMA TokenForms ==
  /\ \A d : Token(d, TRUE) # NoToken /\ Token(d, TRUE).backward = TRUE
  /\ NoToken \in [cursor : Nat, backward : {FALSE}]
  /\ NoToken \in [cursor : Nat, backward : BOOLEAN]
  /\ \A d \in Nat : /\ Token(d, TRUE) \in [cursor : Nat, backward : BOOLEAN]
                    /\ Token(d, FALSE) \in [cursor : Nat, backward : {FALSE}]
  /\ \A d \in Nat \ {0} : Token(d, FALSE) # NoToken
BY DEF Token, NoToken, NoCursor

(* Appending a page that starts after the cursor extends the run.           *)
LEMMA RunGrows ==
  ASSUME NEW c \in Nat, NEW m \in Nat
  PROVE  After(0, c) \o After(c, m) = After(0, c + m)
<1> DEFINE s == After(0, c) \o After(c, m)
<1>1. /\ After(0, c) \in Seq(Nat) /\ Len(After(0, c)) = c /\ \A i \in 1..c : After(0, c)[i] = 0 + i
      /\ After(c, m) \in Seq(Nat) /\ Len(After(c, m)) = m /\ \A i \in 1..m : After(c, m)[i] = c + i
      /\ After(0, c + m) \in Seq(Nat) /\ Len(After(0, c + m)) = c + m
      /\ \A i \in 1..(c + m) : After(0, c + m)[i] = 0 + i
  <2>1. 0 \in Nat /\ c + m \in Nat
    OBVIOUS
  <2> QED  BY <2>1, AfterIs, Zenon
<1>2. /\ s \in Seq(Nat) /\ Len(s) = c + m
      /\ \A i \in 1..(c + m) : s[i] = IF i <= c THEN After(0, c)[i] ELSE After(c, m)[i - c]
  <2>1. /\ s \in Seq(Nat) /\ Len(s) = Len(After(0, c)) + Len(After(c, m))
        /\ \A i \in 1..(Len(After(0, c)) + Len(After(c, m))) :
             s[i] = IF i <= Len(After(0, c)) THEN After(0, c)[i]
                    ELSE After(c, m)[i - Len(After(0, c))]
    BY <1>1, ConcatProperties, Zenon
  <2> QED  BY <1>1, <2>1, Zenon
<1> HIDE DEF s
<1>3. ASSUME NEW i \in 1..(c + m) PROVE s[i] = After(0, c + m)[i]
  <2>1. CASE i <= c
    <3>1. i \in 1..c
      BY <2>1
    <3> QED  BY <1>1, <1>2, <2>1, <3>1
  <2>2. CASE ~(i <= c)
    <3>1. i - c \in 1..m /\ c + (i - c) = 0 + i
      BY <2>2
    <3>2. s[i] = After(c, m)[i - c]
      BY <1>2, <2>2
    <3>3. After(c, m)[i - c] = c + (i - c)
      BY <1>1, <3>1
    <3>4. After(0, c + m)[i] = 0 + i
      BY <1>1
    <3> QED  BY <3>1, <3>2, <3>3, <3>4
  <2> QED  BY <2>1, <2>2
<1>4. s = After(0, c + m)
  BY <1>1, <1>2, <1>3, SeqEqual
<1> QED  BY <1>4 DEF s

(* The rows only grow while the reader is anywhere.                         *)
LEMMA RowsGrow ==
  ASSUME ReaderInv, UNCHANGED reader, chunks' \in Seq(Seq(Nat)), Len(chunks') >= Len(chunks)
  PROVE  ReaderInv'
<1>1. Len(chunks) \in Nat /\ Len(chunks') \in Nat
  BY LenProperties DEF ReaderInv, ReaderTyped
<1>2. \A c \in 1..Len(chunks) : c \in 1..Len(chunks')
  BY <1>1
<1>3. ReaderPlace'
  BY <1>2 DEF ReaderInv, ReaderPlace
<1> QED  BY <1>3 DEF ReaderInv, ReaderTyped

(* A page of the history goes before what the reader already has.           *)
LEMMA BackStep ==
  ASSUME ReaderInv, HistoryBack
  PROVE  ReaderInv'
<1> DEFINE n == Len(chunks)
           page == ListLogChunks(reader.token)
           T == [pc : {"off", "open", "back", "forward", "follow"},
                 token : [cursor : Nat, backward : {FALSE}],
                 follow : [cursor : Nat, backward : BOOLEAN],
                 paged : BOOLEAN, seen : Seq(Nat)]
<1>1. /\ reader \in T /\ reader.pc \in {"open", "back"} /\ chunks' = chunks /\ n \in Nat
      /\ reader.seen = <<>> /\ reader.follow = NoToken /\ reader.token.cursor \in Nat
      /\ LogPage \in Nat \ {0}
  BY LenProperties, LogAssumption
     DEF ReaderInv, ReaderTyped, ReaderPlace, HistoryBack, shipVars
<1>2. reader.token = Token(reader.token.cursor, FALSE)
  BY <1>1 DEF Token
<1>3. IsOlderPage(page, n)
  <2>1. page = List(1..n, LogPage, Token(reader.token.cursor, FALSE), TRUE)
    BY <1>2, Zenon DEF ListLogChunks, Rows
  <2> HIDE DEF page, n
  <2>2. IsOlderPage(List(1..n, LogPage, Token(reader.token.cursor, FALSE), TRUE), n)
    BY <1>1, OlderPage
  <2> QED  BY <2>1, <2>2, Zenon
<1>4. reader' = IF page.more /\ page.next # NoToken
                   THEN [reader EXCEPT !.pc = "back", !.token = page.next,
                                       !.paged = TRUE]
                 ELSE [reader EXCEPT
                         !.pc = IF reader.paged THEN "forward" ELSE "follow",
                         !.seen = reader.seen \o page.items,
                         !.follow = IF page.prev # NoToken THEN page.prev
                                                           ELSE reader.follow]
  BY DEF HistoryBack
<1> HIDE DEF page
<1>5. CASE page.more
  <2>1. PICK d \in Nat \ {0} : page.next = Token(d, FALSE)
    BY <1>3, <1>5 DEF IsOlderPage
  <2>2. page.next # NoToken /\ page.next \in [cursor : Nat, backward : {FALSE}]
    BY <2>1, TokenForms
  <2>3. reader' = [reader EXCEPT !.pc = "back", !.token = page.next, !.paged = TRUE]
    BY <1>4, <1>5, <2>2
  <2>4. reader' \in T /\ reader'.seen = <<>> /\ reader'.follow = NoToken
    BY <1>1, <2>2, <2>3
  <2> QED  BY <1>1, <2>4 DEF ReaderInv, ReaderTyped, ReaderPlace
<1>6. CASE ~page.more
  <2>1. PICK t \in 0..n : /\ page.items = After(0, t)
                          /\ page.prev = IF t = 0 THEN NoToken ELSE Token(t, TRUE)
    BY <1>3, <1>6 DEF IsOlderPage
  <2>2. After(0, t) \in Seq(Nat) /\ t \in Nat /\ (t = 0 => After(0, t) = <<>>)
    BY <1>1, AfterIs
  <2>3. reader.seen \o page.items = After(0, t)
    BY <1>1, <2>1, <2>2, ConcatEmptySeq
  <2> DEFINE f == IF page.prev # NoToken THEN page.prev ELSE reader.follow
             p == IF reader.paged THEN "forward" ELSE "follow"
  <2>4. f = (IF t = 0 THEN NoToken ELSE Token(t, TRUE)) /\ f \in [cursor : Nat, backward : BOOLEAN]
    BY <1>1, <2>1, <2>2, TokenForms
  <2>5. reader' = [reader EXCEPT !.pc = p, !.seen = After(0, t), !.follow = f]
    BY <1>4, <1>6, <2>3
  <2>6. p \in {"forward", "follow"}
    OBVIOUS
  <2> HIDE DEF f, p
  <2>7. /\ reader' \in T /\ reader'.seen = After(0, t) /\ reader'.follow = f
        /\ reader'.pc \in {"forward", "follow"}
    BY <1>1, <2>2, <2>4, <2>5, <2>6
  <2>8. ReaderPlace'
    <3>1. CASE t = 0
      BY <2>2, <2>4, <2>7, <3>1 DEF ReaderPlace
    <3>2. CASE t # 0
      <4>1. t \in 1..n
        BY <1>1, <3>2
      <4> QED  BY <1>1, <2>4, <2>7, <3>2, <4>1 DEF ReaderPlace
    <3> QED  BY <3>1, <3>2
  <2> QED  BY <1>1, <2>7, <2>8 DEF ReaderInv, ReaderTyped
<1> QED  BY <1>5, <1>6

(* A page of newer rows goes after what the reader already has.             *)
LEMMA ForwardStep ==
  ASSUME ReaderInv, Forward
  PROVE  ReaderInv'
<1> DEFINE n == Len(chunks)
           page == ListLogChunks(reader.follow)
           T == [pc : {"off", "open", "back", "forward", "follow"},
                 token : [cursor : Nat, backward : {FALSE}],
                 follow : [cursor : Nat, backward : BOOLEAN],
                 paged : BOOLEAN, seen : Seq(Nat)]
<1>1. /\ reader \in T /\ reader.pc \in {"forward", "follow"} /\ chunks' = chunks /\ n \in Nat
      /\ reader.follow # NoToken /\ LogPage \in Nat \ {0}
  BY LenProperties, LogAssumption DEF ReaderInv, ReaderTyped, Forward, shipVars
<1>2. PICK c \in 1..n : reader.seen = After(0, c) /\ reader.follow = Token(c, TRUE)
  BY <1>1 DEF ReaderInv, ReaderPlace
<1>3. c \in 0..n /\ c \in Nat
  BY <1>1
<1> DEFINE m == Smaller(LogPage, n - c)
<1>4. page.items = After(c, m) /\ page.prev = Token(c + m, TRUE) /\ m \in 0..(n - c)
  <2>1. page = List(1..n, LogPage, Token(c, TRUE), TRUE)
    BY <1>2, Zenon DEF ListLogChunks, Rows
  <2> HIDE DEF n, page
  <2>2. LET q == List(1..n, LogPage, Token(c, TRUE), TRUE)
        IN  q.items = After(c, m) /\ q.prev = Token(c + m, TRUE) /\ m \in 0..(n - c)
    BY <1>1, <1>3, NewerPage, Zenon DEF n
  <2> QED  BY <2>1, <2>2, Zenon
<1>5. reader' = [reader EXCEPT
                   !.seen = reader.seen \o page.items,
                   !.follow = IF page.prev # NoToken THEN page.prev ELSE reader.follow,
                   !.pc = IF page.more THEN reader.pc ELSE "follow"]
  BY DEF Forward
<1> DEFINE p == IF page.more THEN reader.pc ELSE "follow"
<1>6. p \in {"forward", "follow"}
  BY <1>1
<1> HIDE DEF page, m
<1>7. m \in Nat /\ c + m \in 1..n /\ c + m \in Nat
  BY <1>1, <1>3, <1>4
<1>8. reader.seen \o page.items = After(0, c + m) /\ After(0, c + m) \in Seq(Nat)
  BY <1>2, <1>3, <1>4, <1>7, RunGrows, AfterIs
<1>9. /\ Token(c + m, TRUE) # NoToken
      /\ Token(c + m, TRUE) \in [cursor : Nat, backward : BOOLEAN]
  BY <1>7, TokenForms
<1>10. reader' = [reader EXCEPT !.seen = After(0, c + m), !.follow = Token(c + m, TRUE), !.pc = p]
  BY <1>4, <1>5, <1>8, <1>9
<1> HIDE DEF p
<1>11. /\ reader' \in T /\ reader'.seen = After(0, c + m) /\ reader'.follow = Token(c + m, TRUE)
       /\ reader'.pc \in {"forward", "follow"}
  BY <1>1, <1>6, <1>8, <1>9, <1>10
<1>12. ReaderPlace'
  BY <1>1, <1>7, <1>11 DEF ReaderPlace
<1> QED  BY <1>1, <1>11, <1>12 DEF ReaderInv, ReaderTyped

(* The rest of the shipper: where its senders are, and its bounds.          *)
SenderPc == {"off", "acquire", "drain", "send", "select", "exit", "done", "gaveup"}
ShipperTyped ==
  /\ written \in 0..MaxBytes /\ lost \in 0..MaxLost
  /\ Len(buf) <= MaxPending /\ Len(inflight) <= ChunkSize
  /\ sendSem \in Senders \cup {NoSender}
  /\ senders \in [Senders -> [pc : SenderPc, partial : BOOLEAN]]

LogInv == TranscriptInv /\ ShipperTyped /\ ReaderInv

(* A sender moves on.                                                       *)
LEMMA SenderMoves ==
  ASSUME senders \in [Senders -> [pc : SenderPc, partial : BOOLEAN]],
         NEW s \in Senders, NEW p \in SenderPc, NEW b \in BOOLEAN
  PROVE  /\ [senders EXCEPT ![s].pc = p] \in [Senders -> [pc : SenderPc, partial : BOOLEAN]]
         /\ [senders EXCEPT ![s] = [pc |-> p, partial |-> b]]
              \in [Senders -> [pc : SenderPc, partial : BOOLEAN]]
         /\ [senders EXCEPT ![s].pc = p, ![s].partial = b]
              \in [Senders -> [pc : SenderPc, partial : BOOLEAN]]
OBVIOUS

(* No step of the shipper leaves the transcript or the bounds.              *)
LEMMA ShipperSteps ==
  ASSUME LogInv, [LogNext]_logVars
  PROVE  ShipperTyped'
<1> DEFINE T == [Senders -> [pc : SenderPc, partial : BOOLEAN]]
<1>0. /\ written \in 0..MaxBytes /\ lost \in 0..MaxLost
      /\ Len(buf) <= MaxPending /\ Len(inflight) <= ChunkSize
      /\ sendSem \in Senders \cup {NoSender} /\ senders \in T
      /\ MaxBytes \in Nat /\ MaxLost \in Nat /\ ChunkSize \in Nat \ {0} /\ MaxPending \in Nat \ {0}
      /\ buf \in Seq(Nat) /\ Len(buf) \in Nat /\ Len(<<>>) = 0
      /\ "run" \in Senders /\ "flush" \in Senders
  BY LogAssumption, LenProperties
     DEF LogInv, ShipperTyped, TranscriptInv, DataTyped, Senders
<1>1. ASSUME NEW s \in Senders, NEW p \in SenderPc,
             UNCHANGED <<written, buf>>, lost' \in 0..MaxLost, inflight' \in {inflight, <<>>},
             sendSem' \in Senders \cup {NoSender}, senders' = [senders EXCEPT ![s].pc = p]
      PROVE  ShipperTyped'
  <2>1. senders' \in T
    BY <1>0, <1>1, SenderMoves
  <2>2. Len(inflight') <= ChunkSize
    BY <1>0, <1>1
  <2> QED  BY <1>0, <1>1, <2>1, <2>2 DEF ShipperTyped
<1>2. ASSUME NEW s \in Senders, SenderStep(s) PROVE ShipperTyped'
  <2>0. {"acquire", "drain", "send", "select", "exit", "done", "gaveup"} \subseteq SenderPc
    BY DEF SenderPc
  <2>1. CASE Acquire(s) \/ Resume(s) \/ Delivered(s) \/ FailPermanent(s)
    BY <1>0, <1>1, <2>0, <2>1 DEF Acquire, Resume, Delivered, FailPermanent
  <2>2. CASE Drained(s)
    <3>1. (IF s = "run" THEN "select" ELSE "done") \in SenderPc
      BY <2>0
    <3> QED  BY <1>0, <1>1, <2>2, <3>1 DEF Drained
  <2>3. CASE Cut(s)
    <3> DEFINE n == IF Len(buf) < ChunkSize THEN Len(buf) ELSE ChunkSize
               b == senders[s].partial /\ n = ChunkSize
    <3>1. Len(inflight') <= ChunkSize /\ Len(buf') <= Len(buf) /\ TranscriptInv'
      BY <2>3, CutStep DEF LogInv
    <3>2. Len(buf') \in Nat
      BY <3>1, LenProperties DEF TranscriptInv, DataTyped
    <3>3. Len(buf') <= MaxPending
      BY <1>0, <3>1, <3>2
    <3>4. senders' = [senders EXCEPT ![s].pc = "send", ![s].partial = b]
      BY <1>0, <2>3 DEF Cut
    <3>5. b \in BOOLEAN
      BY Zenon
    <3> HIDE DEF b
    <3>6. senders' \in T
      BY <1>0, <2>0, <3>4, <3>5, SenderMoves
    <3> QED  BY <1>0, <2>3, <3>1, <3>3, <3>6 DEF Cut, ShipperTyped
  <2>4. ASSUME NEW c \in BOOLEAN, FailTransient(s, c) PROVE ShipperTyped'
    <3>1. lost' \in 0..MaxLost
      BY <1>0, <2>4 DEF FailTransient
    <3> QED  BY <1>0, <1>1, <2>0, <2>4, <3>1 DEF FailTransient
  <2> QED  BY <1>2, <2>1, <2>2, <2>3, <2>4 DEF SenderStep
<1>3. ASSUME NEW n \in 1..MaxWrite, Write(n) PROVE ShipperTyped'
  <2>1. Len(buf') <= MaxPending
    BY <1>0, <1>3, WriteStep DEF LogInv
  <2>2. written' \in 0..MaxBytes
    BY <1>0, <1>3, LogAssumption DEF Write
  <2> QED  BY <1>0, <1>3, <2>1, <2>2 DEF Write, ShipperTyped
<1>4. ASSUME StartRun \/ Flush \/ Ticker \/ Notified \/ RunReturns PROVE ShipperTyped'
  <2>1. senders' \in T
    <3>1. "acquire" \in SenderPc /\ "exit" \in SenderPc /\ TRUE \in BOOLEAN /\ FALSE \in BOOLEAN
      BY DEF SenderPc
    <3>2. CASE StartRun \/ RunReturns
      BY <1>0, <3>1, <3>2 DEF StartRun, RunReturns
    <3>3. CASE Flush
      BY <1>0, <3>1, <3>3 DEF Flush
    <3>4. CASE Ticker
      BY <1>0, <3>1, <3>4 DEF Ticker
    <3>5. CASE Notified
      BY <1>0, <3>1, <3>5 DEF Notified
    <3> QED  BY <1>4, <3>2, <3>3, <3>4, <3>5
  <2> QED  BY <1>0, <1>4, <2>1 DEF ShipperTyped, StartRun, Flush, Ticker, Notified, RunReturns
<1>5. ASSUME NEW s \in Senders, GivesUp(s) PROVE ShipperTyped'
  <2>1. (IF s = "run" THEN "exit" ELSE "gaveup") \in SenderPc
    BY DEF SenderPc
  <2>2. sendSem' \in Senders \cup {NoSender}
    BY <1>0, <1>5 DEF GivesUp
  <2> QED  BY <1>0, <1>1, <1>5, <2>1, <2>2 DEF GivesUp
<1>6. ASSUME \/ CancelRun \/ OpenTaskLog \/ ReaderStep \/ UNCHANGED logVars
      PROVE  ShipperTyped'
  BY <1>0, <1>6 DEF ShipperTyped, CancelRun, OpenTaskLog, ReaderStep, HistoryBack, Forward,
                    Reopen, logVars, shipVars
<1> QED  BY <1>0, <1>2, <1>3, <1>4, <1>5, <1>6 DEF LogNext, RunStep

(* No step of the reader leaves a gap in what it has printed.               *)
LEMMA ReaderSteps ==
  ASSUME LogInv, [LogNext]_logVars
  PROVE  ReaderInv'
<1>0. /\ ReaderInv /\ chunks \in Seq(Seq(Nat)) /\ Len(chunks) \in Nat
      /\ chunks' \in Seq(Seq(Nat)) /\ inflight \in Seq(Nat)
  BY TranscriptSteps, LenProperties DEF LogInv, TranscriptInv, DataTyped
<1>1. ASSUME UNCHANGED reader, chunks' \in {chunks, Append(chunks, inflight)} PROVE ReaderInv'
  <2>1. Len(Append(chunks, inflight)) = Len(chunks) + 1
    BY <1>0, AppendProperties
  <2>2. Len(chunks') >= Len(chunks)
    BY <1>0, <1>1, <2>1
  <2> QED  BY <1>0, <1>1, <2>2, RowsGrow
<1>2. ASSUME NEW s \in Senders, SenderStep(s) \/ GivesUp(s) PROVE ReaderInv'
  BY <1>1, <1>2 DEF SenderStep, Acquire, Cut, Resume, Delivered, Drained, FailPermanent,
                    FailTransient, GivesUp
<1>3. ASSUME \/ \E n \in 1..MaxWrite : Write(n)
             \/ StartRun \/ Flush \/ CancelRun \/ Ticker \/ Notified \/ RunReturns
             \/ UNCHANGED logVars
      PROVE  ReaderInv'
  BY <1>1, <1>3 DEF Write, StartRun, Flush, CancelRun, Ticker, Notified, RunReturns,
                    logVars, shipVars
<1>4. CASE HistoryBack
  BY <1>0, <1>4, BackStep
<1>5. CASE Forward
  BY <1>0, <1>5, ForwardStep
<1>6. CASE OpenTaskLog \/ Reopen
  <2>1. chunks' = chunks
    BY <1>6 DEF OpenTaskLog, Reopen, shipVars
  <2>2. reader.seen = <<>> /\ reader.follow = NoToken
    BY <1>0, <1>6, TokenForms DEF ReaderInv, ReaderPlace, OpenTaskLog, Reopen
  <2>3. reader'.seen = <<>> /\ reader'.follow = NoToken /\ ReaderTyped'
    <3>1. CASE OpenTaskLog
      BY <1>0, <2>1, <2>2, <3>1 DEF ReaderInv, ReaderTyped, OpenTaskLog
    <3>2. CASE Reopen
      <4>1. NoToken \in [cursor : Nat, backward : {FALSE}]
        BY TokenForms
      <4> QED  BY <1>0, <2>1, <2>2, <3>2, <4>1 DEF ReaderInv, ReaderTyped, Reopen
    <3> QED  BY <1>6, <3>1, <3>2
  <2> QED  BY <2>3 DEF ReaderInv, ReaderPlace
<1>7. "run" \in Senders /\ "flush" \in Senders
  BY DEF Senders
<1> QED  BY <1>2, <1>3, <1>4, <1>5, <1>6, <1>7 DEF LogNext, RunStep, ReaderStep

(* The reader prints every row once, in order and without a gap, for any    *)
(* page size and however the table grows under it (gritzclient/logs.go      *)
(* TaskLog), and shipper and reader have their types.                       *)
THEOREM ReaderTheorem ==
  LogSpec => [](LogTypeOK /\ ReaderSeesAll)
<1>1. LogInit => LogInv
  <2> SUFFICES ASSUME LogInit PROVE LogInv
    OBVIOUS
  <2>1. TranscriptInv
    BY TranscriptInit
  <2>2. ShipperTyped
    <3>1. written = 0 /\ lost = 0 /\ Len(buf) = 0 /\ Len(inflight) = 0 /\ sendSem = NoSender
      BY DEF LogInit
    <3>2. senders \in [Senders -> [pc : SenderPc, partial : BOOLEAN]]
      BY DEF LogInit, SenderPc
    <3> QED  BY <3>1, <3>2, LogAssumption DEF ShipperTyped
  <2>3. ReaderInv
    <3>1. chunks \in Seq(Seq(Nat)) /\ <<>> \in Seq(Nat)
      BY DEF LogInit
    <3>2. /\ NoToken \in [cursor : Nat, backward : {FALSE}]
          /\ NoToken \in [cursor : Nat, backward : BOOLEAN]
      BY TokenForms
    <3> HIDE DEF NoToken
    <3> QED  BY <3>1, <3>2 DEF LogInit, ReaderInv, ReaderTyped, ReaderPlace
  <2> QED  BY <2>1, <2>2, <2>3 DEF LogInv
<1>2. LogInv /\ [LogNext]_logVars => LogInv'
  BY TranscriptSteps, ShipperSteps, ReaderSteps DEF LogInv
<1>3. LogInv => LogTypeOK /\ ReaderSeesAll
  <2> SUFFICES ASSUME LogInv PROVE LogTypeOK /\ ReaderSeesAll
    OBVIOUS
  <2>1. dropped \subseteq 1..written
    BY DEF LogInv, TranscriptInv, Covered
  <2>2. LogTypeOK
    BY <2>1 DEF LogInv, ShipperTyped, ReaderInv, ReaderTyped, LogTypeOK, SenderPc
  <2>3. ReaderSeesAll
    <3>1. CASE reader.seen = <<>>
      <4>1. Len(reader.seen) = 0 /\ <<>> = [i \in 1..0 |-> i]
        BY <3>1
      <4> QED  BY <3>1, <4>1 DEF ReaderSeesAll
    <3>2. ASSUME NEW c \in 1..Len(chunks), reader.seen = After(0, c) PROVE ReaderSeesAll
      <4>1. c \in Nat /\ Len(After(0, c)) = c
        BY LenProperties, AfterIs DEF LogInv, ReaderInv, ReaderTyped
      <4>2. \A i \in 1..c : 0 + i = i
        BY <4>1
      <4>3. After(0, c) = [i \in 1..c |-> i]
        BY <4>2, Zenon DEF After
      <4> QED  BY <3>2, <4>1, <4>3, Zenon DEF ReaderSeesAll
    <3> QED  BY <3>1, <3>2 DEF LogInv, ReaderInv, ReaderPlace
  <2> QED  BY <2>2, <2>3
<1> QED  BY <1>1, <1>2, <1>3, PTL DEF LogSpec

-----------------------------------------------------------------------------
(* The event stream.  Live are the events a prompt must carry; a set has    *)
(* the live ones up to a cursor.                                            *)
Live == Drainable \ (late \cup cut)
HasUpTo(live, c, S) == \A i \in live : i <= c => i \in S
Cursors == {NoToken} \cup {Token(c, TRUE) : c \in Nat \ {0}}

TableTyped ==
  /\ events = [i \in Ids |-> events[i]] /\ late \subseteq Ids
  /\ nextId \in Nat \ {0} /\ top \in Nat /\ top < nextId
  /\ tx \in [Writers -> [pc : {"idle", "share", "lock", "commit"},
                         id : 0..MaxId, wake : BOOLEAN]]
DriverTyped ==
  /\ config \in [setup : Nat, started : BOOLEAN, token : Cursors]
  /\ driver = [pc |-> driver.pc, version |-> driver.version, setup |-> driver.setup,
               token |-> driver.token, acc |-> driver.acc]
  /\ driver.pc \in {"off", "setup", "saveSetup", "drain", "prompt", "save", "stop"}
  /\ driver.setup \in Nat /\ driver.token \in Cursors /\ driver.acc \in Seq(Nat)

(* An id that is still to become visible is nobody else's and was never the *)
(* highest visible one.                                                     *)
IdsApart ==
  \A w \in Writers : tx[w].pc # "idle" =>
    /\ tx[w].id \in 1..(nextId - 1) /\ tx[w].id # top
    /\ \A v \in Writers : v # w /\ tx[v].pc # "idle" => tx[v].id # tx[w].id
BelowTop ==
  /\ \A i \in Drainable : i <= top
  /\ config.token.cursor <= top
  /\ driver.pc # "off" => driver.token.cursor <= top
(* A drain without a cursor finds none in the file either.                  *)
FirstDrain ==
  driver.pc # "off" /\ driver.token = NoToken => config.token = NoToken
SetupCounted ==
  1..config.setup \subseteq ran /\ 1..driver.setup \subseteq ran
CursorBehind ==
  /\ HasUpTo(Live, config.token.cursor, delivered)
  /\ driver.pc \in {"setup", "saveSetup", "drain", "prompt"} =>
       HasUpTo(Live, driver.token.cursor, delivered \cup Range(driver.acc))
  /\ driver.pc \in {"save", "stop"} => HasUpTo(Live, driver.token.cursor, delivered)

StreamInv ==
  TableTyped /\ DriverTyped /\ IdsApart /\ BelowTop /\ FirstDrain /\ SetupCounted /\ CursorBehind

(* A cursor is the empty token or points at a positive id.                  *)
LEMMA CursorForms ==
  /\ NoToken \in Cursors /\ NoToken.cursor = 0 /\ NoToken.backward = FALSE
  /\ \A t \in Cursors : t.cursor \in Nat
  /\ \A c \in Nat \ {0} : /\ Token(c, TRUE) \in Cursors /\ Token(c, TRUE).cursor = c
                          /\ Token(c, TRUE) # NoToken
  /\ \A t \in Cursors : t # NoToken => \E c \in Nat \ {0} : t = Token(c, TRUE)
<1>1. NoToken \in Cursors /\ NoToken.cursor = 0 /\ NoToken.backward = FALSE
  BY DEF Cursors, NoToken, NoCursor
<1>2. \A c \in Nat \ {0} : /\ Token(c, TRUE) \in Cursors /\ Token(c, TRUE).cursor = c
                            /\ Token(c, TRUE) # NoToken
  BY DEF Cursors, Token, NoToken, NoCursor
<1>3. \A t \in Cursors : t # NoToken => \E c \in Nat \ {0} : t = Token(c, TRUE)
  BY DEF Cursors
<1>4. ASSUME NEW t \in Cursors PROVE t.cursor \in Nat
  <2>1. CASE t = NoToken
    BY <1>1, <2>1
  <2>2. CASE t # NoToken
    <3>1. PICK c \in Nat \ {0} : t = Token(c, TRUE)
      BY <1>3, <2>2
    <3>2. t.cursor = c
      BY <1>2, <3>1, Zenon
    <3> QED  BY <3>2
  <2> QED  BY <2>1, <2>2
<1> QED  BY <1>1, <1>2, <1>3, <1>4

(* A row that becomes visible is late, or above what was visible.           *)
LEMMA VisibleRow ==
  ASSUME TableTyped, \A i \in Drainable : i <= top,
         NEW i \in Ids, i # top, i < nextId', NEW row, Visible(i, row), cut' = cut,
         nextId' \in Nat, nextId <= nextId'
  PROVE  /\ events' = [j \in Ids |-> events'[j]] /\ late' \subseteq Ids
         /\ top' \in {top, i} /\ top' >= top /\ top' < nextId'
         /\ \A j \in Drainable' : j <= top'
         /\ \A j \in Live' : j \in Live \/ (j \in Nat /\ j > top)
<1> USE StreamAssumption
<1>0. /\ events = [j \in Ids |-> events[j]] /\ late \subseteq Ids /\ top \in Nat /\ top < nextId
      /\ i \in Nat /\ nextId \in Nat
  BY DEF TableTyped, Ids
<1>1. /\ events' = [events EXCEPT ![i] = row]
      /\ late' = IF row.type \in Injectable /\ i < top THEN late \cup {i} ELSE late
      /\ top' = IF row.type \in Injectable /\ i > top THEN i ELSE top
  BY DEF Visible
<1>2. events'[i] = row /\ \A j \in Ids : j # i => events'[j] = events[j]
  BY <1>0, <1>1
<1>3. events' = [j \in Ids |-> events'[j]]
  BY <1>0, <1>1
<1>4. late' \subseteq Ids /\ late \subseteq late'
  BY <1>0, <1>1
<1>5. top' \in {top, i} /\ top' >= top /\ top' < nextId'
  BY <1>0, <1>1
<1>6. ASSUME NEW j \in Drainable' PROVE j <= top'
  <2>1. j \in Ids /\ j \in Nat /\ events'[j].type \in Injectable
    BY DEF Drainable, Ids
  <2>2. CASE j = i
    BY <1>0, <1>1, <1>2, <2>1, <2>2
  <2>3. CASE j # i
    <3>1. j \in Drainable
      BY <1>2, <2>1, <2>3 DEF Drainable
    <3> QED  BY <1>0, <1>5, <2>1, <3>1
  <2> QED  BY <2>2, <2>3
<1>7. ASSUME NEW j \in Live' PROVE j \in Live \/ (j \in Nat /\ j > top)
  <2>1. j \in Ids /\ j \in Nat /\ events'[j].type \in Injectable /\ j \notin late'
    BY <1>7 DEF Live, Drainable, Ids
  <2>2. CASE j = i
    <3>1. ~(i < top)
      BY <1>1, <1>2, <2>1, <2>2
    <3> QED  BY <1>0, <2>2, <3>1
  <2>3. CASE j # i
    BY <1>2, <1>4, <2>1, <2>3 DEF Live, Drainable
  <2> QED  BY <2>2, <2>3
<1> QED  BY <1>3, <1>4, <1>5, <1>6, <1>7

(* A step of the table alone.                                               *)
LEMMA TableStep ==
  ASSUME StreamInv, UNCHANGED <<config, driver, delivered, ran>>, TableTyped', IdsApart',
         top' >= top, \A j \in Drainable' : j <= top',
         \A j \in Live' : j \in Live \/ (j \in Nat /\ j > top)
  PROVE  StreamInv'
<1>1. top \in Nat /\ top' \in Nat /\ config.token \in Cursors /\ driver.token \in Cursors
  BY DEF StreamInv, TableTyped, DriverTyped
<1>2. config.token.cursor \in Nat /\ driver.token.cursor \in Nat
  BY <1>1, CursorForms
<1>3. DriverTyped' /\ SetupCounted'
  BY DEF StreamInv, DriverTyped, SetupCounted
<1>4. BelowTop'
  BY <1>1, <1>2 DEF StreamInv, BelowTop
<1>5. FirstDrain'
  BY DEF StreamInv, FirstDrain
<1>6. HasUpTo(Live', config.token.cursor, delivered)
  <2>1. config.token.cursor <= top /\ HasUpTo(Live, config.token.cursor, delivered)
    BY DEF StreamInv, BelowTop, CursorBehind
  <2> QED  BY <1>1, <1>2, <2>1 DEF HasUpTo
<1>7. ASSUME NEW S, driver.pc # "off", HasUpTo(Live, driver.token.cursor, S)
      PROVE  HasUpTo(Live', driver.token.cursor, S)
  <2>1. driver.token.cursor <= top
    BY <1>7 DEF StreamInv, BelowTop
  <2> QED  BY <1>1, <1>2, <1>7, <2>1 DEF HasUpTo
<1>8. CursorBehind'
  BY <1>6, <1>7 DEF StreamInv, CursorBehind
<1> QED  BY <1>3, <1>4, <1>5, <1>8 DEF StreamInv

(* The steps of an attach, and what the API does to the table.              *)
LEMMA AttachSteps ==
  ASSUME StreamInv, NEW w \in Writers,
         (\E wake \in BOOLEAN : AttachInsert(w, wake)) \/ AttachStep(w)
  PROVE  StreamInv'
<1> USE StreamAssumption
<1> DEFINE Tx == [pc : {"idle", "share", "lock", "commit"}, id : 0..MaxId, wake : BOOLEAN]
<1>0. /\ TableTyped /\ IdsApart /\ BelowTop /\ FirstDrain
      /\ tx \in [Writers -> Tx] /\ nextId \in Nat \ {0} /\ top \in Nat /\ top < nextId
  BY DEF StreamInv, TableTyped
<1>1. ASSUME UNCHANGED <<events, late, cut, top, config, driver, delivered, ran>>,
             TableTyped', IdsApart', nextId' \in Nat
      PROVE  StreamInv'
  <2>1. Live' = Live /\ Drainable' = Drainable /\ top' >= top
    BY <1>0, <1>1 DEF Live, Drainable
  <2>2. \A j \in Drainable' : j <= top'
    BY <1>0, <1>1, <2>1 DEF BelowTop
  <2> QED  BY <1>1, <2>1, <2>2, TableStep
<1>2. ASSUME NEW wake \in BOOLEAN, AttachInsert(w, wake) PROVE StreamInv'
  <2>1. /\ tx[w] = NoTx /\ nextId <= MaxId /\ nextId' = nextId + 1
        /\ tx' = [tx EXCEPT ![w] = [pc |-> "share", id |-> nextId, wake |-> wake]]
        /\ UNCHANGED <<events, late, cut, top, config, driver, delivered, ran>>
    BY <1>2 DEF AttachInsert
  <2>2. nextId \in 0..MaxId
    BY <1>0, <2>1
  <2>3. /\ tx' \in [Writers -> Tx] /\ tx'[w].id = nextId
        /\ \A v \in Writers : v # w => tx'[v] = tx[v]
    BY <1>0, <2>1, <2>2
  <2>4. TableTyped'
    BY <1>0, <2>1, <2>3 DEF TableTyped
  <2>5. IdsApart'
    <3> SUFFICES ASSUME NEW u \in Writers, tx'[u].pc # "idle"
                 PROVE  /\ tx'[u].id \in 1..(nextId' - 1) /\ tx'[u].id # top'
                        /\ \A v \in Writers : v # u /\ tx'[v].pc # "idle" => tx'[v].id # tx'[u].id
      BY DEF IdsApart
    <3>1. \A v \in Writers : v # w /\ tx[v].pc # "idle" => tx[v].id \in 1..(nextId - 1)
      BY <1>0 DEF IdsApart
    <3>2. CASE u = w
      BY <1>0, <2>1, <2>3, <3>1, <3>2
    <3>3. CASE u # w
      <4>1. /\ tx[u].pc # "idle" /\ tx[u].id \in 1..(nextId - 1) /\ tx[u].id # top
            /\ \A v \in Writers : v # u /\ tx[v].pc # "idle" => tx[v].id # tx[u].id
        BY <1>0, <2>3, <3>3 DEF IdsApart
      <4> QED  BY <1>0, <2>1, <2>3, <3>3, <4>1
    <3> QED  BY <3>2, <3>3
  <2>6. nextId' \in Nat
    BY <1>0, <2>1
  <2> QED  BY <1>1, <2>1, <2>4, <2>5, <2>6
<1>3. ASSUME NEW t \in Tx, t.pc # "idle" => tx[w].pc # "idle" /\ t.id = tx[w].id,
             tx' = [tx EXCEPT ![w] = t],
             UNCHANGED <<events, nextId, late, cut, top, config, driver, delivered, ran>>
      PROVE  StreamInv'
  <2>1. tx' \in [Writers -> Tx] /\ tx'[w] = t /\ \A v \in Writers : v # w => tx'[v] = tx[v]
    BY <1>0, <1>3
  <2>2. TableTyped'
    BY <1>0, <1>3, <2>1 DEF TableTyped
  <2>3. IdsApart'
    BY <1>0, <1>3, <2>1 DEF IdsApart
  <2> QED  BY <1>0, <1>1, <1>3, <2>2, <2>3
<1>4. NoTx \in Tx /\ NoTx.pc = "idle"
  BY DEF NoTx
<1>5. CASE AttachShare(w)
  <2> DEFINE p == IF tx[w].wake THEN "lock" ELSE "commit"
             t == [tx[w] EXCEPT !.pc = p]
  <2>1. t \in Tx /\ t.id = tx[w].id
    BY <1>0
  <2>2. tx' = [tx EXCEPT ![w] = t] /\ tx[w].pc = "share"
    BY <1>0, <1>5 DEF AttachShare
  <2> HIDE DEF t
  <2> QED  BY <1>3, <1>5, <2>1, <2>2 DEF AttachShare
<1>6. CASE AttachLock(w)
  <2> DEFINE t == [tx[w] EXCEPT !.pc = "commit"]
  <2>1. t \in Tx /\ t.id = tx[w].id
    BY <1>0
  <2>2. tx' = [tx EXCEPT ![w] = t] /\ tx[w].pc = "lock"
    BY <1>0, <1>6 DEF AttachLock
  <2> HIDE DEF t
  <2> QED  BY <1>3, <1>6, <2>1, <2>2 DEF AttachLock
<1>7. CASE AttachDeadlock(w)
  <2> HIDE DEF NoTx
  <2> QED  BY <1>3, <1>4, <1>7 DEF AttachDeadlock
<1>8. CASE AttachCommit(w)
  <2> DEFINE i == tx[w].id
  <2>1. /\ tx[w].pc = "commit" /\ Visible(i, NewEvent("injectable", tx[w].wake))
        /\ tx' = [tx EXCEPT ![w] = NoTx] /\ UNCHANGED <<nextId, config, driver, delivered, ran, cut>>
    BY <1>8 DEF AttachCommit
  <2>2. i \in 1..(nextId - 1) /\ i # top /\ i \in 0..MaxId
    BY <1>0, <2>1 DEF IdsApart
  <2>3. i \in Ids /\ i < nextId' /\ nextId' \in Nat /\ nextId <= nextId'
    BY <1>0, <2>1, <2>2 DEF Ids
  <2>4. \A j \in Drainable : j <= top
    BY <1>0 DEF BelowTop
  <2>5. /\ events' = [j \in Ids |-> events'[j]] /\ late' \subseteq Ids
        /\ top' \in {top, i} /\ top' >= top /\ top' < nextId'
        /\ \A j \in Drainable' : j <= top'
        /\ \A j \in Live' : j \in Live \/ (j \in Nat /\ j > top)
    <3> HIDE DEF i
    <3> QED  BY <1>0, <2>1, <2>2, <2>3, <2>4, VisibleRow
  <2>6. tx' \in [Writers -> Tx] /\ tx'[w] = NoTx /\ \A v \in Writers : v # w => tx'[v] = tx[v]
    BY <1>0, <1>4, <2>1
  <2>7. top' \in Nat
    BY <1>0, <2>2, <2>5
  <2>8. TableTyped'
    BY <1>0, <2>1, <2>5, <2>6, <2>7 DEF TableTyped
  <2>9. IdsApart'
    <3> SUFFICES ASSUME NEW u \in Writers, tx'[u].pc # "idle"
                 PROVE  /\ tx'[u].id \in 1..(nextId' - 1) /\ tx'[u].id # top'
                        /\ \A v \in Writers : v # u /\ tx'[v].pc # "idle" => tx'[v].id # tx'[u].id
      BY DEF IdsApart
    <3>1. u # w /\ tx'[u] = tx[u]
      BY <1>4, <2>6
    <3>2. /\ tx[u].pc # "idle" /\ tx[u].id \in 1..(nextId - 1) /\ tx[u].id # top
          /\ \A v \in Writers : v # u /\ tx[v].pc # "idle" => tx[v].id # tx[u].id
      BY <1>0, <3>1 DEF IdsApart
    <3>3. tx[u].id # i
      BY <2>1, <3>1, <3>2
    <3> QED  BY <1>4, <2>1, <2>5, <2>6, <3>1, <3>2, <3>3
  <2> QED  BY <2>1, <2>5, <2>8, <2>9, TableStep
<1> QED  BY <1>2, <1>5, <1>6, <1>7, <1>8 DEF AttachStep

(* What the API appends or deletes.                                         *)
LEMMA ApiSteps ==
  ASSUME StreamInv,
         (\E start \in BOOLEAN : UpdateTask(start)) \/ CreateReport
           \/ \E i \in Ids : DeleteEvent(i)
  PROVE  StreamInv'
<1> USE StreamAssumption
<1>0. /\ TableTyped /\ IdsApart /\ BelowTop /\ FirstDrain
      /\ nextId \in Nat \ {0} /\ top \in Nat /\ top < nextId
      /\ \A j \in Drainable : j <= top
  BY DEF StreamInv, TableTyped, BelowTop
<1>1. ASSUME NEW row, nextId <= MaxId, Visible(nextId, row), nextId' = nextId + 1,
             UNCHANGED <<tx, config, driver, delivered, ran, cut>>
      PROVE  StreamInv'
  <2>1. /\ nextId \in Ids /\ nextId # top /\ nextId < nextId' /\ nextId' \in Nat
        /\ nextId <= nextId'
    BY <1>0, <1>1 DEF Ids
  <2>2. /\ events' = [j \in Ids |-> events'[j]] /\ late' \subseteq Ids
        /\ top' \in {top, nextId} /\ top' >= top /\ top' < nextId'
        /\ \A j \in Drainable' : j <= top'
        /\ \A j \in Live' : j \in Live \/ (j \in Nat /\ j > top)
    BY <1>0, <1>1, <2>1, VisibleRow
  <2>3. TableTyped'
    BY <1>0, <1>1, <2>1, <2>2 DEF TableTyped
  <2>4. IdsApart'
    <3> SUFFICES ASSUME NEW u \in Writers, tx[u].pc # "idle"
                 PROVE  /\ tx[u].id \in 1..(nextId' - 1) /\ tx[u].id # top'
                        /\ \A v \in Writers : v # u /\ tx[v].pc # "idle" => tx[v].id # tx[u].id
      BY <1>1 DEF IdsApart
    <3>1. /\ tx[u].id \in 1..(nextId - 1) /\ tx[u].id # top
          /\ \A v \in Writers : v # u /\ tx[v].pc # "idle" => tx[v].id # tx[u].id
      BY <1>0 DEF IdsApart
    <3> QED  BY <1>0, <1>1, <2>2, <3>1
  <2> QED  BY <1>1, <2>2, <2>3, <2>4, TableStep
<1>2. ASSUME NEW start \in BOOLEAN, UpdateTask(start) PROVE StreamInv'
  BY <1>1, <1>2 DEF UpdateTask
<1>3. CASE CreateReport
  BY <1>1, <1>3 DEF CreateReport
<1>4. ASSUME NEW i \in Ids, DeleteEvent(i) PROVE StreamInv'
  <2>1. /\ events' = [events EXCEPT ![i] = NoEvent]
        /\ UNCHANGED <<nextId, tx, config, driver, delivered, ran, top, late, cut>>
    BY <1>4 DEF DeleteEvent
  <2>2. events' = [j \in Ids |-> events'[j]]
        /\ \A j \in Ids : j # i => events'[j] = events[j]
    BY <1>0, <2>1 DEF TableTyped
  <2>3. events'[i] = NoEvent /\ NoEvent.type \notin Injectable
    BY <1>0, <2>1 DEF TableTyped, NoEvent, Injectable
  <2>4. \A j \in Drainable' : j \in Drainable
    BY <2>2, <2>3 DEF Drainable
  <2>5. /\ \A j \in Drainable' : j <= top'
        /\ \A j \in Live' : j \in Live \/ (j \in Nat /\ j > top)
    BY <1>0, <2>1, <2>4 DEF Live
  <2>6. TableTyped'
    BY <1>0, <2>1, <2>2 DEF TableTyped
  <2>7. IdsApart' /\ top' >= top
    BY <1>0, <2>1 DEF IdsApart
  <2> QED  BY <2>1, <2>5, <2>6, <2>7, TableStep
<1> QED  BY <1>2, <1>3, <1>4

(* What a page adds to the prompt, and where the cursor goes.               *)
LEMMA DrainPageIs ==
  ASSUME StreamInv, driver.pc = "drain"
  PROVE  LET page == ListEventsByTask(driver.token)
         IN  /\ page.items \in Seq(Nat) /\ page.prev \in Cursors /\ page.prev.cursor <= top
             /\ page.prev = NoToken => driver.token = NoToken
             /\ driver.token # NoToken =>
                  \A k \in Drainable : driver.token.cursor < k /\ k <= page.prev.cursor =>
                                         k \in Range(page.items)
             /\ driver.token = NoToken =>
                  \A k \in Drainable : k \in Range(page.items)
                                          \/ \A j \in Range(page.items) : k < j
<1> USE StreamAssumption
<1> DEFINE page == ListEventsByTask(driver.token)
           K == Drainable
<1>0. /\ driver.token \in Cursors /\ nextId \in Nat \ {0} /\ top \in Nat /\ top < nextId
      /\ driver.token.cursor <= top /\ \A k \in K : k <= top
  BY DEF StreamInv, DriverTyped, TableTyped, BelowTop
<1>1. K \in SUBSET Nat /\ K \in SUBSET (1..MaxId) /\ \A k \in K : k # 0
  BY DEF Drainable, Ids
<1>2. IsFiniteSet(1..MaxId)
  BY FS_Interval
<1>3. IsFiniteSet(K)
  BY <1>1, <1>2, FS_Subset
<1>4. page = List(K, PageSize, driver.token, TRUE)
  BY Zenon DEF ListEventsByTask
<1> HIDE DEF page, K
<1>5. CASE driver.token = NoToken
  <2>4. IsNewestPage(page, K)
    BY <1>1, <1>3, <1>4, <1>5, NewestKeys
  <2>5. /\ page.items \in Seq(Nat)
        /\ \A k \in K : k \in Range(page.items) \/ \A j \in Range(page.items) : k < j
    BY <2>4 DEF IsNewestPage
  <2>6. page.prev \in Cursors /\ page.prev.cursor <= top
    <3>1. CASE page.prev = NoToken
      BY <1>0, <3>1, CursorForms
    <3>2. ASSUME NEW d \in K, page.prev = Token(d, TRUE)
          PROVE  page.prev \in Cursors /\ page.prev.cursor <= top
      <4>1. d \in Nat \ {0} /\ d <= top
        BY <1>0, <1>1
      <4>2. Token(d, TRUE) \in Cursors /\ Token(d, TRUE).cursor = d
        BY <4>1, CursorForms
      <4> QED  BY <3>2, <4>1, <4>2
    <3> QED  BY <2>4, <3>1, <3>2 DEF IsNewestPage
  <2> QED  BY <1>5, <2>5, <2>6 DEF page, K
<1>6. CASE driver.token # NoToken
  <2>1. PICK c \in Nat \ {0} : driver.token = Token(c, TRUE)
    BY <1>0, <1>6, CursorForms
  <2>2. driver.token.cursor = c /\ c \in Nat
    BY <2>1, CursorForms
  <2>3. IsNewerPage(page, K, c)
    BY <1>1, <1>3, <1>4, <2>1, <2>2, NewerKeys
  <2>4. PICK d \in Nat : /\ page.prev = Token(d, TRUE) /\ d >= c /\ (d = c \/ d \in K)
                         /\ \A k \in K : c < k /\ k <= d => k \in Range(page.items)
    BY <2>3 DEF IsNewerPage
  <2>5. d \in Nat \ {0} /\ d <= top
    <3>1. c <= top /\ top \in Nat /\ c \in Nat \ {0} /\ d \in Nat /\ d >= c
      BY <1>0, <2>1, <2>2, <2>4
    <3>2. d <= top
      BY <1>0, <2>4, <3>1
    <3> QED  BY <3>1, <3>2
  <2>6. Token(d, TRUE) \in Cursors /\ Token(d, TRUE).cursor = d /\ Token(d, TRUE) # NoToken
    BY <2>5, CursorForms
  <2>7. page.prev \in Cursors /\ page.prev.cursor = d /\ page.prev # NoToken
    BY <2>4, <2>6
  <2>8. page.items \in Seq(Nat)
    BY <2>3 DEF IsNewerPage
  <2> QED  BY <1>6, <2>2, <2>4, <2>5, <2>7, <2>8 DEF page, K
<1> QED  BY <1>5, <1>6

(* A field of the driver is set; the others stay.                           *)
LEMMA SetPc ==
  ASSUME DriverTyped, NEW p
  PROVE  [driver EXCEPT !.pc = p] =
           [pc |-> p, version |-> driver.version, setup |-> driver.setup,
            token |-> driver.token, acc |-> driver.acc]
<1>1. driver = [pc |-> driver.pc, version |-> driver.version, setup |-> driver.setup,
                token |-> driver.token, acc |-> driver.acc]
  BY DEF DriverTyped
<1> DEFINE A == driver.version
           B == driver.setup
           C == driver.token
           D == driver.acc
           E == driver.pc
<1>2. driver = [pc |-> E, version |-> A, setup |-> B, token |-> C, acc |-> D]
  BY <1>1
<1> HIDE DEF A, B, C, D, E
<1>3. [driver EXCEPT !.pc = p] = [pc |-> p, version |-> A, setup |-> B, token |-> C, acc |-> D]
  BY <1>2
<1> QED  BY <1>3 DEF A, B, C, D

(* The same for a command that has run.                                     *)
LEMMA SetSetup ==
  ASSUME DriverTyped, NEW p, NEW n
  PROVE  [driver EXCEPT !.pc = p, !.setup = n] =
           [pc |-> p, version |-> driver.version, setup |-> n,
            token |-> driver.token, acc |-> driver.acc]
<1>1. driver = [pc |-> driver.pc, version |-> driver.version, setup |-> driver.setup,
                token |-> driver.token, acc |-> driver.acc]
  BY DEF DriverTyped
<1> DEFINE A == driver.version
           B == driver.setup
           C == driver.token
           D == driver.acc
           E == driver.pc
<1>2. driver = [pc |-> E, version |-> A, setup |-> B, token |-> C, acc |-> D]
  BY <1>1
<1> HIDE DEF A, B, C, D, E
<1> DEFINE r == [pc |-> p, version |-> A, setup |-> B, token |-> C, acc |-> D]
<1>3. [driver EXCEPT !.pc = p] = r
  BY <1>2
<1>4. [r EXCEPT !.setup = n] = [pc |-> p, version |-> A, setup |-> n, token |-> C, acc |-> D]
  OBVIOUS
<1>5. [driver EXCEPT !.pc = p, !.setup = n] = [[driver EXCEPT !.pc = p] EXCEPT !.setup = n]
  OBVIOUS
<1> HIDE DEF r
<1>6. [driver EXCEPT !.pc = p, !.setup = n] =
        [pc |-> p, version |-> A, setup |-> n, token |-> C, acc |-> D]
  BY <1>3, <1>4, <1>5, Zenon
<1> QED  BY <1>6 DEF A, C, D

(* The same for a page that has been drained.                               *)
LEMMA SetPage ==
  ASSUME DriverTyped, NEW p, NEW t, NEW a
  PROVE  [driver EXCEPT !.acc = a, !.token = t, !.pc = p] =
           [pc |-> p, version |-> driver.version, setup |-> driver.setup, token |-> t, acc |-> a]
<1>1. driver = [pc |-> driver.pc, version |-> driver.version, setup |-> driver.setup,
                token |-> driver.token, acc |-> driver.acc]
  BY DEF DriverTyped
<1> DEFINE A == driver.version
           B == driver.setup
           C == driver.token
           D == driver.acc
           E == driver.pc
<1>2. driver = [pc |-> E, version |-> A, setup |-> B, token |-> C, acc |-> D]
  BY <1>1
<1> HIDE DEF A, B, C, D, E
<1> DEFINE r == [pc |-> E, version |-> A, setup |-> B, token |-> C, acc |-> a]
           q == [pc |-> E, version |-> A, setup |-> B, token |-> t, acc |-> a]
<1>3. [driver EXCEPT !.acc = a] = r
  BY <1>2
<1>4. [r EXCEPT !.token = t] = q
  OBVIOUS
<1>5. [q EXCEPT !.pc = p] = [pc |-> p, version |-> A, setup |-> B, token |-> t, acc |-> a]
  OBVIOUS
<1>6. [driver EXCEPT !.acc = a, !.token = t, !.pc = p] =
        [[[driver EXCEPT !.acc = a] EXCEPT !.token = t] EXCEPT !.pc = p]
  OBVIOUS
<1> HIDE DEF r, q
<1>7. [driver EXCEPT !.acc = a, !.token = t, !.pc = p] =
        [pc |-> p, version |-> A, setup |-> B, token |-> t, acc |-> a]
  BY <1>3, <1>4, <1>5, <1>6, Zenon
<1> QED  BY <1>7 DEF A, B

(* A step of the driver: its new fields, named one by one.                  *)
DriverIs(p, n, t, a) ==
  /\ \E v : driver' = [pc |-> p, version |-> v, setup |-> n, token |-> t, acc |-> a]
  /\ p \in {"off", "setup", "saveSetup", "drain", "prompt", "save", "stop"}
  /\ n \in Nat /\ t \in Cursors /\ a \in Seq(Nat)
ConfigIs(n, t) ==
  config' \in [setup : {n}, started : BOOLEAN, token : {t}] /\ n \in Nat /\ t \in Cursors

(* A step of the driver that keeps the books keeps the invariant.           *)
LEMMA DriverShift ==
  ASSUME StreamInv, UNCHANGED <<events, nextId, tx, top, late>>,
         NEW p, NEW n, NEW t, NEW a, DriverIs(p, n, t, a),
         NEW cn, NEW ct, ConfigIs(cn, ct),
         1..cn \subseteq ran' /\ 1..n \subseteq ran',
         ct.cursor <= top, p # "off" => t.cursor <= top,
         ct = NoToken => config.token = NoToken,
         p # "off" /\ t = NoToken => ct = NoToken,
         HasUpTo(Live', ct.cursor, delivered'),
         p \in {"setup", "saveSetup", "drain", "prompt"} =>
           HasUpTo(Live', t.cursor, delivered' \cup Range(a)),
         p \in {"save", "stop"} => HasUpTo(Live', t.cursor, delivered')
  PROVE  StreamInv'
<1>1. TableTyped' /\ IdsApart'
  BY DEF StreamInv, TableTyped, IdsApart
<1>2. driver'.pc = p /\ driver'.setup = n /\ driver'.token = t /\ driver'.acc = a
      /\ driver' = [pc |-> driver'.pc, version |-> driver'.version, setup |-> driver'.setup,
                    token |-> driver'.token, acc |-> driver'.acc]
  BY DEF DriverIs
<1>3. /\ p \in {"off", "setup", "saveSetup", "drain", "prompt", "save", "stop"}
      /\ n \in Nat /\ t \in Cursors /\ a \in Seq(Nat)
  BY DEF DriverIs
<1>4. config'.setup = cn /\ config'.token = ct
      /\ config' \in [setup : Nat, started : BOOLEAN, token : Cursors]
  BY DEF ConfigIs
<1>5. DriverTyped'
  BY <1>2, <1>3, <1>4 DEF DriverTyped
<1>6. Drainable' = Drainable
  BY DEF Drainable
<1>7. BelowTop'
  BY <1>2, <1>4, <1>6 DEF StreamInv, BelowTop
<1>8. FirstDrain'
  BY <1>2, <1>4 DEF StreamInv, FirstDrain
<1>9. SetupCounted'
  BY <1>2, <1>4 DEF SetupCounted
<1>10. CursorBehind'
  BY <1>2, <1>4, Zenon DEF CursorBehind
<1> QED  BY <1>1, <1>5, <1>7, <1>8, <1>9, <1>10 DEF StreamInv

(* The same when it leaves the events to carry as they are.                 *)
LEMMA DriverMoves ==
  ASSUME StreamInv, UNCHANGED <<events, nextId, tx, top, late, cut>>,
         NEW p, NEW n, NEW t, NEW a, DriverIs(p, n, t, a),
         NEW cn, NEW ct, ConfigIs(cn, ct),
         1..cn \subseteq ran' /\ 1..n \subseteq ran',
         ct.cursor <= top, p # "off" => t.cursor <= top,
         ct = NoToken => config.token = NoToken,
         p # "off" /\ t = NoToken => ct = NoToken,
         HasUpTo(Live, ct.cursor, delivered'),
         p \in {"setup", "saveSetup", "drain", "prompt"} =>
           HasUpTo(Live, t.cursor, delivered' \cup Range(a)),
         p \in {"save", "stop"} => HasUpTo(Live, t.cursor, delivered')
  PROVE  StreamInv'
<1>1. Live' = Live
  BY DEF Live, Drainable
<1> QED  BY <1>1, DriverShift

(* The steps of the driver.  The cursor of the file moves to the one of the *)
(* driver only when the prompt that carried the events has completed.       *)
LEMMA DriverSteps ==
  ASSUME StreamInv, DriverStep \/ RunFails
  PROVE  StreamInv'
<1> USE StreamAssumption
<1> DEFINE cn == config.setup
           ct == config.token
           n == driver.setup
           t == driver.token
           a == driver.acc
<1>0. /\ DriverTyped /\ BelowTop /\ FirstDrain /\ SetupCounted /\ CursorBehind
      /\ cn \in Nat /\ ct \in Cursors /\ n \in Nat /\ t \in Cursors /\ a \in Seq(Nat)
      /\ config.started \in BOOLEAN
      /\ config = [setup |-> cn, started |-> config.started, token |-> ct]
  BY DEF StreamInv, DriverTyped
<1>1. /\ 1..cn \subseteq ran /\ 1..n \subseteq ran /\ ct.cursor <= top
      /\ driver.pc # "off" => t.cursor <= top
      /\ driver.pc # "off" /\ t = NoToken => ct = NoToken
      /\ HasUpTo(Live, ct.cursor, delivered)
      /\ driver.pc \in {"setup", "saveSetup", "drain", "prompt"} =>
           HasUpTo(Live, t.cursor, delivered \cup Range(a))
      /\ driver.pc \in {"save", "stop"} => HasUpTo(Live, t.cursor, delivered)
  BY <1>0 DEF BelowTop, FirstDrain, SetupCounted, CursorBehind
<1>2. NoToken \in Cursors /\ NoToken.cursor = 0 /\ <<>> \in Seq(Nat) /\ 0 \in Nat
      /\ 1..0 \subseteq ran /\ Range(<<>>) = {}
  BY CursorForms DEF Range
<1>3. config' = config => ConfigIs(cn, ct)
  BY <1>0 DEF ConfigIs
<1>4. ASSUME NEW p, driver' = [driver EXCEPT !.pc = p],
             p \in {"off", "setup", "saveSetup", "drain", "prompt", "save", "stop"}
      PROVE  DriverIs(p, n, t, a)
  BY <1>0, <1>4, SetPc DEF DriverIs
<1> HIDE DEF cn, ct, n, t, a
<1>5. CASE DriverStart
  <2>1. /\ UNCHANGED <<events, nextId, tx, config, delivered, ran, top, late, cut>>
        /\ driver' = [pc |-> "setup", version |-> task.version,
                      setup |-> cn, token |-> ct, acc |-> <<>>]
    BY <1>5 DEF DriverStart, cn, ct
  <2>2. DriverIs("setup", cn, ct, <<>>)
    BY <1>0, <1>2, <2>1 DEF DriverIs
  <2>3. HasUpTo(Live, ct.cursor, delivered \cup Range(<<>>))
    BY <1>1 DEF HasUpTo
  <2>4. ct = NoToken => config.token = NoToken
    BY DEF ct
  <2> QED  BY <1>1, <1>3, <2>1, <2>2, <2>3, <2>4, DriverMoves
<1>6. CASE SetupRun
  <2>1. /\ UNCHANGED <<events, nextId, tx, config, delivered, top, late, cut>>
        /\ driver.pc = "setup" /\ ran' = ran \cup {n + 1}
        /\ driver' = [driver EXCEPT !.pc = "saveSetup", !.setup = n + 1]
    BY <1>6 DEF SetupRun, n
  <2>2. DriverIs("saveSetup", n + 1, t, a)
    <3>1. driver' = [pc |-> "saveSetup", version |-> driver.version, setup |-> n + 1,
                     token |-> t, acc |-> a]
      BY <1>0, <2>1, SetSetup, Zenon DEF t, a
    <3>2. n + 1 \in Nat
      BY <1>0
    <3> QED  BY <1>0, <3>1, <3>2, Zenon DEF DriverIs
  <2>3. 1..cn \subseteq ran' /\ 1..(n + 1) \subseteq ran'
    BY <1>0, <1>1, <2>1
  <2>4. ct = NoToken => config.token = NoToken
    BY DEF ct
  <2> QED  BY <1>1, <1>3, <2>1, <2>2, <2>3, <2>4, DriverMoves
<1>7. CASE SetupSave
  <2>1. /\ UNCHANGED <<events, nextId, tx, delivered, ran, top, late, cut>>
        /\ driver.pc = "saveSetup" /\ config' = [config EXCEPT !.setup = n]
        /\ driver' = [driver EXCEPT !.pc = "setup"]
    BY <1>7 DEF SetupSave, n
  <2>2. ConfigIs(n, ct) /\ (ct = NoToken => config.token = NoToken)
    BY <1>0, <2>1 DEF ConfigIs, ct
  <2>3. DriverIs("setup", n, t, a)
    BY <1>4, <2>1
  <2> QED  BY <1>1, <2>1, <2>2, <2>3, DriverMoves
<1>8. CASE SetupDone
  <2>1. /\ UNCHANGED <<events, nextId, tx, config, delivered, ran, top, late, cut>>
        /\ driver.pc = "setup" /\ driver' = [driver EXCEPT !.pc = "drain"]
    BY <1>8 DEF SetupDone
  <2>2. DriverIs("drain", n, t, a) /\ (ct = NoToken => config.token = NoToken)
    BY <1>4, <2>1 DEF ct
  <2> QED  BY <1>1, <1>3, <2>1, <2>2, DriverMoves
<1>9. CASE DrainPage
  <2> DEFINE page == ListEventsByTask(t)
             p == IF page.more THEN "drain" ELSE "prompt"
  <2>1. /\ UNCHANGED <<events, nextId, tx, config, delivered, ran, top, late>>
        /\ driver.pc = "drain"
        /\ driver' = [driver EXCEPT !.acc = a \o page.items, !.token = page.prev, !.pc = p]
        /\ cut' = IF t # NoToken THEN cut
                  ELSE {i \in Drainable : \A j \in Range(page.items) : i < j}
    BY <1>9 DEF DrainPage, t, a
  <2>2. /\ page.items \in Seq(Nat) /\ page.prev \in Cursors /\ page.prev.cursor <= top
        /\ page.prev = NoToken => t = NoToken
        /\ t # NoToken => \A k \in Drainable : t.cursor < k /\ k <= page.prev.cursor =>
                                                  k \in Range(page.items)
        /\ t = NoToken => \A k \in Drainable : k \in Range(page.items)
                                                  \/ \A j \in Range(page.items) : k < j
    BY <2>1, DrainPageIs DEF t
  <2>3. p \in {"drain", "prompt"}
    OBVIOUS
  <2> HIDE DEF page, p
  <2>4. a \o page.items \in Seq(Nat)
        /\ Range(a \o page.items) = Range(a) \cup Range(page.items)
    BY <1>0, <2>2, RangeConcatenation
  <2>5. DriverIs(p, n, page.prev, a \o page.items)
    <3>1. driver' = [pc |-> p, version |-> driver.version, setup |-> n, token |-> page.prev,
                     acc |-> a \o page.items]
      BY <1>0, <2>1, SetPage DEF n
    <3> QED  BY <1>0, <2>2, <2>3, <2>4, <3>1 DEF DriverIs
  <2>6. Live' = Drainable \ (late \cup cut')
    BY <2>1 DEF Live, Drainable
  <2>7. HasUpTo(Live', page.prev.cursor, delivered \cup Range(a \o page.items))
    <3> SUFFICES ASSUME NEW i \in Live', i <= page.prev.cursor
                 PROVE  i \in delivered \cup Range(a) \cup Range(page.items)
      BY <2>4 DEF HasUpTo
    <3>1. i \in Drainable /\ i \in Nat /\ t.cursor \in Nat /\ i \notin late /\ i \notin cut'
      BY <1>0, <2>6, CursorForms DEF Drainable, Ids
    <3>2. CASE t = NoToken
      BY <2>1, <2>2, <3>1, <3>2
    <3>3. CASE t # NoToken /\ i <= t.cursor
      BY <1>1, <2>1, <3>1, <3>3 DEF HasUpTo, Live
    <3>4. CASE t # NoToken /\ t.cursor < i
      BY <2>2, <3>1, <3>4
    <3> QED  BY <3>1, <3>2, <3>3, <3>4
  <2>8. HasUpTo(Live', ct.cursor, delivered)
    <3>1. CASE t = NoToken
      <4>1. ct.cursor = 0
        BY <1>1, <1>2, <2>1, <3>1
      <4>2. \A i \in Live' : ~(i <= 0)
        BY <2>6 DEF Drainable, Ids
      <4> QED  BY <4>1, <4>2 DEF HasUpTo
    <3>2. CASE t # NoToken
      <4>1. Live' = Live
        BY <2>1, <2>6, <3>2 DEF Live
      <4> QED  BY <1>1, <4>1
    <3> QED  BY <3>1, <3>2
  <2>9. ct = NoToken => config.token = NoToken
    BY DEF ct
  <2> DEFINE q == page.prev
             b == a \o page.items
  <2>10. /\ q.cursor <= top /\ (q = NoToken => ct = NoToken) /\ DriverIs(p, n, q, b)
        /\ HasUpTo(Live', q.cursor, delivered \cup Range(b))
    BY <1>1, <2>1, <2>2, <2>5, <2>7
  <2> HIDE DEF q, b
  <2> QED  BY <1>1, <1>3, <2>1, <2>3, <2>8, <2>9, <2>10, DriverShift
<1>10. CASE Prompt
  <2>1. /\ UNCHANGED <<events, nextId, tx, config, ran, top, late, cut>>
        /\ driver.pc = "prompt" /\ delivered' = delivered \cup Range(a)
        /\ driver' = [driver EXCEPT !.pc = "save"]
    BY <1>10 DEF Prompt, a
  <2>2. DriverIs("save", n, t, a) /\ (ct = NoToken => config.token = NoToken)
    BY <1>4, <2>1 DEF ct
  <2>3. HasUpTo(Live, ct.cursor, delivered')
    BY <1>1, <2>1 DEF HasUpTo
  <2> QED  BY <1>1, <1>3, <2>1, <2>2, <2>3, DriverMoves
<1>11. CASE SaveCursor
  <2>1. /\ UNCHANGED <<events, nextId, tx, delivered, ran, top, late, cut>>
        /\ driver.pc = "save" /\ config' = [config EXCEPT !.started = TRUE, !.token = t]
        /\ driver' = [driver EXCEPT !.pc = "stop"]
    BY <1>11 DEF SaveCursor, t
  <2>2. ConfigIs(cn, t)
    <3>1. \A v, u : [config EXCEPT !.started = v, !.token = u]
                      = [setup |-> cn, started |-> v, token |-> u]
      <4> DEFINE y == config.started
      <4>1. config = [setup |-> cn, started |-> y, token |-> ct]
        BY <1>0
      <4> HIDE DEF y
      <4> SUFFICES ASSUME NEW v, NEW u
                   PROVE  [config EXCEPT !.started = v, !.token = u]
                            = [setup |-> cn, started |-> v, token |-> u]
        OBVIOUS
      <4> DEFINE r == [setup |-> cn, started |-> v, token |-> ct]
      <4>2. [config EXCEPT !.started = v] = r
        BY <4>1
      <4>3. [r EXCEPT !.token = u] = [setup |-> cn, started |-> v, token |-> u]
        OBVIOUS
      <4>4. [config EXCEPT !.started = v, !.token = u]
              = [[config EXCEPT !.started = v] EXCEPT !.token = u]
        OBVIOUS
      <4> HIDE DEF r
      <4> QED  BY <4>2, <4>3, <4>4, Zenon
    <3>2. config' = [setup |-> cn, started |-> TRUE, token |-> t]
      BY <2>1, <3>1, Zenon
    <3> QED  BY <1>0, <3>2 DEF ConfigIs
  <2>3. DriverIs("stop", n, t, a)
    BY <1>4, <2>1
  <2>4. /\ t = NoToken => config.token = NoToken
        /\ 1..cn \subseteq ran' /\ 1..n \subseteq ran' /\ t.cursor <= top
        /\ HasUpTo(Live, t.cursor, delivered')
    BY <1>1, <2>1 DEF ct
  <2>5. "stop" \notin {"setup", "saveSetup", "drain", "prompt"}
    OBVIOUS
  <2> QED  BY <2>1, <2>2, <2>3, <2>4, <2>5, DriverMoves, Zenon
<1>12. CASE ReportStopped \/ RunFails
  <2>1. /\ UNCHANGED <<events, nextId, tx, config, delivered, ran, top, late, cut>>
        /\ driver' = Off
    BY <1>12 DEF ReportStopped, RunFails
  <2>2. DriverIs("off", 0, NoToken, <<>>) /\ (ct = NoToken => config.token = NoToken)
    BY <1>2, <2>1 DEF DriverIs, Off, ct
  <2> QED  BY <1>1, <1>2, <1>3, <2>1, <2>2, DriverMoves
<1> QED  BY <1>5, <1>6, <1>7, <1>8, <1>9, <1>10, <1>11, <1>12 DEF DriverStep, Setup

(* The empty stream.                                                        *)
LEMMA StreamInitInv ==
  ASSUME StreamInit
  PROVE  StreamInv
<1> USE StreamAssumption
<1>1. NoToken \in Cursors /\ NoToken.cursor = 0
  BY CursorForms
<1>2. /\ driver = Off /\ config = [setup |-> 0, started |-> FALSE, token |-> NoToken]
      /\ events = [i \in Ids |-> NoEvent] /\ tx = [w \in Writers |-> NoTx]
      /\ nextId = 1 /\ top = 0 /\ late = {} /\ delivered = {} /\ ran = {}
  BY DEF StreamInit
<1>3. TableTyped
  BY <1>2 DEF TableTyped, NoTx
<1>4. DriverTyped
  BY <1>1, <1>2 DEF DriverTyped, Off
<1>5. IdsApart
  BY <1>2 DEF IdsApart, NoTx
<1>6. Drainable = {}
  BY <1>2 DEF Drainable, NoEvent, Injectable
<1>7. BelowTop
  BY <1>1, <1>2, <1>6 DEF BelowTop, Off
<1>8. FirstDrain
  BY <1>2 DEF FirstDrain, Off
<1>9. SetupCounted
  BY <1>2 DEF SetupCounted, Off
<1>10. CursorBehind
  BY <1>2, <1>6 DEF CursorBehind, HasUpTo, Live, Off
<1> QED  BY <1>3, <1>4, <1>5, <1>7, <1>8, <1>9, <1>10 DEF StreamInv

(* The config file never claims more than was done: whatever a run failed   *)
(* at, and whatever was appended, deleted or left uncommitted meanwhile, a  *)
(* setup command it counts has succeeded and an injectable event at or      *)
(* below its cursor was in a prompt that completed, but for an event that   *)
(* became visible after a higher id, and but for what is older than the     *)
(* page a drain without a cursor was given (driver.go setup, runAgent,      *)
(* drainEvents).                                                            *)
THEOREM SavedTheorem == StreamSpec => []SavedIsDone
<1>1. StreamInit => StreamInv
  BY StreamInitInv
<1>2. StreamInv /\ [StreamNext]_streamVars => StreamInv'
  <2> SUFFICES ASSUME StreamInv, [StreamNext]_streamVars PROVE StreamInv'
    OBVIOUS
  <2>1. CASE UNCHANGED streamVars
    BY <2>1 DEF streamVars, StreamInv, TableTyped, DriverTyped, IdsApart, BelowTop, FirstDrain,
                SetupCounted, CursorBehind, HasUpTo, Live, Drainable
  <2>2. CASE StreamNext
    BY <2>2, AttachSteps, ApiSteps, DriverSteps DEF StreamNext
  <2> QED  BY <2>1, <2>2
<1>3. StreamInv => SavedIsDone
  BY DEF StreamInv, SetupCounted, CursorBehind, HasUpTo, Live, SavedIsDone
<1> QED  BY <1>1, <1>2, <1>3, PTL DEF StreamSpec
=============================================================================
