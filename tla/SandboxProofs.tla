---------------------------- MODULE SandboxProofs ----------------------------
(***************************************************************************)
(* Proofs about what runs in a sandbox: the driver server with its run     *)
(* record (DriverServer), for any number of requests, runs, deaths and     *)
(* failing writes, the GitHub MCP proxy (McpSwap), for any lifetimes and   *)
(* any number of requests, the microVM backend (MicroVM), for any number   *)
(* of VMs, runs and slots and any lost events, reaps and crashes, the      *)
(* debug shell (Shell), for any number of connections and frames, one      *)
(* prompt to an agent (Agents), for any pipe and any output, and the mask  *)
(* of its log (Redact), for any secrets and any cutting of the stream.     *)
(***************************************************************************)
EXTENDS DriverServer, McpSwap, MicroVM, Shell, Agents, Redact, SequenceTheorems,
        NaturalsInduction, WellFoundedInduction, TLAPS

-----------------------------------------------------------------------------
(* The driver server.                                                       *)

RecordSet == [version : 0..MaxRun, state : {"none", "running", "finished"},
              reported : BOOLEAN]
ActiveSet == [version  : 0..MaxRun,
              phase    : {"none", "running", "stopping", "ended", "written", "done"},
              reported : BOOLEAN]
CallSet   == [pc : {"idle", "open", "refused", "finished", "hungup"},
              version : 0..MaxRun, reported : BOOLEAN]

DriverTypes ==
  /\ disk \in RecordSet /\ record \in RecordSet /\ active \in ActiveSet
  /\ call \in [Callers -> CallSet]
  /\ starts \in [Runs -> Nat]
  /\ alive \in BOOLEAN

(* The version on disk is the highest that was started; memory, and the run *)
(* of the process while there is one, agree with it.                        *)
VersionsAgree ==
  /\ \A v \in Runs : starts[v] <= 1 /\ (v > disk.version => starts[v] = 0)
  /\ record.version = disk.version
  /\ active.phase # "none" => alive /\ active.version = disk.version

(* What memory, disk and an answered request call reported is acknowledged, *)
(* and the open stream is for the run of the record.                        *)
ReportsAgree ==
  /\ active.reported => active.version \in acked
  /\ record.reported => record.version \in acked
  /\ disk.reported => disk.version \in acked
  /\ \A c \in Callers :
       /\ call[c].pc = "open" /\ streaming = c => call[c].version = record.version
       /\ call[c].pc = "finished" /\ call[c].reported => call[c].version \in acked

DriverInv == DriverTypes /\ VersionsAgree /\ ReportsAgree

(* It holds when the first process of a sandbox starts.                     *)
LEMMA DriverInitInv == DriverInit => DriverInv
BY DriverServerAssumption
   DEF DriverInit, DriverInv, DriverTypes, VersionsAgree, ReportsAgree, NoRecord,
       NoRun, Runs, RecordSet, ActiveSet, CallSet

(* A request that is let in changes its own entry only.                     *)
LEMMA ClaimTypes ==
  ASSUME call \in [Callers -> CallSet], NEW c \in Callers, NEW v \in 0..MaxRun
  PROVE  [call EXCEPT ![c] = [@ EXCEPT !.pc = "open", !.version = v]]
           \in [Callers -> CallSet]
<1>1. [call[c] EXCEPT !.pc = "open", !.version = v] \in CallSet
  BY DEF CallSet
<1> QED  BY <1>1

(* Starting a run keeps the invariant: the disk is written first.           *)
LEMMA StartInv ==
  ASSUME DriverInv, NEW c \in Callers, NEW v \in Runs,
         alive, record.version < v, streaming = NoCaller, Claimed(c, v), start(v),
         UNCHANGED <<alive, acked>>
  PROVE  DriverInv'
<1> USE DEF DriverInv
<1>1. /\ disk' = Record(v, "running", FALSE) /\ record' = Record(v, "running", FALSE)
      /\ active' = [version |-> v, phase |-> "running", reported |-> FALSE]
      /\ starts' = [starts EXCEPT ![v] = @ + 1]
      /\ streaming' = c
      /\ call' = [call EXCEPT ![c] = [@ EXCEPT !.pc = "open", !.version = v]]
  BY DEF start, Claimed
<1>2. DriverTypes'
  <2>1. v \in 0..MaxRun /\ c \in Callers
    BY DriverServerAssumption DEF Runs
  <2>2. disk' \in RecordSet /\ record' \in RecordSet /\ active' \in ActiveSet
    BY <1>1, <2>1 DEF Record, RecordSet, ActiveSet
  <2>3. call' \in [Callers -> CallSet]
    BY <1>1, <2>1, ClaimTypes DEF DriverTypes
  <2>4. starts' \in [Runs -> Nat]
    BY <1>1 DEF DriverTypes
  <2> QED  BY <2>2, <2>3, <2>4 DEF DriverTypes
<1>3. VersionsAgree'
  BY <1>1, DriverServerAssumption
     DEF VersionsAgree, DriverTypes, Record, Runs, RecordSet
<1>4. ReportsAgree'
  <2>1. ~active'.reported /\ ~record'.reported /\ ~disk'.reported
    BY <1>1 DEF Record
  <2>2. ASSUME NEW k \in Callers
        PROVE  /\ call'[k].pc = "open" /\ streaming' = k
                    => call'[k].version = record'.version
               /\ call'[k].pc = "finished" /\ call'[k].reported
                    => call'[k].version \in acked'
    <3>1. CASE k = c
      <4>1. call'[k].pc = "open" /\ call'[k].version = v
        BY <1>1, <3>1 DEF DriverTypes, CallSet
      <4> QED  BY <1>1, <4>1 DEF Record
    <3>2. CASE k # c
      <4>1. call'[k] = call[k] /\ streaming' # k
        BY <1>1, <3>2 DEF DriverTypes
      <4> QED  BY <4>1 DEF ReportsAgree
    <3> QED  BY <3>1, <3>2
  <2> QED  BY <2>1, <2>2 DEF ReportsAgree
<1> QED  BY <1>2, <1>3, <1>4

(* Every request, stop, death, write and reconciliation keeps it.           *)
LEMMA DriverStepInv ==
  ASSUME DriverInv, [DriverNext]_driverVars
  PROVE  DriverInv'
<1> USE DEF DriverInv
<1>1. ASSUME NEW c \in Callers, NEW v \in Runs, NEW spec \in BOOLEAN, open(c, v, spec)
      PROVE  DriverInv'
  <2>1. CASE Refused(c) /\ UNCHANGED <<disk, record, active, starts>>
    BY <1>1, <2>1 DEF open, Refused, DriverTypes, VersionsAgree, ReportsAgree, CallSet
  <2>2. CASE /\ streaming = NoCaller /\ record.version = v
             /\ Claimed(c, v) /\ UNCHANGED <<disk, record, active, starts>>
    <3>1. /\ call' = [call EXCEPT ![c] = [@ EXCEPT !.pc = "open", !.version = v]]
          /\ streaming' = c
          /\ UNCHANGED <<disk, record, active, starts, alive, acked>>
      BY <1>1, <2>2 DEF open, Claimed
    <3>2. v \in 0..MaxRun
      BY DriverServerAssumption DEF Runs
    <3>3. DriverTypes'
      BY <3>1, <3>2, ClaimTypes DEF DriverTypes
    <3>4. VersionsAgree'
      BY <3>1 DEF VersionsAgree
    <3>5. ASSUME NEW k \in Callers
          PROVE  /\ call'[k].pc = "open" /\ streaming' = k
                      => call'[k].version = record'.version
                 /\ call'[k].pc = "finished" /\ call'[k].reported
                      => call'[k].version \in acked'
      <4>1. CASE k = c
        <5>1. call'[k].pc = "open" /\ call'[k].version = v
          BY <3>1, <4>1 DEF DriverTypes, CallSet
        <5> QED  BY <2>2, <3>1, <5>1
      <4>2. CASE k # c
        <5>1. call'[k] = call[k] /\ streaming' # k
          BY <3>1, <4>2 DEF DriverTypes
        <5> QED  BY <3>1, <5>1 DEF ReportsAgree
      <4> QED  BY <4>1, <4>2
    <3>6. ReportsAgree'
      BY <3>1, <3>5 DEF ReportsAgree
    <3> QED  BY <3>3, <3>4, <3>6
  <2>3. CASE /\ streaming = NoCaller /\ record.version < v
             /\ Claimed(c, v) /\ start(v)
    BY <1>1, <2>3, StartInv DEF open
  <2> QED  BY <1>1, <2>1, <2>2, <2>3 DEF open
<1>2. ASSUME NEW c \in Callers, HangUp(c) PROVE DriverInv'
  BY <1>2 DEF HangUp, DriverTypes, VersionsAgree, ReportsAgree, CallSet
<1>3. ASSUME NEW v \in Runs, Stop(v) PROVE DriverInv'
  BY <1>3 DEF Stop, stop, DriverTypes, VersionsAgree, ReportsAgree, ActiveSet
<1>4. CASE Shutdown
  BY <1>4 DEF Shutdown, stop, DriverTypes, VersionsAgree, ReportsAgree, ActiveSet
<1>5. CASE Die
  <2>1. /\ alive' = FALSE /\ active' = NoRun /\ streaming' = NoCaller
        /\ UNCHANGED <<disk, record, acked, starts>>
    BY <1>5 DEF Die
  <2>2. ASSUME NEW k \in Callers
        PROVE  /\ call'[k] \in CallSet
               /\ call'[k].pc = "finished" /\ call'[k].reported
                    => call'[k].version \in acked
    <3>1. CASE call[k].pc = "open"
      <4>1. call'[k] = [call[k] EXCEPT !.pc = "hungup"]
        BY <1>5, <3>1 DEF Die
      <4> QED  BY <4>1 DEF DriverTypes, CallSet
    <3>2. CASE call[k].pc # "open"
      <4>1. call'[k] = call[k]
        BY <1>5, <3>2 DEF Die
      <4> QED  BY <4>1 DEF DriverTypes, ReportsAgree
    <3> QED  BY <3>1, <3>2
  <2>3. call' \in [Callers -> CallSet]
    <3>1. call' = [k \in Callers |-> call'[k]]
      BY <1>5 DEF Die
    <3> QED  BY <2>2, <3>1
  <2>4. DriverTypes'
    <3>1. NoRun \in ActiveSet
      BY DriverServerAssumption DEF NoRun, ActiveSet
    <3> QED  BY <2>1, <2>3, <3>1 DEF DriverTypes
  <2>5. VersionsAgree'
    BY <2>1 DEF VersionsAgree, NoRun
  <2>6. ReportsAgree'
    BY <2>1, <2>2, DriverServerAssumption DEF ReportsAgree, NoRun
  <2> QED  BY <2>4, <2>5, <2>6
<1>6. CASE RunEnds
  BY <1>6 DEF RunEnds, DriverTypes, VersionsAgree, ReportsAgree, ActiveSet
<1>7. CASE Written
  BY <1>7
   DEF Written, Record, DriverTypes, VersionsAgree, ReportsAgree, ActiveSet, RecordSet
<1>8. CASE RunDone
  BY <1>8
   DEF RunDone, Record, DriverTypes, VersionsAgree, ReportsAgree, ActiveSet, RecordSet
<1>9. CASE New
  BY <1>9 DEF New, Reconciled, Record, DriverTypes, VersionsAgree, ReportsAgree, RecordSet
<1>10. ASSUME NEW c \in Callers, Finish(c) PROVE DriverInv'
  <2> DEFINE v == call[c].version
  <2>1. PICK rep \in BOOLEAN :
          /\ call' = [call EXCEPT ![c] = [@ EXCEPT !.pc = "finished", !.reported = rep]]
          /\ rep => v \in acked
    <3>1. CASE active.version = v
      <4>1. call' = [call EXCEPT ![c] = [@ EXCEPT !.pc = "finished",
                                                  !.reported = active.reported]]
        BY <1>10, <3>1 DEF Finish, ReportedOf, DriverTypes, CallSet
      <4> QED  BY <3>1, <4>1 DEF ReportsAgree, DriverTypes, ActiveSet
    <3>2. CASE active.version # v
      <4>1. call' = [call EXCEPT ![c] = [@ EXCEPT !.pc = "finished",
                                                  !.reported = record.reported]]
        BY <1>10, <3>2 DEF Finish, ReportedOf, DriverTypes, CallSet
      <4>2. v = record.version
        BY <1>10 DEF Finish, ReportsAgree
      <4> QED  BY <4>1, <4>2 DEF ReportsAgree, DriverTypes, RecordSet
    <3> QED  BY <3>1, <3>2
  <2>2. /\ streaming' = NoCaller
        /\ UNCHANGED <<disk, record, active, alive, acked, starts>>
    BY <1>10 DEF Finish
  <2>3. DriverTypes'
    <3>1. [call[c] EXCEPT !.pc = "finished", !.reported = rep] \in CallSet
      BY DEF DriverTypes, CallSet
    <3>2. call' \in [Callers -> CallSet]
      BY <2>1, <3>1 DEF DriverTypes
    <3> QED  BY <2>2, <3>2 DEF DriverTypes
  <2>4. VersionsAgree'
    BY <2>2 DEF VersionsAgree
  <2>5. ASSUME NEW k \in Callers
        PROVE  call'[k].pc = "finished" /\ call'[k].reported => call'[k].version \in acked
    <3>1. CASE k = c
      <4>1. call'[k].reported = rep /\ call'[k].version = v
        BY <2>1, <3>1 DEF DriverTypes, CallSet
      <4> QED  BY <2>1, <4>1
    <3>2. CASE k # c
      <4>1. call'[k] = call[k]
        BY <2>1, <3>2 DEF DriverTypes
      <4> QED  BY <4>1 DEF ReportsAgree
    <3> QED  BY <3>1, <3>2
  <2>6. ReportsAgree'
    BY <2>2, <2>5, DriverServerAssumption DEF ReportsAgree
  <2> QED  BY <2>3, <2>4, <2>6
<1>11. ASSUME NEW c \in Callers, Detach(c) PROVE DriverInv'
  BY <1>11, DriverServerAssumption
     DEF Detach, DriverTypes, VersionsAgree, ReportsAgree
<1>12. CASE UNCHANGED driverVars
  BY <1>12 DEF driverVars, DriverTypes, VersionsAgree, ReportsAgree
<1> QED
  BY <1>1, <1>2, <1>3, <1>4, <1>5, <1>6, <1>7, <1>8, <1>9, <1>10, <1>11, <1>12
     DEF DriverNext, ServerSteps

(* However requests are repeated and wherever the process dies, the run of  *)
(* a version is executed at most once (driverserver.go open, start).        *)
THEOREM RunsOnceTheorem == DriverSpec => []RunsOnce
<1>1. DriverInv => RunsOnce
  BY DEF DriverInv, VersionsAgree, RunsOnce
<1> QED  BY <1>1, DriverInitInv, DriverStepInv, PTL DEF DriverSpec

(* A Finished that claims its report was acknowledged is right, whatever    *)
(* record writes failed (driverserver.go execute, Reconcile).               *)
THEOREM ReportedTheorem == DriverSpec => []ReportedTruthful
<1>1. DriverInv => ReportedTruthful
  BY DEF DriverInv, ReportsAgree, ReportedTruthful
<1> QED  BY <1>1, DriverInitInv, DriverStepInv, PTL DEF DriverSpec

(* The record on disk never goes back to an earlier version: a stale        *)
(* request finds its own version or a later one (driverserver.go open, New). *)
THEOREM RecordMonotoneTheorem == DriverSpec => RecordMonotone
<1>1. DriverInv /\ [DriverNext]_driverVars => [disk'.version >= disk.version]_driverVars
  <2> SUFFICES ASSUME DriverInv, DriverNext PROVE disk'.version >= disk.version
    OBVIOUS
  <2>1. /\ disk.version \in Nat /\ record.version = disk.version
        /\ active.phase # "none" => active.version = disk.version
    BY DriverServerAssumption DEF DriverInv, DriverTypes, RecordSet, VersionsAgree
  <2>2. ASSUME NEW c \in Callers, NEW v \in Runs, NEW spec \in BOOLEAN, open(c, v, spec)
        PROVE  disk'.version >= disk.version
    <3>1. \/ UNCHANGED disk
          \/ record.version < v /\ disk' = Record(v, "running", FALSE)
      BY <2>2 DEF open, start
    <3>2. v \in Int
      BY DriverServerAssumption DEF Runs
    <3> QED  BY <2>1, <3>1, <3>2 DEF Record
  <2>3. CASE Written
    <3>1. UNCHANGED disk \/ disk' = Record(active.version, "finished", active.reported)
      BY <2>3 DEF Written
    <3>2. active.version = disk.version
      BY <2>1, <2>3 DEF Written
    <3> QED  BY <2>1, <3>1, <3>2 DEF Record
  <2>4. CASE New
    BY <2>1, <2>4 DEF New, Reconciled, Record
  <2>5. CASE UNCHANGED disk
    BY <2>1, <2>5
  <2> QED  BY <2>2, <2>3, <2>4, <2>5
           DEF DriverNext, ServerSteps, HangUp, Stop, Shutdown, Die, RunEnds, RunDone,
               Finish, Detach
<1> QED  BY <1>1, DriverInitInv, DriverStepInv, PTL DEF DriverSpec, RecordMonotone

-----------------------------------------------------------------------------
(* The GitHub MCP proxy.                                                    *)

Session == [expires : Int, state : {"open", "closing", "closed"}]

SwapTypes ==
  /\ now \in Nat /\ minted \in Int /\ due \in Int /\ trouble \in 0..MaxTrouble
  /\ done \in BOOLEAN
  /\ sessions \in Seq(Session) /\ current \in Int

(* A token being connected with is as old as the attempt is in trouble.     *)
MintedFresh == rotor = "connect" => now <= minted - TTL + trouble

Serves == server = "serving" /\ ~done

(* While the proxy serves, the session in use is the newest, and the        *)
(* rotation is ahead of its margin, but for the trouble it met.             *)
Rotates ==
  Serves =>
    /\ rotor \in {"idle", "mint", "connect"}
    /\ current = Len(sessions) /\ current > 0
    /\ sessions[current].state = "open"
    /\ rotor = "idle" => now <= due /\ due <= sessions[current].expires - MinTTL + trouble
    /\ rotor # "idle" => now <= sessions[current].expires - MinTTL + trouble

SwapInv == SwapTypes /\ MintedFresh /\ Rotates

(* It holds before the first token is minted.                               *)
LEMMA SwapInitInv == SwapInit => SwapInv
<1> SUFFICES ASSUME SwapInit PROVE SwapInv
  OBVIOUS
<1>1. SwapTypes
  <2>1. 0 \in 0..MaxTrouble /\ <<>> \in Seq(Session)
    BY SwapAssumption
  <2>2. done \in BOOLEAN
    BY Zenon DEF SwapInit
  <2> QED  BY <2>1, <2>2 DEF SwapInit, SwapTypes
<1>2. MintedFresh /\ Rotates
  BY DEF SwapInit, MintedFresh, Rotates, Serves
<1> QED  BY <1>1, <1>2 DEF SwapInv

(* While the proxy serves there is a session to ask for its expiry.         *)
LEMMA CurrentSession ==
  ASSUME SwapInv, Serves
  PROVE  /\ sessions[current] \in Session
         /\ sessions[current].expires \in Int
<1>1. sessions \in Seq(Session) /\ current \in 1..Len(sessions)
  BY DEF SwapInv, Rotates, SwapTypes
<1>2. sessions[current] \in Session
  BY <1>1
<1> QED  BY <1>2 DEF Session

(* A failed attempt keeps the invariant: it is paid for with trouble.       *)
LEMMA RetryInv ==
  ASSUME SwapInv, rotor \in {"mint", "connect"}, Mayfail, Retry,
         UNCHANGED <<now, done, current, sessions, minted>>
  PROVE  SwapInv'
<1> USE SwapAssumption DEF SwapInv
<1>1. CASE server = "boot" \/ done
  <2>1. rotor' = "over" /\ ~Serves' /\ UNCHANGED <<due, trouble>>
    BY <1>1 DEF Retry, Serves
  <2> QED  BY <2>1 DEF SwapTypes, MintedFresh, Rotates
<1>2. CASE ~(server = "boot" \/ done)
  <2>1. /\ rotor' = "idle" /\ due' = now + 1 /\ trouble' = trouble + 1
        /\ server' = server /\ trouble < MaxTrouble
    BY <1>2 DEF Retry, Mayfail
  <2>2. SwapTypes'
    BY <2>1 DEF SwapTypes
  <2>3. Rotates'
    <3> SUFFICES ASSUME Serves'  PROVE  Rotates'
      BY DEF Rotates
    <3>1. Serves
      BY <2>1 DEF Serves
    <3>2. sessions[current].expires \in Int
      BY <3>1, CurrentSession
    <3> QED  BY <2>1, <3>1, <3>2 DEF Rotates, SwapTypes
  <2> QED  BY <2>1, <2>2, <2>3 DEF MintedFresh
<1> QED  BY <1>1, <1>2

(* The sequence of sessions after a swap.                                   *)
LEMMA SwapSessions ==
  ASSUME SwapTypes, Swap
  PROVE  /\ sessions' \in Seq(Session)
         /\ current' = Len(sessions') /\ current' > 0
         /\ sessions'[current'] = [expires |-> minted, state |-> "open"]
<1> DEFINE old == [s \in DOMAIN sessions |->
                     IF s = current THEN [sessions[s] EXCEPT !.state = "closing"]
                                    ELSE sessions[s]]
           new == [expires |-> minted, state |-> "open"]
<1>1. DOMAIN sessions = 1..Len(sessions) /\ Len(sessions) \in Nat
  BY DEF SwapTypes
<1>2. ASSUME NEW s \in DOMAIN sessions  PROVE old[s] \in Session
  <2>1. sessions[s] \in Session
    BY DEF SwapTypes
  <2>2. [sessions[s] EXCEPT !.state = "closing"] \in Session
    BY <2>1 DEF Session
  <2> QED  BY <2>1, <2>2
<1>3. old \in Seq(Session) /\ Len(old) = Len(sessions)
  <2>1. old \in [1..Len(sessions) -> Session]
    BY <1>1, <1>2
  <2> HIDE DEF old
  <2> QED  BY <1>1, <2>1
<1>4. new \in Session
  BY DEF SwapTypes, Session
<1>5. sessions' = Append(old, new) /\ current' = Len(sessions) + 1
  BY DEF Swap
<1> HIDE DEF old, new
<1>6. sessions' \in Seq(Session) /\ Len(sessions') = Len(old) + 1
        /\ sessions'[Len(old) + 1] = new
  BY <1>3, <1>4, <1>5
<1> QED  BY <1>1, <1>3, <1>5, <1>6 DEF new

(* Every step of the proxy, of its requests and of the clock keeps it.      *)
LEMMA SwapStepInv ==
  ASSUME SwapInv, [SwapNext]_swapVars
  PROVE  SwapInv'
<1> USE SwapAssumption DEF SwapInv
<1>1. CASE CreateGitHubToken
  <2>1. CASE Mayfail /\ Retry /\ UNCHANGED minted
    BY <1>1, <2>1, RetryInv DEF CreateGitHubToken
  <2>2. CASE minted' = now + TTL /\ rotor' = "connect" /\ UNCHANGED <<server, due, trouble>>
    BY <1>1, <2>2
       DEF CreateGitHubToken, SwapTypes, MintedFresh, Rotates, Serves
  <2> QED  BY <1>1, <2>1, <2>2 DEF CreateGitHubToken
<1>2. CASE SwapLock
  BY <1>2 DEF SwapLock, SwapTypes, MintedFresh, Rotates, Serves
<1>3. CASE SwapFails
  BY <1>3, RetryInv DEF SwapFails
<1>4. CASE Swap
  <2>1. /\ now' = now /\ done' = done /\ minted' = minted
        /\ rotor' = "idle" /\ trouble' = 0 /\ rotor = "connect"
        /\ due' = IF minted - MinTTL > now THEN minted - MinTTL ELSE now
    BY <1>4 DEF Swap, WhenToRotate
  <2>2. now <= minted - MinTTL
    BY <2>1 DEF MintedFresh, SwapTypes
  <2>3. due' = minted - MinTTL
    BY <2>1, <2>2 DEF SwapTypes
  <2>4. /\ sessions' \in Seq(Session)
        /\ current' = Len(sessions') /\ current' > 0
        /\ sessions'[current'].expires = minted /\ sessions'[current'].state = "open"
    BY <1>4, SwapSessions
  <2>5. SwapTypes'
    BY <2>1, <2>3, <2>4 DEF SwapTypes
  <2>6. Rotates'
    BY <2>1, <2>2, <2>3, <2>4 DEF Rotates, SwapTypes
  <2> QED  BY <2>1, <2>5, <2>6 DEF MintedFresh
<1>5. CASE closeInBackground
  <2>1. PICK s \in DOMAIN sessions :
          /\ sessions[s].state = "closing"
          /\ sessions' = [sessions EXCEPT ![s].state = "closed"]
    BY <1>5 DEF closeInBackground
  <2>2. UNCHANGED <<now, server, done, current, rotor, minted, due, trouble>>
    BY <1>5 DEF closeInBackground
  <2>3. sessions' \in Seq(Session) /\ Len(sessions') = Len(sessions)
    <3>1. [sessions[s] EXCEPT !.state = "closed"] \in Session
      <4>1. sessions[s] \in Session
        BY DEF SwapTypes
      <4> QED  BY <4>1 DEF Session
    <3>2. s \in 1..Len(sessions)
      BY DEF SwapTypes
    <3> QED  BY <2>1, <3>1, <3>2, ExceptSeq DEF SwapTypes
  <2>4. SwapTypes'
    BY <2>2, <2>3 DEF SwapTypes
  <2>5. ASSUME Serves'  PROVE  sessions'[current'] = sessions[current]
    BY <2>1, <2>2, <2>5 DEF Rotates, Serves, SwapTypes
  <2> QED  BY <2>2, <2>3, <2>4, <2>5 DEF MintedFresh, Rotates, Serves
<1>6. CASE rotate
  <2>1. SwapTypes' /\ MintedFresh'
    BY <1>6 DEF rotate, SwapTypes, MintedFresh
  <2>2. ASSUME Serves' PROVE Rotates'
    <3>1. Serves /\ rotor = "idle" /\ rotor' = "mint"
          /\ UNCHANGED <<now, server, done, current, sessions, due, trouble>>
      BY <1>6, <2>2 DEF rotate, Serves
    <3>2. sessions[current].expires \in Int
      BY <3>1, CurrentSession
    <3> QED  BY <3>1, <3>2 DEF Rotates, SwapTypes
  <2> QED  BY <2>1, <2>2 DEF Rotates
<1>7. ASSUME NEW r \in Requests, Dispatch(r) \/ Answer(r) \/ Received(r)
      PROVE  SwapInv'
  BY <1>7 DEF Dispatch, Answer, Received, SwapTypes, MintedFresh, Rotates, Serves
<1>8. CASE Cancelled
  BY <1>8 DEF Cancelled, SwapTypes, MintedFresh, Rotates, Serves
<1>9. CASE ServeEnds
  BY <1>9 DEF ServeEnds, SwapTypes, MintedFresh, Rotates, Serves
<1>10. CASE CloseUpstream
  <2>1. /\ ~Serves' /\ current' = 0
        /\ sessions' = [s \in DOMAIN sessions |->
                          IF s = current THEN [sessions[s] EXCEPT !.state = "closed"]
                                         ELSE sessions[s]]
        /\ UNCHANGED <<now, done, rotor, minted, due, trouble>>
    BY <1>10 DEF CloseUpstream, Serves
  <2>2. sessions' \in Seq(Session)
    <3>1. DOMAIN sessions = 1..Len(sessions) /\ Len(sessions) \in Nat
      BY DEF SwapTypes
    <3>2. ASSUME NEW s \in DOMAIN sessions  PROVE sessions'[s] \in Session
      <4>1. sessions[s] \in Session
        BY DEF SwapTypes
      <4>2. [sessions[s] EXCEPT !.state = "closed"] \in Session
        BY <4>1 DEF Session
      <4> QED  BY <2>1, <4>1, <4>2
    <3>3. sessions' \in [1..Len(sessions) -> Session]
      BY <2>1, <3>1, <3>2
    <3> QED  BY <3>1, <3>3
  <2> QED  BY <2>1, <2>2 DEF SwapTypes, MintedFresh, Rotates
<1>11. CASE Tick
  <2>1. now' = now + 1 /\ UNCHANGED <<server, done, current, sessions, rotor, minted, due>>
    BY <1>11 DEF Tick
  <2>2. \/ rotor = "idle" /\ (now < due \/ done) /\ trouble' = trouble
        \/ rotor = "over" /\ trouble' = trouble
        \/ rotor \in {"mint", "connect"} /\ trouble < MaxTrouble /\ trouble' = trouble + 1
    BY <1>11 DEF Tick
  <2>3. SwapTypes' /\ MintedFresh'
    BY <2>1, <2>2 DEF SwapTypes, MintedFresh
  <2>4. ASSUME Serves' PROVE Rotates'
    <3>1. Serves
      BY <2>1, <2>4 DEF Serves
    <3>2. sessions[current].expires \in Int
      BY <3>1, CurrentSession
    <3> QED  BY <2>1, <2>2, <3>1, <3>2 DEF Rotates, Serves, SwapTypes
  <2> QED  BY <2>3, <2>4 DEF Rotates
<1>12. CASE UNCHANGED swapVars
  BY <1>12 DEF swapVars, SwapTypes, MintedFresh, Rotates, Serves
<1> QED
  BY <1>1, <1>2, <1>3, <1>4, <1>5, <1>6, <1>7, <1>8, <1>9, <1>10, <1>11, <1>12
     DEF SwapNext

(* While the proxy serves, a request finds the newest session, open, with a *)
(* token that has time left, for any lifetime, margin and trouble the       *)
(* assumption allows (mcpswap.go Swap, githubmcp.go rotate).                *)
THEOREM SessionFreshTheorem == SwapSpec => []SessionFresh
<1>1. SwapInv => SessionFresh
  <2> SUFFICES ASSUME SwapInv, Serves  PROVE SessionFresh
    BY DEF SessionFresh, Serves
  <2>1. sessions[current].expires \in Int
    BY CurrentSession
  <2>2. now <= sessions[current].expires - MinTTL + trouble
    <3>1. CASE rotor = "idle"
      <4>1. now <= due /\ due <= sessions[current].expires - MinTTL + trouble
        BY <3>1 DEF SwapInv, Rotates
      <4> QED  BY <2>1, <4>1, SwapAssumption DEF SwapInv, SwapTypes
    <3>2. CASE rotor # "idle"
      BY <3>2 DEF SwapInv, Rotates
    <3> QED  BY <3>1, <3>2
  <2>3. now < sessions[current].expires
    BY <2>1, <2>2, SwapAssumption DEF SwapInv, SwapTypes
  <2> QED  BY <2>3 DEF SwapInv, Rotates, SessionFresh
<1> QED  BY <1>1, SwapInitInv, SwapStepInv, PTL DEF SwapSpec
-----------------------------------------------------------------------------
(* The microVM backend.  Its VMs, and the supervise goroutine of a version. *)
VMRec  == [state : {"none", "PENDING", "RUNNING", "SUSPENDING", "SUSPENDED", "TERMINATED"},
           started : BOOLEAN, run : 0..MaxVersion, dead : 0..MaxVersion,
           sticky : 0..MaxVersion]
SupRec == [pc : {"off", "mint", "open", "read", "arbitrate"}, vm : 0..MaxVMs,
           subscribed : BOOLEAN, event : 0..MaxVersion]

PollAt  == {"idle", "kill", "acquire", "start", "launch", "record", "supervise"}
Started == {"record", "supervise"}
JobRec  == [version : 0..MaxVersion, vm : 0..MaxVMs]

MicroTypes ==
  /\ vms \in [VMs -> VMRec] /\ sup \in [Versions -> SupRec]
  /\ task \in [version : Versions, command : {"none", "start", "restart"}]
  /\ rec \in {NoRec} \cup [version : Versions, vm : VMs]
  /\ poll \in PollAt /\ job \in JobRec
  /\ up \in BOOLEAN /\ sem \in 0..Concurrency

(* A shim has at most one of a live driver, an exit to publish and a sticky *)
(* exit, and nothing at all until it spawns.                                *)
ShimOK(m) ==
  /\ m.run # 0 => m.dead = 0 /\ m.sticky = 0
  /\ m.dead # 0 => m.sticky = 0
  /\ m.state \in {"none", "PENDING", "SUSPENDED"} => m.run = 0 /\ m.dead = 0 /\ m.sticky = 0
  /\ m.state = "SUSPENDING" => m.run = 0 /\ m.dead = 0

(* What the shim m runs, or ran last, is no older than version v.           *)
NoOlder(m, v) ==
  (m.run # 0 => m.run >= v) /\ (m.dead # 0 => m.dead >= v) /\ (m.sticky # 0 => m.sticky >= v)

(* The goroutine s of version v watches a VM m that nobody has suspended,   *)
(* and an exit it has read is of a driver that has had no successor.        *)
WatchOK(s, v, m, version) ==
  /\ s.vm \in VMs /\ m.state \in {"PENDING", "RUNNING", "TERMINATED"}
  /\ v <= version /\ NoOlder(m, v)
  /\ s.event # 0 => /\ s.event >= v /\ m.state # "PENDING"
                    /\ m.state = "RUNNING" => m.run = 0 /\ m.dead = 0

Watching(s) == s.pc # "off"
ShimsOK   == \A i \in VMs : ShimOK(vms[i])
WatchesOK == \A v \in Versions :
               /\ Watching(sup[v]) => WatchOK(sup[v], v, vms[sup[v].vm], task.version)
               /\ sup[v].subscribed \/ sup[v].event # 0 => sup[v].pc = "read"
OneWatcher ==
  \A v, u \in Versions : Watching(sup[v]) /\ Watching(sup[u]) /\ v # u => sup[v].vm # sup[u].vm
DownOK == ~up => poll = "idle" /\ \A v \in Versions : ~Watching(sup[v])
RecOK  ==
  rec # NoRec =>
    /\ rec.version <= task.version /\ NoOlder(vms[rec.vm], rec.version)
    /\ vms[rec.vm].state # "none"
    /\ poll = "launch" => vms[rec.vm].state \in {"SUSPENDING", "SUSPENDED", "TERMINATED"}


(* Between Launch and supervise: the VM of the job j is one its future      *)
(* watcher may watch, and nobody else does.                                 *)
HandleOK(j, m) ==
  /\ j.vm \in VMs /\ m.state \in {"PENDING", "RUNNING", "TERMINATED"}
  /\ NoOlder(m, j.version)
JobOK ==
  /\ poll # "idle" => job.version \in Versions /\ job.version <= task.version
  /\ poll \in Started =>
       /\ HandleOK(job, vms[job.vm])
       /\ \A v \in Versions : Watching(sup[v]) => sup[v].vm # job.vm

MicroInv ==
  MicroTypes /\ ShimsOK /\ WatchesOK /\ OneWatcher /\ DownOK /\ RecOK /\ JobOK

(* The ranges of versions, VMs and slots.                                   *)
LEMMA MicroBounds == /\ 0 \in 0..MaxVersion /\ Versions \subseteq 0..MaxVersion
                     /\ VMs \subseteq 0..MaxVMs /\ 0 \in 0..MaxVMs /\ 0 \in 0..Concurrency /\ 1 \in 0..Concurrency
                     /\ 1 \in Versions /\ 0 \notin VMs /\ 0 \notin Versions
                     /\ Versions \subseteq Nat
BY MicroVMAssumption DEF Versions, VMs

(* A supervision that is not there watches nothing.                         *)
LEMMA IdleTyped ==
  Idle \in SupRec /\ ~Watching(Idle) /\ ~Idle.subscribed /\ Idle.event = 0
BY MicroBounds DEF Idle, SupRec, Watching

(* One VM changes and the goroutines stay: its watcher must still be right. *)
LEMMA VMStep ==
  ASSUME MicroInv, NEW i \in VMs, NEW m \in VMRec, ShimOK(m),
         vms' = [vms EXCEPT ![i] = m], UNCHANGED <<sup, rec, job, up, sem>>,
         task' \in [version : Versions, command : {"none", "start", "restart"}],
         task'.version = task.version,
         poll' \in PollAt,
         poll' = "launch" => poll = "launch", ~up => poll' = poll,
         poll' \in Started => poll' = poll, poll = "idle" => poll' = "idle",
         poll \in Started /\ job.vm = i => HandleOK(job, m),
         \A v \in Versions : Watching(sup[v]) /\ sup[v].vm = i => WatchOK(sup[v], v, m, task.version),
         rec # NoRec /\ rec.vm = i =>
           /\ NoOlder(m, rec.version) /\ m.state # "none"
           /\ poll' = "launch" => m.state \in {"SUSPENDING", "SUSPENDED", "TERMINATED"}
  PROVE  MicroInv'
<1>1. vms'[i] = m /\ \A j \in VMs : j # i => vms'[j] = vms[j]
  BY DEF MicroInv, MicroTypes
<1>2. MicroTypes'
  BY DEF MicroInv, MicroTypes
<1>3. ShimsOK'
  BY <1>1 DEF MicroInv, ShimsOK
<1>4. WatchesOK'
  <2> SUFFICES ASSUME NEW v \in Versions, Watching(sup[v])
               PROVE  WatchOK(sup[v], v, vms'[sup[v].vm], task.version)
    BY DEF MicroInv, WatchesOK
  <2>1. WatchOK(sup[v], v, vms[sup[v].vm], task.version)
    BY DEF MicroInv, WatchesOK
  <2>2. sup[v].vm \in VMs
    BY <2>1 DEF WatchOK
  <2> QED  BY <1>1, <2>1, <2>2
<1>5. OneWatcher' /\ DownOK'
  BY DEF MicroInv, OneWatcher, DownOK
<1>6. RecOK'
  <2>1. rec # NoRec => rec.vm \in VMs
    BY DEF MicroInv, MicroTypes
  <2>2. CASE rec.vm = i
    BY <1>1, <2>2 DEF MicroInv, RecOK
  <2>3. CASE rec.vm # i
    BY <1>1, <2>1, <2>3 DEF MicroInv, RecOK
  <2> QED  BY <2>2, <2>3
<1>7. JobOK'
  <2>1. poll' # "idle" => job.version \in Versions /\ job.version <= task.version
    BY DEF MicroInv, JobOK
  <2>2. poll' \in Started => HandleOK(job, vms'[job.vm])
    BY <1>1 DEF MicroInv, JobOK, HandleOK
  <2>3. poll' \in Started => \A v \in Versions : Watching(sup[v]) => sup[v].vm # job.vm
    BY DEF MicroInv, JobOK
  <2> QED  BY <2>1, <2>2, <2>3 DEF JobOK
<1> QED  BY <1>2, <1>3, <1>4, <1>5, <1>6, <1>7 DEF MicroInv

(* One goroutine goes on, or returns, and the VMs stay.                     *)
LEMMA SupStep ==
  ASSUME MicroInv, NEW v \in Versions, Watching(sup[v]), NEW s \in SupRec,
         sup' = [sup EXCEPT ![v] = s], sem' \in 0..Concurrency,
         UNCHANGED <<vms, task, rec, poll, job, up>>,
         Watching(s) => WatchOK(s, v, vms[s.vm], task.version) /\ s.vm = sup[v].vm,
         s.subscribed \/ s.event # 0 => s.pc = "read"
  PROVE  MicroInv'
<1>1. sup'[v] = s /\ \A u \in Versions : u # v => sup'[u] = sup[u]
  BY DEF MicroInv, MicroTypes
<1>2. MicroTypes'
  BY DEF MicroInv, MicroTypes
<1>3. ShimsOK' /\ RecOK'
  BY DEF MicroInv, ShimsOK, RecOK
<1>4. WatchesOK'
  BY <1>1 DEF MicroInv, WatchesOK
<1>5. OneWatcher'
  BY <1>1 DEF MicroInv, OneWatcher
<1>6. DownOK'
  BY DEF MicroInv, DownOK
<1>7. JobOK'
  BY <1>1 DEF MicroInv, JobOK
<1> QED  BY <1>2, <1>3, <1>4, <1>5, <1>6, <1>7 DEF MicroInv

(* The shim of a VM.                                                        *)
LEMMA ShimSteps ==
  ASSUME MicroInv, NEW i \in VMs,
         RunHook(i) \/ ResumeHook(i) \/ SuspendHook(i) \/ Reap(i) \/ DriverExits(i)
  PROVE  MicroInv'
<1> USE MicroVMAssumption, MicroBounds
<1>0. /\ vms[i] \in VMRec /\ ShimOK(vms[i]) /\ task.version \in Versions
      /\ task \in [version : Versions, command : {"none", "start", "restart"}]
      /\ poll \in PollAt
      /\ vms \in [VMs -> VMRec]
  BY DEF MicroInv, MicroTypes, ShimsOK
<1>1. \A v \in Versions : Watching(sup[v]) => WatchOK(sup[v], v, vms[sup[v].vm], task.version)
  BY DEF MicroInv, WatchesOK
<1>2. rec # NoRec => /\ rec.version \in Versions /\ rec.version <= task.version
                     /\ NoOlder(vms[rec.vm], rec.version)
                     /\ poll = "launch" => vms[rec.vm].state \in {"SUSPENDING", "SUSPENDED", "TERMINATED"}
  BY DEF MicroInv, RecOK, MicroTypes
<1>10. poll \in Started => /\ job.version \in Versions /\ job.version <= task.version
                           /\ HandleOK(job, vms[job.vm])
  BY DEF MicroInv, JobOK, Started
<1>3. UNCHANGED <<sup, rec, up, sem, poll, job>>
  BY DEF RunHook, ResumeHook, SuspendHook, Reap, DriverExits
<1>4. CASE vms[i].state = "PENDING" /\ spawn(i)
  <2>1. DEFINE m == [vms[i] EXCEPT !.state = "RUNNING", !.started = TRUE, !.sticky = 0, !.run = task.version]
  <2>2. vms' = [vms EXCEPT ![i] = m] /\ task' = [task EXCEPT !.command = "none"]
    BY <1>0, <1>4 DEF spawn
  <2>3. /\ task' \in [version : Versions, command : {"none", "start", "restart"}]
        /\ task'.version = task.version
    BY <1>0, <2>2
  <2>4. m \in VMRec /\ m.state = "RUNNING" /\ m.run = task.version /\ m.dead = 0 /\ m.sticky = 0
    BY <1>0, <1>4 DEF VMRec, ShimOK
  <2>5. ShimOK(m)
    BY <2>4 DEF ShimOK
  <2> HIDE DEF m
  <2>6. ASSUME NEW v \in Versions, Watching(sup[v]), sup[v].vm = i
        PROVE  WatchOK(sup[v], v, m, task.version)
    BY <1>0, <1>1, <1>4, <2>4, <2>6 DEF WatchOK, NoOlder
  <2>7. rec # NoRec /\ rec.vm = i =>
           /\ NoOlder(m, rec.version) /\ m.state # "none"
           /\ poll' = "launch" => m.state \in {"SUSPENDING", "SUSPENDED", "TERMINATED"}
    BY <1>2, <1>3, <1>4, <2>4 DEF NoOlder
  <2>8. poll \in Started /\ job.vm = i => HandleOK(job, m)
    BY <1>0, <1>10, <2>4 DEF HandleOK, NoOlder
  <2> QED  BY <1>0, <1>3, <2>2, <2>3, <2>4, <2>5, <2>6, <2>7, <2>8, VMStep
<1>5. ASSUME NEW m \in VMRec, vms' = [vms EXCEPT ![i] = m], task' = task, ShimOK(m),
             m.state # "none",
             m.run \in {0, vms[i].run}, m.dead \in {0, vms[i].dead, vms[i].run}, m.sticky \in {0, vms[i].sticky},
             \/ m.state = vms[i].state /\ m.state = "RUNNING" /\ vms[i].run # 0
             \/ m.state = "TERMINATED"
             \/ m.state = "SUSPENDED" /\ vms[i].state = "SUSPENDING"
      PROVE  MicroInv'
  <2>1. ASSUME NEW v \in Versions, Watching(sup[v]), sup[v].vm = i
        PROVE  WatchOK(sup[v], v, m, task.version)
    <3>1. WatchOK(sup[v], v, vms[i], task.version)
      BY <1>1, <2>1
    <3>2. NoOlder(m, v)
      BY <1>5, <3>1 DEF WatchOK, NoOlder
    <3> QED  BY <1>5, <3>1, <3>2 DEF WatchOK
  <2>2. rec # NoRec /\ rec.vm = i =>
           /\ NoOlder(m, rec.version) /\ m.state # "none"
           /\ poll' = "launch" => m.state \in {"SUSPENDING", "SUSPENDED", "TERMINATED"}
    BY <1>2, <1>3, <1>5 DEF NoOlder
  <2>3. poll \in Started /\ job.vm = i => HandleOK(job, m)
    BY <1>5, <1>10 DEF HandleOK, NoOlder
  <2> QED  BY <1>0, <1>3, <1>5, <2>1, <2>2, <2>3, VMStep
<1>6. CASE RunHook(i) \/ ResumeHook(i)
  <2>1. ASSUME HookFails(i), vms[i].state = "PENDING" PROVE MicroInv'
    <3>1. DEFINE m == [vms[i] EXCEPT !.state = "TERMINATED", !.sticky = 0]
    <3>2. m \in VMRec /\ m.state = "TERMINATED" /\ m.run = 0 /\ m.dead = 0 /\ m.sticky = 0
          /\ vms' = [vms EXCEPT ![i] = m] /\ task' = task
      BY <1>0, <2>1 DEF VMRec, ShimOK, HookFails
    <3>3. ShimOK(m)
      BY <3>2 DEF ShimOK
    <3> HIDE DEF m
    <3> QED  BY <1>5, <2>1, <3>2, <3>3
  <2> QED  BY <1>4, <1>6, <2>1 DEF RunHook, ResumeHook
<1>7. CASE SuspendHook(i)
  <2>1. DEFINE m == [vms[i] EXCEPT !.state = "SUSPENDED", !.sticky = 0]
  <2>2. m \in VMRec /\ m.state = "SUSPENDED" /\ m.run = 0 /\ m.dead = 0 /\ m.sticky = 0
        /\ vms' = [vms EXCEPT ![i] = m] /\ task' = task /\ vms[i].state = "SUSPENDING"
    BY <1>0, <1>7 DEF SuspendHook, VMRec, ShimOK
  <2>3. ShimOK(m)
    BY <2>2 DEF ShimOK
  <2> HIDE DEF m
  <2> QED  BY <1>5, <2>2, <2>3
<1>8. CASE Reap(i)
  <2>1. DEFINE m == [vms[i] EXCEPT !.state = "TERMINATED", !.run = 0, !.dead = 0]
  <2>2. m \in VMRec /\ m.state = "TERMINATED" /\ m.run = 0 /\ m.dead = 0 /\ m.sticky = vms[i].sticky
        /\ vms' = [vms EXCEPT ![i] = m] /\ task' = task
    BY <1>0, <1>8 DEF Reap, VMRec
  <2>3. ShimOK(m)
    BY <2>2 DEF ShimOK
  <2> HIDE DEF m
  <2> QED  BY <1>5, <2>2, <2>3
<1>9. CASE DriverExits(i)
  <2>1. DEFINE m == [vms[i] EXCEPT !.run = 0, !.dead = vms[i].run]
  <2>2. m \in VMRec /\ m.state = "RUNNING" /\ m.run = 0 /\ m.dead = vms[i].run /\ m.sticky = 0
        /\ vms' = [vms EXCEPT ![i] = m] /\ task' = task /\ vms[i].run # 0 /\ m.state = vms[i].state
    BY <1>0, <1>9 DEF DriverExits, VMRec, ShimOK
  <2>3. ShimOK(m)
    BY <2>2 DEF ShimOK
  <2> HIDE DEF m
  <2> QED  BY <1>5, <2>2, <2>3
<1> QED  BY <1>6, <1>7, <1>8, <1>9

(* The exit of a driver goes to the streams that are open.                  *)
LEMMA PublishExitStep ==
  ASSUME MicroInv, NEW i \in VMs, PublishExit(i)
  PROVE  MicroInv'
<1> USE MicroVMAssumption, MicroBounds
<1> DEFINE d == vms[i].dead
           m == [vms[i] EXCEPT !.dead = 0, !.sticky = d]
<1>0. /\ vms[i] \in VMRec /\ ShimOK(vms[i]) /\ vms[i].state = "RUNNING" /\ d # 0 /\ d \in 0..MaxVersion
      /\ vms \in [VMs -> VMRec] /\ sup \in [Versions -> SupRec]
  BY DEF MicroInv, MicroTypes, ShimsOK, PublishExit, VMRec
<1>1. /\ vms' = [vms EXCEPT ![i] = m] /\ UNCHANGED <<task, rec, poll, job, sem, up>>
      /\ sup' = [v \in Versions |-> IF Reaches(v, i) THEN [sup[v] EXCEPT !.event = d] ELSE sup[v]]
  BY <1>0 DEF PublishExit
<1>2. m \in VMRec /\ m.state = "RUNNING" /\ m.run = 0 /\ m.dead = 0 /\ m.sticky = d
  BY <1>0 DEF VMRec, ShimOK
<1> HIDE DEF m, d
<1>3. vms'[i] = m /\ \A j \in VMs : j # i => vms'[j] = vms[j]
  BY <1>0, <1>1
<1>4. ASSUME NEW v \in Versions
      PROVE  /\ sup'[v] \in SupRec /\ sup'[v].pc = sup[v].pc /\ sup'[v].vm = sup[v].vm
             /\ sup'[v].subscribed = sup[v].subscribed
             /\ \/ sup'[v].event = sup[v].event
                \/ sup'[v].event = d /\ sup[v].vm = i /\ sup[v].subscribed
  <2>1. sup[v] \in SupRec
    BY <1>0
  <2>2. CASE Reaches(v, i)
    BY <1>0, <1>1, <2>1, <2>2 DEF Reaches, SupRec
  <2>3. CASE ~Reaches(v, i)
    BY <1>1, <2>1, <2>3
  <2> QED  BY <2>2, <2>3
<1>5. MicroTypes'
  <2>1. sup' = [v \in Versions |-> sup'[v]]
    BY <1>1
  <2>2. sup' \in [Versions -> SupRec]
    BY <1>4, <2>1
  <2> QED  BY <1>0, <1>1, <1>2, <2>2 DEF MicroInv, MicroTypes
<1>6. ShimsOK'
  BY <1>2, <1>3 DEF MicroInv, ShimsOK, ShimOK
<1>7. WatchesOK'
  <2> SUFFICES ASSUME NEW v \in Versions
               PROVE  /\ Watching(sup'[v]) => WatchOK(sup'[v], v, vms'[sup'[v].vm], task.version)
                      /\ sup'[v].subscribed \/ sup'[v].event # 0 => sup'[v].pc = "read"
    BY <1>1 DEF WatchesOK
  <2>1. /\ Watching(sup[v]) => WatchOK(sup[v], v, vms[sup[v].vm], task.version)
        /\ sup[v].subscribed \/ sup[v].event # 0 => sup[v].pc = "read"
    BY DEF MicroInv, WatchesOK
  <2>2. sup'[v].subscribed \/ sup'[v].event # 0 => sup'[v].pc = "read"
    BY <1>4, <2>1
  <2>3. ASSUME Watching(sup'[v]) PROVE WatchOK(sup'[v], v, vms'[sup'[v].vm], task.version)
    <3>1. WatchOK(sup[v], v, vms[sup[v].vm], task.version)
      BY <1>4, <2>1, <2>3 DEF Watching
    <3>2. CASE sup[v].vm = i
      <4>1. d >= v /\ NoOlder(m, v)
        BY <1>0, <1>2, <3>1, <3>2 DEF WatchOK, NoOlder, d
      <4> QED  BY <1>2, <1>3, <1>4, <3>1, <3>2, <4>1 DEF WatchOK
    <3>3. CASE sup[v].vm # i
      <4>1. sup[v].vm \in VMs /\ vms'[sup[v].vm] = vms[sup[v].vm] /\ sup'[v].event = sup[v].event
        BY <1>3, <1>4, <3>1, <3>3 DEF WatchOK
      <4> QED  BY <1>4, <3>1, <4>1 DEF WatchOK
    <3> QED  BY <3>2, <3>3
  <2> QED  BY <2>2, <2>3
<1>8. OneWatcher' /\ DownOK'
  BY <1>1, <1>4 DEF MicroInv, OneWatcher, DownOK, Watching
<1>9. RecOK'
  <2>1. rec # NoRec => rec.vm \in VMs
    BY DEF MicroInv, MicroTypes
  <2>2. CASE rec.vm = i
    BY <1>0, <1>1, <1>2, <1>3, <2>2 DEF MicroInv, RecOK, NoOlder, d
  <2>3. CASE rec.vm # i
    BY <1>1, <1>3, <2>1, <2>3 DEF MicroInv, RecOK
  <2> QED  BY <2>2, <2>3
<1>10. JobOK'
  <2>1. poll \in Started => job.vm \in VMs /\ HandleOK(job, vms[job.vm])
    BY DEF MicroInv, JobOK, HandleOK
  <2>2. poll \in Started => HandleOK(job, vms'[job.vm])
    <3>1. CASE job.vm = i
      BY <1>0, <1>2, <1>3, <2>1, <3>1 DEF HandleOK, NoOlder, d
    <3>2. CASE job.vm # i
      BY <1>3, <2>1, <3>2
    <3> QED  BY <3>1, <3>2
  <2> QED  BY <1>1, <1>4, <2>2 DEF MicroInv, JobOK, Watching
<1> QED  BY <1>5, <1>6, <1>7, <1>8, <1>9, <1>10 DEF MicroInv

(* The loop of Wait.                                                        *)
LEMMA WaitSteps ==
  ASSUME MicroInv, NEW v \in Versions,
         Mint(v) \/ SubscribeExit(v) \/ Dropped(v) \/ Arbitrate(v)
  PROVE  MicroInv'
<1> USE MicroVMAssumption, MicroBounds
<1>0. /\ sup[v] \in SupRec /\ Watching(sup[v]) /\ sup \in [Versions -> SupRec]
      /\ WatchOK(sup[v], v, vms[sup[v].vm], task.version)
      /\ sup[v].subscribed \/ sup[v].event # 0 => sup[v].pc = "read"
      /\ sem \in 0..Concurrency
  <2>1. Watching(sup[v])
    BY DEF Mint, SubscribeExit, Dropped, Arbitrate, Watching
  <2> QED  BY <2>1 DEF MicroInv, MicroTypes, WatchesOK
<1>1. UNCHANGED <<vms, task, rec, poll, job, up>>
  BY DEF Mint, SubscribeExit, Dropped, Arbitrate
<1>2. CASE Returned(v)
  <2>1. sup' = [sup EXCEPT ![v] = Idle] /\ sem' \in 0..Concurrency
    BY <1>0, <1>2 DEF Returned
  <2> QED  BY <1>0, <1>1, <2>1, IdleTyped, SupStep
<1>3. ASSUME NEW p \in {"mint", "open"}, sup' = [sup EXCEPT ![v].pc = p], sem' = sem,
             sup[v].pc # "read"
      PROVE  MicroInv'
  <2>1. DEFINE s == [sup[v] EXCEPT !.pc = p]
  <2>2. s \in SupRec /\ sup' = [sup EXCEPT ![v] = s] /\ s.vm = sup[v].vm /\ s.event = 0 /\ ~s.subscribed
    BY <1>0, <1>3 DEF SupRec
  <2> HIDE DEF s
  <2>3. WatchOK(s, v, vms[s.vm], task.version)
    BY <1>0, <2>2 DEF WatchOK
  <2> QED  BY <1>0, <1>1, <1>3, <2>2, <2>3, SupStep
<1>4. CASE Mint(v)
  BY <1>2, <1>3, <1>4 DEF Mint
<1>5. CASE Arbitrate(v)
  BY <1>2, <1>3, <1>5 DEF Arbitrate
<1>6. CASE Dropped(v)
  <2>1. DEFINE s == [sup[v] EXCEPT !.pc = "arbitrate", !.subscribed = FALSE, !.event = 0]
  <2>2. s \in SupRec /\ sup' = [sup EXCEPT ![v] = s] /\ s.vm = sup[v].vm /\ s.event = 0
        /\ ~s.subscribed /\ sem' = sem
    BY <1>0, <1>6 DEF SupRec, Dropped
  <2> HIDE DEF s
  <2>3. WatchOK(s, v, vms[s.vm], task.version)
    BY <1>0, <2>2 DEF WatchOK
  <2> QED  BY <1>0, <1>1, <2>2, <2>3, SupStep
<1>7. CASE SubscribeExit(v)
  <2>0. sup[v].vm \in VMs
    BY <1>0 DEF WatchOK
  <2>1. vms[sup[v].vm] \in VMRec /\ ShimOK(vms[sup[v].vm])
    BY <2>0 DEF MicroInv, MicroTypes, ShimsOK
  <2> DEFINE k == vms[sup[v].vm].sticky
             s == [sup[v] EXCEPT !.pc = "read", !.subscribed = TRUE, !.event = k]
  <2>2. k \in 0..MaxVersion
    BY <2>1 DEF VMRec
  <2>3. sup' = [sup EXCEPT ![v] = s] /\ sem' = sem
    BY <1>0, <1>7 DEF SubscribeExit
  <2>4. s \in SupRec /\ s.vm = sup[v].vm /\ s.event = k /\ s.pc = "read"
    BY <1>0, <2>2 DEF SupRec
  <2> HIDE DEF s
  <2>5. WatchOK(s, v, vms[s.vm], task.version)
    BY <1>0, <2>1, <2>4 DEF WatchOK, ShimOK, NoOlder
  <2> QED  BY <1>0, <1>1, <2>3, <2>4, <2>5, SupStep
<1> QED  BY <1>4, <1>5, <1>6, <1>7

(* Wait ends: it suspends the VM it watched, which nothing runs in.         *)
LEMMA WaitSuspendsStep ==
  ASSUME MicroInv, NEW v \in Versions, WaitSuspends(v)
  PROVE  MicroInv'
<1> USE MicroVMAssumption, MicroBounds
<1>0. /\ sup[v] \in SupRec /\ Watching(sup[v]) /\ sup \in [Versions -> SupRec]
      /\ sup[v].event # 0
      /\ WatchOK(sup[v], v, vms[sup[v].vm], task.version)
      /\ sem \in 0..Concurrency
  <2>1. Watching(sup[v]) /\ sup[v].event # 0
    BY DEF WaitSuspends, Watching
  <2> QED  BY <2>1 DEF MicroInv, MicroTypes, WatchesOK
<1>1. UNCHANGED <<task, rec, poll, job, up>> /\ sup' = [sup EXCEPT ![v] = Idle] /\ sem' \in 0..Concurrency
  BY <1>0 DEF WaitSuspends, Returned
<1>2. CASE vms' = vms
  BY <1>0, <1>1, <1>2, IdleTyped, SupStep
<1>3. CASE vms' # vms
  <2> DEFINE i == sup[v].vm
             m == [vms[i] EXCEPT !.state = "SUSPENDING"]
  <2>0. i \in VMs
    BY <1>0 DEF WatchOK
  <2>1. vms[i].state = "RUNNING" /\ vms' = [vms EXCEPT ![i] = m]
    BY <1>3 DEF WaitSuspends
  <2>2. vms[i] \in VMRec /\ vms \in [VMs -> VMRec]
    BY <2>0 DEF MicroInv, MicroTypes
  <2>3. vms[i].run = 0 /\ vms[i].dead = 0
    BY <1>0, <2>1 DEF WatchOK
  <2>4. m \in VMRec /\ m.state = "SUSPENDING" /\ m.run = 0 /\ m.dead = 0 /\ m.sticky = vms[i].sticky
    BY <2>2, <2>3 DEF VMRec
  <2> HIDE DEF m
  <2>5. vms'[i] = m /\ \A j \in VMs : j # i => vms'[j] = vms[j]
    BY <2>0, <2>1, <2>2
  <2>6. sup'[v] = Idle /\ \A u \in Versions : u # v => sup'[u] = sup[u]
    BY <1>0, <1>1
  <2>7. MicroTypes'
    BY <1>0, <1>1, <2>1, <2>2, <2>4, IdleTyped DEF MicroInv, MicroTypes
  <2>8. ShimsOK'
    BY <2>4, <2>5 DEF MicroInv, ShimsOK, ShimOK
  <2>9. WatchesOK'
    <3> SUFFICES ASSUME NEW u \in Versions
                 PROVE  /\ Watching(sup'[u]) => WatchOK(sup'[u], u, vms'[sup'[u].vm], task.version)
                        /\ sup'[u].subscribed \/ sup'[u].event # 0 => sup'[u].pc = "read"
      BY <1>1 DEF WatchesOK
    <3>1. CASE u = v
      BY <2>6, <3>1, IdleTyped
    <3>2. CASE u # v
      <4>1. /\ Watching(sup[u]) => WatchOK(sup[u], u, vms[sup[u].vm], task.version)
            /\ sup[u].subscribed \/ sup[u].event # 0 => sup[u].pc = "read"
        BY DEF MicroInv, WatchesOK
      <4>2. Watching(sup[u]) => sup[u].vm # i
        BY <1>0, <3>2 DEF MicroInv, OneWatcher
      <4>3. Watching(sup[u]) => sup[u].vm \in VMs
        BY <4>1 DEF WatchOK
      <4> QED  BY <2>5, <2>6, <3>2, <4>1, <4>2, <4>3
    <3> QED  BY <3>1, <3>2
  <2>10. OneWatcher' /\ DownOK'
    BY <1>1, <2>6, IdleTyped DEF MicroInv, OneWatcher, DownOK
  <2>11. RecOK'
    <3>1. rec # NoRec => rec.vm \in VMs
      BY DEF MicroInv, MicroTypes
    <3>2. CASE rec.vm = i
      BY <1>1, <2>1, <2>3, <2>4, <2>5, <3>2 DEF MicroInv, RecOK, NoOlder
    <3>3. CASE rec.vm # i
      BY <1>1, <2>5, <3>1, <3>3 DEF MicroInv, RecOK
    <3> QED  BY <3>2, <3>3
  <2>12. JobOK'
    <3>1. poll \in Started => job.vm # i /\ job.vm \in VMs
      BY <1>0 DEF MicroInv, JobOK, HandleOK
    <3> QED  BY <1>1, <2>5, <2>6, <3>1, IdleTyped DEF MicroInv, JobOK
  <2> QED  BY <2>7, <2>8, <2>9, <2>10, <2>11, <2>12 DEF MicroInv
<1> QED  BY <1>2, <1>3

(* Later versions of the task disturb no watcher.                           *)
LEMMA WatchMono ==
  ASSUME NEW s, NEW v \in Versions, NEW m, NEW a \in Versions, NEW b \in Versions,
         a <= b, WatchOK(s, v, m, a)
  PROVE  WatchOK(s, v, m, b)
BY DEF WatchOK, Versions

(* The runner decides something and neither VMs nor goroutines change.      *)
LEMMA QuietStep ==
  ASSUME MicroInv, UNCHANGED <<vms, sup, up>>, ~up => poll' = poll, rec' \in {rec, NoRec},
         task' \in [version : Versions, command : {"none", "start", "restart"}],
         task'.version >= task.version, sem' \in 0..Concurrency,
         poll' \in PollAt, job' \in JobRec,
         poll' # "idle" => job'.version \in Versions /\ job'.version <= task'.version,
         poll' \in Started => UNCHANGED <<poll, job>>,
         poll' = "launch" /\ rec' # NoRec => vms[rec.vm].state \in {"SUSPENDING", "SUSPENDED", "TERMINATED"}
  PROVE  MicroInv'
<1>1. task.version \in Versions /\ Versions \subseteq Nat
  BY MicroBounds DEF MicroInv, MicroTypes
<1>2. MicroTypes' /\ ShimsOK' /\ OneWatcher' /\ DownOK'
  BY DEF MicroInv, MicroTypes, ShimsOK, OneWatcher, DownOK
<1>3. WatchesOK'
  <2> SUFFICES ASSUME NEW v \in Versions, Watching(sup[v])
               PROVE  WatchOK(sup[v], v, vms[sup[v].vm], task'.version)
    BY DEF MicroInv, WatchesOK
  <2>1. WatchOK(sup[v], v, vms[sup[v].vm], task.version)
    BY DEF MicroInv, WatchesOK
  <2>2. task'.version \in Versions /\ task.version <= task'.version
    BY <1>1
  <2> QED  BY <1>1, <2>1, <2>2, WatchMono
<1>4. RecOK'
  <2> SUFFICES ASSUME rec' # NoRec
               PROVE  rec.version <= task'.version /\ rec' = rec
    BY DEF MicroInv, RecOK
  <2>1. rec' = rec /\ rec.version \in Nat /\ rec.version <= task.version
    BY <1>1 DEF MicroInv, MicroTypes, RecOK
  <2>2. task'.version \in Nat /\ task.version \in Nat /\ task'.version >= task.version
    BY <1>1
  <2> QED  BY <2>1, <2>2
<1>5. JobOK'
  BY DEF MicroInv, JobOK
<1> QED  BY <1>2, <1>3, <1>4, <1>5 DEF MicroInv

(* Start fails.                                                             *)
LEMMA StartFailsStep ==
  ASSUME MicroInv, up, StartFails, UNCHANGED <<vms, sup, up>>, rec' \in {rec, NoRec}
  PROVE  MicroInv'
<1>0. task \in [version : Versions, command : {"none", "start", "restart"}] /\ sem \in 0..Concurrency
  BY DEF MicroInv, MicroTypes
<1>1. sem' \in 0..Concurrency /\ poll' = "idle" /\ job' = NoRec /\ NoRec \in JobRec
  BY <1>0, MicroVMAssumption, MicroBounds DEF StartFails, PollEnds, JobRec, NoRec
<1>2. /\ task' \in [version : Versions, command : {"none", "start", "restart"}]
      /\ task'.version = task.version
  BY <1>0 DEF StartFails
<1>3. task.version \in Nat
  BY <1>0, MicroBounds
<1> QED  BY <1>1, <1>2, <1>3, QuietStep DEF PollAt, Started

(* Poll, the slot, Start's Probe and the user.                              *)
LEMMA PollSteps ==
  ASSUME MicroInv,
         Poll \/ TryAcquire \/ Probe \/ \E command \in {"start", "restart"} : Ask(command)
  PROVE  MicroInv'
<1> USE MicroVMAssumption, MicroBounds
<1>0. /\ task \in [version : Versions, command : {"none", "start", "restart"}]
      /\ rec \in {NoRec} \cup [version : Versions, vm : VMs]
      /\ poll \in PollAt /\ sem \in 0..Concurrency /\ job \in JobRec
      /\ poll # "idle" => job.version \in Versions /\ job.version <= task.version
      /\ vms \in [VMs -> VMRec]
      /\ rec # NoRec => rec.vm \in VMs /\ vms[rec.vm].state # "none" /\ vms[rec.vm] \in VMRec
  BY DEF MicroInv, MicroTypes, RecOK, JobOK
<1>1. UNCHANGED <<vms, sup, up>>
  BY DEF Poll, TryAcquire, Probe, Ask
<1>2. poll # "idle" => up
  BY DEF MicroInv, DownOK
<1>9. task.version \in Nat /\ task.version >= task.version
  <2>1. task.version \in Versions
    BY <1>0
  <2>2. task.version \in Nat
    BY <2>1
  <2> QED  BY <2>2
<1>10. NoRec \in JobRec /\ [version |-> task.version, vm |-> 0] \in JobRec
  BY <1>0 DEF NoRec, JobRec
<1>3. CASE Poll
  BY <1>0, <1>1, <1>9, <1>10, <1>3, QuietStep DEF Poll, PollAt, Started
<1>4. CASE TryAcquire
  <2>1. /\ sem' \in 0..Concurrency /\ rec' = rec /\ task' = task /\ up
        /\ \/ poll' = "idle" /\ job' = NoRec
           \/ poll' = "start" /\ job' = job /\ poll # "idle"
    <3>1. sem \in Nat /\ Concurrency \in Nat
      BY <1>0
    <3>2. CASE sem < Concurrency /\ sem' = sem + 1 /\ poll' = "start" /\ UNCHANGED job
      BY <1>0, <1>2, <1>4, <3>1, <3>2 DEF TryAcquire
    <3>3. CASE PollEnds /\ UNCHANGED sem
      BY <1>0, <1>2, <1>4, <3>3 DEF TryAcquire, PollEnds
    <3> QED  BY <1>4, <3>2, <3>3 DEF TryAcquire
  <2> QED  BY <1>0, <1>1, <1>9, <1>10, <2>1, QuietStep DEF PollAt, Started
<1>5. CASE Probe
  <2>1. up
    BY <1>2, <1>5 DEF Probe
  <2>3. CASE /\ UNCHANGED <<rec, sem, task>>
             /\ PollEnds \/ (poll' = "launch" /\ job' = job /\ poll = "start")
             /\ (poll' = "launch" => (rec # NoRec => ~Running(rec.vm) /\ ~Gone(rec.vm)))
    <3>1. poll' = "launch" /\ rec # NoRec => vms[rec.vm].state \in {"SUSPENDING", "SUSPENDED", "TERMINATED"}
      BY <1>0, <2>3 DEF Running, Gone, VMRec
    <3> QED
      BY <1>0, <1>1, <1>9, <1>10, <2>1, <2>3, <3>1, QuietStep DEF PollAt, Started, PollEnds
  <2> QED  BY <1>1, <1>5, <2>1, <2>3, StartFailsStep DEF Probe, PollEnds
<1>6. ASSUME NEW command \in {"start", "restart"}, Ask(command) PROVE MicroInv'
  <2>1. task' = [version |-> task.version + 1, command |-> command] /\ task.version < MaxVersion
        /\ UNCHANGED <<rec, poll, job, sem>>
    BY <1>6 DEF Ask
  <2>2. task.version + 1 \in Versions
    BY <1>0, <2>1 DEF Versions
  <2>3. /\ task' \in [version : Versions, command : {"none", "start", "restart"}]
        /\ task'.version = task.version + 1
    BY <2>1, <2>2
  <2>4. task'.version >= task.version
    BY <1>9, <2>3
  <2>5. poll' = "launch" /\ rec' # NoRec => vms[rec.vm].state \in {"SUSPENDING", "SUSPENDED", "TERMINATED"}
    BY <2>1 DEF MicroInv, RecOK
  <2>6. poll' # "idle" => job'.version \in Versions /\ job'.version <= task'.version
    <3>1. job.version \in Versions => job.version \in Nat
      OBVIOUS
    <3> QED  BY <1>0, <1>9, <2>1, <2>3, <3>1
  <2> QED  BY <1>0, <1>1, <2>1, <2>3, <2>4, <2>5, <2>6, QuietStep
<1> QED  BY <1>3, <1>4, <1>5, <1>6

(* Signal and Destroy reach into the recorded VM.                           *)
LEMMA ReachSteps ==
  ASSUME MicroInv, Signal \/ Destroy
  PROVE  MicroInv'
<1> USE MicroVMAssumption, MicroBounds
<1>0. /\ task \in [version : Versions, command : {"none", "start", "restart"}]
      /\ poll \in PollAt /\ sem \in 0..Concurrency /\ job \in JobRec
      /\ poll # "idle" => job.version \in Versions /\ job.version <= task.version
      /\ vms \in [VMs -> VMRec]
      /\ rec # NoRec => rec.vm \in VMs /\ vms[rec.vm] \in VMRec /\ ShimOK(vms[rec.vm])
                        /\ NoOlder(vms[rec.vm], rec.version) /\ rec.version \in Versions
  BY DEF MicroInv, MicroTypes, RecOK, ShimsOK, JobOK
<1>1. \A v \in Versions : Watching(sup[v]) => WatchOK(sup[v], v, vms[sup[v].vm], task.version)
  BY DEF MicroInv, WatchesOK
<1>2. poll # "idle" => up
  BY DEF MicroInv, DownOK
<1>3. CASE Signal /\ vms' = vms
  <2>1. task.version \in Nat
    BY <1>0
  <2> QED  BY <1>0, <1>2, <1>3, <2>1, QuietStep DEF Signal, stopDriver, PollAt, Started
<1>4. CASE Signal /\ vms' # vms
  <2> DEFINE i == rec.vm
             m == [vms[i] EXCEPT !.run = 0, !.dead = vms[i].run]
  <2>1. /\ rec # NoRec /\ vms[i].state = "RUNNING" /\ vms[i].run # 0 /\ vms' = [vms EXCEPT ![i] = m]
        /\ poll' = "acquire" /\ poll = "kill" /\ UNCHANGED <<task, rec, sup, job, sem, up>>
    BY <1>4 DEF Signal, stopDriver
  <2>2. i \in VMs /\ vms[i] \in VMRec /\ ShimOK(vms[i])
    BY <1>0, <2>1
  <2>3. m \in VMRec /\ m.state = "RUNNING" /\ m.run = 0 /\ m.dead = vms[i].run /\ m.sticky = 0
    BY <2>1, <2>2 DEF VMRec, ShimOK
  <2> HIDE DEF m
  <2>4. ShimOK(m)
    BY <2>3 DEF ShimOK
  <2>5. ASSUME NEW v \in Versions, Watching(sup[v]), sup[v].vm = i
        PROVE  WatchOK(sup[v], v, m, task.version)
    BY <1>1, <2>1, <2>3, <2>5 DEF WatchOK, NoOlder
  <2>6. NoOlder(m, rec.version)
    BY <1>0, <2>1, <2>3 DEF NoOlder
  <2> QED  BY <1>0, <1>2, <2>1, <2>2, <2>3, <2>4, <2>5, <2>6, VMStep
     DEF PollAt, Started
<1>5. CASE Destroy
  <2> DEFINE i == rec.vm
             m == [vms[i] EXCEPT !.state = "TERMINATED"]
  <2>1. /\ rec # NoRec /\ vms' = [vms EXCEPT ![i] = m] /\ rec' = NoRec /\ up /\ poll = "idle"
        /\ ~Running(i) /\ UNCHANGED <<task, sup, poll, job, sem, up>>
    BY <1>5 DEF Destroy
  <2>2. i \in VMs /\ vms[i] \in VMRec /\ ShimOK(vms[i])
    BY <1>0, <2>1
  <2>3. m \in VMRec /\ m.state = "TERMINATED" /\ m.run = vms[i].run /\ m.dead = vms[i].dead
        /\ m.sticky = vms[i].sticky
    BY <2>2 DEF VMRec
  <2> HIDE DEF m
  <2>4. vms'[i] = m /\ \A j \in VMs : j # i => vms'[j] = vms[j]
    BY <1>0, <2>1, <2>2
  <2>5. MicroTypes'
    BY <1>0, <2>1, <2>2, <2>3 DEF MicroInv, MicroTypes
  <2>6. ShimsOK'
    BY <2>2, <2>3, <2>4 DEF MicroInv, ShimsOK, ShimOK
  <2>7. WatchesOK'
    <3> SUFFICES ASSUME NEW v \in Versions, Watching(sup[v])
                 PROVE  WatchOK(sup[v], v, vms'[sup[v].vm], task.version)
      BY <2>1 DEF MicroInv, WatchesOK
    <3>1. WatchOK(sup[v], v, vms[sup[v].vm], task.version)
      BY <1>1
    <3>2. CASE sup[v].vm = i
      BY <2>3, <2>4, <3>1, <3>2 DEF WatchOK, NoOlder
    <3>3. CASE sup[v].vm # i
      BY <2>4, <3>1, <3>3 DEF WatchOK
    <3> QED  BY <3>2, <3>3
  <2>8. OneWatcher' /\ DownOK' /\ RecOK' /\ JobOK'
    BY <2>1 DEF MicroInv, OneWatcher, DownOK, RecOK, JobOK, Started
  <2> QED  BY <2>5, <2>6, <2>7, <2>8 DEF MicroInv
<1> QED  BY <1>3, <1>4, <1>5

(* A launch brings up a VM that starts from nothing and nobody watches.     *)
LEMMA LaunchedStep ==
  ASSUME MicroInv, NEW i \in VMs, vms[i].state \in {"none", "SUSPENDED"}, poll = "launch",
         vms' = [vms EXCEPT ![i].state = "PENDING"], Launched(i),
         UNCHANGED <<rec, sup, sem, task, up>>, up
  PROVE  MicroInv'
<1> USE MicroVMAssumption, MicroBounds
<1> DEFINE m == [vms[i] EXCEPT !.state = "PENDING"]
<1>0. /\ vms \in [VMs -> VMRec] /\ vms[i] \in VMRec /\ ShimOK(vms[i]) /\ job \in JobRec
      /\ job.version \in Versions /\ job.version <= task.version
      /\ rec # NoRec => rec.vm \in VMs
  BY DEF MicroInv, MicroTypes, ShimsOK, JobOK
<1>1. m \in VMRec /\ m.state = "PENDING" /\ m.run = 0 /\ m.dead = 0 /\ m.sticky = 0
  BY <1>0 DEF VMRec, ShimOK
<1>2. /\ vms' = [vms EXCEPT ![i] = m] /\ poll' = "record"
      /\ job' \in JobRec /\ job'.version = job.version /\ job'.vm = i
  BY <1>0 DEF Launched, JobRec
<1> HIDE DEF m
<1>3. vms'[i] = m /\ \A j \in VMs : j # i => vms'[j] = vms[j]
  BY <1>0, <1>2
<1>4. ASSUME NEW u \in Versions, Watching(sup[u])
      PROVE  sup[u].vm \in VMs /\ sup[u].vm # i
  <2>1. WatchOK(sup[u], u, vms[sup[u].vm], task.version)
    BY <1>4 DEF MicroInv, WatchesOK
  <2> QED  BY <2>1 DEF WatchOK
<1>5. MicroTypes'
  BY <1>0, <1>1, <1>2 DEF MicroInv, MicroTypes, PollAt
<1>6. ShimsOK'
  BY <1>1, <1>3 DEF MicroInv, ShimsOK, ShimOK
<1>7. WatchesOK'
  BY <1>3, <1>4 DEF MicroInv, WatchesOK
<1>8. OneWatcher' /\ DownOK'
  BY DEF MicroInv, OneWatcher, DownOK
<1>9. RecOK'
  <2>1. CASE rec.vm = i
    BY <1>1, <1>2, <1>3, <2>1 DEF MicroInv, RecOK, NoOlder
  <2>2. CASE rec.vm # i
    BY <1>0, <1>2, <1>3, <2>2 DEF MicroInv, RecOK
  <2> QED  BY <2>1, <2>2
<1>10. JobOK'
  <2>1. HandleOK(job', m)
    BY <1>1, <1>2 DEF HandleOK, NoOlder
  <2> QED  BY <1>0, <1>2, <1>3, <1>4, <2>1 DEF JobOK
<1> QED  BY <1>5, <1>6, <1>7, <1>8, <1>9, <1>10 DEF MicroInv

(* Launch; adopting a VM that runs never happens after Probe.               *)
LEMMA LaunchSteps ==
  ASSUME MicroInv, launchFresh \/ tryResume
  PROVE  MicroInv'
<1>0. /\ rec # NoRec => rec.vm \in VMs
      /\ poll = "launch" /\ UNCHANGED <<sup, up>>
  BY DEF MicroInv, MicroTypes, launchFresh, tryResume
<1>1. up
  BY <1>0 DEF MicroInv, DownOK
<1>2. rec # NoRec => ~Running(rec.vm)
  BY <1>0 DEF MicroInv, RecOK, Running
<1>3. CASE StartFails /\ UNCHANGED vms /\ rec' \in {rec, NoRec}
  BY <1>0, <1>1, <1>3, StartFailsStep
<1>4. CASE launchFresh
  <2>1. ASSUME NEW i \in VMs, vms[i].state = "none", vms' = [vms EXCEPT ![i].state = "PENDING"],
               Launched(i), UNCHANGED <<rec, sem, task>>
        PROVE  MicroInv'
    BY <1>0, <1>1, <2>1, LaunchedStep
  <2> QED  BY <1>3, <1>4, <2>1 DEF launchFresh
<1>5. CASE tryResume
  <2>1. ASSUME rec # NoRec, vms[rec.vm].state = "SUSPENDED", vms' = [vms EXCEPT ![rec.vm].state = "PENDING"],
               Launched(rec.vm), UNCHANGED <<rec, sem, task>>
        PROVE  MicroInv'
    BY <1>0, <1>1, <2>1, LaunchedStep
  <2> QED  BY <1>2, <1>3, <1>5, <2>1 DEF tryResume
<1> QED  BY <1>4, <1>5

(* The handle of the job is persisted, then watched.                        *)
LEMMA RecordSteps ==
  ASSUME MicroInv, WriteRecord \/ SpawnSupervise
  PROVE  MicroInv'
<1> USE MicroVMAssumption, MicroBounds
<1>0. /\ poll \in Started /\ job \in JobRec /\ job.version \in Versions /\ job.vm \in VMs
      /\ job.version <= task.version /\ HandleOK(job, vms[job.vm])
      /\ \A v \in Versions : Watching(sup[v]) => sup[v].vm # job.vm
      /\ UNCHANGED <<vms, task, sem, up>>
  BY DEF MicroInv, MicroTypes, JobOK, HandleOK, Started, WriteRecord, SpawnSupervise
<1>1. up
  BY <1>0 DEF MicroInv, DownOK, Started
<1>2. CASE WriteRecord
  <2>1. rec' = job /\ poll' = "supervise" /\ UNCHANGED <<sup, job>>
    BY <1>2 DEF WriteRecord
  <2>2. job \in [version : Versions, vm : VMs]
    BY <1>0 DEF JobRec
  <2>3. MicroTypes' /\ ShimsOK' /\ WatchesOK' /\ OneWatcher' /\ DownOK'
    BY <1>0, <1>1, <2>1, <2>2 DEF MicroInv, MicroTypes, PollAt, ShimsOK, WatchesOK, OneWatcher, DownOK
  <2>4. RecOK' /\ JobOK'
    BY <1>0, <2>1 DEF RecOK, JobOK, HandleOK
  <2> QED  BY <2>3, <2>4 DEF MicroInv
<1>3. CASE SpawnSupervise
  <2> DEFINE v == job.version
             s == [Idle EXCEPT !.pc = "mint", !.vm = job.vm]
  <2>1. /\ sup' = [sup EXCEPT ![v] = s] /\ poll' = "idle" /\ job' = NoRec /\ rec' = rec
        /\ sup \in [Versions -> SupRec] /\ NoRec \in JobRec
    BY <1>3 DEF SpawnSupervise, Supervised, PollEnds, MicroInv, MicroTypes, NoRec, JobRec
  <2>2. s \in SupRec /\ s.pc = "mint" /\ s.vm = job.vm /\ s.event = 0 /\ ~s.subscribed
    BY <1>0 DEF SupRec, Idle
  <2> HIDE DEF s
  <2>3. sup'[v] = s /\ \A u \in Versions : u # v => sup'[u] = sup[u]
    BY <1>0, <2>1
  <2>4. MicroTypes' /\ ShimsOK' /\ DownOK' /\ RecOK' /\ JobOK'
    BY <1>0, <1>1, <2>1, <2>2
    DEF MicroInv, MicroTypes, PollAt, ShimsOK, DownOK, RecOK, JobOK, Started
  <2>5. WatchesOK'
    <3> SUFFICES ASSUME NEW u \in Versions
                 PROVE  /\ Watching(sup'[u]) => WatchOK(sup'[u], u, vms[sup'[u].vm], task.version)
                        /\ sup'[u].subscribed \/ sup'[u].event # 0 => sup'[u].pc = "read"
      BY <1>0 DEF WatchesOK
    <3>1. CASE u = v
      BY <1>0, <2>2, <2>3, <3>1 DEF WatchOK, HandleOK
    <3>2. CASE u # v
      BY <2>3, <3>2 DEF MicroInv, WatchesOK
    <3> QED  BY <3>1, <3>2
  <2>6. OneWatcher'
    BY <1>0, <2>2, <2>3 DEF MicroInv, OneWatcher
  <2> QED  BY <2>4, <2>5, <2>6 DEF MicroInv
<1> QED  BY <1>2, <1>3

(* The runner goes down with its goroutines, and Load starts one again.     *)
LEMMA BootSteps ==
  ASSUME MicroInv, Crash \/ Load
  PROVE  MicroInv'
<1> USE MicroVMAssumption, MicroBounds
<1>1. CASE Crash
  <2>1. /\ up' = FALSE /\ poll' = "idle" /\ sem' = 0 /\ sup' = [v \in Versions |-> Idle]
        /\ UNCHANGED <<vms, task, rec>> /\ job' = NoRec /\ NoRec \in JobRec
    BY <1>1 DEF Crash, PollEnds, NoRec, JobRec
  <2>2. up' \in BOOLEAN
    BY <2>1, Zenon
  <2>3. MicroTypes'
    BY <2>1, <2>2, IdleTyped DEF MicroInv, MicroTypes, PollAt
  <2>4. WatchesOK' /\ OneWatcher' /\ DownOK' /\ JobOK'
    BY <2>1, IdleTyped DEF WatchesOK, OneWatcher, DownOK, JobOK, Started
  <2>5. ShimsOK' /\ RecOK'
    BY <2>1 DEF MicroInv, ShimsOK, RecOK
  <2> QED  BY <2>3, <2>4, <2>5 DEF MicroInv
<1>2. CASE Load
  <2>1. /\ ~up /\ up' = TRUE /\ UNCHANGED <<vms, task, rec, poll, job>>
        /\ poll = "idle" /\ \A v \in Versions : ~Watching(sup[v])
    BY <1>2 DEF Load, MicroInv, DownOK
  <2>2. up' \in BOOLEAN
    BY <2>1, Zenon
  <2>3. ShimsOK' /\ RecOK' /\ DownOK' /\ JobOK'
    BY <2>1 DEF MicroInv, ShimsOK, RecOK, DownOK, JobOK, Started
  <2>4. CASE rec # NoRec /\ Running(rec.vm)
    <3> DEFINE v == rec.version
               s == [Idle EXCEPT !.pc = "mint", !.vm = rec.vm]
    <3>1. v \in Versions /\ rec.vm \in VMs /\ v <= task.version /\ NoOlder(vms[rec.vm], v)
          /\ sup \in [Versions -> SupRec]
      BY <2>4 DEF MicroInv, MicroTypes, RecOK
    <3>2. s \in SupRec /\ s.pc = "mint" /\ s.vm = rec.vm /\ s.event = 0 /\ ~s.subscribed
      BY <3>1 DEF SupRec, Idle
    <3>3. sup' = [sup EXCEPT ![v] = s] /\ sem' = 1
      BY <1>2, <2>4 DEF Load, Supervised
    <3> HIDE DEF s
    <3>4. sup'[v] = s /\ \A u \in Versions : u # v => sup'[u] = sup[u]
      BY <3>1, <3>3
    <3>5. MicroTypes'
      BY <2>1, <2>2, <3>1, <3>2, <3>3 DEF MicroInv, MicroTypes
    <3>6. WatchesOK'
      <4> SUFFICES ASSUME NEW u \in Versions
                   PROVE  /\ Watching(sup'[u]) => WatchOK(sup'[u], u, vms[sup'[u].vm], task.version)
                          /\ sup'[u].subscribed \/ sup'[u].event # 0 => sup'[u].pc = "read"
        BY <2>1 DEF WatchesOK
      <4>1. CASE u = v
        BY <2>4, <3>1, <3>2, <3>4, <4>1 DEF WatchOK, Running
      <4>2. CASE u # v
        BY <2>1, <3>4, <4>2 DEF MicroInv, WatchesOK
      <4> QED  BY <4>1, <4>2
    <3>7. OneWatcher'
      BY <2>1, <3>1, <3>4 DEF OneWatcher
    <3> QED  BY <2>3, <3>5, <3>6, <3>7 DEF MicroInv
  <2>5. CASE ~(rec # NoRec /\ Running(rec.vm))
    <3>1. UNCHANGED <<sup, sem>>
      BY <1>2, <2>5 DEF Load
    <3>2. MicroTypes'
      BY <2>1, <2>2, <3>1 DEF MicroInv, MicroTypes
    <3>3. WatchesOK' /\ OneWatcher'
      BY <2>1, <3>1 DEF MicroInv, WatchesOK, OneWatcher
    <3> QED  BY <2>3, <3>2, <3>3 DEF MicroInv
  <2> QED  BY <2>4, <2>5
<1> QED  BY <1>1, <1>2

(* Wait never ends a run with the exit of an earlier one, and a VM is never *)
(* suspended under a live driver, for any number of versions and VMs and    *)
(* however often streams drop, VMs are reaped, suspends are refused and the *)
(* runner crashes (shim suspendHook, Backend.Wait).                         *)
THEOREM StaleExitTheorem == MicroSpec => [](MicroTypeOK /\ NoStaleExit /\ NoRunFrozen)
<1> USE MicroVMAssumption, MicroBounds
<1>1. MicroInit => MicroInv
  <2> SUFFICES ASSUME MicroInit PROVE MicroInv
    OBVIOUS
  <2> DEFINE m == [state |-> "none", started |-> FALSE, run |-> 0, dead |-> 0, sticky |-> 0]
  <2>1. m \in VMRec /\ ShimOK(m)
    BY DEF VMRec, ShimOK
  <2> HIDE DEF m
  <2>2. vms = [i \in VMs |-> m]
    BY DEF MicroInit, m
  <2>3. up \in BOOLEAN
    BY Zenon DEF MicroInit
  <2>4. MicroTypes
    BY <2>1, <2>2, <2>3, IdleTyped DEF MicroInit, MicroTypes, PollAt, JobRec, NoRec
  <2>5. ShimsOK /\ WatchesOK /\ OneWatcher
    BY <2>1, <2>2, IdleTyped DEF MicroInit, ShimsOK, WatchesOK, OneWatcher
  <2>6. DownOK /\ RecOK /\ JobOK
    BY DEF MicroInit, DownOK, RecOK, JobOK, Started
  <2> QED  BY <2>4, <2>5, <2>6 DEF MicroInv
<1>2. MicroInv /\ [MicroNext]_microVars => MicroInv'
  <2> SUFFICES ASSUME MicroInv, [MicroNext]_microVars PROVE MicroInv'
    OBVIOUS
  <2>1. CASE \E i \in VMs : ShimStep(i) \/ Reap(i) \/ DriverExits(i)
    BY <2>1, ShimSteps, PublishExitStep DEF ShimStep
  <2>2. CASE \E v \in Versions : WaitStep(v) \/ Dropped(v)
    BY <2>2, WaitSteps, WaitSuspendsStep DEF WaitStep
  <2>3. CASE Poll \/ RunnerStep \/ Destroy \/ Crash
    BY <2>3, PollSteps, ReachSteps, LaunchSteps, RecordSteps, BootSteps DEF RunnerStep, StartStep
  <2>4. CASE \E command \in {"start", "restart"} : Ask(command)
    BY <2>4, PollSteps
  <2>5. CASE UNCHANGED microVars
    BY <2>5
     DEF microVars, MicroInv, MicroTypes, ShimsOK, WatchesOK, OneWatcher, DownOK, RecOK, JobOK
  <2> QED  BY <2>1, <2>2, <2>3, <2>4, <2>5 DEF MicroNext
<1>3. MicroInv => MicroTypeOK /\ NoStaleExit /\ NoRunFrozen
  <2> SUFFICES ASSUME MicroInv PROVE MicroTypeOK /\ NoStaleExit /\ NoRunFrozen
    OBVIOUS
  <2>1. NoRunFrozen
    BY DEF MicroInv, ShimsOK, ShimOK, NoRunFrozen
  <2>2. NoStaleExit
    <3> SUFFICES ASSUME NEW v \in Versions, sup[v].event # 0 PROVE sup[v].event >= v
      BY DEF NoStaleExit
    <3>1. WatchOK(sup[v], v, vms[sup[v].vm], task.version)
      BY DEF MicroInv, WatchesOK, Watching
    <3> QED  BY <3>1 DEF WatchOK
  <2>3. MicroTypeOK
    <3>1. /\ \A i \in VMs : vms[i] \in VMRec
          /\ \A v \in Versions : sup[v] \in SupRec
          /\ sem \in 0..Concurrency
      BY DEF MicroInv, MicroTypes
    <3>2. rec \in JobRec /\ job \in JobRec
      <4>1. CASE rec = NoRec
        BY <4>1 DEF NoRec, JobRec, MicroInv, MicroTypes
      <4>2. CASE rec \in [version : Versions, vm : VMs]
        BY <4>2 DEF JobRec, MicroInv, MicroTypes
      <4> QED  BY <4>1, <4>2 DEF MicroInv, MicroTypes
    <3> QED  BY <3>1, <3>2 DEF MicroTypeOK, VMRec, SupRec, JobRec
  <2> QED  BY <2>1, <2>2, <2>3
<1> QED  BY <1>1, <1>2, <1>3, PTL DEF MicroSpec
-----------------------------------------------------------------------------
(* The debug shell.  A frame on its way from a leg to its peer is in one of *)
(* three places; Chain says that what was taken, what waits at the peer and *)
(* what waits at the server are, in this order, what was sent.  Once the    *)
(* server's end of the peer is closed nothing is added behind the frames    *)
(* that wait there.                                                         *)
FrameSet == [type : {"data", "exit"}, n : Nat]

Chain(taken, out, in, all, linked) ==
  /\ Len(taken) + Len(out) <= Len(all)
  /\ \A i \in 1..Len(taken) : taken[i] = all[i]
  /\ \A i \in 1..Len(out) : out[i] = all[Len(taken) + i]
  /\ linked => /\ Len(all) = Len(taken) + Len(out) + Len(in)
               /\ \A i \in 1..Len(in) : in[i] = all[Len(taken) + Len(out) + i]

ShellTypes ==
  /\ {inbound, outbound, sent, seen} \subseteq [Conns -> Seq(FrameSet)]
  /\ srv \in [Conns -> BOOLEAN]
  /\ wrote \in [Conns -> Nat]
  /\ proc \in [Conns -> {"idle", "on", "exited", "over"}]
  /\ join \in [Conns -> {"out", "accepted", "waiting", "pumping", "returned"}]
  /\ DOMAIN relay = {"legs", "ready", "done", "timer", "idle", "tear", "snap"}
  /\ relay.legs \in Seq(Conns)

IsLeg(c) == \E i \in 1..Len(relay.legs) : relay.legs[i] = c

(* Two legs, no more, and only of connections that registered.              *)
LegsOK ==
  /\ Len(relay.legs) <= 2 /\ relay.ready = (Len(relay.legs) = 2)
  /\ relay.ready => relay.legs[1] # relay.legs[2]
  /\ \A c \in Conns : /\ proc[c] = "idle" => join[c] = "out"
                      /\ join[c] \in {"out", "accepted"} => ~IsLeg(c)
                      /\ join[c] \in {"waiting", "pumping"} => IsLeg(c)
                      /\ join[c] = "pumping" => relay.ready

(* Nothing is delivered outside an established session.                     *)
Aside ==
  \A c \in Conns : ~relay.ready \/ ~IsLeg(c) =>
    outbound[c] = <<>> /\ seen[c] = <<>> /\ inbound[c] = sent[c]

Carries(c, p) == Chain(seen[c], outbound[c], inbound[p], sent[p], srv[c])
Carried ==
  relay.ready => Carries(relay.legs[1], relay.legs[2]) /\ Carries(relay.legs[2], relay.legs[1])

(* An exit frame ends what its sender sends, after all its output.          *)
ExitLast ==
  \A c \in Conns : \A i \in 1..Len(sent[c]) :
    sent[c][i] = Exit => /\ proc[c] = "over"
                         /\ i = Len(sent[c]) /\ Len(sent[c]) = wrote[c] + 1

ShellInv == ShellTypes /\ LegsOK /\ Aside /\ Carried /\ ExitLast

-----------------------------------------------------------------------------
(* What the steps of a frame do to a chain.                                 *)

(* Sending.                                                                 *)
LEMMA ChainSend ==
  ASSUME NEW s \in Seq(FrameSet), NEW o \in Seq(FrameSet), NEW i \in Seq(FrameSet),
         NEW a \in Seq(FrameSet), NEW f \in FrameSet, NEW linked \in BOOLEAN, Chain(s, o, i, a, linked)
  PROVE  Chain(s, o, Append(i, f), Append(a, f), linked)
<1> DEFINE in1 == Append(i, f)
           all1 == Append(a, f)
<1>1. /\ Len(in1) = Len(i) + 1 /\ Len(all1) = Len(a) + 1
      /\ \A k \in 1..Len(i) : in1[k] = i[k]
      /\ \A k \in 1..Len(a) : all1[k] = a[k]
      /\ in1[Len(i) + 1] = f /\ all1[Len(a) + 1] = f
  BY AppendProperties
<1>2. Len(s) \in Nat /\ Len(o) \in Nat /\ Len(i) \in Nat /\ Len(a) \in Nat
  OBVIOUS
<1> HIDE DEF in1, all1
<1>3. ASSUME linked
      PROVE  \A k \in 1..(Len(i) + 1) : in1[k] = all1[Len(s) + Len(o) + k]
  <2> TAKE k \in 1..(Len(i) + 1)
  <2>1. CASE k = Len(i) + 1
    BY <1>1, <1>2, <1>3, <2>1 DEF Chain
  <2>2. CASE k \in 1..Len(i)
    <3>1. Len(s) + Len(o) + k \in 1..Len(a)
      BY <1>2, <1>3, <2>2 DEF Chain
    <3>2. i[k] = a[Len(s) + Len(o) + k]
      BY <1>3, <2>2 DEF Chain
    <3> QED  BY <1>1, <2>2, <3>1, <3>2
  <2> QED  BY <1>2, <2>1, <2>2
<1>4. /\ \A k \in 1..Len(s) : k \in 1..Len(a) /\ s[k] = a[k]
      /\ \A k \in 1..Len(o) : Len(s) + k \in 1..Len(a) /\ o[k] = a[Len(s) + k]
  BY <1>2 DEF Chain
<1>5. /\ \A k \in 1..Len(s) : s[k] = all1[k]
      /\ \A k \in 1..Len(o) : o[k] = all1[Len(s) + k]
  BY <1>1, <1>4
<1>6. ASSUME linked  PROVE Len(all1) = Len(s) + Len(o) + Len(in1)
  <2>1. Len(a) = Len(s) + Len(o) + Len(i)
    BY <1>6 DEF Chain
  <2>2. Len(in1) = Len(i) + 1 /\ Len(all1) = Len(a) + 1
    BY <1>1
  <2> QED  BY <1>2, <2>1, <2>2, SMTT(30)
<1>7. Len(s) + Len(o) <= Len(all1)
  BY <1>1, <1>2 DEF Chain
<1>8. Chain(s, o, in1, all1, linked)
  BY <1>1, <1>3, <1>5, <1>6, <1>7 DEF Chain
<1> QED  BY <1>8 DEF in1, all1

(* Relaying, by the pump.                                                   *)
LEMMA ChainRelay ==
  ASSUME NEW s \in Seq(FrameSet), NEW o \in Seq(FrameSet), NEW i \in Seq(FrameSet),
         NEW a \in Seq(FrameSet), NEW linked \in BOOLEAN, Chain(s, o, i, a, linked), linked, i # <<>>
  PROVE  Chain(s, Append(o, Head(i)), Tail(i), a, linked)
<1>1. /\ Len(i) > 0 /\ Head(i) = i[1] /\ Head(i) \in FrameSet
      /\ Tail(i) \in Seq(FrameSet) /\ Len(Tail(i)) = Len(i) - 1
      /\ \A k \in 1..Len(Tail(i)) : Tail(i)[k] = i[k + 1]
  BY HeadTailProperties
<1>2. /\ Len(Append(o, Head(i))) = Len(o) + 1
      /\ \A k \in 1..Len(o) : Append(o, Head(i))[k] = o[k]
      /\ Append(o, Head(i))[Len(o) + 1] = Head(i)
  BY <1>1, AppendProperties
<1>3. Len(s) \in Nat /\ Len(o) \in Nat /\ Len(i) \in Nat /\ Len(a) \in Nat
  OBVIOUS
<1>4. \A k \in 1..(Len(o) + 1) : Append(o, Head(i))[k] = a[Len(s) + k]
  <2> TAKE k \in 1..(Len(o) + 1)
  <2>1. CASE k = Len(o) + 1
    <3>1. i[1] = a[Len(s) + Len(o) + 1]
      BY <1>1, <1>3 DEF Chain
    <3> QED  BY <1>1, <1>2, <1>3, <2>1, <3>1
  <2>2. CASE k \in 1..Len(o)
    BY <1>2, <1>3, <2>2 DEF Chain
  <2> QED  BY <1>3, <2>1, <2>2
<1>5. \A k \in 1..(Len(i) - 1) : Tail(i)[k] = a[Len(s) + (Len(o) + 1) + k]
  <2> TAKE k \in 1..(Len(i) - 1)
  <2>1. i[k + 1] = a[Len(s) + Len(o) + (k + 1)]
    BY <1>1, <1>3 DEF Chain
  <2> QED  BY <1>1, <1>3, <2>1
<1>6. Len(a) = Len(s) + (Len(o) + 1) + (Len(i) - 1)
  <2>1. Len(a) = Len(s) + Len(o) + Len(i)
    BY DEF Chain
  <2> QED  BY <1>3, <2>1, SMTT(30)
<1>7. Len(s) + (Len(o) + 1) <= Len(a)
  BY <1>1, <1>3, <1>6
<1> QED  BY <1>1, <1>2, <1>4, <1>5, <1>6, <1>7 DEF Chain

(* Taking, by the peer.                                                     *)
LEMMA ChainTake ==
  ASSUME NEW s \in Seq(FrameSet), NEW o \in Seq(FrameSet), NEW i \in Seq(FrameSet),
         NEW a \in Seq(FrameSet), NEW linked \in BOOLEAN, Chain(s, o, i, a, linked), o # <<>>
  PROVE  Chain(Append(s, Head(o)), Tail(o), i, a, linked)
<1>1. /\ Len(o) > 0 /\ Head(o) = o[1] /\ Head(o) \in FrameSet
      /\ Tail(o) \in Seq(FrameSet) /\ Len(Tail(o)) = Len(o) - 1
      /\ \A k \in 1..Len(Tail(o)) : Tail(o)[k] = o[k + 1]
  BY HeadTailProperties
<1>2. /\ Len(Append(s, Head(o))) = Len(s) + 1
      /\ \A k \in 1..Len(s) : Append(s, Head(o))[k] = s[k]
      /\ Append(s, Head(o))[Len(s) + 1] = Head(o)
  BY <1>1, AppendProperties
<1>3. Len(s) \in Nat /\ Len(o) \in Nat /\ Len(i) \in Nat /\ Len(a) \in Nat
  OBVIOUS
<1>4. \A k \in 1..(Len(s) + 1) : Append(s, Head(o))[k] = a[k]
  <2> TAKE k \in 1..(Len(s) + 1)
  <2>1. CASE k = Len(s) + 1
    <3>1. o[1] = a[Len(s) + 1]
      BY <1>1, <1>3 DEF Chain
    <3> QED  BY <1>1, <1>2, <1>3, <2>1, <3>1
  <2>2. CASE k \in 1..Len(s)
    BY <1>2, <1>3, <2>2 DEF Chain
  <2> QED  BY <1>3, <2>1, <2>2
<1>5. \A k \in 1..(Len(o) - 1) : Tail(o)[k] = a[(Len(s) + 1) + k]
  <2> TAKE k \in 1..(Len(o) - 1)
  <2>1. o[k + 1] = a[Len(s) + (k + 1)]
    BY <1>1, <1>3 DEF Chain
  <2> QED  BY <1>1, <1>3, <2>1
<1>6. (Len(s) + 1) + (Len(o) - 1) = Len(s) + Len(o)
  BY <1>3
<1> QED  BY <1>1, <1>2, <1>3, <1>4, <1>5, <1>6 DEF Chain

(* A reset loses what waits at a closed end, and nothing else.              *)
LEMMA ChainReset ==
  ASSUME NEW s \in Seq(FrameSet), NEW o \in Seq(FrameSet), NEW i \in Seq(FrameSet),
         NEW a \in Seq(FrameSet), Chain(s, o, i, a, FALSE)
  PROVE  Chain(s, <<>>, i, a, FALSE)
<1>1. Len(s) \in Nat /\ Len(o) \in Nat /\ Len(i) \in Nat /\ Len(a) \in Nat
  OBVIOUS
<1>2. Len(<<>>) = 0
  OBVIOUS
<1> QED  BY <1>1, <1>2 DEF Chain

-----------------------------------------------------------------------------
(* What a step does to the frames, and to the legs.                         *)

Sends(c, f) == Send(c, f) /\ UNCHANGED <<outbound, seen, srv, relay, join>>
Takes(c) ==
  /\ outbound[c] # <<>>
  /\ outbound' = [outbound EXCEPT ![c] = Tail(@)]
  /\ seen' = [seen EXCEPT ![c] = Append(@, Head(outbound[c]))]
  /\ UNCHANGED <<inbound, sent, srv, relay, join>>

(* A frame is sent, relayed, taken or lost, or none moves.                  *)
LEMMA FrameStep ==
  ASSUME ShellTypes, ShellNext
  PROVE  \/ \E c \in Conns, f \in FrameSet : Sends(c, f)
         \/ \E c \in Conns : Relayed(c) \/ Takes(c) \/ Reset(c)
         \/ UNCHANGED <<inbound, outbound, sent, seen>>
<1> DEFINE Shape == \/ \E c \in Conns, f \in FrameSet : Sends(c, f)
                    \/ \E c \in Conns : Relayed(c) \/ Takes(c) \/ Reset(c)
                    \/ UNCHANGED <<inbound, outbound, sent, seen>>
<1>1. ASSUME NEW c \in Conns, OutputPump(c) \/ Types(c)  PROVE Shape
  <2>1. Len(sent[c]) + 1 \in Nat
    BY LenProperties DEF ShellTypes
  <2>2. Frame("data", Len(sent[c]) + 1) \in FrameSet
    BY <2>1 DEF Frame, FrameSet
  <2>3. Sends(c, Frame("data", Len(sent[c]) + 1))
    BY <1>1 DEF OutputPump, Types, Sends, serverVars
  <2> QED  BY <2>2, <2>3
<1>2. ASSUME NEW c \in Conns, ReportExit(c)  PROVE Shape
  <2>1. Exit \in FrameSet
    BY DEF Exit, Frame, FrameSet
  <2>2. Sends(c, Exit)
    BY <1>2 DEF ReportExit, Sends, serverVars
  <2> QED  BY <2>1, <2>2
<1>3. ASSUME NEW c \in Conns, DriverReads(c) \/ Operate(c)  PROVE Shape
  <2>1. Takes(c)
    BY <1>3 DEF DriverReads, Operate, Takes, serverVars
  <2> QED  BY <2>1
<1>4. ASSUME \/ OpenShell \/ Seed \/ CloseDone \/ CloseLegs \/ TimerFires \/ TimedOut \/ Close
             \/ Evict \/ OnClose \/ ServerCrash
      PROVE  Shape
  BY <1>4 DEF OpenShell, Seed, CloseDone, CloseLegs, TimerFires, TimedOut, Close, Evict,
     OnClose, ServerCrash, socketVars, clientVars
<1>5. ASSUME NEW c \in Conns,
             \/ Dial(c) \/ Register(c) \/ Selected(c) \/ PumpEnds(c) \/ ShellWrites(c)
             \/ ShellExits(c) \/ DriverKilled(c) \/ Sigterm(c) \/ OperatorDetach(c)
      PROVE  Shape
  BY <1>5 DEF Dial, Register, Selected, PumpEnds, ShellWrites, ShellExits, DriverKilled,
     Sigterm, OperatorDetach, socketVars, clientVars
<1>6. Drivers \subseteq Conns /\ Operators \subseteq Conns
  BY DEF Conns
<1> QED  BY <1>1, <1>2, <1>3, <1>4, <1>5, <1>6 DEF ShellNext, ServerStep, DriverStep

(* What a step may do to the handler and the server's end of a connection.  *)
JoinStep(c) ==
  \/ join'[c] = join[c]
  \/ join[c] = "out" /\ join'[c] = "accepted" /\ proc'[c] # "idle"
  \/ join[c] = "waiting" /\ join'[c] = "pumping" /\ relay.ready
  \/ join[c] # "out" /\ join'[c] = "returned"

(* The legs change only by a registration.                                  *)
LEMMA LegStep ==
  ASSUME ShellTypes, LegsOK, ShellNext, \A c \in Conns : ~Register(c)
  PROVE  /\ UNCHANGED <<relay.legs, relay.ready>> /\ DOMAIN relay' = DOMAIN relay
         /\ \A c \in Conns : JoinStep(c)
         /\ join' \in [Conns -> {"out", "accepted", "waiting", "pumping", "returned"}]
<1> DEFINE Joins == {"out", "accepted", "waiting", "pumping", "returned"}
           Shape == /\ UNCHANGED <<relay.legs, relay.ready>> /\ DOMAIN relay' = DOMAIN relay
                    /\ \A c \in Conns : JoinStep(c)
                    /\ join' \in [Conns -> Joins]
<1>0. join \in [Conns -> Joins] /\ proc \in [Conns -> {"idle", "on", "exited", "over"}]
      /\ DOMAIN relay = {"legs", "ready", "done", "timer", "idle", "tear", "snap"}
  BY DEF ShellTypes
<1>1. ASSUME UNCHANGED <<relay, join>>  PROVE Shape
  BY <1>0, <1>1 DEF JoinStep
<1>2. ASSUME UNCHANGED join, Seed \/ CloseDone \/ CloseLegs \/ TimerFires \/ BeginTeardown
      PROVE  Shape
  <2>1. UNCHANGED <<relay.legs, relay.ready>> /\ DOMAIN relay' = DOMAIN relay
    BY <1>0, <1>2 DEF Seed, CloseDone, CloseLegs, TimerFires, BeginTeardown
  <2> QED  BY <1>0, <1>2, <2>1 DEF JoinStep
<1>3. ASSUME NEW c \in Conns, Dial(c)  PROVE Shape
  <2>1. relay' = relay /\ (join' = join \/ /\ join' = [join EXCEPT ![c] = "accepted"]
                                           /\ proc' = [proc EXCEPT ![c] = "on"])
    BY <1>3 DEF Dial
  <2>2. CASE join' = join
    BY <1>1, <2>1, <2>2
  <2>3. CASE join' = [join EXCEPT ![c] = "accepted"] /\ proc' = [proc EXCEPT ![c] = "on"]
    <3>1. \A d \in Conns : JoinStep(d)
      BY <1>0, <1>3, <2>3 DEF Dial, JoinStep, ShellInv, LegsOK
    <3> QED  BY <1>0, <2>1, <2>3, <3>1
  <2> QED  BY <2>1, <2>2, <2>3
<1>4. ASSUME NEW c \in Conns, Selected(c)  PROVE Shape
  BY <1>0, <1>4 DEF Selected, JoinStep
<1>5. ASSUME NEW c \in Conns, PumpEnds(c)  PROVE Shape
  <2>1. UNCHANGED <<relay.legs, relay.ready>> /\ DOMAIN relay' = DOMAIN relay
    BY <1>0, <1>5 DEF PumpEnds, BeginTeardown
  <2> QED  BY <1>0, <1>5, <2>1 DEF PumpEnds, JoinStep
<1>6. ASSUME ServerCrash  PROVE Shape
  <2>1. UNCHANGED <<relay.legs, relay.ready>> /\ DOMAIN relay' = DOMAIN relay
    BY <1>0, <1>6 DEF ServerCrash
  <2> QED  BY <1>0, <1>6, <2>1 DEF ServerCrash, JoinStep
<1>7. ASSUME NEW c \in Conns,
             \/ Relayed(c) \/ OutputPump(c) \/ ReportExit(c) \/ DriverReads(c) \/ DriverKilled(c)
             \/ ShellWrites(c) \/ ShellExits(c) \/ Sigterm(c) \/ Types(c) \/ Operate(c)
             \/ OperatorDetach(c) \/ Reset(c)
      PROVE  UNCHANGED <<relay, join>>
  BY <1>7 DEF Relayed, OutputPump, ReportExit, DriverReads, DriverKilled, ShellWrites,
     ShellExits, Sigterm, Types, Operate, OperatorDetach, Reset, serverVars
<1>8. OpenShell \/ Evict \/ OnClose => UNCHANGED <<relay, join>>
  BY DEF OpenShell, Evict, OnClose
<1>9. TimedOut \/ Close => UNCHANGED join /\ BeginTeardown
  BY DEF TimedOut, Close
<1>10. Seed \/ CloseDone \/ CloseLegs \/ TimerFires => UNCHANGED join
  BY DEF Seed, CloseDone, CloseLegs, TimerFires
<1>11. Drivers \subseteq Conns /\ Operators \subseteq Conns
  BY DEF Conns
<1> HIDE DEF Shape
<1>12. Shape
  BY <1>1, <1>2, <1>3, <1>4, <1>5, <1>6, <1>7, <1>8, <1>9, <1>10, <1>11
  DEF ShellNext, ServerStep, DriverStep
<1> QED  BY <1>12 DEF Shape

(* An end the server has closed stays closed; only a dial opens one.        *)
LEMMA EndStep ==
  ASSUME ShellTypes, LegsOK, ShellNext
  PROVE  /\ srv' \in [Conns -> BOOLEAN]
         /\ \A c \in Conns : srv'[c] => srv[c] \/ join[c] = "out"
<1> DEFINE Shape == /\ srv' \in [Conns -> BOOLEAN]
                    /\ \A c \in Conns : srv'[c] => srv[c] \/ join[c] = "out"
<1>0. srv \in [Conns -> BOOLEAN]
  BY DEF ShellTypes
<1>1. ASSUME srv' = srv  PROVE Shape
  BY <1>0, <1>1
<1>2. ASSUME NEW c \in Conns, srv' = [srv EXCEPT ![c] = FALSE]  PROVE Shape
  BY <1>0, <1>2
<1>3. ASSUME NEW c \in Conns, Dial(c)  PROVE Shape
  <2>1. join[c] = "out" /\ (srv' = srv \/ srv' = [srv EXCEPT ![c] = TRUE])
    BY <1>3 DEF Dial, LegsOK
  <2> QED  BY <1>0, <2>1
<1>4. ASSUME CloseLegs \/ ServerCrash  PROVE Shape
  BY <1>0, <1>4 DEF CloseLegs, ServerCrash
<1>5. ASSUME NEW c \in Conns, Register(c) \/ Selected(c)
      PROVE  srv' = srv \/ srv' = [srv EXCEPT ![c] = FALSE]
  BY <1>5 DEF Register, Selected
<1>6. ASSUME NEW c \in Conns,
             \/ Relayed(c) \/ OutputPump(c) \/ ReportExit(c) \/ DriverReads(c) \/ DriverKilled(c)
             \/ ShellWrites(c) \/ ShellExits(c) \/ Sigterm(c) \/ Types(c) \/ Operate(c)
             \/ OperatorDetach(c) \/ Reset(c) \/ PumpEnds(c)
      PROVE  srv' = srv
  BY <1>6 DEF Relayed, OutputPump, ReportExit, DriverReads, DriverKilled, ShellWrites,
     ShellExits, Sigterm, Types, Operate, OperatorDetach, Reset, PumpEnds, socketVars
<1>7. \/ OpenShell \/ Seed \/ Evict \/ OnClose \/ TimedOut \/ Close \/ CloseDone \/ TimerFires
      => srv' = srv
  BY
   DEF OpenShell, Seed, Evict, OnClose, TimedOut, Close, CloseDone, TimerFires, socketVars
<1>8. Drivers \subseteq Conns /\ Operators \subseteq Conns
  BY DEF Conns
<1> HIDE DEF Shape
<1>9. Shape
  BY <1>1, <1>2, <1>3, <1>4, <1>5, <1>6, <1>7, <1>8 DEF ShellNext, ServerStep, DriverStep
<1> QED  BY <1>9 DEF Shape

(* A client that is done, or was never there, does nothing.                 *)
LEMMA ProcStep ==
  ASSUME ShellTypes, ShellNext
  PROVE  /\ proc' \in [Conns -> {"idle", "on", "exited", "over"}]
         /\ wrote' \in [Conns -> Nat]
         /\ \A c \in Conns :
              /\ proc'[c] = "idle" => proc[c] = "idle"
              /\ proc[c] = "over" => proc'[c] = "over" /\ wrote'[c] = wrote[c]
              /\ sent'[c] # sent[c] =>
                   /\ proc[c] \in {"on", "exited"} /\ wrote'[c] = wrote[c]
                   /\ ReportExit(c) \/ \E n \in Nat : sent'[c] = Append(sent[c], Frame("data", n))
<1> DEFINE Procs == {"idle", "on", "exited", "over"}
           Shape == /\ proc' \in [Conns -> Procs]
                    /\ wrote' \in [Conns -> Nat]
                    /\ \A c \in Conns :
                         /\ proc'[c] = "idle" => proc[c] = "idle"
                         /\ proc[c] = "over" => proc'[c] = "over" /\ wrote'[c] = wrote[c]
                         /\ sent'[c] # sent[c] =>
                              /\ proc[c] \in {"on", "exited"} /\ wrote'[c] = wrote[c]
                              /\ ReportExit(c) \/ \E n \in Nat : sent'[c] = Append(sent[c], Frame("data", n))
<1>0. /\ proc \in [Conns -> Procs] /\ wrote \in [Conns -> Nat]
      /\ sent \in [Conns -> Seq(FrameSet)]
  BY DEF ShellTypes
<1>1. ASSUME UNCHANGED <<proc, wrote, sent>>  PROVE Shape
  BY <1>0, <1>1
<1>2. ASSUME NEW c \in Conns, NEW p \in Procs \ {"idle"}, proc[c] # "over",
             proc' = [proc EXCEPT ![c] = p], UNCHANGED <<wrote, sent>>
      PROVE  Shape
  BY <1>0, <1>2
<1>3. ASSUME NEW c \in Conns, ShellWrites(c)  PROVE Shape
  BY <1>0, <1>3 DEF ShellWrites
<1>4. ASSUME NEW c \in Conns, NEW f, Send(c, f), proc[c] \in {"on", "exited"}, wrote' = wrote,
             proc' = proc \/ proc' = [proc EXCEPT ![c] = "over"],
             ReportExit(c) \/ \E n \in Nat : f = Frame("data", n)
      PROVE  Shape
  BY <1>0, <1>4 DEF Send
<1>5. ASSUME NEW c \in Conns, OutputPump(c) \/ Types(c) \/ ReportExit(c)  PROVE Shape
  <2>1. Len(sent[c]) + 1 \in Nat
    BY <1>0, LenProperties
  <2>2. PICK f : /\ Send(c, f) /\ proc[c] \in {"on", "exited"} /\ wrote' = wrote
                 /\ proc' = proc \/ proc' = [proc EXCEPT ![c] = "over"]
                 /\ ReportExit(c) \/ f = Frame("data", Len(sent[c]) + 1)
    BY <1>5 DEF OutputPump, Types, ReportExit
  <2> QED  BY <1>4, <2>1, <2>2
<1>6. ASSUME NEW c \in Conns, Dial(c) \/ ShellExits(c) \/ Sigterm(c) \/ DriverKilled(c)
                              \/ OperatorDetach(c) \/ Operate(c)
      PROVE  Shape
  <2>1. /\ UNCHANGED <<wrote, sent>> /\ proc[c] # "over"
        /\ \/ proc' = proc
           \/ \E p \in Procs \ {"idle"} : proc' = [proc EXCEPT ![c] = p]
    BY <1>6 DEF Dial, ShellExits, Sigterm, DriverKilled, OperatorDetach, Operate
  <2> QED  BY <1>1, <1>2, <2>1
<1>7. ASSUME NEW c \in Conns, Relayed(c) \/ DriverReads(c) \/ Reset(c) \/ PumpEnds(c)
                              \/ Register(c) \/ Selected(c)
      PROVE  UNCHANGED <<proc, wrote, sent>>
  BY <1>7 DEF Relayed, DriverReads, Reset, PumpEnds, Register, Selected, clientVars
<1>8. \/ OpenShell \/ Seed \/ Evict \/ OnClose \/ TimedOut \/ Close \/ CloseDone \/ TimerFires
      \/ CloseLegs \/ ServerCrash
      => UNCHANGED <<proc, wrote, sent>>
  BY
   DEF OpenShell, Seed, Evict, OnClose, TimedOut, Close, CloseDone, TimerFires, CloseLegs,
     ServerCrash, clientVars
<1>9. Drivers \subseteq Conns /\ Operators \subseteq Conns
  BY DEF Conns
<1> HIDE DEF Shape
<1>10. Shape
  BY <1>1, <1>3, <1>5, <1>6, <1>7, <1>8, <1>9 DEF ShellNext, ServerStep, DriverStep
<1> QED  BY <1>10 DEF Shape

(* A session begins with nothing delivered.                                 *)
LEMMA ChainStart ==
  ASSUME NEW a \in Seq(FrameSet), NEW linked \in BOOLEAN
  PROVE  Chain(<<>>, <<>>, a, a, linked)
<1>1. Len(<<>>) = 0 /\ Len(a) \in Nat
  OBVIOUS
<1>2. \A i \in 1..Len(a) : 0 + 0 + i = i
  BY <1>1
<1> QED  BY <1>1, <1>2 DEF Chain

(* The types.                                                               *)
LEMMA TypesStep ==
  ASSUME ShellTypes, LegsOK, ShellNext
  PROVE  ShellTypes'
<1>0. /\ inbound \in [Conns -> Seq(FrameSet)] /\ outbound \in [Conns -> Seq(FrameSet)]
      /\ sent \in [Conns -> Seq(FrameSet)] /\ seen \in [Conns -> Seq(FrameSet)]
      /\ relay.legs \in Seq(Conns)
  BY DEF ShellTypes
<1>1. {inbound, outbound, sent, seen}' \subseteq [Conns -> Seq(FrameSet)]
  <2>1. ASSUME NEW c \in Conns, NEW f \in FrameSet, Sends(c, f)
        PROVE  {inbound, outbound, sent, seen}' \subseteq [Conns -> Seq(FrameSet)]
    <3>1. Append(inbound[c], f) \in Seq(FrameSet) /\ Append(sent[c], f) \in Seq(FrameSet)
      BY <1>0, AppendProperties
    <3> QED  BY <1>0, <2>1, <3>1 DEF Sends, Send
  <2>2. ASSUME NEW c \in Conns, Relayed(c)
        PROVE  {inbound, outbound, sent, seen}' \subseteq [Conns -> Seq(FrameSet)]
    <3>1. Tail(inbound[c]) \in Seq(FrameSet) /\ Head(inbound[c]) \in FrameSet
      BY <1>0, <2>2, HeadTailProperties DEF Relayed
    <3>2. \A s \in Seq(FrameSet) : Append(s, Head(inbound[c])) \in Seq(FrameSet)
      BY <3>1, AppendProperties
    <3>3. inbound' \in [Conns -> Seq(FrameSet)] /\ UNCHANGED <<sent, seen>>
      BY <1>0, <2>2, <3>1 DEF Relayed, clientVars
    <3>4. outbound' \in [Conns -> Seq(FrameSet)]
      BY <1>0, <2>2, <3>2 DEF Relayed
    <3> QED  BY <1>0, <3>3, <3>4
  <2>3. ASSUME NEW c \in Conns, Takes(c)
        PROVE  {inbound, outbound, sent, seen}' \subseteq [Conns -> Seq(FrameSet)]
    <3>1. Tail(outbound[c]) \in Seq(FrameSet) /\ Head(outbound[c]) \in FrameSet
      BY <1>0, <2>3, HeadTailProperties DEF Takes
    <3>2. Append(seen[c], Head(outbound[c])) \in Seq(FrameSet)
      BY <1>0, <3>1, AppendProperties
    <3> QED  BY <1>0, <2>3, <3>1, <3>2 DEF Takes
  <2>4. ASSUME NEW c \in Conns, Reset(c)
        PROVE  {inbound, outbound, sent, seen}' \subseteq [Conns -> Seq(FrameSet)]
    <3>1. <<>> \in Seq(FrameSet)
      OBVIOUS
    <3> QED  BY <1>0, <2>4, <3>1 DEF Reset, clientVars
  <2> QED  BY <1>0, <2>1, <2>2, <2>3, <2>4, FrameStep
<1>2. /\ relay'.legs \in Seq(Conns)
      /\ DOMAIN relay' = {"legs", "ready", "done", "timer", "idle", "tear", "snap"}
      /\ join' \in [Conns -> {"out", "accepted", "waiting", "pumping", "returned"}]
  <2>1. ASSUME NEW c \in Conns, Register(c)
        PROVE  /\ relay'.legs \in {relay.legs, <<c>>, Append(relay.legs, c)}
               /\ DOMAIN relay' = DOMAIN relay
               /\ join' \in [Conns -> {"out", "accepted", "waiting", "pumping", "returned"}]
    BY <2>1 DEF Register, ShellTypes
  <2>2. \A c \in Conns : <<c>> \in Seq(Conns) /\ Append(relay.legs, c) \in Seq(Conns)
    BY <1>0, AppendProperties
  <2>3. DOMAIN relay = {"legs", "ready", "done", "timer", "idle", "tear", "snap"}
    BY DEF ShellTypes
  <2>4. CASE \E c \in Conns : Register(c)
    BY <1>0, <2>1, <2>2, <2>3, <2>4
  <2>5. CASE \A c \in Conns : ~Register(c)
    BY <1>0, <2>3, <2>5, LegStep
  <2> QED  BY <2>4, <2>5
<1> QED  BY <1>1, <1>2, EndStep, ProcStep DEF ShellTypes

(* The legs.                                                                *)
LEMMA LegsStep ==
  ASSUME ShellTypes, LegsOK, ShellNext
  PROVE  LegsOK'
<1>0. /\ relay.legs \in Seq(Conns) /\ Len(relay.legs) \in Nat
      /\ DOMAIN relay = {"legs", "ready", "done", "timer", "idle", "tear", "snap"}
      /\ join \in [Conns -> {"out", "accepted", "waiting", "pumping", "returned"}]
  BY DEF ShellTypes
<1>1. CASE \A c \in Conns : ~Register(c)
  <2>1. /\ UNCHANGED <<relay.legs, relay.ready>> /\ \A c \in Conns : JoinStep(c)
        /\ \A c \in Conns : proc'[c] = "idle" => proc[c] = "idle"
    BY <1>1, LegStep, ProcStep
  <2>2. \A c \in Conns : IsLeg(c)' <=> IsLeg(c)
    BY <2>1 DEF IsLeg
  <2> QED  BY <2>1, <2>2 DEF LegsOK, JoinStep
<1>2. ASSUME NEW c \in Conns, Register(c)  PROVE LegsOK'
  <2>1. join[c] = "accepted" /\ ~IsLeg(c) /\ proc' = proc
    BY <1>2 DEF Register, LegsOK, clientVars
  <2>2. CASE relay.done \/ Len(relay.legs) = 2
    <3>1. join' = [join EXCEPT ![c] = "returned"] /\ relay' = relay
      BY <1>2, <2>2 DEF Register
    <3> QED  BY <1>0, <2>1, <3>1 DEF LegsOK, IsLeg
  <2>3. CASE ~(relay.done \/ Len(relay.legs) = 2)
    <3>1. join' = [join EXCEPT ![c] = "waiting"] /\ ~(Len(relay.legs) = 2) /\ ~relay.ready
      BY <1>2, <2>3 DEF Register, LegsOK
    <3>2. CASE relay.legs = <<>>
      <4>1. relay'.legs = <<c>> /\ relay'.ready = relay.ready
        BY <1>0, <1>2, <2>3, <3>2 DEF Register
      <4>2. \A d \in Conns : ~IsLeg(d) /\ (IsLeg(d)' <=> d = c)
        BY <3>2, <4>1 DEF IsLeg
      <4> QED  BY <1>0, <2>1, <3>1, <4>1, <4>2 DEF LegsOK
    <3>3. CASE relay.legs # <<>>
      <4>1. relay'.legs = Append(relay.legs, c) /\ relay'.ready = TRUE
        BY <1>0, <1>2, <2>3, <3>3 DEF Register
      <4>2. Len(relay.legs) = 1
        <5>1. PICK n \in Nat : n = Len(relay.legs)
          BY <1>0
        <5>2. n # 0
          BY <1>0, <3>3, <5>1, EmptySeq
        <5>3. n <= 2 /\ n # 2
          BY <3>1, <5>1 DEF LegsOK
        <5>4. n = 1
          BY <5>2, <5>3
        <5> QED  BY <5>1, <5>4
      <4>3. /\ Len(relay'.legs) = 2 /\ relay'.legs[1] = relay.legs[1] /\ relay'.legs[2] = c
        BY <1>0, <4>1, <4>2, AppendProperties
      <4>4. \A d \in Conns : IsLeg(d)' <=> IsLeg(d) \/ d = c
        BY <4>2, <4>3 DEF IsLeg
      <4>5. relay.legs[1] # c
        BY <2>1, <4>2 DEF IsLeg
      <4>6. Len(relay'.legs) <= 2 /\ relay'.legs[1] # relay'.legs[2]
        BY <4>3, <4>5
      <4>8. relay'.ready = (Len(relay'.legs) = 2)
        BY <4>1, <4>3, Zenon
      <4>7. \A d \in Conns : /\ proc'[d] = "idle" => join'[d] = "out"
                             /\ join'[d] \in {"out", "accepted"} => ~IsLeg(d)'
                             /\ join'[d] \in {"waiting", "pumping"} => IsLeg(d)'
        BY <1>0, <2>1, <3>1, <4>4 DEF LegsOK
      <4> QED  BY <4>1, <4>6, <4>7, <4>8 DEF LegsOK
    <3> QED  BY <3>2, <3>3
  <2> QED  BY <2>2, <2>3
<1> QED  BY <1>1, <1>2

(* A chain at an end that has been closed needs less.                       *)
LEMMA ChainClose ==
  ASSUME NEW s, NEW o, NEW i, NEW a, NEW linked \in BOOLEAN, NEW still \in BOOLEAN,
         Chain(s, o, i, a, linked), still => linked
  PROVE  Chain(s, o, i, a, still)
BY DEF Chain

(* The other leg.                                                           *)
LEMMA PeerOfLeg ==
  ASSUME ShellTypes, LegsOK, relay.ready, NEW c \in Conns, IsLeg(c)
  PROVE  /\ Peer(c) \in Conns /\ IsLeg(Peer(c)) /\ Peer(c) # c
         /\ c \in {relay.legs[1], relay.legs[2]}
         /\ relay.legs[1] = c => Peer(c) = relay.legs[2]
         /\ relay.legs[2] = c => Peer(c) = relay.legs[1]
<1>1. Len(relay.legs) = 2 /\ relay.legs[1] # relay.legs[2]
  BY DEF LegsOK
<1>2. relay.legs[1] \in Conns /\ relay.legs[2] \in Conns
  BY <1>1, ElementOfSeq DEF ShellTypes
<1> QED  BY <1>1, <1>2 DEF IsLeg, Peer

(* Outside an established session.                                          *)
LEMMA AsideStep ==
  ASSUME ShellTypes, LegsOK, Aside, ShellNext
  PROVE  Aside'
<1> SUFFICES ASSUME NEW c \in Conns, ~relay'.ready \/ ~IsLeg(c)'
             PROVE  outbound'[c] = <<>> /\ seen'[c] = <<>> /\ inbound'[c] = sent'[c]
  BY DEF Aside
<1>1. ~relay.ready \/ ~IsLeg(c)
  <2>1. CASE \A d \in Conns : ~Register(d)
    BY <2>1, LegStep DEF IsLeg
  <2>2. ASSUME NEW d \in Conns, Register(d)  PROVE ~relay.ready \/ ~IsLeg(c)
    BY <2>2 DEF Register, LegsOK, IsLeg
  <2> QED  BY <2>1, <2>2
<1>2. outbound[c] = <<>> /\ seen[c] = <<>> /\ inbound[c] = sent[c]
  BY <1>1 DEF Aside
<1>3. /\ inbound \in [Conns -> Seq(FrameSet)] /\ outbound \in [Conns -> Seq(FrameSet)]
      /\ sent \in [Conns -> Seq(FrameSet)] /\ seen \in [Conns -> Seq(FrameSet)]
  BY DEF ShellTypes
<1>4. ASSUME NEW d \in Conns, NEW f \in FrameSet, Sends(d, f)
      PROVE  outbound'[c] = <<>> /\ seen'[c] = <<>> /\ inbound'[c] = sent'[c]
  BY <1>2, <1>3, <1>4 DEF Sends, Send
<1>5. ASSUME NEW d \in Conns, Relayed(d)
      PROVE  outbound'[c] = <<>> /\ seen'[c] = <<>> /\ inbound'[c] = sent'[c]
  <2>1. relay.ready /\ IsLeg(d)
    BY <1>5 DEF Relayed, LegsOK
  <2>2. c # d /\ c # Peer(d)
    BY <1>1, <2>1, PeerOfLeg
  <2> QED  BY <1>2, <1>3, <1>5, <2>2 DEF Relayed, clientVars
<1>6. ASSUME NEW d \in Conns, Takes(d) \/ Reset(d)
      PROVE  outbound'[c] = <<>> /\ seen'[c] = <<>> /\ inbound'[c] = sent'[c]
  <2>1. c # d
    BY <1>2, <1>6 DEF Takes, Reset
  <2> QED  BY <1>2, <1>3, <1>6, <2>1 DEF Takes, Reset, clientVars
<1> QED  BY <1>2, <1>4, <1>5, <1>6, FrameStep

(* From one leg to the other.                                               *)
LEMMA CarriesStep ==
  ASSUME ShellTypes, LegsOK, ShellNext, relay.ready,
         NEW c \in Conns, NEW p \in Conns, IsLeg(c), IsLeg(p), c = Peer(p), Carries(c, p)
  PROVE  Carries(c, p)'
<1>0. /\ inbound \in [Conns -> Seq(FrameSet)] /\ outbound \in [Conns -> Seq(FrameSet)]
      /\ sent \in [Conns -> Seq(FrameSet)] /\ seen \in [Conns -> Seq(FrameSet)]
      /\ srv \in [Conns -> BOOLEAN]
  BY DEF ShellTypes
<1>1. Chain(seen[c], outbound[c], inbound[p], sent[p], srv[c]) /\ c # p
  BY PeerOfLeg DEF Carries
<1>2. ASSUME NEW d \in Conns, NEW f \in FrameSet, Sends(d, f)  PROVE Carries(c, p)'
  <2>1. CASE d = p
    <3>1. Chain(seen[c], outbound[c], Append(inbound[p], f), Append(sent[p], f), srv[c])
      BY <1>0, <1>1, ChainSend
    <3>2. inbound'[p] = Append(inbound[p], f) /\ sent'[p] = Append(sent[p], f)
      BY <1>0, <1>2, <2>1 DEF Sends, Send
    <3>3. UNCHANGED <<seen, outbound, srv>>
      BY <1>2 DEF Sends
    <3> QED  BY <3>1, <3>2, <3>3 DEF Carries
  <2>2. CASE d # p
    <3>1. UNCHANGED <<seen, outbound, srv, inbound[p], sent[p]>>
      BY <1>0, <1>2, <2>2 DEF Sends, Send
    <3> QED  BY <1>1, <3>1 DEF Carries
  <2> QED  BY <2>1, <2>2
<1>3. ASSUME NEW d \in Conns, Relayed(d)  PROVE Carries(c, p)'
  <2>1. IsLeg(d) /\ UNCHANGED <<seen, sent, srv>>
    BY <1>3 DEF Relayed, LegsOK, clientVars
  <2>2. CASE d = p
    <3>1. srv[c] /\ inbound[p] # <<>>
      BY <1>3, <2>2 DEF Relayed
    <3>2. Chain(seen[c], Append(outbound[c], Head(inbound[p])), Tail(inbound[p]), sent[p], srv[c])
      BY <1>0, <1>1, <3>1, ChainRelay
    <3>3. outbound'[c] = Append(outbound[c], Head(inbound[p])) /\ inbound'[p] = Tail(inbound[p])
      BY <1>0, <1>3, <2>2 DEF Relayed
    <3> QED  BY <2>1, <3>2, <3>3 DEF Carries
  <2>3. CASE d # p
    <3>1. Peer(d) # c
      BY <2>1, <2>3, PeerOfLeg
    <3>2. UNCHANGED <<outbound[c], inbound[p]>>
      BY <1>0, <1>3, <2>3, <3>1 DEF Relayed
    <3> QED  BY <1>1, <2>1, <3>2 DEF Carries
  <2> QED  BY <2>2, <2>3
<1>4. ASSUME NEW d \in Conns, Takes(d)  PROVE Carries(c, p)'
  <2>1. CASE d = c
    <3>1. outbound[c] # <<>>
      BY <1>4, <2>1 DEF Takes
    <3>2. Chain(Append(seen[c], Head(outbound[c])), Tail(outbound[c]), inbound[p], sent[p], srv[c])
      BY <1>0, <1>1, <3>1, ChainTake
    <3>3. seen'[c] = Append(seen[c], Head(outbound[c])) /\ outbound'[c] = Tail(outbound[c])
      BY <1>0, <1>4, <2>1 DEF Takes
    <3> QED  BY <1>4, <3>2, <3>3 DEF Carries, Takes
  <2>2. CASE d # c
    <3>1. UNCHANGED <<seen[c], outbound[c], inbound, sent, srv>>
      BY <1>0, <1>4, <2>2 DEF Takes
    <3> QED  BY <1>1, <3>1 DEF Carries
  <2> QED  BY <2>1, <2>2
<1>5. ASSUME NEW d \in Conns, Reset(d)  PROVE Carries(c, p)'
  <2>0. UNCHANGED <<seen, inbound, sent, srv>>
    BY <1>5 DEF Reset, clientVars
  <2>1. CASE d = c
    <3>1. srv[c] = FALSE /\ outbound'[c] = <<>>
      BY <1>0, <1>5, <2>1 DEF Reset
    <3>2. Chain(seen[c], <<>>, inbound[p], sent[p], FALSE)
      BY <1>0, <1>1, <3>1, ChainReset
    <3> QED  BY <2>0, <3>1, <3>2 DEF Carries
  <2>2. CASE d # c
    <3>1. outbound'[c] = outbound[c]
      BY <1>0, <1>5, <2>2 DEF Reset
    <3> QED  BY <1>1, <2>0, <3>1 DEF Carries
  <2> QED  BY <2>1, <2>2
<1>6. ASSUME UNCHANGED <<inbound, outbound, sent, seen>>  PROVE Carries(c, p)'
  <2>1. srv'[c] \in BOOLEAN /\ srv[c] \in BOOLEAN /\ (srv'[c] => srv[c])
    BY EndStep DEF LegsOK, ShellTypes
  <2>2. Chain(seen[c], outbound[c], inbound[p], sent[p], srv'[c])
    BY <1>1, <2>1, ChainClose
  <2> QED  BY <1>6, <2>2 DEF Carries
<1> QED  BY <1>2, <1>3, <1>4, <1>5, <1>6, FrameStep

(* Between the legs of an established session.                              *)
LEMMA CarriedStep ==
  ASSUME ShellTypes, LegsOK, Aside, Carried, ShellNext
  PROVE  Carried'
<1> SUFFICES ASSUME relay'.ready
             PROVE  /\ Carries(relay.legs[1], relay.legs[2])'
                    /\ Carries(relay.legs[2], relay.legs[1])'
  BY DEF Carried
<1>1. CASE relay.ready /\ relay'.legs = relay.legs
  <2> DEFINE a == relay.legs[1]
             b == relay.legs[2]
  <2>1. a \in Conns /\ b \in Conns /\ IsLeg(a) /\ IsLeg(b)
    <3>1. relay.legs \in Seq(Conns) /\ Len(relay.legs) = 2
      BY <1>1 DEF ShellTypes, LegsOK
    <3>2. 1 \in 1..Len(relay.legs) /\ 2 \in 1..Len(relay.legs)
      BY <3>1
    <3> QED  BY <3>1, <3>2, ElementOfSeq DEF IsLeg
  <2>2. Peer(a) = b /\ Peer(b) = a
    BY <1>1, <2>1, PeerOfLeg
  <2>3. Carries(a, b) /\ Carries(b, a)
    BY <1>1 DEF Carried
  <2> HIDE DEF a, b
  <2>4. ASSUME NEW x \in Conns, NEW y \in Conns, IsLeg(x), IsLeg(y), x = Peer(y), Carries(x, y)
        PROVE  Carries(x, y)'
    BY <1>1, <2>4, CarriesStep
  <2>5. relay'.legs[1] = a /\ relay'.legs[2] = b /\ a' = a /\ b' = b
    BY <1>1 DEF a, b
  <2>6. PICK x \in Conns, y \in Conns : x = a /\ y = b
    BY <2>1
  <2>7. Carries(x, y)' /\ Carries(y, x)'
    BY <2>1, <2>2, <2>3, <2>4, <2>6
  <2> QED  BY <2>5, <2>6, <2>7 DEF Carries
<1>2. CASE ~(relay.ready /\ relay'.legs = relay.legs)
  <2>1. PICK c \in Conns : Register(c)
    BY <1>2, LegStep
  <2>2. ~relay.ready /\ UNCHANGED <<inbound, outbound, sent, seen>>
    BY <1>2, <2>1 DEF Register, LegsOK, clientVars
  <2>3. \A d \in Conns : outbound'[d] = <<>> /\ seen'[d] = <<>> /\ inbound'[d] = sent'[d]
    BY <2>2 DEF Aside
  <2>4. ShellTypes' /\ LegsOK'
    BY TypesStep, LegsStep
  <2>5. relay'.legs[1] \in Conns /\ relay'.legs[2] \in Conns
    <3>1. relay'.legs \in Seq(Conns) /\ Len(relay'.legs) = 2
      BY <2>4 DEF ShellTypes, LegsOK
    <3>2. 1 \in 1..Len(relay'.legs) /\ 2 \in 1..Len(relay'.legs)
      BY <3>1
    <3> QED  BY <3>1, <3>2, ElementOfSeq
  <2>6. ASSUME NEW x \in Conns, NEW y \in Conns  PROVE Carries(x, y)'
    <3>1. sent'[y] \in Seq(FrameSet) /\ srv'[x] \in BOOLEAN
      BY <2>4 DEF ShellTypes
    <3>2. Chain(<<>>, <<>>, sent'[y], sent'[y], srv'[x])
      BY <3>1, ChainStart
    <3> QED  BY <2>3, <3>2 DEF Carries
  <2> QED  BY <2>5, <2>6 DEF Carries
<1> QED  BY <1>1, <1>2

(* The exit frame.                                                          *)
LEMMA ExitStep ==
  ASSUME ShellTypes, ExitLast, ShellNext
  PROVE  ExitLast'
<1> SUFFICES ASSUME NEW c \in Conns, NEW i \in 1..Len(sent'[c]), sent'[c][i] = Exit
             PROVE  /\ proc'[c] = "over"
                    /\ i = Len(sent'[c]) /\ Len(sent'[c]) = wrote'[c] + 1
  BY DEF ExitLast
<1>1. CASE sent'[c] = sent[c]
  <2>1. proc[c] = "over" /\ i = Len(sent[c]) /\ Len(sent[c]) = wrote[c] + 1
    BY <1>1 DEF ExitLast
  <2> QED  BY <1>1, <2>1, ProcStep
<1>2. CASE sent'[c] # sent[c]
  <2>1. proc[c] # "over" /\ sent \in [Conns -> Seq(FrameSet)] /\ sent[c] \in Seq(FrameSet)
    BY <1>2, ProcStep DEF ShellTypes
  <2>2. \A k \in 1..Len(sent[c]) : sent[c][k] # Exit
    BY <2>1 DEF ExitLast
  <2>3. ASSUME NEW f \in FrameSet, sent'[c] = Append(sent[c], f)
        PROVE  i = Len(sent[c]) + 1 /\ f = Exit /\ Len(sent'[c]) = Len(sent[c]) + 1
    <3>1. /\ Len(sent'[c]) = Len(sent[c]) + 1 /\ Len(sent[c]) \in Nat
          /\ \A k \in 1..Len(sent[c]) : sent'[c][k] = sent[c][k]
          /\ sent'[c][Len(sent[c]) + 1] = f
      BY <2>1, <2>3, AppendProperties
    <3>2. i \notin 1..Len(sent[c])
      BY <2>2, <3>1
    <3>3. i = Len(sent[c]) + 1
      BY <3>1, <3>2
    <3> QED  BY <3>1, <3>3
  <2>4. CASE ReportExit(c)
    <3>1. /\ sent'[c] = Append(sent[c], Exit) /\ wrote' = wrote /\ Len(sent[c]) = wrote[c]
          /\ proc' = [proc EXCEPT ![c] = "over"]
      BY <2>1, <2>4 DEF ReportExit, Send, Drained
    <3>2. Exit \in FrameSet
      BY DEF Exit, Frame, FrameSet
    <3>3. proc'[c] = "over"
      BY <3>1 DEF ShellTypes
    <3> QED  BY <2>3, <3>1, <3>2, <3>3
  <2>5. ASSUME NEW n \in Nat, sent'[c] = Append(sent[c], Frame("data", n))  PROVE FALSE
    <3>1. Frame("data", n) \in FrameSet /\ Frame("data", n) # Exit
      BY DEF Exit, Frame, FrameSet
    <3> QED  BY <2>3, <2>5, <3>1
  <2> QED  BY <1>2, <2>4, <2>5, ProcStep
<1> QED  BY <1>1, <1>2

(* The invariant.                                                           *)
LEMMA ShellInvInductive ==
  /\ ShellInit => ShellInv
  /\ ShellInv /\ [ShellNext]_shellVars => ShellInv'
<1>1. ASSUME ShellInit  PROVE ShellInv
  <2>1. <<>> \in Seq(FrameSet) /\ <<>> \in Seq(Conns) /\ Len(<<>>) = 0
    OBVIOUS
  <2>2. ShellTypes
    BY <1>1, <2>1 DEF ShellInit, ShellTypes
  <2>3. LegsOK
    <3>1. relay.legs = <<>> /\ relay.ready = FALSE /\ join = [c \in Conns |-> "out"]
      BY <1>1 DEF ShellInit
    <3>2. Len(relay.legs) = 0 /\ \A c \in Conns : ~IsLeg(c)
      BY <2>1, <3>1 DEF IsLeg
    <3>3. ~(Len(relay.legs) = 2)
      BY <3>2
    <3>4. relay.ready = (Len(relay.legs) = 2)
      BY <3>1, <3>3, Zenon
    <3> QED  BY <3>1, <3>2, <3>4 DEF LegsOK
  <2>4. Aside /\ Carried /\ ExitLast
    BY <1>1, <2>1 DEF ShellInit, Aside, Carried, ExitLast
  <2> QED  BY <2>2, <2>3, <2>4 DEF ShellInv
<1>2. ASSUME ShellInv, ShellNext  PROVE ShellInv'
  BY <1>2, TypesStep, LegsStep, AsideStep, CarriedStep, ExitStep DEF ShellInv
<1>3. ASSUME ShellInv, UNCHANGED shellVars  PROVE ShellInv'
  <2>1. UNCHANGED <<relay, join, srv, inbound, outbound, proc, wrote, sent, seen>>
    BY <1>3 DEF shellVars, serverVars, socketVars, clientVars
  <2> QED  BY <1>3, <2>1
            DEF ShellInv, ShellTypes, LegsOK, IsLeg, Aside, Carried, Carries, ExitLast
<1> QED  BY <1>1, <1>2, <1>3

(* For any number of clients, frames and crashes, and wherever teardown     *)
(* meets a registration: what a leg is given is what its peer sent, in      *)
(* order, and an exit code comes after all the output (shellrelay pump,     *)
(* shell.Serve).                                                            *)
THEOREM ExitAfterOutputTheorem == ShellSpec => []ExitAfterOutput
<1>1. ShellInv => ExitAfterOutput
  <2> SUFFICES ASSUME ShellInv, NEW c \in ToSet(relay.legs), seen[c] # <<>>
               PROVE  /\ IsPrefix(seen[c], sent[Peer(c)])
                      /\ (Last(seen[c]) = Exit) => Len(seen[c]) = wrote[Peer(c)] + 1
    BY DEF ExitAfterOutput
  <2> DEFINE p == Peer(c)
  <2>1. ShellTypes /\ LegsOK /\ Aside /\ Carried /\ ExitLast
    BY DEF ShellInv
  <2>2. c \in Conns /\ IsLeg(c)
    <3>1. relay.legs \in Seq(Conns) /\ DOMAIN relay.legs = 1..Len(relay.legs)
      BY <2>1, LenProperties DEF ShellTypes
    <3>2. PICK i \in 1..Len(relay.legs) : relay.legs[i] = c
      BY <3>1 DEF ToSet
    <3> QED  BY <3>1, <3>2, ElementOfSeq DEF IsLeg
  <2>3. relay.ready
    BY <2>1, <2>2 DEF Aside
  <2>4. p \in Conns /\ Carries(c, p)
    BY <2>1, <2>2, <2>3, PeerOfLeg DEF Carried
  <2>5. /\ seen[c] \in Seq(FrameSet) /\ outbound[c] \in Seq(FrameSet)
        /\ sent[p] \in Seq(FrameSet)
    BY <2>1, <2>2, <2>4 DEF ShellTypes
  <2>6. /\ Len(seen[c]) + Len(outbound[c]) <= Len(sent[p])
        /\ \A i \in 1..Len(seen[c]) : seen[c][i] = sent[p][i]
    BY <2>4 DEF Carries, Chain
  <2>7. /\ Len(seen[c]) \in Nat \ {0} /\ Len(outbound[c]) \in Nat /\ Len(sent[p]) \in Nat
    BY <2>5, EmptySeq
  <2> HIDE DEF p
  <2>8. Len(seen[c]) <= Len(sent[p])
    <3>1. PICK x \in Nat, y \in Nat, z \in Nat :
            x = Len(seen[c]) /\ y = Len(outbound[c]) /\ z = Len(sent[p])
      BY <2>7
    <3>2. x + y <= z
      BY <2>6, <3>1
    <3>3. x <= z
      BY <3>2
    <3> QED  BY <3>1, <3>3
  <2>9. SubSeq(seen[c], 1, Len(seen[c])) = SubSeq(sent[p], 1, Len(seen[c]))
    <3> DEFINE n == Len(seen[c])
               u == SubSeq(seen[c], 1, n)
               v == SubSeq(sent[p], 1, n)
    <3>1. n \in Nat \ {0} /\ 1..n \subseteq 1..Len(sent[p])
      BY <2>7, <2>8
    <3>2. /\ \A i \in 1..n : seen[c][i] \in FrameSet
          /\ \A i \in 1..n : sent[p][i] \in FrameSet
      BY <2>5, <3>1, ElementOfSeq
    <3>3. /\ u \in Seq(FrameSet) /\ Len(u) = n /\ \A i \in 1..n : u[i] = seen[c][i]
      BY <3>1, <3>2, SubSeqProperties
    <3>4. /\ v \in Seq(FrameSet) /\ Len(v) = n /\ \A i \in 1..n : v[i] = sent[p][i]
      BY <3>1, <3>2, SubSeqProperties
    <3> HIDE DEF u, v, n
    <3>5. \A i \in 1..n : u[i] = v[i]
      BY <2>6, <3>3, <3>4 DEF n
    <3>6. u = v
      BY <3>3, <3>4, <3>5, SeqEqual
    <3> QED  BY <3>6 DEF u, v, n
  <2>10. ASSUME Last(seen[c]) = Exit  PROVE Len(seen[c]) = wrote[p] + 1
    <3>1. Len(seen[c]) \in 1..Len(sent[p]) /\ sent[p][Len(seen[c])] = Exit
      BY <2>6, <2>7, <2>8, <2>10 DEF Last
    <3> QED  BY <2>1, <2>4, <3>1 DEF ExitLast
  <2> QED  BY <2>8, <2>9, <2>10 DEF IsPrefix, p
<1> QED  BY <1>1, ShellInvInductive, PTL DEF ShellSpec

-----------------------------------------------------------------------------
(* An agent's prompt.                                                       *)

Stages == {"uncalled", "new", "ready", "scan", "wait", "work", "returned"}

AgentTypes ==
  /\ prompt \in Stages
  /\ pipe \in Seq(LineKinds) /\ printed \in Seq(LineKinds) /\ log \in Seq(LineKinds)
  /\ saved \in BOOLEAN

(* How many lines have been read off the pipe.                              *)
ReadSoFar == Len(printed) - Len(pipe)

(* What is in the pipe is the end of what was printed.                      *)
PipeIsTail ==
  /\ ReadSoFar \in Nat
  /\ \A i \in 1..Len(pipe) : pipe[i] = printed[ReadSoFar + i]

LongSeen == \E i \in 1..Len(printed) : printed[i] = "long"

(* No line too long: all that was read has been logged.                     *)
LogInStep == LongSeen \/ LoggedUpTo(ReadSoFar)

(* Nobody holds the pipe any more, and it has been read to its end.         *)
AllRead == LongSeen \/ (pipe = <<>> /\ ~Open)

ChildInv ==
  /\ prompt \in {"uncalled", "new", "ready"} => child = "none"
  /\ child = "none" => helper = "none"
  /\ child \in {"signalled", "quit0"} => ctx = "stopped"

PromptInv ==
  /\ prompt = "wait" => AllRead
  /\ prompt = "work" => conf.type = "dummy"
  /\ result = "ok" => prompt = "returned"
  /\ result = "ok" /\ conf.type # "dummy" => child = "exit0" /\ AllRead
  /\ saved => result = "ok"

AgentsInv == AgentTypes /\ PipeIsTail /\ LogInStep /\ ChildInv /\ PromptInv

(* A step that neither writes nor reads a line.                             *)
LEMMA NoLineMoves ==
  ASSUME AgentsInv, UNCHANGED <<conf, pipe, printed, log>>
  PROVE  /\ pipe' \in Seq(LineKinds) /\ printed' \in Seq(LineKinds) /\ log' \in Seq(LineKinds)
         /\ PipeIsTail' /\ LogInStep' /\ (LongSeen' <=> LongSeen)
<1>1. pipe' \in Seq(LineKinds) /\ printed' \in Seq(LineKinds) /\ log' \in Seq(LineKinds)
  BY DEF AgentsInv, AgentTypes
<1>2. ReadSoFar' = ReadSoFar
  BY DEF ReadSoFar
<1>3. PipeIsTail'
  BY <1>2 DEF AgentsInv, PipeIsTail
<1>4. LongSeen' <=> LongSeen
  BY DEF LongSeen
<1>5. LoggedUpTo(ReadSoFar)' <=> LoggedUpTo(ReadSoFar)
  BY <1>2 DEF LoggedUpTo, Logged
<1> QED  BY <1>1, <1>3, <1>4, <1>5 DEF AgentsInv, LogInStep

(* The steps before the process exists, and the dummy's.                    *)
LEMMA PrepareInv ==
  ASSUME AgentsInv,
         CallPrompt \/ Prepare \/ StartChild \/ DummyPrompt \/ doWork \/ doSleep
  PROVE  AgentsInv'
<1>1. UNCHANGED <<conf, pipe, printed, log, helper, ctx, saved>>
  BY DEF CallPrompt, Prepare, ClaudePrompt, CodexPrompt, CopilotPrompt, CursorPrompt,
     SloppyPrompt, sloppyMcpConfig, writeConfigFails, findBinFails, Fails, Ready,
     Returns, StartChild, DummyPrompt, doWork, doSleep, procVars, driverRunVars
<1>2. /\ prompt \in {"uncalled", "new", "ready", "work"}
      /\ prompt' \in {"new", "ready", "work", "scan", "returned"}
      /\ prompt' = "scan" => prompt = "ready" /\ child' = "alive"
      /\ prompt' # "scan" => child' = child
      /\ prompt' = "work" => conf.type = "dummy"
      /\ result' = result \/ (prompt' = "returned" /\ (result' = "ok" => prompt = "work"))
      /\ prompt' \in {"new", "ready"} => prompt \in {"uncalled", "new", "ready"}
  BY DEF CallPrompt, Prepare, ClaudePrompt, CodexPrompt, CopilotPrompt, CursorPrompt,
     SloppyPrompt, sloppyMcpConfig, writeConfigFails, findBinFails, Fails, Ready,
     Returns, StartChild, DummyPrompt, doWork, doSleep, procVars, driverRunVars
<1>3. PipeIsTail' /\ LogInStep' /\ AgentTypes'
  BY <1>1, <1>2, NoLineMoves DEF AgentsInv, AgentTypes, Stages
<1>4. ChildInv'
  BY <1>1, <1>2 DEF AgentsInv, ChildInv
<1>5. PromptInv'
  BY <1>1, <1>2 DEF AgentsInv, PromptInv
<1> QED  BY <1>3, <1>4, <1>5 DEF AgentsInv

(* Processes start, are signalled and end; nobody opens the pipe again.     *)
LEMMA ProcessInv ==
  ASSUME AgentsInv, Spawns \/ ChildExits \/ HelperExits \/ StopOnSignal \/ WaitDelay
  PROVE  AgentsInv'
<1>1. UNCHANGED <<conf, prompt, result, pipe, printed, log, saved>>
  BY DEF Spawns, ChildExits, HelperExits, StopOnSignal, WaitDelay, driverRunVars
<1>2. /\ Open' => Open
      /\ child' = child \/ (Holder(child) /\ child' # "none")
      /\ child' = "none" => child = "none" /\ (helper = "none" => helper' = "none")
      /\ child' \in {"signalled", "quit0"} =>
           child \in {"signalled", "quit0"} \/ ctx' = "stopped"
      /\ ctx = "stopped" => ctx' = "stopped"
  <2>1. CASE Spawns
    BY <2>1 DEF Spawns, Open, Holder, driverRunVars
  <2>2. CASE ChildExits
    BY <2>2 DEF ChildExits, Open, Holder, Ended, driverRunVars
  <2>3. CASE HelperExits
    BY <2>3 DEF HelperExits, Open, Holder, driverRunVars
  <2>4. CASE StopOnSignal
    BY <2>4 DEF StopOnSignal, Open, Holder, Signalled
  <2>5. CASE WaitDelay
    BY <2>5 DEF WaitDelay, Open, Holder, driverRunVars
  <2> QED  BY <2>1, <2>2, <2>3, <2>4, <2>5
<1>3. PipeIsTail' /\ LogInStep' /\ AgentTypes' /\ (LongSeen' <=> LongSeen)
  BY <1>1, NoLineMoves DEF AgentsInv, AgentTypes
<1>4. ChildInv'
  <2>1. Holder(child) => child # "none"
    BY DEF Holder
  <2> QED  BY <1>1, <1>2, <2>1 DEF AgentsInv, ChildInv
<1>5. AllRead => AllRead'
  BY <1>1, <1>2, <1>3 DEF AllRead
<1>6. child = "exit0" => child' = "exit0"
  BY <1>2 DEF Holder
<1>7. PromptInv'
  BY <1>1, <1>5, <1>6 DEF AgentsInv, PromptInv
<1> QED  BY <1>3, <1>4, <1>7 DEF AgentsInv

(* A line is printed.                                                       *)
LEMMA WritesInv ==
  ASSUME AgentsInv, AgentWrites
  PROVE  AgentsInv'
<1>1. PICK l \in LineKinds : pipe' = Append(pipe, l) /\ printed' = Append(printed, l)
  BY DEF AgentWrites
<1>2. UNCHANGED <<conf, prompt, result, log, child, helper, ctx, saved>> /\ Open
  BY DEF AgentWrites, driverRunVars
<1>3. pipe \in Seq(LineKinds) /\ printed \in Seq(LineKinds)
  BY DEF AgentsInv, AgentTypes
<1> DEFINE m == Len(pipe)
           n == Len(printed)
<1>4. /\ m \in Nat /\ n \in Nat /\ m <= n
  BY <1>3 DEF AgentsInv, PipeIsTail, ReadSoFar
<1>5. /\ pipe' \in Seq(LineKinds) /\ Len(pipe') = m + 1 /\ pipe'[m + 1] = l
      /\ \A i \in 1..m : pipe'[i] = pipe[i]
  BY <1>1, <1>3, AppendProperties
<1>6. /\ printed' \in Seq(LineKinds) /\ Len(printed') = n + 1 /\ printed'[n + 1] = l
      /\ \A i \in 1..n : printed'[i] = printed[i]
  BY <1>1, <1>3, AppendProperties
<1>7. ReadSoFar' = ReadSoFar /\ ReadSoFar = n - m /\ ReadSoFar \in 0..n
  BY <1>4, <1>5, <1>6 DEF ReadSoFar
<1>8. PipeIsTail'
  <2>1. ASSUME NEW i \in 1..(m + 1) PROVE pipe'[i] = printed'[n - m + i]
    <3>1. CASE i = m + 1
      <4>1. n - m + i = n + 1
        BY <1>4, <3>1
      <4> QED  BY <1>5, <1>6, <3>1, <4>1
    <3>2. CASE i \in 1..m
      <4>1. n - m + i \in 1..n
        BY <1>4, <3>2
      <4> QED  BY <1>5, <1>6, <1>7, <3>2, <4>1 DEF AgentsInv, PipeIsTail
    <3> QED  BY <1>4, <3>1, <3>2
  <2> QED  BY <1>5, <1>7, <2>1 DEF AgentsInv, PipeIsTail
<1>9. LongSeen => LongSeen'
  BY <1>4, <1>6 DEF LongSeen
<1>10. LogInStep'
  <2>1. CASE LongSeen
    BY <1>9, <2>1 DEF LogInStep
  <2>2. CASE LoggedUpTo(ReadSoFar)
    <3>1. PICK at \in [DOMAIN log -> 1..ReadSoFar] :
            /\ \A i, j \in DOMAIN log : i < j => at[i] < at[j]
            /\ \A i \in DOMAIN log : log[i] = printed[at[i]]
            /\ \A k \in 1..ReadSoFar : Logged(printed[k]) <=> \E i \in DOMAIN log : at[i] = k
      BY <2>2 DEF LoggedUpTo
    <3>2. \A k \in 1..ReadSoFar : printed'[k] = printed[k]
      BY <1>4, <1>6, <1>7
    <3>3. LoggedUpTo(ReadSoFar)'
      BY <1>2, <1>7, <3>1, <3>2 DEF LoggedUpTo, Logged
    <3> QED  BY <3>3 DEF LogInStep
  <2> QED  BY <2>1, <2>2 DEF AgentsInv, LogInStep
<1>11. AllRead => AllRead'
  BY <1>2, <1>9 DEF AllRead
<1>12. PromptInv'
  BY <1>2, <1>11 DEF AgentsInv, PromptInv
<1>13. ChildInv' /\ AgentTypes'
  BY <1>2, <1>5, <1>6 DEF AgentsInv, ChildInv, AgentTypes
<1> QED  BY <1>8, <1>10, <1>12, <1>13 DEF AgentsInv

(* The line read is the next of those printed, and is logged if it should.  *)
LEMMA ScanInv ==
  ASSUME AgentsInv, Scan
  PROVE  AgentsInv'
<1>1. /\ prompt = "scan" /\ pipe # <<>> /\ pipe' = Tail(pipe)
      /\ UNCHANGED <<conf, result, child, helper, printed, ctx, saved>>
  BY DEF Scan, driverRunVars
<1>2. pipe \in Seq(LineKinds) /\ printed \in Seq(LineKinds) /\ log \in Seq(LineKinds)
  BY DEF AgentsInv, AgentTypes
<1> DEFINE m == Len(pipe)
           n == Len(printed)
           r == ReadSoFar
<1>3. /\ m \in Nat \ {0} /\ n \in Nat /\ m <= n /\ r = n - m /\ r \in Nat
      /\ \A i \in 1..m : pipe[i] = printed[r + i]
  BY <1>1, <1>2, EmptySeq DEF AgentsInv, PipeIsTail, ReadSoFar
<1>4. /\ pipe' \in Seq(LineKinds) /\ Len(pipe') = m - 1
      /\ \A i \in 1..(m - 1) : pipe'[i] = pipe[i + 1]
  BY <1>1, <1>2, HeadTailProperties
<1>5. ReadSoFar' = r + 1
  BY <1>1, <1>3, <1>4 DEF ReadSoFar
<1>6. Head(pipe) = pipe[1] /\ pipe[1] = printed[r + 1] /\ r + 1 \in 1..n /\ pipe[1] \in LineKinds
  BY <1>1, <1>2, <1>3
<1>7. PipeIsTail'
  <2>1. ASSUME NEW i \in 1..(m - 1) PROVE pipe'[i] = printed[r + 1 + i]
    <3>1. PICK k \in 1..m : k = i + 1
      BY <1>3
    <3>2. r + k = r + 1 + i
      BY <1>3, <3>1
    <3>3. pipe'[i] = pipe[k] /\ pipe[k] = printed[r + k]
      BY <1>3, <1>4, <3>1
    <3> QED  BY <3>2, <3>3
  <2> QED  BY <1>1, <1>3, <1>4, <1>5, <2>1 DEF PipeIsTail
<1>8. LongSeen' <=> LongSeen
  BY <1>1 DEF LongSeen
<1>9. \A k \in 1..(r + 1) : k \in 1..r \/ k = r + 1
  <2>1. r \in Nat
    BY <1>3
  <2> HIDE DEF r
  <2> QED  BY <2>1
<1>10. CASE pipe[1] = "long"
  <2>1. prompt' = "wait" /\ log' = log
    BY <1>6, <1>10 DEF Scan
  <2>2. LongSeen'
    BY <1>1, <1>6, <1>10 DEF LongSeen
  <2>3. AgentTypes'
    BY <1>1, <1>2, <1>4, <2>1 DEF AgentsInv, AgentTypes, Stages
  <2>4. LogInStep' /\ AllRead'
    BY <2>2 DEF LogInStep, AllRead
  <2>5. ChildInv'
    BY <1>1, <2>1 DEF AgentsInv, ChildInv
  <2>6. PromptInv'
    BY <1>1, <2>1, <2>4 DEF AgentsInv, PromptInv
  <2> QED  BY <1>7, <2>3, <2>4, <2>5, <2>6 DEF AgentsInv
<1>11. CASE pipe[1] # "long"
  <2>1. prompt' = prompt /\ log' = IF Logged(pipe[1]) THEN Append(log, pipe[1]) ELSE log
    BY <1>6, <1>11 DEF Scan
  <2>2. ChildInv'
    BY <1>1, <2>1 DEF AgentsInv, ChildInv
  <2>3. PromptInv'
    BY <1>1, <2>1 DEF AgentsInv, PromptInv
  <2>4. log' \in Seq(LineKinds)
    BY <1>2, <1>6, <2>1, AppendProperties
  <2>5. AgentTypes'
    BY <1>1, <1>2, <1>4, <2>1, <2>4 DEF AgentsInv, AgentTypes
  <2>6. LogInStep'
    <3>1. CASE LongSeen
      BY <1>8, <3>1 DEF LogInStep
    <3>2. CASE LoggedUpTo(r)
      <4>1. PICK at \in [DOMAIN log -> 1..r] :
              /\ \A i, j \in DOMAIN log : i < j => at[i] < at[j]
              /\ \A i \in DOMAIN log : log[i] = printed[at[i]]
              /\ \A k \in 1..r : Logged(printed[k]) <=> \E i \in DOMAIN log : at[i] = k
        BY <3>2 DEF LoggedUpTo
      <4>2. \A line : Logged(line)' <=> Logged(line)
        BY <1>1 DEF Logged
      <4>3. CASE ~Logged(pipe[1])
        <5>1. log' = log /\ printed' = printed
          BY <1>1, <2>1, <4>3
        <5>2. at \in [DOMAIN log -> 1..(r + 1)]
          BY <1>3
        <5>3. \A k \in 1..(r + 1) : Logged(printed[k]) <=> \E i \in DOMAIN log : at[i] = k
          <6> TAKE k \in 1..(r + 1)
          <6>1. CASE k \in 1..r
            BY <4>1, <6>1
          <6>2. CASE k = r + 1
            <7>1. \A i \in DOMAIN log : at[i] # k
              BY <1>3, <6>2
            <7> QED  BY <1>6, <4>3, <6>2, <7>1
          <6> QED  BY <1>9, <6>1, <6>2, Zenon
        <5>4. LoggedUpTo(ReadSoFar)'
          BY <1>1, <1>5, <4>1, <4>2, <5>1, <5>2, <5>3 DEF LoggedUpTo
        <5> QED  BY <1>5, <5>4 DEF LogInStep
      <4>4. CASE Logged(pipe[1])
        <5> DEFINE q == Len(log)
                   grown == [i \in 1..(q + 1) |-> IF i = q + 1 THEN r + 1 ELSE at[i]]
        <5>1. /\ q \in Nat /\ DOMAIN log = 1..q /\ DOMAIN log' = 1..(q + 1)
              /\ \A i \in 1..q : log'[i] = log[i]
              /\ log'[q + 1] = pipe[1]
          BY <1>2, <1>6, <2>1, <4>4, AppendProperties
        <5> HIDE DEF q
        <5>2. /\ \A i \in 1..q : grown[i] = at[i] /\ at[i] \in 1..r
              /\ grown[q + 1] = r + 1
              /\ grown \in [1..(q + 1) -> 1..(r + 1)]
          <6>1. \A i \in 1..q : at[i] \in 1..r
            BY <5>1
          <6> QED  BY <1>3, <5>1, <6>1
        <5> HIDE DEF grown
        <5>3. \A i \in 1..(q + 1) : i \in 1..q \/ i = q + 1
          BY <5>1
        <5>4. ASSUME NEW i \in 1..(q + 1), NEW j \in 1..(q + 1), i < j PROVE grown[i] < grown[j]
          <6>1. i \in 1..q
            BY <5>1, <5>4
          <6>2. CASE j \in 1..q
            BY <4>1, <5>1, <5>2, <5>4, <6>1, <6>2
          <6>3. CASE j = q + 1
            BY <1>3, <5>2, <6>1, <6>3
          <6> QED  BY <5>3, <6>2, <6>3
        <5>5. ASSUME NEW i \in 1..(q + 1) PROVE log'[i] = printed[grown[i]]
          <6>1. CASE i \in 1..q
            BY <4>1, <5>1, <5>2, <6>1
          <6>2. CASE i = q + 1
            BY <1>6, <5>1, <5>2, <6>2
          <6> QED  BY <5>3, <6>1, <6>2
        <5>6. ASSUME NEW k \in 1..(r + 1)
              PROVE  Logged(printed[k]) <=> \E i \in 1..(q + 1) : grown[i] = k
          <6>1. CASE k \in 1..r
            <7>1. Logged(printed[k]) <=> \E i \in 1..q : at[i] = k
              BY <4>1, <5>1, <6>1
            <7>2. \A i \in 1..q : i \in 1..(q + 1)
              BY <5>1
            <7>3. grown[q + 1] # k
              BY <1>3, <5>2, <6>1
            <7> QED  BY <5>2, <5>3, <7>1, <7>2, <7>3
          <6>2. CASE k = r + 1
            <7>1. q + 1 \in 1..(q + 1)
              BY <5>1
            <7> QED  BY <1>6, <4>4, <5>2, <6>2, <7>1
          <6> QED  BY <1>9, <6>1, <6>2, Zenon
        <5>7. /\ grown \in [DOMAIN log' -> 1..ReadSoFar']
              /\ \A i, j \in DOMAIN log' : i < j => grown[i] < grown[j]
              /\ \A i \in DOMAIN log' : log'[i] = printed'[grown[i]]
          BY <1>1, <1>5, <5>1, <5>2, <5>4, <5>5
        <5>8. \A k \in 1..ReadSoFar' :
                Logged(printed[k])' <=> \E i \in DOMAIN log' : grown[i] = k
          BY <1>1, <1>5, <4>2, <5>1, <5>6
        <5>9. LoggedUpTo(ReadSoFar)'
          BY <5>7, <5>8, Zenon DEF LoggedUpTo
        <5> QED  BY <5>9 DEF LogInStep
      <4> QED  BY <4>3, <4>4
    <3> QED  BY <3>1, <3>2 DEF AgentsInv, LogInStep
  <2> QED  BY <1>7, <2>2, <2>3, <2>5, <2>6 DEF AgentsInv
<1> QED  BY <1>10, <1>11

(* The end of the output, the wait, and what the driver does after it.      *)
LEMMA ReturnInv ==
  ASSUME AgentsInv, ScanEnds \/ Wait \/ runAgent \/ Run
  PROVE  AgentsInv'
<1>1. UNCHANGED <<conf, pipe, printed, log, child, helper, ctx>>
  BY DEF ScanEnds, Wait, runAgent, Run, procVars, driverRunVars
<1>2. PipeIsTail' /\ LogInStep' /\ (LongSeen' <=> LongSeen)
  BY <1>1, NoLineMoves
<1>3. AllRead' <=> AllRead
  BY <1>1, <1>2 DEF AllRead, Open, Holder
<1>4. ChildInv' /\ AgentTypes'
  BY <1>1 DEF ScanEnds, Wait, runAgent, Run, procVars, driverRunVars, AgentsInv,
     ChildInv, AgentTypes, Stages
<1>5. PromptInv'
  <2>1. CASE ScanEnds
    BY <1>1, <1>3, <2>1 DEF ScanEnds, AgentsInv, PromptInv, AllRead, driverRunVars
  <2>2. CASE Wait
    <3>1. Status = "ok" => child = "exit0"
      BY <2>2 DEF Wait, Status, Ended, AgentsInv, ChildInv
    <3>2. /\ prompt = "wait" /\ prompt' = "returned" /\ result' = Status
          /\ saved' = saved /\ AllRead
      BY <2>2 DEF Wait, driverRunVars, AgentsInv, PromptInv
    <3>3. ~saved
      BY <3>2 DEF AgentsInv, PromptInv
    <3> QED  BY <1>1, <1>3, <3>1, <3>2, <3>3 DEF PromptInv
  <2>3. CASE runAgent \/ Run
    BY <1>1, <1>3, <2>3 DEF runAgent, Run, AgentsInv, PromptInv
  <2> QED  BY <2>1, <2>2, <2>3
<1> QED  BY <1>2, <1>4, <1>5 DEF AgentsInv

(* The configuration is saved only after an agent that ended by itself and  *)
(* whose output, but for a line too long for the scanner, was logged whole  *)
(* and in order.                                                            *)
THEOREM SavedCompleteTheorem == AgentsSpec => []SavedIsComplete
<1>1. AgentsInit => AgentsInv
  <2> SUFFICES ASSUME AgentsInit PROVE AgentsInv
    OBVIOUS
  <2>1. /\ pipe = <<>> /\ printed = <<>> /\ log = <<>> /\ prompt = "uncalled"
        /\ child = "none" /\ helper = "none" /\ result = "none" /\ saved = FALSE
    BY DEF AgentsInit
  <2>2. ReadSoFar = 0 /\ PipeIsTail
    BY <2>1, EmptySeq DEF PipeIsTail, ReadSoFar
  <2>3. AgentTypes
    BY <2>1, EmptySeq, Zenon DEF AgentTypes, Stages
  <2>4. LogInStep
    <3>1. DOMAIN log = {} /\ 1..0 = {}
      BY <2>1
    <3>2. [i \in DOMAIN log |-> 0] \in [DOMAIN log -> 1..0]
      BY <3>1
    <3>3. LoggedUpTo(0)
      BY <3>1, <3>2, Zenon DEF LoggedUpTo
    <3> QED  BY <2>2, <3>3 DEF LogInStep
  <2>5. ChildInv /\ PromptInv
    BY <2>1 DEF ChildInv, PromptInv
  <2> QED  BY <2>2, <2>3, <2>4, <2>5 DEF AgentsInv
<1>2. AgentsInv /\ [AgentsNext]_agentVars => AgentsInv'
  <2> SUFFICES ASSUME AgentsInv, [AgentsNext]_agentVars PROVE AgentsInv'
    OBVIOUS
  <2>1. CASE UNCHANGED agentVars
    <3>1. UNCHANGED <<conf, prompt, result, pipe, printed, log, child, helper, ctx, saved>>
      BY <2>1 DEF agentVars, procVars, driverRunVars
    <3>2. PipeIsTail' /\ LogInStep' /\ AgentTypes' /\ (LongSeen' <=> LongSeen)
      BY <3>1, NoLineMoves DEF AgentsInv, AgentTypes
    <3>3. (AllRead' <=> AllRead) /\ ChildInv'
      BY <3>1, <3>2 DEF AllRead, Open, Holder, AgentsInv, ChildInv
    <3>4. PromptInv'
      BY <3>1, <3>3 DEF AgentsInv, PromptInv
    <3> QED  BY <3>2, <3>3, <3>4 DEF AgentsInv
  <2> QED  BY <2>1, PrepareInv, ProcessInv, WritesInv, ScanInv, ReturnInv
           DEF AgentsNext, Processes
<1>3. AgentsInv => SavedIsComplete
  <2> SUFFICES ASSUME AgentsInv, saved, conf.type # "dummy", ~LongSeen
               PROVE  child = "exit0" /\ LoggedUpTo(Len(printed))
    <3>1. LongSeen <=> \E i \in DOMAIN printed : printed[i] = "long"
      BY DEF LongSeen, AgentsInv, AgentTypes
    <3>2. ASSUME AgentsInv, saved, conf.type # "dummy" PROVE child = "exit0"
      BY <3>2 DEF AgentsInv, PromptInv
    <3> QED  BY <3>1, <3>2 DEF SavedIsComplete
  <2>1. child = "exit0" /\ pipe = <<>>
    BY DEF AgentsInv, PromptInv, AllRead
  <2>2. ReadSoFar = Len(printed)
    BY <2>1 DEF ReadSoFar, AgentsInv, AgentTypes
  <2> QED  BY <2>1, <2>2 DEF AgentsInv, LogInStep
<1> QED  BY <1>1, <1>2, <1>3, PTL DEF AgentsSpec

-----------------------------------------------------------------------------
(* The masking of secrets.                                                  *)

PieceSet == [kind : {"byte", "marker", "lost"}, at : Nat, bytes : Seq(Bytes)]

RedactTypes ==
  /\ stream \in Seq(Bytes) /\ held \in Seq(Bytes) /\ pieces \in Seq(PieceSet)
  /\ masking \in {"none", "write", "flush", "ended"}

Decided == Len(stream) - Len(held)

(* What is held is the end of the stream.                                   *)
HeldIsTail ==
  /\ Decided \in Nat
  /\ \A i \in 1..Len(held) : held[i] = stream[Decided + i]

(* The pieces stand for the rest, one after the other.                      *)
Laid(s, q, last) ==
  /\ q.at + Len(q.bytes) - 1 = last /\ q.at >= 1
  /\ \A m \in 1..Len(q.bytes) : q.bytes[m] = s[q.at - 1 + m]

EndOf(ps, i) == IF i = 0 THEN 0 ELSE ps[i].at + Len(ps[i].bytes) - 1

LaidOut(s, ps, d) ==
  /\ \A i \in 1..Len(ps) : /\ ps[i].at = EndOf(ps, i - 1) + 1
                           /\ EndOf(ps, i) \in 0..d
                           /\ Laid(s, ps[i], EndOf(ps, i))
  /\ EndOf(ps, Len(ps)) = d

(* Key k stands in stream s from position a; it runs past the end of s.     *)
StandsAt(s, k, a) ==
  a + Len(k) - 1 <= Len(s) /\ \A m \in 1..Len(k) : s[a - 1 + m] = k[m]
RunsPast(s, k, a) ==
  a + Len(k) - 1 > Len(s) /\ \A m \in 1..(Len(s) - a + 1) : s[a - 1 + m] = k[m]

(* The length of the secret that a piece stands for.                        *)
MaskedLen(q) == IF q.kind = "marker" THEN Len(q.bytes) ELSE 0

(* A piece that went out was decided right, and no byte to come changes it. *)
Right(s, q, more) ==
  q.kind # "lost" =>
    /\ \A k \in Keys : StandsAt(s, k, q.at) => Len(k) <= MaskedLen(q)
    /\ more => \A k \in Keys : ~RunsPast(s, k, q.at)
    /\ q.kind = "marker" => q.bytes \in Keys

AllRight ==
  \A i \in 1..Len(pieces) : Right(stream, pieces[i], masking \in {"none", "write"})

RedactInv ==
  RedactTypes /\ HeldIsTail /\ LaidOut(stream, pieces, Decided) /\ AllRight

-----------------------------------------------------------------------------
(* A secret is not empty.                                                   *)
LEMMA KeysAreSeqs ==
  ASSUME NEW k \in Keys
  PROVE  k \in Seq(Bytes) /\ Len(k) \in Nat /\ Len(k) >= 1
<1>1. k \in Seq(Bytes) /\ k # <<>>
  BY RedactAssumption DEF Keys
<1> QED  BY <1>1, EmptySeq

(* A prefix, byte by byte.                                                  *)
LEMMA PrefixIs ==
  ASSUME NEW S, NEW s \in Seq(S), NEW t \in Seq(S)
  PROVE  IsPrefix(s, t) <=> Len(s) <= Len(t) /\ \A i \in 1..Len(s) : s[i] = t[i]
<1> DEFINE n == Len(s)
           u == SubSeq(s, 1, n)
           v == SubSeq(t, 1, n)
<1>1. n \in Nat /\ Len(t) \in Nat
  BY LenProperties
<1>2. u = s
  BY SubSeqFull
<1>3. ASSUME n <= Len(t)
      PROVE  v \in Seq(S) /\ Len(v) = n /\ \A i \in 1..n : v[i] = t[i]
  <2>1. \A i \in 1..n : t[i] \in S
    BY <1>1, <1>3, ElementOfSeq
  <2>2. 1 \in Int /\ n \in Int
    BY <1>1
  <2>3. /\ v \in Seq(S) /\ Len(v) = IF 1 <= n THEN n - 1 + 1 ELSE 0
        /\ \A i \in 1..(n - 1 + 1) : v[i] = t[1 + i - 1]
    BY <2>1, <2>2, SubSeqProperties
  <2>4. \A i \in 1..n : 1 + i - 1 = i
    BY <1>1
  <2>5. n - 1 + 1 = n
    BY <1>1
  <2> QED  BY <1>1, <2>3, <2>4, <2>5
<1> HIDE DEF v
<1>4. ASSUME n <= Len(t), \A i \in 1..n : s[i] = t[i] PROVE v = s
  BY <1>3, <1>4, SeqEqual
<1>5. ASSUME n <= Len(t), v = s PROVE \A i \in 1..n : s[i] = t[i]
  BY <1>3, <1>5
<1>6. IsPrefix(s, t) <=> n <= Len(t) /\ v = s
  BY <1>2 DEF IsPrefix, v
<1> QED  BY <1>4, <1>5, <1>6

(* A nonempty set of numbers up to n has a greatest element.                *)
LEMMA GreatestUpTo ==
  ASSUME NEW n \in Nat, NEW S \in SUBSET (0..n), S # {}
  PROVE  \E x \in S : \A y \in S : x >= y
<1> DEFINE gaps == {n - x : x \in S}
<1>1. PICK z \in S : TRUE
  OBVIOUS
<1>2. gaps \subseteq Nat /\ n - z \in gaps
  BY <1>1
<1>3. gaps # {}
  BY <1>2
<1> HIDE DEF gaps
<1>4. IsWellFoundedOn(OpToRel(<, Nat), Nat)
  BY NatLessThanWellFounded
<1>5. PICK g \in gaps : \A h \in gaps : ~(<<h, g>> \in OpToRel(<, Nat))
  BY <1>2, <1>3, <1>4, WFMin
<1>6. \A h \in gaps : g <= h
  <2>1. \A h \in gaps : ~(h < g)
    BY <1>2, <1>5 DEF OpToRel
  <2> QED  BY <1>2, <2>1
<1>7. PICK x \in S : g = n - x
  BY <1>5 DEF gaps
<1>8. \A y \in S : n - x <= n - y
  BY <1>6, <1>7 DEF gaps
<1> QED  BY <1>8

(* What the trie's walk finds: no key that starts p is longer, and there is *)
(* one as long unless none starts it.                                       *)
LEMMA LongestIs ==
  ASSUME NEW p \in Seq(Bytes)
  PROVE  /\ Longest(p) \in 0..Len(p)
         /\ \A k \in Keys : IsPrefix(k, p) => Len(k) <= Longest(p)
         /\ Longest(p) # 0 => \E k \in Keys : IsPrefix(k, p) /\ Len(k) = Longest(p)
<1> DEFINE S == {0} \cup {Len(k) : k \in Starting(p)}
<1>1. Len(p) \in Nat
  BY LenProperties
<1>2. \A k \in Starting(p) : k \in Keys /\ IsPrefix(k, p) /\ Len(k) \in 0..Len(p)
  <2> TAKE k \in Starting(p)
  <2>1. k \in Keys /\ IsPrefix(k, p)
    BY DEF Starting
  <2>2. Len(k) \in Nat /\ Len(k) <= Len(p)
    BY <2>1, KeysAreSeqs DEF IsPrefix
  <2> QED  BY <1>1, <2>1, <2>2
<1>3. S \in SUBSET (0..Len(p)) /\ S # {}
  BY <1>1, <1>2
<1>4. \A k \in Keys : IsPrefix(k, p) => Len(k) \in S
  BY DEF Starting
<1>5. \A n \in S : n # 0 => \E k \in Keys : IsPrefix(k, p) /\ Len(k) = n
  BY <1>2
<1>6. Longest(p) = CHOOSE x \in S : \A y \in S : x >= y
  BY DEF Longest, Max
<1> HIDE DEF S
<1>7. \E x \in S : \A y \in S : x >= y
  BY <1>1, <1>3, GreatestUpTo
<1>8. Longest(p) \in S /\ \A y \in S : Longest(p) >= y
  BY <1>6, <1>7
<1>9. \A k \in Keys : IsPrefix(k, p) => Len(k) <= Longest(p)
  <2> SUFFICES ASSUME NEW k \in Keys, IsPrefix(k, p) PROVE Len(k) <= Longest(p)
    OBVIOUS
  <2>1. Len(k) \in S /\ Longest(p) \in S
    BY <1>4, <1>8
  <2>2. \A x \in S : x \in 0..Len(p)
    BY <1>3
  <2>3. Longest(p) >= Len(k) /\ Longest(p) \in 0..Len(p) /\ Len(k) \in 0..Len(p)
    BY <1>8, <2>1, <2>2
  <2> QED  BY <1>1, <2>3
<1>10. Longest(p) \in 0..Len(p)
  BY <1>3, <1>8
<1> QED  BY <1>5, <1>8, <1>9, <1>10

(* Bytes that follow can only finish a key that ran past the end.           *)
LEMMA StandsLater ==
  ASSUME NEW s \in Seq(Bytes), NEW p \in Seq(Bytes), NEW k \in Seq(Bytes),
         NEW a \in 1..(Len(s) + 1)
  PROVE  /\ StandsAt(s \o p, k, a) => StandsAt(s, k, a) \/ RunsPast(s, k, a)
         /\ RunsPast(s \o p, k, a) => RunsPast(s, k, a)
<1> DEFINE t == s \o p
<1>1. Len(s) \in Nat /\ Len(p) \in Nat /\ Len(k) \in Nat /\ a \in Nat /\ a >= 1 /\ a <= Len(s) + 1
  BY LenProperties
<1>2. Len(t) = Len(s) + Len(p) /\ \A i \in 1..Len(s) : t[i] = s[i]
  <2>1. /\ Len(t) = Len(s) + Len(p)
        /\ \A i \in 1..(Len(s) + Len(p)) : t[i] = IF i <= Len(s) THEN s[i] ELSE p[i - Len(s)]
    BY ConcatProperties
  <2> QED  BY <1>1, <2>1
<1> HIDE DEF t
<1>3. \A m \in 1..(Len(s) - a + 1) : a - 1 + m \in 1..Len(s) /\ t[a - 1 + m] = s[a - 1 + m]
  <2>1. \A m \in 1..(Len(s) - a + 1) : a - 1 + m \in 1..Len(s)
    BY <1>1
  <2> QED  BY <1>2, <2>1
<1>4. ASSUME StandsAt(t, k, a), a + Len(k) - 1 <= Len(s) PROVE StandsAt(s, k, a)
  <2>1. \A m \in 1..Len(k) : m \in 1..(Len(s) - a + 1)
    BY <1>1, <1>4
  <2> QED  BY <1>3, <1>4, <2>1 DEF StandsAt
<1>5. ASSUME StandsAt(t, k, a), ~(a + Len(k) - 1 <= Len(s)) PROVE RunsPast(s, k, a)
  <2>1. \A m \in 1..(Len(s) - a + 1) : m \in 1..Len(k)
    BY <1>1, <1>5
  <2>2. a + Len(k) - 1 > Len(s)
    BY <1>1, <1>5
  <2> QED  BY <1>3, <1>5, <2>1, <2>2 DEF StandsAt, RunsPast
<1>6. ASSUME RunsPast(t, k, a) PROVE RunsPast(s, k, a)
  <2>1. a + Len(k) - 1 > Len(s)
    BY <1>1, <1>2, <1>6 DEF RunsPast
  <2>2. \A m \in 1..(Len(s) - a + 1) : m \in 1..(Len(t) - a + 1)
    BY <1>1, <1>2
  <2> QED  BY <1>3, <1>6, <2>1, <2>2 DEF RunsPast
<1>7. /\ StandsAt(t, k, a) => StandsAt(s, k, a) \/ RunsPast(s, k, a)
      /\ RunsPast(t, k, a) => RunsPast(s, k, a)
  BY <1>4, <1>5, <1>6
<1> QED  BY <1>7 DEF t

(* A key stands, or runs past the end, where the held bytes begin.          *)
LEMMA HeldStarts ==
  ASSUME RedactTypes, HeldIsTail, NEW k \in Keys
  PROVE  /\ StandsAt(stream, k, Decided + 1) => IsPrefix(k, held)
         /\ RunsPast(stream, k, Decided + 1) => IsStrictPrefix(held, k)
<1> DEFINE d == Decided
<1>1. /\ stream \in Seq(Bytes) /\ held \in Seq(Bytes) /\ k \in Seq(Bytes)
      /\ Len(stream) \in Nat /\ Len(held) \in Nat /\ Len(k) \in Nat
  BY KeysAreSeqs, LenProperties DEF RedactTypes
<1>2. /\ d \in Nat /\ Len(stream) = d + Len(held)
      /\ \A i \in 1..Len(held) : held[i] = stream[d + i]
  BY <1>1 DEF HeldIsTail, Decided
<1> HIDE DEF d
<1> DEFINE a == d + 1
<1>3. a = d + 1 /\ a \in Nat /\ \A m \in Int : a - 1 + m = d + m
  BY <1>2
<1> HIDE DEF a
<1>4. ASSUME StandsAt(stream, k, a) PROVE IsPrefix(k, held)
  <2>1. Len(k) <= Len(held)
    BY <1>1, <1>2, <1>3, <1>4 DEF StandsAt
  <2>2. ASSUME NEW i \in 1..Len(k) PROVE k[i] = held[i]
    <3>1. i \in Int /\ i \in 1..Len(held)
      BY <1>1, <2>1
    <3>2. stream[a - 1 + i] = k[i]
      BY <1>4, Zenon DEF StandsAt
    <3> QED  BY <1>2, <1>3, <3>1, <3>2
  <2> QED  BY <1>1, <2>1, <2>2, PrefixIs
<1>5. ASSUME RunsPast(stream, k, a) PROVE IsStrictPrefix(held, k)
  <2>1. Len(held) < Len(k)
    BY <1>1, <1>2, <1>3, <1>5 DEF RunsPast
  <2>2. ASSUME NEW i \in 1..Len(held) PROVE held[i] = k[i]
    <3>1. i \in Int /\ i \in 1..(Len(stream) - a + 1)
      BY <1>1, <1>2, <1>3
    <3>2. stream[a - 1 + i] = k[i]
      BY <1>5, <3>1, Zenon DEF RunsPast
    <3> QED  BY <1>2, <1>3, <3>1, <3>2
  <2>3. IsPrefix(held, k)
    BY <1>1, <2>1, <2>2, PrefixIs
  <2>4. held # k
    BY <1>1, <2>1
  <2> QED  BY <2>3, <2>4 DEF IsStrictPrefix
<1> QED  BY <1>4, <1>5 DEF a, d

(* Where a piece lies.                                                      *)
LEMMA PieceLies ==
  ASSUME RedactInv, NEW i \in 1..Len(pieces)
  PROVE  /\ pieces[i] \in PieceSet /\ Len(pieces[i].bytes) \in Nat
         /\ pieces[i].at \in 1..(Len(stream) + 1)
         /\ EndOf(pieces, i) = pieces[i].at + Len(pieces[i].bytes) - 1
         /\ EndOf(pieces, i) \in 0..Decided /\ Decided <= Len(stream)
         /\ Decided \in Nat /\ Len(stream) \in Nat /\ Len(pieces) \in Nat
<1>1. pieces \in Seq(PieceSet) /\ stream \in Seq(Bytes) /\ held \in Seq(Bytes)
  BY DEF RedactInv, RedactTypes
<1>2. pieces[i] \in PieceSet
  BY <1>1, ElementOfSeq
<1>3. Len(pieces[i].bytes) \in Nat /\ pieces[i].at \in Nat
  BY <1>2, LenProperties DEF PieceSet
<1>4. Decided \in Nat /\ Len(stream) \in Nat /\ Len(held) \in Nat /\ Len(pieces) \in Nat
  BY <1>1, LenProperties DEF RedactInv, HeldIsTail
<1>5. Decided <= Len(stream)
  BY <1>4 DEF Decided
<1>6. EndOf(pieces, i) = pieces[i].at + Len(pieces[i].bytes) - 1
  BY <1>4 DEF EndOf
<1>7. EndOf(pieces, i) \in 0..Decided /\ pieces[i].at >= 1
  BY DEF RedactInv, LaidOut, Laid
<1> QED  BY <1>2, <1>3, <1>4, <1>5, <1>6, <1>7

(* More bytes arrive: what was decided stays right.                         *)
LEMMA WriteMore ==
  ASSUME RedactInv, Write
  PROVE  RedactInv'
<1>1. PICK p \in SeqOf(Bytes, MaxStream - Len(stream)) : stream' = stream \o p /\ held' = held \o p
  BY DEF Write
<1>2. UNCHANGED pieces /\ masking = "none" /\ masking' = "write"
  BY DEF Write
<1>3. stream \in Seq(Bytes) /\ held \in Seq(Bytes) /\ pieces \in Seq(PieceSet)
  BY DEF RedactInv, RedactTypes
<1>4. p \in Seq(Bytes)
  <2>1. PICK m \in 0..(MaxStream - Len(stream)) : p \in [1..m -> Bytes]
    BY <1>1 DEF SeqOf
  <2>2. m \in Nat
    <3>1. MaxStream - Len(stream) \in Int
      BY <1>3, LenProperties, RedactAssumption
    <3> QED  BY <3>1
  <2> QED  BY <2>1, <2>2
<1> DEFINE l == Len(stream)
           h == Len(held)
           d == Decided
<1>5. /\ l \in Nat /\ h \in Nat /\ Len(p) \in Nat /\ d \in Nat /\ d = l - h
      /\ \A i \in 1..h : held[i] = stream[d + i]
  BY <1>3, <1>4, LenProperties DEF RedactInv, HeldIsTail, Decided
<1>6. /\ stream' \in Seq(Bytes) /\ Len(stream') = l + Len(p)
      /\ \A i \in 1..(l + Len(p)) : stream'[i] = IF i <= l THEN stream[i] ELSE p[i - l]
  BY <1>1, <1>3, <1>4, ConcatProperties
<1>7. /\ held' \in Seq(Bytes) /\ Len(held') = h + Len(p)
      /\ \A i \in 1..(h + Len(p)) : held'[i] = IF i <= h THEN held[i] ELSE p[i - h]
  BY <1>1, <1>3, <1>4, ConcatProperties
<1>8. Decided' = d
  BY <1>5, <1>6, <1>7 DEF Decided
<1>9. \A i \in 1..l : stream'[i] = stream[i]
  BY <1>5, <1>6
<1>10. RedactTypes'
  BY <1>2, <1>3, <1>6, <1>7 DEF RedactTypes
<1>11. HeldIsTail'
  <2>1. ASSUME NEW i \in 1..(h + Len(p)) PROVE held'[i] = stream'[d + i]
    <3>1. PICK j \in 1..(l + Len(p)) : j = d + i
      BY <1>5
    <3>2. CASE i <= h
      <4>1. i \in 1..h /\ j \in 1..l
        BY <1>5, <3>1, <3>2
      <4>2. held'[i] = held[i] /\ held[i] = stream[d + i]
        BY <1>5, <1>7, <3>2, <4>1
      <4>3. stream'[j] = stream[j]
        BY <1>9, <4>1
      <4> QED  BY <3>1, <4>2, <4>3
    <3>3. CASE ~(i <= h)
      <4>1. ~(j <= l) /\ j - l = i - h
        BY <1>5, <3>1, <3>3
      <4>2. held'[i] = p[i - h] /\ stream'[j] = p[j - l]
        BY <1>6, <1>7, <3>3, <4>1
      <4> QED  BY <3>1, <4>1, <4>2
    <3> QED  BY <3>2, <3>3
  <2> QED  BY <1>5, <1>7, <1>8, <2>1 DEF HeldIsTail
<1>12. LaidOut(stream', pieces, d)
  <2> DEFINE e(i) == EndOf(pieces, i)
  <2>2. ASSUME NEW i \in 1..Len(pieces)
        PROVE  Laid(stream', pieces[i], e(i))
    <3> DEFINE q == pieces[i]
    <3>1. /\ Len(q.bytes) \in Nat /\ q.at \in Nat /\ q.at >= 1
          /\ q.at + Len(q.bytes) - 1 <= l
      <4>1. /\ Len(q.bytes) \in Nat /\ q.at \in 1..(l + 1) /\ e(i) \in 0..d
            /\ e(i) = q.at + Len(q.bytes) - 1
        BY PieceLies
      <4> HIDE DEF q, e, l, d
      <4>2. d <= l
        BY <1>5
      <4> QED  BY <1>5, <4>1, <4>2
    <3>2. Laid(stream, q, e(i))
      BY DEF RedactInv, LaidOut
    <3> HIDE DEF q, e
    <3>3. \A m \in 1..Len(q.bytes) : stream'[q.at - 1 + m] = stream[q.at - 1 + m]
      <4> DEFINE a == q.at
                 b == Len(q.bytes)
      <4>1. a \in Nat /\ b \in Nat /\ a >= 1 /\ a + b - 1 <= l /\ l \in Nat
        BY <1>5, <3>1
      <4> HIDE DEF a, b, l
      <4>2. \A m \in 1..b : a - 1 + m \in 1..l
        BY <4>1
      <4>3. \A m \in 1..b : stream'[a - 1 + m] = stream[a - 1 + m]
        BY <1>9, <4>2
      <4> QED  BY <4>3 DEF a, b
    <3>4. Laid(stream', q, e(i))
      BY <3>2, <3>3 DEF Laid
    <3> QED  BY <3>4 DEF q
  <2>3. LaidOut(stream, pieces, d)
    BY DEF RedactInv
  <2> QED  BY <2>2, <2>3 DEF LaidOut
<1>13. AllRight'
  <2>1. ASSUME NEW i \in 1..Len(pieces), pieces[i].kind # "lost"
        PROVE  /\ \A k \in Keys : StandsAt(stream', k, pieces[i].at) => Len(k) <= MaskedLen(pieces[i])
               /\ \A k \in Keys : ~RunsPast(stream', k, pieces[i].at)
               /\ pieces[i].kind = "marker" => pieces[i].bytes \in Keys
    <3> DEFINE a == pieces[i].at
    <3>1. a \in 1..(l + 1)
      BY PieceLies
    <3>2. /\ \A k \in Keys : StandsAt(stream, k, a) => Len(k) <= MaskedLen(pieces[i])
          /\ \A k \in Keys : ~RunsPast(stream, k, a)
          /\ pieces[i].kind = "marker" => pieces[i].bytes \in Keys
      BY <1>2, <2>1 DEF RedactInv, AllRight, Right
    <3> HIDE DEF a
    <3>3. ASSUME NEW k \in Keys
          PROVE  /\ StandsAt(stream', k, a) => StandsAt(stream, k, a) \/ RunsPast(stream, k, a)
                 /\ RunsPast(stream', k, a) => RunsPast(stream, k, a)
      <4>1. k \in Seq(Bytes)
        BY KeysAreSeqs
      <4> QED  BY <1>1, <1>3, <1>4, <3>1, <4>1, StandsLater
    <3>4. /\ \A k \in Keys : StandsAt(stream', k, a) => Len(k) <= MaskedLen(pieces[i])
          /\ \A k \in Keys : ~RunsPast(stream', k, a)
      BY <3>2, <3>3
    <3> QED  BY <3>2, <3>4 DEF a
  <2> QED  BY <1>2, <2>1 DEF AllRight, Right
<1> QED  BY <1>2, <1>8, <1>10, <1>11, <1>12, <1>13 DEF RedactInv

(* The next n bytes are decided as kind, rightly.                           *)
LEMMA DecideInv ==
  ASSUME RedactInv, NEW n \in 1..Len(held), NEW kind \in {"byte", "marker"},
         Decide(kind, n), UNCHANGED <<stream, masking>>,
         \A k \in Keys : IsPrefix(k, held) => Len(k) <= (IF kind = "marker" THEN n ELSE 0),
         kind = "marker" => SubSeq(held, 1, n) \in Keys,
         masking \in {"none", "write"} => ~Partial(held)
  PROVE  RedactInv'
<1>1. stream \in Seq(Bytes) /\ held \in Seq(Bytes) /\ pieces \in Seq(PieceSet)
  BY DEF RedactInv, RedactTypes
<1> DEFINE l == Len(stream)
           h == Len(held)
           d == Decided
           q == Piece(kind, n)
           c == Len(pieces)
<1>2. /\ l \in Nat /\ h \in Nat /\ c \in Nat /\ d \in Nat /\ d = l - h /\ n \in Nat
      /\ n >= 1 /\ n <= h
      /\ \A i \in 1..h : held[i] = stream[d + i]
  BY <1>1, LenProperties DEF RedactInv, HeldIsTail, Decided
<1>3. pieces' = Append(pieces, q) /\ held' = SubSeq(held, n + 1, h)
  BY DEF Decide
<1>4. /\ q.kind = kind /\ q.at = d + 1 /\ q.bytes = SubSeq(held, 1, n)
      /\ q = [kind |-> kind, at |-> d + 1, bytes |-> SubSeq(held, 1, n)]
  BY DEF Piece, Decided
<1>5. \A i \in 1..h : held[i] \in Bytes
  BY <1>1, ElementOfSeq
<1>6. /\ q.bytes \in Seq(Bytes) /\ Len(q.bytes) = n
      /\ \A i \in 1..n : q.bytes[i] = held[i]
  <2>1. \A i \in 1..n : held[i] \in Bytes
    BY <1>2, <1>5
  <2>2. 1 \in Int /\ n \in Int /\ 1 <= n /\ n - 1 + 1 = n
    BY <1>2
  <2>3. /\ SubSeq(held, 1, n) \in Seq(Bytes)
        /\ Len(SubSeq(held, 1, n)) = IF 1 <= n THEN n - 1 + 1 ELSE 0
        /\ \A i \in 1..(n - 1 + 1) : SubSeq(held, 1, n)[i] = held[1 + i - 1]
    BY <2>1, <2>2, SubSeqProperties
  <2>4. \A i \in 1..n : 1 + i - 1 = i
    BY <1>2
  <2> QED  BY <1>4, <2>2, <2>3, <2>4
<1>7. /\ held' \in Seq(Bytes) /\ Len(held') = h - n
      /\ \A i \in 1..(h - n) : held'[i] = held[n + i]
  <2> DEFINE m == n + 1
  <2>1. m \in Int /\ h \in Int /\ h - m + 1 = h - n /\ (m <= h <=> h - n # 0)
    BY <1>2
  <2>2. \A i \in m..h : held[i] \in Bytes
    BY <1>2, <1>5
  <2>3. \A i \in 1..(h - n) : m + i - 1 = n + i
    BY <1>2
  <2> HIDE DEF m
  <2>4. /\ SubSeq(held, m, h) \in Seq(Bytes)
        /\ Len(SubSeq(held, m, h)) = IF m <= h THEN h - m + 1 ELSE 0
        /\ \A i \in 1..(h - m + 1) : SubSeq(held, m, h)[i] = held[m + i - 1]
    BY <2>1, <2>2, SubSeqProperties
  <2>5. held' = SubSeq(held, m, h)
    BY <1>3 DEF m
  <2> QED  BY <2>1, <2>3, <2>4, <2>5
<1>8. q \in PieceSet
  <2>1. d + 1 \in Nat
    BY <1>2
  <2> QED  BY <1>4, <1>6, <2>1 DEF PieceSet
<1> HIDE DEF q
<1>9. /\ pieces' \in Seq(PieceSet) /\ Len(pieces') = c + 1 /\ pieces'[c + 1] = q
      /\ \A i \in 1..c : pieces'[i] = pieces[i]
  BY <1>1, <1>3, <1>8, AppendProperties
<1>10. Decided' = d + n
  BY <1>2, <1>7 DEF Decided
<1>11. RedactTypes'
  BY <1>1, <1>7, <1>9 DEF RedactInv, RedactTypes
<1>12. HeldIsTail'
  <2>1. ASSUME NEW i \in 1..(h - n) PROVE held'[i] = stream[d + n + i]
    <3>1. PICK j \in 1..h : j = n + i
      BY <1>2
    <3>2. d + j = d + n + i
      BY <1>2, <3>1
    <3>3. held'[i] = held[j] /\ held[j] = stream[d + j]
      BY <1>2, <1>7, <3>1
    <3> QED  BY <3>2, <3>3
  <2>2. \A i \in 1..Len(held') : held'[i] = stream'[Decided' + i]
    BY <1>7, <1>10, <2>1
  <2>3. Decided' \in Nat
    BY <1>2, <1>10
  <2> QED  BY <2>2, <2>3 DEF HeldIsTail
<1>13. \A i \in 1..(c + 1) : i \in 1..c \/ i = c + 1
  <2> HIDE DEF c
  <2> QED  BY <1>2
<1> DEFINE ps == pieces'
           e(i) == EndOf(pieces, i)
           f(i) == EndOf(ps, i)
<1>14. (\A i \in 0..c : f(i) = e(i)) /\ f(c + 1) = d + n
  <2>1. ASSUME NEW i \in 0..c PROVE f(i) = e(i)
    <3>1. i = 0 \/ i \in 1..c
      BY <1>2
    <3> QED  BY <1>9, <3>1 DEF EndOf
  <2>2. f(c + 1) = q.at + Len(q.bytes) - 1
    <3>1. c + 1 # 0
      BY <1>2
    <3> QED  BY <1>9, <3>1 DEF EndOf
  <2>3. q.at + Len(q.bytes) - 1 = d + n
    BY <1>2, <1>4, <1>6
  <2> QED  BY <2>1, <2>2, <2>3
<1>15. LaidOut(stream, ps, d + n)
  <2>0. /\ \A i \in 1..c : /\ pieces[i].at = e(i - 1) + 1 /\ e(i) \in 0..d
                           /\ Laid(stream, pieces[i], e(i))
        /\ e(c) = d
    BY DEF RedactInv, LaidOut
  <2> HIDE DEF e, f, c, d
  <2>1. ASSUME NEW i \in 1..c
        PROVE  /\ ps[i].at = f(i - 1) + 1
               /\ f(i) \in 0..(d + n)
               /\ Laid(stream, ps[i], f(i))
    <3>1. i \in 0..c /\ i - 1 \in 0..c
      BY <1>2
    <3>2. f(i) = e(i) /\ f(i - 1) = e(i - 1) /\ ps[i] = pieces[i]
      BY <1>9, <1>14, <3>1
    <3>3. 0..d \subseteq 0..(d + n)
      BY <1>2
    <3> QED  BY <2>0, <3>2, <3>3
  <2>2. /\ q.at = e(c) + 1 /\ Laid(stream, q, d + n)
    <3>2. ASSUME NEW m \in 1..n PROVE q.bytes[m] = stream[q.at - 1 + m]
      <4>1. m \in 1..h /\ q.at - 1 + m = d + m
        BY <1>2, <1>4
      <4> QED  BY <1>2, <1>6, <4>1
    <3> QED  BY <1>2, <1>4, <1>6, <2>0, <3>2 DEF Laid
  <2>3. c \in 0..c /\ c + 1 - 1 = c /\ d + n \in 0..(d + n)
    BY <1>2
  <2>4. ASSUME NEW i \in 1..(c + 1)
        PROVE  /\ ps[i].at = f(i - 1) + 1
               /\ f(i) \in 0..(d + n)
               /\ Laid(stream, ps[i], f(i))
    <3>1. CASE i = c + 1
      <4>1. i - 1 = c /\ ps[i] = q /\ f(i) = d + n /\ f(i - 1) = e(c)
        BY <1>2, <1>9, <1>14, <2>3, <3>1
      <4> QED  BY <2>2, <2>3, <4>1
    <3> QED  BY <1>13, <2>1, <3>1
  <2>5. Len(ps) = c + 1 /\ f(c + 1) = d + n
    BY <1>9, <1>14
  <2> QED  BY <2>4, <2>5 DEF LaidOut, f
<1>16. AllRight'
  <2> DEFINE more == masking \in {"none", "write"}
  <2>1. Right(stream, q, more)
    <3>1. ASSUME NEW k \in Keys, StandsAt(stream, k, q.at) PROVE Len(k) <= MaskedLen(q)
      <4>1. IsPrefix(k, held)
        BY <1>4, <3>1, HeldStarts DEF RedactInv
      <4>2. MaskedLen(q) = IF kind = "marker" THEN n ELSE 0
        BY <1>4, <1>6 DEF MaskedLen
      <4> QED  BY <4>1, <4>2
    <3>2. ASSUME more, NEW k \in Keys PROVE ~RunsPast(stream, k, q.at)
      BY <1>4, <3>2, HeldStarts DEF RedactInv, Partial
    <3> QED  BY <1>4, <3>1, <3>2 DEF Right
  <2>2. ASSUME NEW i \in 1..(c + 1) PROVE Right(stream, pieces'[i], more)
    BY <1>9, <1>13, <2>1 DEF RedactInv, AllRight
  <2> QED  BY <1>9, <2>2 DEF AllRight
<1> QED  BY <1>10, <1>11, <1>12, <1>15, <1>16 DEF RedactInv

(* One iteration of the loop.                                               *)
LEMMA ConsumeInv ==
  ASSUME RedactInv, consume
  PROVE  RedactInv'
<1>1. /\ masking \in {"write", "flush"} /\ held # <<>>
      /\ masking = "write" => ~Partial(held)
      /\ UNCHANGED <<stream, masking>>
  BY DEF consume, Consuming, MustWait
<1>2. held \in Seq(Bytes)
  BY DEF RedactInv, RedactTypes
<1>3. Len(held) \in Nat /\ Len(held) >= 1
  BY <1>1, <1>2, EmptySeq
<1> DEFINE n == Longest(held)
<1>4. /\ n \in 0..Len(held)
      /\ \A k \in Keys : IsPrefix(k, held) => Len(k) <= n
      /\ n # 0 => \E k \in Keys : IsPrefix(k, held) /\ Len(k) = n
  BY <1>2, LongestIs
<1>5. CASE n = 0
  <2>1. Decide("byte", 1)
    BY <1>5 DEF consume
  <2>2. 1 \in 1..Len(held)
    BY <1>3
  <2> HIDE DEF n
  <2>3. \A k \in Keys : IsPrefix(k, held) => Len(k) <= (IF "byte" = "marker" THEN 1 ELSE 0)
    BY <1>4, <1>5
  <2> QED  BY <1>1, <2>1, <2>2, <2>3, DecideInv
<1>6. CASE n # 0
  <2>1. Decide("marker", n)
    BY <1>6 DEF consume
  <2> HIDE DEF n
  <2>2. n \in 1..Len(held)
    BY <1>3, <1>4, <1>6
  <2>3. SubSeq(held, 1, n) \in Keys
    <3>1. PICK k \in Keys : IsPrefix(k, held) /\ Len(k) = n
      BY <1>4, <1>6
    <3>2. SubSeq(k, 1, n) = SubSeq(held, 1, n)
      BY <3>1 DEF IsPrefix
    <3>3. SubSeq(k, 1, n) = k
      BY <3>1, KeysAreSeqs, SubSeqFull
    <3> QED  BY <3>1, <3>2, <3>3
  <2>4. \A k \in Keys : IsPrefix(k, held) => Len(k) <= (IF "marker" = "marker" THEN n ELSE 0)
    BY <1>4
  <2> QED  BY <1>1, <2>1, <2>2, <2>3, <2>4, DecideInv
<1> QED  BY <1>5, <1>6

(* The underlying writer takes the pieces or loses them.                    *)
LEMMA EmitInv ==
  ASSUME RedactInv, Emit
  PROVE  RedactInv'
<1>1. UNCHANGED <<stream, held>> /\ Decided' = Decided
  BY DEF Emit, Decided
<1>2. masking' \in {"none", "ended"} /\ (masking' = "none" => masking = "write")
  BY DEF Emit, Consuming
<1>3. /\ pieces \in Seq(PieceSet) /\ Len(pieces) \in Nat /\ DOMAIN pieces = 1..Len(pieces)
      /\ pieces = [i \in 1..Len(pieces) |-> pieces[i]]
      /\ \A i \in 1..Len(pieces) : pieces[i] \in PieceSet
  BY LenProperties, ElementOfSeq DEF RedactInv, RedactTypes
<1> DEFINE c == Len(pieces)
           lost(q) == [q EXCEPT !.kind = "lost"]
<1>4. \A q \in PieceSet : /\ lost(q) \in PieceSet /\ lost(q).kind = "lost"
                          /\ lost(q).at = q.at /\ lost(q).bytes = q.bytes
  BY DEF PieceSet
<1> HIDE DEF lost
<1>5. /\ pieces' \in Seq(PieceSet) /\ Len(pieces') = c
      /\ \A i \in 1..c : pieces'[i] = pieces[i] \/ pieces'[i] = lost(pieces[i])
  <2>1. CASE UNCHANGED pieces
    BY <1>3, <2>1
  <2>2. CASE pieces' = [k \in DOMAIN pieces |-> IF k > given THEN lost(pieces[k]) ELSE pieces[k]]
    <3> DEFINE g(k) == IF k > given THEN lost(pieces[k]) ELSE pieces[k]
    <3>1. \A k \in 1..c : g(k) \in PieceSet /\ (g(k) = pieces[k] \/ g(k) = lost(pieces[k]))
      BY <1>3, <1>4
    <3>2. pieces' = [k \in 1..c |-> g(k)]
      BY <1>3, <2>2
    <3> HIDE DEF g, c
    <3>3. pieces' \in [1..c -> PieceSet] /\ \A k \in 1..c : pieces'[k] = g(k)
      BY <3>1, <3>2
    <3>4. c \in Nat
      BY <1>3 DEF c
    <3>5. pieces' \in Seq(PieceSet) /\ Len(pieces') = c
      BY <3>3, <3>4
    <3> QED  BY <3>1, <3>3, <3>5
  <2> QED  BY <2>1, <2>2 DEF Emit, lost
<1>6. \A i \in 1..c : /\ pieces'[i].at = pieces[i].at /\ pieces'[i].bytes = pieces[i].bytes
                      /\ pieces'[i] = pieces[i] \/ pieces'[i].kind = "lost"
  BY <1>3, <1>4, <1>5
<1> DEFINE ps == pieces'
<1>7. RedactTypes' /\ HeldIsTail'
  BY <1>1, <1>2, <1>5 DEF RedactInv, RedactTypes, HeldIsTail
<1>8. \A i \in 0..c : EndOf(ps, i) = EndOf(pieces, i)
  <2> TAKE i \in 0..c
  <2>1. i = 0 \/ i \in 1..c
    BY <1>3
  <2> QED  BY <1>6, <2>1 DEF EndOf
<1>9. LaidOut(stream, ps, Decided)
  <2>1. LaidOut(stream, pieces, Decided)
    BY DEF RedactInv
  <2>2. ASSUME NEW i \in 1..c
        PROVE  /\ ps[i].at = EndOf(ps, i - 1) + 1
               /\ EndOf(ps, i) \in 0..Decided
               /\ Laid(stream, ps[i], EndOf(ps, i))
    <3>1. i \in 0..c /\ i - 1 \in 0..c
      BY <1>3
    <3>2. /\ pieces[i].at = EndOf(pieces, i - 1) + 1
          /\ EndOf(pieces, i) \in 0..Decided
          /\ Laid(stream, pieces[i], EndOf(pieces, i))
      BY <2>1 DEF LaidOut
    <3>3. EndOf(ps, i) = EndOf(pieces, i) /\ EndOf(ps, i - 1) = EndOf(pieces, i - 1)
      BY <1>8, <3>1
    <3>4. Laid(stream, ps[i], EndOf(pieces, i))
      BY <1>6, <3>2 DEF Laid
    <3> QED  BY <1>6, <3>2, <3>3, <3>4
  <2>3. EndOf(ps, c) = Decided
    <3>1. c \in 0..c
      BY <1>3
    <3> QED  BY <1>8, <2>1, <3>1 DEF LaidOut
  <2> QED  BY <1>5, <2>2, <2>3 DEF LaidOut
<1>10. AllRight'
  <2>1. ASSUME NEW i \in 1..c PROVE Right(stream, ps[i], masking' \in {"none", "write"})
    <3>1. CASE ps[i].kind = "lost"
      BY <3>1 DEF Right
    <3>2. CASE ps[i] = pieces[i]
      <4>1. Right(stream, pieces[i], masking \in {"none", "write"})
        BY DEF RedactInv, AllRight
      <4>2. masking' \in {"none", "write"} => masking \in {"none", "write"}
        BY <1>2
      <4> QED  BY <3>2, <4>1, <4>2 DEF Right
    <3> QED  BY <1>6, <3>1, <3>2
  <2> QED  BY <1>1, <1>5, <2>1 DEF AllRight
<1> QED  BY <1>1, <1>7, <1>9, <1>10 DEF RedactInv

(* Nothing but the call changes.                                            *)
LEMMA FlushInv ==
  ASSUME RedactInv, Flush \/ UNCHANGED redactVars
  PROVE  RedactInv'
<1>1. UNCHANGED <<stream, held, pieces>> /\ (masking' = masking \/ masking' = "flush")
  BY DEF Flush, redactVars
<1>2. Decided' = Decided
  BY <1>1 DEF Decided
<1>3. RedactTypes' /\ HeldIsTail' /\ LaidOut(stream, pieces, Decided)'
  BY <1>1, <1>2 DEF RedactInv, RedactTypes, HeldIsTail
<1>4. AllRight'
  <2>1. ASSUME NEW i \in 1..Len(pieces)
        PROVE  Right(stream, pieces[i], masking' \in {"none", "write"})
    <3>1. Right(stream, pieces[i], masking \in {"none", "write"})
      BY DEF RedactInv, AllRight
    <3>2. masking' \in {"none", "write"} => masking \in {"none", "write"}
      BY <1>1
    <3> QED  BY <3>1, <3>2 DEF Right
  <2> QED  BY <1>1, <2>1 DEF AllRight
<1> QED  BY <1>3, <1>4 DEF RedactInv

(* A stretch of a sequence, byte by byte.                                   *)
LEMMA StretchOf ==
  ASSUME NEW s \in Seq(Bytes), NEW a \in 1..(Len(s) + 1), NEW z \in 0..Len(s)
  PROVE  /\ Len(SubSeq(s, a, z)) = IF a <= z THEN z - a + 1 ELSE 0
         /\ \A i \in 1..(z - a + 1) : SubSeq(s, a, z)[i] = s[a + i - 1]
<1>1. Len(s) \in Nat
  BY LenProperties
<1>2. a \in Int /\ z \in Int /\ \A i \in a..z : s[i] \in Bytes
  BY <1>1, ElementOfSeq
<1> QED  BY <1>2, SubSeqProperties

(* A stretch of the stream that is a key: the key stands there.             *)
LEMMA StretchStands ==
  ASSUME NEW s \in Seq(Bytes), NEW k \in Keys, NEW a \in 1..(Len(s) + 1),
         NEW z \in 0..Len(s), SubSeq(s, a, z) = k
  PROVE  StandsAt(s, k, a)
<1>1. Len(s) \in Nat /\ Len(k) \in Nat /\ Len(k) >= 1
  BY KeysAreSeqs, LenProperties
<1>2. a \in Int /\ z \in Int
  BY <1>1
<1>3. /\ Len(k) = IF a <= z THEN z - a + 1 ELSE 0
      /\ \A i \in 1..(z - a + 1) : k[i] = s[a + i - 1]
  BY StretchOf, Zenon
<1>4. Len(k) = z - a + 1 /\ a <= z
  BY <1>1, <1>2, <1>3
<1>5. ASSUME NEW m \in 1..Len(k) PROVE s[a - 1 + m] = k[m]
  <2>1. m \in 1..(z - a + 1) /\ a + m - 1 = a - 1 + m
    BY <1>1, <1>2, <1>4
  <2> QED  BY <1>3, <2>1
<1>6. a + Len(k) - 1 <= Len(s)
  BY <1>1, <1>2, <1>4
<1> QED  BY <1>5, <1>6 DEF StandsAt

(* A key that starts the rest of the stream from a stands there.            *)
LEMMA PrefixStands ==
  ASSUME NEW s \in Seq(Bytes), NEW k \in Keys, NEW a \in 1..(Len(s) + 1),
         IsPrefix(k, SubSeq(s, a, Len(s)))
  PROVE  StandsAt(s, k, a)
<1> DEFINE t == SubSeq(s, a, Len(s))
<1>1. Len(s) \in Nat /\ Len(k) \in Nat /\ k \in Seq(Bytes) /\ a \in Int /\ Len(s) \in Int
  BY KeysAreSeqs, LenProperties
<1>2. \A i \in a..Len(s) : s[i] \in Bytes
  BY <1>1, ElementOfSeq
<1>3. /\ t \in Seq(Bytes) /\ Len(t) = IF a <= Len(s) THEN Len(s) - a + 1 ELSE 0
      /\ \A i \in 1..(Len(s) - a + 1) : t[i] = s[a + i - 1]
  BY <1>1, <1>2, SubSeqProperties
<1>4. IsPrefix(k, t)
  OBVIOUS
<1> HIDE DEF t
<1>5. Len(k) <= Len(t) /\ \A i \in 1..Len(k) : k[i] = t[i]
  BY <1>1, <1>3, <1>4, PrefixIs
<1>6. Len(t) = Len(s) - a + 1
  BY <1>1, <1>3
<1>7. ASSUME NEW m \in 1..Len(k) PROVE s[a - 1 + m] = k[m]
  <2>1. m \in 1..(Len(s) - a + 1) /\ a + m - 1 = a - 1 + m
    BY <1>1, <1>5, <1>6
  <2> QED  BY <1>3, <1>5, <2>1
<1>8. a + Len(k) - 1 <= Len(s)
  BY <1>1, <1>5, <1>6
<1> QED  BY <1>7, <1>8 DEF StandsAt

(* A sequence that repeats a stretch of another is that stretch.            *)
LEMMA StretchIs ==
  ASSUME NEW s \in Seq(Bytes), NEW t \in Seq(Bytes), NEW a \in 1..(Len(s) + 1),
         a + Len(t) - 1 <= Len(s), \A m \in 1..Len(t) : t[m] = s[a - 1 + m]
  PROVE  t = SubSeq(s, a, a + Len(t) - 1)
<1> DEFINE z == a + Len(t) - 1
           u == SubSeq(s, a, z)
<1>1. Len(s) \in Nat /\ Len(t) \in Nat /\ a \in Int /\ z \in Int /\ a >= 1 /\ z <= Len(s)
  BY LenProperties
<1>2. z - a + 1 = Len(t) /\ (a <= z <=> Len(t) # 0)
  BY <1>1
<1> HIDE DEF z
<1>3. \A i \in a..z : s[i] \in Bytes
  BY <1>1, ElementOfSeq
<1>4. /\ u \in Seq(Bytes) /\ Len(u) = IF a <= z THEN z - a + 1 ELSE 0
      /\ \A i \in 1..(z - a + 1) : u[i] = s[a + i - 1]
  BY <1>1, <1>3, SubSeqProperties
<1> HIDE DEF u
<1>5. Len(u) = Len(t)
  BY <1>1, <1>2, <1>4
<1>6. ASSUME NEW m \in 1..Len(t) PROVE t[m] = u[m]
  <2>1. a + m - 1 = a - 1 + m
    BY <1>1
  <2> QED  BY <1>2, <1>4, <2>1
<1>7. t = u
  BY <1>4, <1>5, <1>6, SeqEqual
<1> QED  BY <1>7 DEF u, z

(* Masked, from the invariant.                                              *)
LEMMA InvMasks == RedactInv => Masked
<1> SUFFICES ASSUME RedactInv PROVE Masked
  OBVIOUS
<1>1. stream \in Seq(Bytes) /\ held \in Seq(Bytes) /\ pieces \in Seq(PieceSet)
  BY DEF RedactInv, RedactTypes
<1>2. /\ Len(stream) \in Nat /\ Len(held) \in Nat /\ Len(pieces) \in Nat
      /\ DOMAIN pieces = 1..Len(pieces)
  BY <1>1, LenProperties
<1>3. \A i : End(i) = EndOf(pieces, i)
  BY DEF End, EndOf
<1>4. LaidOut(stream, pieces, Decided) /\ HeldIsTail /\ AllRight
  BY DEF RedactInv
<1>5. ASSUME NEW i \in 1..Len(pieces)
      PROVE  /\ pieces[i].at = End(i - 1) + 1
             /\ pieces[i].bytes = SubSeq(stream, pieces[i].at, End(i))
  <2> DEFINE q == pieces[i]
  <2>1. /\ q.at \in 1..(Len(stream) + 1) /\ q.bytes \in Seq(Bytes) /\ Len(q.bytes) \in Nat
        /\ EndOf(pieces, i) = q.at + Len(q.bytes) - 1
        /\ EndOf(pieces, i) \in 0..Decided /\ Decided <= Len(stream) /\ Decided \in Nat
    BY PieceLies DEF PieceSet
  <2>2. q.at = EndOf(pieces, i - 1) + 1 /\ Laid(stream, q, EndOf(pieces, i))
    BY <1>4 DEF LaidOut
  <2> HIDE DEF q
  <2>3. q.at + Len(q.bytes) - 1 <= Len(stream)
    BY <1>2, <2>1
  <2>4. \A m \in 1..Len(q.bytes) : q.bytes[m] = stream[q.at - 1 + m]
    BY <2>2 DEF Laid
  <2>5. q.bytes = SubSeq(stream, q.at, q.at + Len(q.bytes) - 1)
    BY <1>1, <2>1, <2>3, <2>4, StretchIs
  <2> QED  BY <1>3, <2>1, <2>2, <2>5 DEF q
<1>6. held = SubSeq(stream, End(Len(pieces)) + 1, Len(stream))
  <2> DEFINE d == Decided
             a == d + 1
  <2>1. d \in Nat /\ d = Len(stream) - Len(held) /\ \A i \in 1..Len(held) : held[i] = stream[d + i]
    BY <1>4 DEF HeldIsTail, Decided
  <2> HIDE DEF d
  <2>2. /\ a \in 1..(Len(stream) + 1) /\ a + Len(held) - 1 = Len(stream)
        /\ \A m \in Int : a - 1 + m = d + m
    BY <1>2, <2>1
  <2> HIDE DEF a
  <2>3. \A m \in 1..Len(held) : held[m] = stream[a - 1 + m]
    <3> TAKE m \in 1..Len(held)
    <3>1. a - 1 + m = d + m
      BY <2>2
    <3> QED  BY <2>1, <3>1
  <2>4. a + Len(held) - 1 <= Len(stream)
    BY <1>2, <2>2
  <2>5. held = SubSeq(stream, a, a + Len(held) - 1)
    BY <1>1, <2>2, <2>3, <2>4, StretchIs
  <2>6. End(Len(pieces)) = d
    BY <1>3, <1>4 DEF LaidOut, d
  <2> QED  BY <2>2, <2>5, <2>6 DEF a
<1>7. ASSUME NEW i \in 1..Len(pieces), NEW j \in 1..Len(pieces), pieces[i].kind = "byte"
      PROVE  SubSeq(stream, pieces[i].at, End(j)) \notin Keys
  <2> SUFFICES ASSUME NEW k \in Keys, SubSeq(stream, pieces[i].at, End(j)) = k PROVE FALSE
    OBVIOUS
  <2>1. pieces[i].at \in 1..(Len(stream) + 1) /\ End(j) \in 0..Len(stream)
    <3>1. EndOf(pieces, j) \in 0..Decided /\ Decided <= Len(stream) /\ Decided \in Nat
      BY PieceLies
    <3>2. EndOf(pieces, j) \in 0..Len(stream)
      BY <1>2, <3>1
    <3> QED  BY <1>3, <3>2, PieceLies
  <2>2. StandsAt(stream, k, pieces[i].at)
    BY <1>1, <2>1, StretchStands
  <2>3. Len(k) <= MaskedLen(pieces[i])
    BY <1>4, <1>7, <2>2 DEF AllRight, Right
  <2>4. MaskedLen(pieces[i]) = 0
    BY <1>7 DEF MaskedLen
  <2> QED  BY <2>3, <2>4, KeysAreSeqs
<1>8. ASSUME NEW i \in 1..Len(pieces), pieces[i].kind = "marker"
      PROVE  /\ pieces[i].bytes \in Keys
             /\ \A k \in Keys : IsPrefix(k, SubSeq(stream, pieces[i].at, Len(stream)))
                                => Len(k) <= Len(pieces[i].bytes)
  <2>1. /\ pieces[i].bytes \in Keys
        /\ \A k \in Keys : StandsAt(stream, k, pieces[i].at) => Len(k) <= Len(pieces[i].bytes)
    BY <1>4, <1>8 DEF AllRight, Right, MaskedLen
  <2>2. pieces[i].at \in 1..(Len(stream) + 1)
    BY PieceLies
  <2> QED  BY <1>1, <2>1, <2>2, PrefixStands
<1>9. ASSUME NEW i \in DOMAIN pieces, NEW j \in DOMAIN pieces, i <= j,
             \A k \in i..j : pieces[k].kind = "byte"
      PROVE  SubSeq(stream, pieces[i].at, End(j)) \notin Keys
  <2>1. i \in i..j
    BY <1>2, <1>9
  <2> QED  BY <1>2, <1>7, <1>9, <2>1
<1> QED  BY <1>2, <1>5, <1>6, <1>8, <1>9 DEF Masked

(* Whatever the secrets and however the stream is cut: no secret goes out,  *)
(* a marker stands for the longest one there, and nothing else changes.     *)
THEOREM MaskedTheorem == RedactSpec => []Masked
<1>1. RedactInit => RedactInv
  <2> SUFFICES ASSUME RedactInit PROVE RedactInv
    OBVIOUS
  <2>1. stream = <<>> /\ held = <<>> /\ pieces = <<>> /\ masking = "none"
    BY DEF RedactInit
  <2>2. Len(stream) = 0 /\ Len(held) = 0 /\ Len(pieces) = 0 /\ Decided = 0
    BY <2>1, EmptySeq DEF Decided
  <2>3. RedactTypes
    BY <2>1, EmptySeq DEF RedactTypes
  <2>4. HeldIsTail /\ AllRight
    BY <2>2 DEF HeldIsTail, AllRight
  <2>5. LaidOut(stream, pieces, Decided)
    BY <2>2 DEF LaidOut, EndOf
  <2> QED  BY <2>3, <2>4, <2>5 DEF RedactInv
<1>2. RedactInv /\ [RedactNext]_redactVars => RedactInv'
  BY WriteMore, FlushInv, ConsumeInv, EmitInv DEF RedactNext
<1> QED  BY <1>1, <1>2, InvMasks, PTL DEF RedactSpec
==============================================================================
