------------------------------- MODULE Channel -------------------------------
(***************************************************************************)
(* The notification channel of the MCP bridge: which tasks' notifications  *)
(* reach the host session, and the tools that change and report it.        *)
(*                                                                         *)
(* Every method of TaskFilter is one critical section; a tool call is a    *)
(* sequence of them, and the SDK runs calls concurrently.  muted is what   *)
(* the tools' descriptions promise, kept beside the filter.                *)
(***************************************************************************)
EXTENDS Integers, FiniteSets

CONSTANTS
  Tasks,        \* task ids, named by a tool call or not
  Calls         \* tool calls that can be in flight at once

VARIABLES
  filter,       \* TaskFilter: all, except
  call,         \* the tool call of each slot
  muted         \* the tasks the calls so far have muted

channelVars == <<filter, call, muted>>

NoCall == [pc |-> "idle", tool |-> "muted", ids |-> {}, rep |-> FALSE,
           alone |-> TRUE]

ChannelTypeOK ==
  /\ filter \in [all : BOOLEAN, except : SUBSET Tasks]
  /\ call \in [Calls -> [pc : {"idle", "ids", "report", "list"},
                         tool : {"mute", "unmute", "muted"},
                         ids : SUBSET Tasks, rep : BOOLEAN, alone : BOOLEAN]]
  /\ muted \subseteq Tasks

ChannelInit ==
  /\ filter = [all |-> FALSE, except |-> {}]
  /\ call = [c \in Calls |-> NoCall]
  /\ muted = {}

-----------------------------------------------------------------------------
(* TaskFilter.                                                              *)

Mute(id) ==
  filter' = [filter EXCEPT !.except = IF filter.all THEN @ \ {id} ELSE @ \cup {id}]

(* Mutant: the exceptions survive the change of the default.                *)
MuteAllKeeps == filter' = [filter EXCEPT !.all = TRUE]

MuteAll == filter' = [all |-> TRUE, except |-> {}]

Unmute(id) ==
  filter' = [filter EXCEPT !.except = IF filter.all THEN @ \cup {id} ELSE @ \ {id}]

Clear == filter' = [all |-> FALSE, except |-> {}]

Muted(id) == IF filter.all THEN id \notin filter.except ELSE id \in filter.except

-----------------------------------------------------------------------------
(* The tools: the all argument first, then the ids one by one, then the     *)
(* report, which reads the default and the exceptions separately.           *)

Busy(c) == call[c].pc # "idle"

CallTool(c, tool, all, ids) ==
  /\ call[c] = NoCall
  /\ tool = "muted" => ~all /\ ids = {}
  /\ call' = [d \in Calls |->
                IF d = c
                THEN [NoCall EXCEPT !.pc = "ids", !.tool = tool, !.ids = ids,
                                    !.alone = ~\E e \in Calls : Busy(e)]
                ELSE [call[d] EXCEPT !.alone = @ /\ ~Busy(d)]]
  /\ CASE all /\ tool = "mute"   -> MuteAll /\ muted' = Tasks
       [] all /\ tool = "unmute" -> Clear /\ muted' = {}
       [] OTHER                  -> UNCHANGED <<filter, muted>>

ApplyId(c) ==
  /\ call[c].pc = "ids"
  /\ \E id \in call[c].ids :
       /\ call' = [call EXCEPT ![c].ids = @ \ {id}]
       /\ IF call[c].tool = "mute"
          THEN Mute(id) /\ muted' = muted \cup {id}
          ELSE Unmute(id) /\ muted' = muted \ {id}

ReportAll(c) ==
  /\ call[c].pc = "ids" /\ call[c].ids = {}
  /\ call' = [call EXCEPT ![c].pc = "report", ![c].rep = filter.all]
  /\ UNCHANGED <<filter, muted>>

(* mutedResult: the muted tasks the answer stands for.                      *)
ReportExceptions(c) ==
  /\ call[c].pc = "report"
  /\ call' = [call EXCEPT ![c].pc = "list",
                          ![c].ids = IF call[c].rep THEN Tasks \ filter.except
                                     ELSE filter.except]
  /\ UNCHANGED <<filter, muted>>

Answer(c) ==
  /\ call[c].pc = "list"
  /\ call' = [call EXCEPT ![c] = NoCall]
  /\ UNCHANGED <<filter, muted>>

ChannelNext ==
  \E c \in Calls :
    \/ \E tool \in {"mute", "unmute", "muted"}, all \in BOOLEAN,
          ids \in SUBSET Tasks : CallTool(c, tool, all, ids)
    \/ ApplyId(c) \/ ReportAll(c) \/ ReportExceptions(c) \/ Answer(c)

ChannelSpec == ChannelInit /\ [][ChannelNext]_channelVars

-----------------------------------------------------------------------------
(* Forward drops the notifications of exactly the tasks that were muted     *)
(* last, in whatever order single ids and all=true were used: the filter's  *)
(* flip between blocklist and allowlist never changes a task nobody named   *)
(* (taskfilter.go Muted).                                                   *)
FilterCorrect == \A id \in Tasks : Muted(id) <=> id \in muted

(* The answer of a call that overlapped no other one describes the filter.  *)
(* (With an overlapping call the two reads of mutedResult can straddle it.) *)
SoleReportTruthful ==
  \A c \in Calls :
    call[c].pc = "list" /\ call[c].alone => call[c].ids = muted
=============================================================================
