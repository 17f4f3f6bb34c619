---------------------------- MODULE IntakeProofs ----------------------------
(***************************************************************************)
(* Proofs about what comes into the server: the bridge's task filter       *)
(* (Channel), the tokens of tasks (Access), the wake-ups of a runner       *)
(* (Notify), the organizations of a user (Accounts) and the routing of     *)
(* events (Router), for any number of tasks, calls, callers, changes,      *)
(* people, organizations, rules, deliveries and links.                     *)
(***************************************************************************)
EXTENDS Channel, Access, Notify, Accounts, Router, WellFoundedInduction,
        SequenceTheorems, TLAPS

-----------------------------------------------------------------------------
(* The task filter.  FilterCorrect is inductive once the types are known.   *)

ChannelInv == ChannelTypeOK /\ FilterCorrect

(* A step of the tools leaves the calls well typed.                         *)
LEMMA CallTyped ==
  ASSUME ChannelTypeOK, ChannelNext
  PROVE  call' \in [Calls -> [pc : {"idle", "ids", "report", "list"},
                              tool : {"mute", "unmute", "muted"},
                              ids : SUBSET Tasks, rep : BOOLEAN, alone : BOOLEAN]]
<1> DEFINE CallRec == [pc : {"idle", "ids", "report", "list"},
                       tool : {"mute", "unmute", "muted"},
                       ids : SUBSET Tasks, rep : BOOLEAN, alone : BOOLEAN]
<1>0. call \in [Calls -> CallRec] /\ filter \in [all : BOOLEAN, except : SUBSET Tasks]
  BY DEF ChannelTypeOK
<1>1. NoCall \in CallRec
  BY DEF NoCall
<1>2. PICK c \in Calls :
        \/ \E tool \in {"mute", "unmute", "muted"}, all \in BOOLEAN,
              ids \in SUBSET Tasks : CallTool(c, tool, all, ids)
        \/ ApplyId(c) \/ ReportAll(c) \/ ReportExceptions(c) \/ Answer(c)
  BY DEF ChannelNext
<1>3. ASSUME NEW tool \in {"mute", "unmute", "muted"}, NEW all \in BOOLEAN,
             NEW ids \in SUBSET Tasks, CallTool(c, tool, all, ids)
      PROVE  call' \in [Calls -> CallRec]
  BY <1>0, <1>1, <1>3 DEF CallTool, NoCall
<1>4. CASE ApplyId(c)
  BY <1>0, <1>4 DEF ApplyId
<1>5. CASE ReportAll(c)
  BY <1>0, <1>5 DEF ReportAll
<1>6. CASE ReportExceptions(c)
  <2>1. PICK is \in SUBSET Tasks :
          call' = [call EXCEPT ![c].pc = "list", ![c].ids = is]
    BY <1>0, <1>6 DEF ReportExceptions
  <2> QED  BY <1>0, <2>1
<1>7. CASE Answer(c)
  BY <1>0, <1>1, <1>7 DEF Answer
<1> QED  BY <1>2, <1>3, <1>4, <1>5, <1>6, <1>7

(* What a step does to the filter it does to the list of muted tasks.       *)
LEMMA FilterStep ==
  ASSUME ChannelInv, ChannelNext
  PROVE  /\ filter' \in [all : BOOLEAN, except : SUBSET Tasks]
         /\ muted' \subseteq Tasks
         /\ FilterCorrect'
<1>0. /\ call \in [Calls -> [pc : {"idle", "ids", "report", "list"},
                              tool : {"mute", "unmute", "muted"},
                              ids : SUBSET Tasks, rep : BOOLEAN, alone : BOOLEAN]]
      /\ filter \in [all : BOOLEAN, except : SUBSET Tasks]
      /\ muted \subseteq Tasks
      /\ \A id \in Tasks : Muted(id) <=> id \in muted
  BY DEF ChannelInv, ChannelTypeOK, FilterCorrect
<1>1. PICK c \in Calls :
        \/ \E tool \in {"mute", "unmute", "muted"}, all \in BOOLEAN,
              ids \in SUBSET Tasks : CallTool(c, tool, all, ids)
        \/ ApplyId(c) \/ ReportAll(c) \/ ReportExceptions(c) \/ Answer(c)
  BY DEF ChannelNext
<1>2. CASE UNCHANGED <<filter, muted>>
  BY <1>0, <1>2 DEF FilterCorrect, Muted
<1>3. CASE MuteAll /\ muted' = Tasks
  BY <1>3 DEF MuteAll, FilterCorrect, Muted
<1>4. CASE Clear /\ muted' = {}
  BY <1>4 DEF Clear, FilterCorrect, Muted
<1>5. ASSUME NEW tool \in {"mute", "unmute", "muted"}, NEW all \in BOOLEAN,
             NEW ids \in SUBSET Tasks, CallTool(c, tool, all, ids)
      PROVE  \/ UNCHANGED <<filter, muted>>
             \/ MuteAll /\ muted' = Tasks
             \/ Clear /\ muted' = {}
  BY <1>5 DEF CallTool
<1>6. CASE ApplyId(c)
  <2>1. PICK id \in call[c].ids :
          IF call[c].tool = "mute"
          THEN Mute(id) /\ muted' = muted \cup {id}
          ELSE Unmute(id) /\ muted' = muted \ {id}
    BY <1>6 DEF ApplyId
  <2>2. id \in Tasks
    BY <1>0, <2>1
  <2>3. CASE Mute(id) /\ muted' = muted \cup {id}
    BY <1>0, <2>2, <2>3 DEF Mute, FilterCorrect, Muted
  <2>4. CASE Unmute(id) /\ muted' = muted \ {id}
    BY <1>0, <2>2, <2>4 DEF Unmute, FilterCorrect, Muted
  <2> QED  BY <2>1, <2>3, <2>4
<1>7. CASE ReportAll(c) \/ ReportExceptions(c) \/ Answer(c)
  BY <1>2, <1>7 DEF ReportAll, ReportExceptions, Answer
<1> QED  BY <1>1, <1>2, <1>3, <1>4, <1>5, <1>6, <1>7

(* Whatever calls overlap, the filter drops the notifications of exactly    *)
(* the tasks that were muted last (taskfilter.go).                          *)
THEOREM FilterTheorem == ChannelSpec => []FilterCorrect
<1>1. ChannelInit => ChannelInv
  BY DEF ChannelInit, ChannelInv, ChannelTypeOK, FilterCorrect, Muted, NoCall
<1>2. ChannelInv /\ [ChannelNext]_channelVars => ChannelInv'
  <2> SUFFICES ASSUME ChannelInv, [ChannelNext]_channelVars PROVE ChannelInv'
    OBVIOUS
  <2>1. CASE ChannelNext
    BY <2>1, CallTyped, FilterStep DEF ChannelInv, ChannelTypeOK
  <2>2. CASE UNCHANGED channelVars
    BY <2>2 DEF ChannelInv, ChannelTypeOK, FilterCorrect, Muted, channelVars
  <2> QED  BY <2>1, <2>2
<1>3. ChannelInv => FilterCorrect
  BY DEF ChannelInv
<1> QED  BY <1>1, <1>2, <1>3, PTL DEF ChannelSpec
(* A call that is alone has no other beside it, so what it reported first   *)
(* still holds when it reads the exceptions.                                *)
SoleInv ==
  /\ \A c, d \in Calls : Busy(c) /\ call[c].alone /\ Busy(d) => c = d
  /\ \A c \in Calls : call[c].pc = "report" /\ call[c].alone => call[c].rep = filter.all

(* The next step of a call keeps it.                                        *)
LEMMA SoleStep ==
  ASSUME ChannelTypeOK, FilterCorrect, SoleInv, SoleReportTruthful, ChannelNext
  PROVE  SoleInv' /\ SoleReportTruthful'
<1> DEFINE CallRec == [pc : {"idle", "ids", "report", "list"},
                       tool : {"mute", "unmute", "muted"},
                       ids : SUBSET Tasks, rep : BOOLEAN, alone : BOOLEAN]
<1>0. /\ call \in [Calls -> CallRec] /\ muted \subseteq Tasks
      /\ filter \in [all : BOOLEAN, except : SUBSET Tasks]
  BY DEF ChannelTypeOK
<1>1. PICK c \in Calls :
        \/ \E tool \in {"mute", "unmute", "muted"}, all \in BOOLEAN,
              ids \in SUBSET Tasks : CallTool(c, tool, all, ids)
        \/ ApplyId(c) \/ ReportAll(c) \/ ReportExceptions(c) \/ Answer(c)
  BY DEF ChannelNext
<1>2. ASSUME NEW tool \in {"mute", "unmute", "muted"}, NEW all \in BOOLEAN,
             NEW ids \in SUBSET Tasks, CallTool(c, tool, all, ids)
      PROVE  SoleInv' /\ SoleReportTruthful'
  <2>1. /\ call'[c].pc = "ids"
        /\ call'[c].alone => \A e \in Calls : ~Busy(e)
        /\ ~Busy(c)
    <3>1. call[c] = NoCall
      BY <1>2 DEF CallTool
    <3>2. call'[c] = [NoCall EXCEPT !.pc = "ids", !.tool = tool, !.ids = ids,
                                    !.alone = ~\E e \in Calls : Busy(e)]
      BY <1>2 DEF CallTool
    <3>3. call'[c].pc = "ids" /\ call'[c].alone = ~\E e \in Calls : Busy(e)
      BY <3>2 DEF NoCall
    <3>4. call'[c].alone => \A e \in Calls : ~Busy(e)
      BY <3>3, Zenon
    <3>5. ~Busy(c)
      BY <3>1 DEF NoCall, Busy
    <3> QED  BY <3>3, <3>4, <3>5
  <2>2. \A d \in Calls \ {c} : /\ call'[d].pc = call[d].pc
                               /\ call'[d].alone => ~Busy(d)
    BY <1>0, <1>2 DEF CallTool, Busy
  <2> QED  BY <2>1, <2>2 DEF SoleInv, SoleReportTruthful, Busy
<1>3. CASE ApplyId(c)
  <2>1. /\ Busy(c) /\ call'[c].pc = "ids" /\ call'[c].alone = call[c].alone
        /\ \A d \in Calls \ {c} : call'[d] = call[d]
    BY <1>0, <1>3 DEF ApplyId, Busy
  <2>2. \A d \in Calls \ {c} : ~(Busy(d) /\ call[d].alone)
    BY <2>1 DEF SoleInv
  <2> QED  BY <2>1, <2>2 DEF SoleInv, SoleReportTruthful, Busy
<1>4. CASE ReportAll(c)
  <2>1. /\ Busy(c) /\ call'[c].pc = "report" /\ call'[c].alone = call[c].alone
        /\ call'[c].rep = filter.all
        /\ \A d \in Calls \ {c} : call'[d] = call[d]
        /\ UNCHANGED <<filter, muted>>
    BY <1>0, <1>4 DEF ReportAll, Busy
  <2> QED  BY <2>1 DEF SoleInv, SoleReportTruthful, Busy
<1>5. CASE ReportExceptions(c)
  <2>1. /\ call[c].pc = "report" /\ Busy(c)
        /\ call'[c].pc = "list" /\ call'[c].alone = call[c].alone
        /\ call'[c].ids = IF call[c].rep THEN Tasks \ filter.except ELSE filter.except
        /\ \A d \in Calls \ {c} : call'[d] = call[d]
        /\ UNCHANGED <<filter, muted>>
    BY <1>0, <1>5 DEF ReportExceptions, Busy
  <2>2. muted = IF filter.all THEN Tasks \ filter.except ELSE filter.except
    BY <1>0 DEF FilterCorrect, Muted
  <2>3. call[c].alone => call[c].rep = filter.all
    BY <2>1 DEF SoleInv
  <2>4. call[c].alone => call'[c].ids = muted
    BY <2>1, <2>2, <2>3
  <2> QED  BY <2>1, <2>4 DEF SoleInv, SoleReportTruthful, Busy
<1>6. CASE Answer(c)
  <2>1. /\ call'[c].pc = "idle"
        /\ \A d \in Calls \ {c} : call'[d] = call[d]
        /\ UNCHANGED <<filter, muted>>
    BY <1>0, <1>6 DEF Answer, NoCall
  <2> QED  BY <2>1 DEF SoleInv, SoleReportTruthful, Busy
<1> QED  BY <1>1, <1>2, <1>3, <1>4, <1>5, <1>6

(* The answer of a tool call that overlapped no other one names exactly the *)
(* tasks that are muted, though mutedResult reads the filter twice          *)
(* (mcpbridge.go mutedResult).                                              *)
THEOREM SoleReportTheorem == ChannelSpec => []SoleReportTruthful
<1> DEFINE Inv == ChannelTypeOK /\ FilterCorrect /\ SoleInv /\ SoleReportTruthful
<1>1. ChannelInit => Inv
  <2> SUFFICES ASSUME ChannelInit PROVE Inv
    OBVIOUS
  <2>1. ChannelTypeOK /\ FilterCorrect
    BY DEF ChannelInit, ChannelTypeOK, FilterCorrect, Muted, NoCall
  <2>2. \A c \in Calls : call[c].pc = "idle"
    BY DEF ChannelInit, NoCall
  <2> QED  BY <2>1, <2>2 DEF SoleInv, SoleReportTruthful, Busy
<1>2. Inv /\ [ChannelNext]_channelVars => Inv'
  <2> SUFFICES ASSUME Inv, [ChannelNext]_channelVars PROVE Inv'
    OBVIOUS
  <2>1. CASE ChannelNext
    BY <2>1, CallTyped, FilterStep, SoleStep DEF ChannelInv, ChannelTypeOK
  <2>2. CASE UNCHANGED channelVars
    BY <2>2 DEF ChannelTypeOK, FilterCorrect, Muted, channelVars, SoleInv,
                SoleReportTruthful, Busy
  <2> QED  BY <2>1, <2>2
<1> QED  BY <1>1, <1>2, PTL DEF ChannelSpec

-----------------------------------------------------------------------------
(* Task tokens.  A token is what CreateTaskToken made: its wire form parses *)
(* back to the scopes of its own task.  A request in flight was checked     *)
(* against those.                                                           *)

Scoped(s, t) ==
  \/ /\ s.op \in {OpTaskRead, OpTaskWrite}
     /\ s.preds = {WithTaskID(t), WithTaskArchived(FALSE)}
  \/ s.op = OpGitHubTokenCreate /\ s.preds = {}

AccessInv ==
  /\ \A k \in callers : k.task # NoTask => \A s \in Held(k) : Scoped(s, k.task)
  /\ \A p \in pending : p[1].task # NoTask => p[2] = p[1].task
  /\ \A e \in last : e.by.task # NoTask => e.task = e.by.task /\ (e.locked => ~e.late)

(* The wire form is read back as it was written.                            *)
LEMMA RoundTrip ==
  ASSUME NEW op, NEW preds
  PROVE  Parse(String(NewScope(op, preds))) = NewScope(op, preds)
<1>1. CASE preds = {}
  BY <1>1 DEF Parse, String, NewScope
<1>2. CASE preds # {}
  BY <1>2 DEF Parse, String, NewScope
<1> QED  BY <1>1, <1>2

(* Whatever capabilities are asked for, a task token is for its task only.  *)
LEMMA MintedScoped ==
  ASSUME NEW t, NEW caps, NEW k, k.wire = {String(s) : s \in TaskScopes(t, caps)}
  PROVE  \A s \in Held(k) : Scoped(s, t)
<1> SUFFICES ASSUME NEW s \in Held(k) PROVE Scoped(s, t)
  OBVIOUS
<1>1. PICK w \in k.wire : s = Parse(w)
  BY DEF Held, ParseScopes
<1>2. PICK r \in TaskScopes(t, caps) : w = String(r)
  BY <1>1
<1>3. \/ \E op \in {OpTaskRead, OpTaskWrite} :
           r = NewScope(op, {WithTaskID(t), WithTaskArchived(FALSE)})
      \/ r = NewScope(OpGitHubTokenCreate, {})
  BY DEF TaskScopes
<1>4. s = r
  BY <1>1, <1>2, <1>3, RoundTrip
<1>5. CASE r = NewScope(OpGitHubTokenCreate, {})
  BY <1>4, <1>5 DEF Scoped, NewScope
<1>6. ASSUME NEW op \in {OpTaskRead, OpTaskWrite},
             r = NewScope(op, {WithTaskID(t), WithTaskArchived(FALSE)})
      PROVE  Scoped(s, t)
  <2>1. s.op = op /\ s.preds = {WithTaskID(t), WithTaskArchived(FALSE)}
    BY <1>4, <1>6 DEF NewScope
  <2> QED  BY <2>1 DEF Scoped
<1> QED  BY <1>3, <1>5, <1>6

(* What such scopes allow.                                                  *)
LEMMA ScopedAllows ==
  ASSUME NEW k, NEW t, \A s \in Held(k) : Scoped(s, t)
  PROVE  /\ \A u, op : op \in {OpTaskRead, OpTaskWrite} /\ Permitted(k, u, op)
                        => u = t /\ u \notin archived
         /\ ~Allow(Held(k), OpTaskTokenCreate, {})
         /\ ~Allow(Held(k), OpTaskRead, {})
         /\ \A attrs : ~Allow(Held(k), OpTaskCreate, attrs)
<1> USE DEF Allow, allow, allowOp, OpTaskRead, OpTaskWrite, OpTaskCreate,
            OpTaskTokenCreate, OpGitHubTokenCreate
<1>1. ASSUME NEW u, NEW op \in {OpTaskRead, OpTaskWrite}, Permitted(k, u, op)
      PROVE  u = t /\ u \notin archived
  <2>1. PICK s \in Held(k) : allowOp(s, op) /\ s.preds \subseteq ScopeAttr(u)
    BY <1>1 DEF Permitted
  <2>2. s.op # OpGitHubTokenCreate
    BY <2>1
  <2>3. s.preds = {WithTaskID(t), WithTaskArchived(FALSE)}
    BY <2>2 DEF Scoped
  <2>4. /\ WithTaskID(t) \in {WithTaskID(u), WithTaskArchived(u \in archived)}
        /\ WithTaskArchived(FALSE) \in {WithTaskID(u), WithTaskArchived(u \in archived)}
    BY <2>1, <2>3 DEF ScopeAttr
  <2>5. u = t
    BY <2>4 DEF WithTaskID, WithTaskArchived
  <2>6. u \notin archived
    BY <2>4 DEF WithTaskID, WithTaskArchived
  <2> QED  BY <2>5, <2>6
<1>2. ASSUME NEW s \in Held(k), NEW op \in {OpTaskTokenCreate, OpTaskCreate}
      PROVE  ~allowOp(s, op)
  <2>1. s.op \in {OpTaskRead, OpTaskWrite, OpGitHubTokenCreate}
    BY DEF Scoped
  <2> QED  BY <2>1
<1>3. ASSUME NEW s \in Held(k) PROVE ~allow(s, OpTaskRead, {})
  <2>1. CASE s.op = OpGitHubTokenCreate
    BY <2>1
  <2>2. CASE s.preds = {WithTaskID(t), WithTaskArchived(FALSE)}
    BY <2>2
  <2> QED  BY <2>1, <2>2 DEF Scoped
<1>4. /\ ~Allow(Held(k), OpTaskTokenCreate, {})
      /\ ~Allow(Held(k), OpTaskRead, {})
      /\ \A attrs : ~Allow(Held(k), OpTaskCreate, attrs)
  BY <1>2, <1>3
<1> QED  BY <1>1, <1>4

(* The invariant holds initially and every request, check and effect keeps it.*)
LEMMA AccessInvInductive ==
  /\ AccessInit => AccessInv
  /\ AccessInv /\ [AccessNext]_accessVars => AccessInv'
<1>1. AccessInit => AccessInv
  BY DEF AccessInit, AccessInv, User
<1>2. ASSUME AccessInv, [AccessNext]_accessVars PROVE AccessInv'
  <2>0. \A k \in callers : k.task # NoTask =>
           /\ \A u, op : op \in {OpTaskRead, OpTaskWrite} /\ Permitted(k, u, op)
                          => u = k.task /\ u \notin archived
           /\ ~Allow(Held(k), OpTaskRead, {})
           /\ \A attrs : ~Allow(Held(k), OpTaskCreate, attrs)
    BY <1>2, ScopedAllows DEF AccessInv
  <2>1. ASSUME NEW k \in callers, NEW t \in TaskIDs,
               NEW caps \in SUBSET {"github_token", "other"}, CreateTaskToken(k, t, caps)
        PROVE  AccessInv'
    <3> DEFINE new == [task |-> t, org |-> k.org,
                       wire |-> {String(s) : s \in TaskScopes(t, caps)}]
    <3>1. callers' = callers \cup {new} /\ pending' = pending /\ last' = {}
      BY <2>1 DEF CreateTaskToken
    <3>2. \A s \in Held(new) : Scoped(s, new.task)
      BY MintedScoped
    <3> QED  BY <1>2, <3>1, <3>2 DEF AccessInv
  <2>2. ASSUME NEW k \in callers, NEW t \in TaskIDs, NEW flag \in BOOLEAN,
               ArchiveAs(k, t, flag)
        PROVE  AccessInv'
    <3>1. k.task # NoTask => t = k.task /\ t \notin archived
      BY <2>0, <2>2 DEF ArchiveAs
    <3>2. /\ last' = {Effect(k, t, OpTaskWrite, TRUE, t \in archived)}
          /\ callers' = callers /\ pending' = pending
      BY <2>2 DEF ArchiveAs
    <3>3. PICK late : late = (t \in archived)
      OBVIOUS
    <3>4. last' = {Effect(k, t, OpTaskWrite, TRUE, late)}
      BY <3>2, <3>3, Zenon
    <3>5. \A e \in last' : e.by = k /\ e.task = t /\ e.late = late
      BY <3>4 DEF Effect
    <3>6. k.task # NoTask => \A e \in last' : ~e.late
      BY <3>1, <3>3, <3>5, Zenon
    <3> QED  BY <1>2, <3>1, <3>2, <3>5, <3>6 DEF AccessInv
  <2>3. ASSUME NEW k \in callers, NEW t \in TaskIDs,
               NEW op \in {OpTaskRead, OpTaskWrite}, LockedRequest(k, t, op)
        PROVE  AccessInv'
    <3>1. k.task # NoTask => t = k.task /\ t \notin archived
      BY <2>0, <2>3 DEF LockedRequest
    <3>2. /\ last' = {Effect(k, t, op, TRUE, t \in archived)}
          /\ callers' = callers /\ pending' = pending
      BY <2>3 DEF LockedRequest
    <3>3. PICK late : late = (t \in archived)
      OBVIOUS
    <3>4. last' = {Effect(k, t, op, TRUE, late)}
      BY <3>2, <3>3, Zenon
    <3>5. \A e \in last' : e.by = k /\ e.task = t /\ e.late = late
      BY <3>4 DEF Effect
    <3>6. k.task # NoTask => \A e \in last' : ~e.late
      BY <3>1, <3>3, <3>5, Zenon
    <3> QED  BY <1>2, <3>1, <3>2, <3>5, <3>6 DEF AccessInv
  <2>4. ASSUME NEW k \in callers, NEW t \in TaskIDs,
               NEW op \in {OpTaskRead, OpTaskWrite}, CheckRequest(k, t, op)
        PROVE  AccessInv'
    BY <1>2, <2>0, <2>4 DEF CheckRequest, AccessInv
  <2>5. ASSUME NEW p \in pending, Act(p) PROVE AccessInv'
    BY <1>2, <2>5 DEF Act, Effect, AccessInv
  <2>6. ASSUME NEW k \in callers, ListTasks(k) PROVE AccessInv'
    BY <1>2, <2>0, <2>6 DEF ListTasks, Effect, AccessInv
  <2>7. ASSUME NEW k \in callers, CreateAs(k) PROVE AccessInv'
    BY <1>2, <2>0, <2>7 DEF CreateAs, Effect, AccessInv
  <2>8. CASE UNCHANGED accessVars
    BY <1>2, <2>8 DEF AccessInv, accessVars
  <2> QED
    BY <1>2, <2>1, <2>2, <2>3, <2>4, <2>5, <2>6, <2>7, <2>8 DEF AccessNext
<1> QED  BY <1>1, <1>2

(* For any tasks, orgs, callers and capabilities: a task token touches its  *)
(* own task only, nothing of it once the task is archived where the row is  *)
(* locked, and it mints no token (agentauth.Scopes, Task.ScopeAttr).        *)
THEOREM ArchiveRevokesTheorem == AccessSpec => []ArchiveRevokes
<1>1. AccessInv => ArchiveRevokes
  BY ScopedAllows DEF AccessInv, ArchiveRevokes
<1> QED  BY <1>1, AccessInvInductive, PTL DEF AccessSpec
-----------------------------------------------------------------------------
(* Notifications.  A connection is a record; the one the client reads is    *)
(* open on the server's side too, until the client lets go of it.           *)
Conn == [st : {"none", "request", "subscribed", "ready", "closed"},
         buf : Seq(Audience), wire : Seq({"ready", "change"})]

ConnsTyped == conn \in [Streams -> Conn]
BuffersFit ==
  \A i \in Streams :
    /\ Len(conn[i].buf) <= BufSize
    /\ conn[i].st \in {"none", "request", "closed"} => conn[i].buf = <<>>
ClientOpen ==
  client # 0 => client \in Streams /\ conn[client].st \in {"request", "subscribed", "ready"}
CountsTyped ==
  /\ changes \in 0..MaxChanges
  /\ pub \in [Audience -> 0..MaxChanges]
  /\ pub["mine"] + pub["other"] <= changes
FlagsTyped ==
  /\ client \in 0..(MaxDrops + 1) /\ loop \in {"wait", "list"}
  /\ wake \in BOOLEAN /\ unseen \in BOOLEAN /\ missed \in BOOLEAN

NotifyInv ==
  /\ ConnsTyped /\ BuffersFit /\ ClientOpen
  /\ CountsTyped /\ FlagsTyped /\ WakeOnItsWay

(* One connection of the table changes, well typed and within its buffer.   *)
LEMMA OneConn ==
  ASSUME ConnsTyped, BuffersFit, NEW i \in Streams, NEW c \in Conn,
         Len(c.buf) <= BufSize,
         c.st \in {"none", "request", "closed"} => c.buf = <<>>,
         conn' = [conn EXCEPT ![i] = c]
  PROVE  ConnsTyped' /\ BuffersFit' /\ conn'[i] = c
         /\ \A j \in Streams : j # i => conn'[j] = conn[j]
  BY DEF ConnsTyped, BuffersFit

(* A notification that is taken from the head was the head, or is still in  *)
(* the rest.                                                                *)
LEMMA HeadOrTail ==
  ASSUME NEW S, NEW s \in Seq(S), s # <<>>, NEW x \in ToSet(s), x # Head(s)
  PROVE  x \in ToSet(Tail(s))
<1>1. PICK k \in 1..Len(s) : x = s[k]
  BY DEF ToSet
<1>2. k # 1
  BY <1>1
<1>3. k - 1 \in 1..Len(Tail(s)) /\ Tail(s)[k - 1] = x
  BY <1>1, <1>2
<1>4. Tail(s) \in Seq(S)
  OBVIOUS
<1>5. DOMAIN Tail(s) = 1..Len(Tail(s))
  BY <1>4
<1>6. Tail(s)[k - 1] \in ToSet(Tail(s))
  BY <1>3, <1>5, Zenon DEF ToSet
<1> QED  BY <1>3, <1>6, Zenon

(* Taking the head leaves a sequence that is no longer.                     *)
LEMMA TailFits ==
  ASSUME NEW S, NEW s \in Seq(S), s # <<>>
  PROVE  Tail(s) \in Seq(S) /\ Len(Tail(s)) <= Len(s)
<1>1. Tail(s) \in Seq(S) /\ Len(Tail(s)) = Len(s) - 1
  OBVIOUS
<1>2. Len(s) \in Nat
  OBVIOUS
<1> QED  BY <1>1, <1>2

(* Appending leaves a sequence that is not empty.                           *)
LEMMA AppendFits ==
  ASSUME NEW S, NEW s \in Seq(S), NEW e \in S
  PROVE  Append(s, e) \in Seq(S) /\ Append(s, e) # <<>>
<1>1. Append(s, e) \in Seq(S)
  OBVIOUS
<1>2. Len(Append(s, e)) = Len(s) + 1 /\ Len(s) \in Nat
  OBVIOUS
<1>3. Len(<<>>) = 0
  OBVIOUS
<1>4. Append(s, e) # <<>>
  BY <1>2, <1>3
<1> QED  BY <1>1, <1>4

(* What is appended is there, and so is what was there before.              *)
LEMMA InAppend ==
  ASSUME NEW S, NEW s \in Seq(S), NEW e \in S
  PROVE  e \in ToSet(Append(s, e)) /\ ToSet(s) \subseteq ToSet(Append(s, e))
<1>1. Len(Append(s, e)) = Len(s) + 1 /\ Append(s, e)[Len(s) + 1] = e
      /\ \A k \in 1..Len(s) : Append(s, e)[k] = s[k]
  OBVIOUS
<1>2. Len(s) \in Nat
  OBVIOUS
<1>3. DOMAIN s = 1..Len(s) /\ DOMAIN Append(s, e) = 1..(Len(s) + 1)
  BY <1>1
<1> QED  BY <1>1, <1>2, <1>3 DEF ToSet

(* The server's side of the connections.                                    *)
LEMMA StreamSteps ==
  ASSUME NotifyInv, NEW i \in Streams, ServeStream(i) \/ Unsubscribe(i)
  PROVE  NotifyInv'
<1> USE NotifyAssumption
<1>0. conn[i] \in Conn
  BY DEF NotifyInv, ConnsTyped
<1>1. UNCHANGED <<changes, pub, client, wake, loop, unseen, missed>>
  BY DEF ServeStream, Subscribe, SendReady, SendChange, Unsubscribe
<1>2. CountsTyped' /\ FlagsTyped'
  BY <1>1 DEF NotifyInv, CountsTyped, FlagsTyped
<1>3. CASE Subscribe(i)
  <2>1. DEFINE c == [conn[i] EXCEPT !.st = "subscribed"]
  <2>2. conn' = [conn EXCEPT ![i] = c] /\ c \in Conn /\ c.buf = conn[i].buf /\ c.st = "subscribed"
    BY <1>0, <1>3 DEF Subscribe, Conn
  <2>3. ConnsTyped' /\ BuffersFit' /\ conn'[i] = c /\ \A j \in Streams : j # i => conn'[j] = conn[j]
    BY <2>2, OneConn DEF NotifyInv, BuffersFit
  <2>4. ClientOpen'
    BY <1>1, <2>2, <2>3 DEF NotifyInv, ClientOpen
  <2>5. WakeOnItsWay'
    BY <1>1, <2>2, <2>3 DEF NotifyInv, WakeOnItsWay, ClientOpen
  <2> QED  BY <1>2, <2>3, <2>4, <2>5 DEF NotifyInv
<1>4. CASE SendReady(i)
  <2>1. DEFINE c == [conn[i] EXCEPT !.st = "ready", !.wire = Append(conn[i].wire, "ready")]
  <2>2. /\ conn' = [conn EXCEPT ![i] = c] /\ c \in Conn /\ c.buf = conn[i].buf
        /\ c.st = "ready" /\ c.wire # <<>>
    <3>1. /\ Append(conn[i].wire, "ready") \in Seq({"ready", "change"})
          /\ Append(conn[i].wire, "ready") # <<>>
      BY <1>0 DEF Conn
    <3>2. conn' = [conn EXCEPT ![i] = c]
      BY <1>4 DEF SendReady
    <3> QED  BY <1>0, <3>1, <3>2 DEF Conn
  <2>3. ConnsTyped' /\ BuffersFit' /\ conn'[i] = c /\ \A j \in Streams : j # i => conn'[j] = conn[j]
    BY <2>2, OneConn DEF NotifyInv, BuffersFit
  <2>4. ClientOpen'
    BY <1>1, <2>2, <2>3 DEF NotifyInv, ClientOpen
  <2>5. WakeOnItsWay'
    BY <1>1, <2>2, <2>3 DEF NotifyInv, WakeOnItsWay, ClientOpen
  <2> QED  BY <1>2, <2>3, <2>4, <2>5 DEF NotifyInv
<1>5. CASE SendChange(i)
  <2>1. DEFINE c == [conn[i] EXCEPT !.buf = Tail(conn[i].buf),
                       !.wire = IF Head(conn[i].buf) = "mine" THEN Append(conn[i].wire, "change")
                                                              ELSE conn[i].wire]
  <2>2. conn' = [conn EXCEPT ![i] = c] /\ conn[i].st = "ready" /\ conn[i].buf # <<>>
    BY <1>0, <1>5 DEF SendChange, Conn
  <2>3. /\ Tail(conn[i].buf) \in Seq(Audience) /\ Len(Tail(conn[i].buf)) <= Len(conn[i].buf)
        /\ Append(conn[i].wire, "change") \in Seq({"ready", "change"})
        /\ Append(conn[i].wire, "change") # <<>>
    <3>1. conn[i].buf \in Seq(Audience) /\ conn[i].wire \in Seq({"ready", "change"})
      BY <1>0 DEF Conn
    <3> QED  BY <2>2, <3>1, TailFits, AppendFits
  <2>4. c \in Conn /\ c.st = "ready" /\ c.buf = Tail(conn[i].buf)
    BY <1>0, <2>2, <2>3 DEF Conn
  <2>5. Len(conn[i].buf) \in Nat /\ Len(c.buf) \in Nat /\ Len(conn[i].buf) <= BufSize
    BY <1>0, <2>3, <2>4 DEF NotifyInv, BuffersFit, Conn
  <2>6. ConnsTyped' /\ BuffersFit' /\ conn'[i] = c /\ \A j \in Streams : j # i => conn'[j] = conn[j]
    <3>1. Len(c.buf) <= BufSize
      BY <2>3, <2>4, <2>5
    <3> QED  BY <2>2, <2>4, <3>1, OneConn DEF NotifyInv
  <2>7. ClientOpen'
    BY <1>1, <2>4, <2>6 DEF NotifyInv, ClientOpen
  <2>8. "mine" \in ToSet(conn[i].buf) =>
          "mine" \in ToSet(c.buf) \/ c.wire # <<>>
    BY <1>0, <2>2, <2>3, <2>4, HeadOrTail DEF Conn
  <2>9. conn[i].wire # <<>> => c.wire # <<>>
    BY <2>3
  <2>10. WakeOnItsWay'
    <3>1. CASE client = i
      BY <1>1, <2>2, <2>6, <2>8, <2>9, <3>1 DEF NotifyInv, WakeOnItsWay
    <3>2. CASE client # i
      BY <1>1, <2>6, <3>2 DEF NotifyInv, WakeOnItsWay, ClientOpen
    <3> QED  BY <3>1, <3>2
  <2> QED  BY <1>2, <2>6, <2>7, <2>10 DEF NotifyInv
<1>6. CASE Unsubscribe(i)
  <2>1. DEFINE c == [st |-> "closed", buf |-> <<>>, wire |-> <<>>]
  <2>2. conn' = [conn EXCEPT ![i] = c] /\ client # i /\ c \in Conn /\ Len(c.buf) = 0 /\ c.buf = <<>>
    BY <1>6 DEF Unsubscribe, Conn
  <2>3. ConnsTyped' /\ BuffersFit' /\ \A j \in Streams : j # i => conn'[j] = conn[j]
    <3>1. Len(c.buf) <= BufSize
      BY <2>2
    <3>2. ConnsTyped /\ BuffersFit
      BY DEF NotifyInv
    <3> HIDE DEF c
    <3> QED  BY <2>2, <3>1, <3>2, OneConn
  <2>4. ClientOpen' /\ WakeOnItsWay'
    BY <1>1, <2>2, <2>3 DEF NotifyInv, ClientOpen, WakeOnItsWay
  <2> QED  BY <1>2, <2>3, <2>4 DEF NotifyInv
<1> QED  BY <1>3, <1>4, <1>5, <1>6 DEF ServeStream

(* A publish reaches every registered connection, or is missed.             *)
LEMMA PublishStep ==
  ASSUME NotifyInv, NEW a \in Audience, Publish(a)
  PROVE  NotifyInv'
<1> USE NotifyAssumption
<1>1. UNCHANGED <<changes, client, wake, loop, unseen>>
  BY DEF Publish
<1>2. pub' = [pub EXCEPT ![a] = @ - 1] /\ pub[a] > 0
  BY DEF Publish
<1>3. CountsTyped'
  BY <1>1, <1>2 DEF NotifyInv, CountsTyped, Audience
<1>4. FlagsTyped'
  <2>1. missed' \in BOOLEAN
    BY Zenon DEF Publish
  <2> QED  BY <1>1, <2>1 DEF NotifyInv, FlagsTyped
<1>5. ASSUME NEW i \in Streams
      PROVE  /\ Registered(i) /\ Len(conn[i].buf) < BufSize =>
                  conn'[i] = [conn[i] EXCEPT !.buf = Append(conn[i].buf, a)]
             /\ ~(Registered(i) /\ Len(conn[i].buf) < BufSize) => conn'[i] = conn[i]
  BY DEF Publish
<1>6. ASSUME NEW i \in Streams
      PROVE  /\ conn'[i] \in Conn /\ conn'[i].st = conn[i].st /\ conn'[i].wire = conn[i].wire
             /\ Len(conn'[i].buf) <= BufSize
             /\ conn'[i].st \in {"none", "request", "closed"} => conn'[i].buf = <<>>
             /\ ToSet(conn[i].buf) \subseteq ToSet(conn'[i].buf)
             /\ Registered(i) /\ Len(conn[i].buf) < BufSize => a \in ToSet(conn'[i].buf)
  <2>1. conn[i] \in Conn /\ Len(conn[i].buf) <= BufSize /\ Len(conn[i].buf) \in Nat
        /\ (conn[i].st \in {"none", "request", "closed"} => conn[i].buf = <<>>)
    BY DEF NotifyInv, ConnsTyped, BuffersFit, Conn
  <2>2. CASE Registered(i) /\ Len(conn[i].buf) < BufSize
    <3>1. conn'[i] = [conn[i] EXCEPT !.buf = Append(conn[i].buf, a)]
      BY <1>5, <2>2
    <3>2. Append(conn[i].buf, a) \in Seq(Audience) /\ Len(Append(conn[i].buf, a)) = Len(conn[i].buf) + 1
      BY <2>1 DEF Conn
    <3>3. /\ conn'[i] \in Conn /\ conn'[i].buf = Append(conn[i].buf, a)
          /\ conn'[i].st = conn[i].st /\ conn'[i].wire = conn[i].wire
      BY <2>1, <3>1, <3>2 DEF Conn
    <3>4. a \in ToSet(conn'[i].buf) /\ ToSet(conn[i].buf) \subseteq ToSet(conn'[i].buf)
      BY <2>1, <3>3, InAppend DEF Conn
    <3> QED  BY <2>1, <2>2, <3>2, <3>3, <3>4 DEF Registered
  <2>3. CASE ~(Registered(i) /\ Len(conn[i].buf) < BufSize)
    BY <1>5, <2>1, <2>3
  <2> QED  BY <2>2, <2>3
<1>7. ConnsTyped'
  <2>1. conn' = [i \in Streams |-> conn'[i]]
    BY DEF Publish
  <2> QED  BY <1>6, <2>1 DEF ConnsTyped
<1>8. BuffersFit' /\ ClientOpen'
  BY <1>1, <1>6 DEF NotifyInv, BuffersFit, ClientOpen
<1>9. WakeOnItsWay'
  <2> SUFFICES ASSUME unseen', ~missed', ~wake', loop' # "list", client' # 0,
                      conn'[client'].st \notin {"request", "subscribed"},
                      conn'[client'].wire = <<>>, "mine" \notin ToSet(conn'[client'].buf)
               PROVE  pub["mine"]' > 0
    BY Zenon DEF WakeOnItsWay
  <2>1. client \in Streams /\ conn[client].st = "ready" /\ conn[client].wire = <<>>
        /\ "mine" \notin ToSet(conn[client].buf)
    BY <1>1, <1>6 DEF NotifyInv, ClientOpen
  <2>2. unseen /\ ~wake /\ loop # "list" /\ client # 0
    BY <1>1
  <2>3. ~missed /\ ~(a = "mine" /\ Len(conn[client].buf) = BufSize)
    BY <2>1 DEF Publish, Registered
  <2>4. pub["mine"] > 0
    BY <2>1, <2>2, <2>3 DEF NotifyInv, WakeOnItsWay
  <2>5. Len(conn[client].buf) <= BufSize /\ Len(conn[client].buf) \in Nat
    BY <2>1 DEF NotifyInv, BuffersFit, ConnsTyped, Conn
  <2>6. a # "mine"
    <3>1. ~(Registered(client) /\ Len(conn[client].buf) < BufSize /\ a = "mine")
      BY <1>1, <1>6, <2>1
    <3> QED  BY <2>1, <2>3, <2>5, <3>1 DEF Registered
  <2> QED  BY <1>2, <2>4, <2>6 DEF NotifyInv, CountsTyped, Audience
<1> QED  BY <1>3, <1>4, <1>7, <1>8, <1>9 DEF NotifyInv

(* The handlers' commits and the poll loop leave the connections alone.     *)
LEMMA LoopSteps ==
  ASSUME NotifyInv,
         (\E a \in Audience : Commit(a)) \/ TakeWake \/ Interval \/ ListRunnerTasks \/ ListFails
  PROVE  NotifyInv'
<1> USE NotifyAssumption
<1>1. UNCHANGED <<conn, client>>
  BY DEF Commit, TakeWake, Interval, ListRunnerTasks, ListFails
<1>2. ConnsTyped' /\ BuffersFit' /\ ClientOpen'
  BY <1>1 DEF NotifyInv, ConnsTyped, BuffersFit, ClientOpen
<1>3. ASSUME NEW a \in Audience, Commit(a) PROVE CountsTyped' /\ FlagsTyped' /\ WakeOnItsWay'
  <2>1. /\ changes < MaxChanges /\ changes' = changes + 1
        /\ pub' = [pub EXCEPT ![a] = pub[a] + 1] /\ UNCHANGED <<wake, loop, missed>>
    BY <1>3 DEF Commit
  <2>2. CountsTyped'
    BY <2>1 DEF NotifyInv, CountsTyped, Audience
  <2>3. unseen' \in BOOLEAN
    BY <1>3, Zenon DEF Commit
  <2>4. FlagsTyped'
    BY <1>1, <2>1, <2>3 DEF NotifyInv, FlagsTyped
  <2>5. CASE a = "mine"
    <3>1. pub'["mine"] = pub["mine"] + 1 /\ pub["mine"] \in Nat
      BY <2>1, <2>5 DEF NotifyInv, CountsTyped, Audience
    <3>2. pub'["mine"] > 0
      BY <3>1
    <3>3. WakeOnItsWay'
      BY <3>2 DEF WakeOnItsWay
    <3> QED  BY <2>2, <2>4, <3>3
  <2>6. CASE a # "mine"
    <3>1. unseen' = unseen
      BY <1>3, <2>6 DEF Commit, NotifyInv, FlagsTyped
    <3>2. pub["mine"]' = pub["mine"]
      BY <2>1, <2>6 DEF NotifyInv, CountsTyped
    <3> QED  BY <1>1, <2>1, <2>2, <2>4, <3>1, <3>2 DEF NotifyInv, WakeOnItsWay
  <2> QED  BY <2>2, <2>4, <2>5, <2>6
<1>4. CASE TakeWake \/ Interval
  <2>1. CountsTyped' /\ loop' = "list"
    BY <1>4 DEF TakeWake, Interval, NotifyInv, CountsTyped
  <2>2. FlagsTyped'
    BY <1>4 DEF TakeWake, Interval, NotifyInv, FlagsTyped
  <2> QED  BY <1>2, <2>1, <2>2 DEF NotifyInv, WakeOnItsWay
<1>5. CASE ListRunnerTasks
  <2>1. CountsTyped' /\ unseen' = FALSE
    BY <1>5 DEF ListRunnerTasks, NotifyInv, CountsTyped
  <2>2. FlagsTyped'
    BY <1>5 DEF ListRunnerTasks, NotifyInv, FlagsTyped
  <2> QED  BY <1>2, <2>1, <2>2 DEF NotifyInv, WakeOnItsWay
<1>6. CASE ListFails
  <2>1. /\ UNCHANGED <<changes, pub, client, wake, unseen>> /\ loop' = "wait"
        /\ missed' = (missed \/ unseen)
    BY <1>6 DEF ListFails
  <2>2. missed' \in BOOLEAN /\ ~(unseen' /\ ~missed')
    BY <2>1, Zenon
  <2>3. CountsTyped' /\ FlagsTyped'
    BY <2>1, <2>2 DEF NotifyInv, CountsTyped, FlagsTyped
  <2> QED  BY <1>2, <2>2, <2>3, Zenon DEF NotifyInv, WakeOnItsWay
<1> QED  BY <1>2, <1>3, <1>4, <1>5, <1>6 DEF NotifyInv

(* The client opens, loses and reads its connection.                        *)
LEMMA ClientSteps ==
  ASSUME NotifyInv, Connect \/ Disconnect \/ Read
  PROVE  NotifyInv'
<1> USE NotifyAssumption
<1>1. UNCHANGED <<changes, pub, loop, unseen, missed>>
  BY DEF Connect, Disconnect, Read
<1>2. CountsTyped'
  BY <1>1 DEF NotifyInv, CountsTyped
<1>3. CASE Connect
  <2>1. PICK i \in Streams :
          conn[i].st = "none" /\ client' = i /\ conn' = [conn EXCEPT ![i].st = "request"]
    BY <1>3 DEF Connect
  <2>2. DEFINE c == [conn[i] EXCEPT !.st = "request"]
  <2>3. conn[i] \in Conn /\ Len(conn[i].buf) <= BufSize /\ conn[i].buf = <<>>
    BY <2>1 DEF NotifyInv, ConnsTyped, BuffersFit
  <2>4. conn' = [conn EXCEPT ![i] = c] /\ c \in Conn /\ c.buf = conn[i].buf /\ c.st = "request"
    BY <2>1, <2>3 DEF Conn
  <2>5. ConnsTyped' /\ BuffersFit' /\ conn'[i] = c
    BY <2>3, <2>4, OneConn DEF NotifyInv
  <2>6. FlagsTyped'
    <3>1. i \in 0..(MaxDrops + 1) /\ wake' = wake
      BY <1>3 DEF Streams, Connect
    <3> QED  BY <1>1, <2>1, <3>1 DEF NotifyInv, FlagsTyped
  <2>7. ClientOpen' /\ WakeOnItsWay'
    BY <2>1, <2>4, <2>5 DEF ClientOpen, WakeOnItsWay
  <2> QED  BY <1>2, <2>5, <2>6, <2>7 DEF NotifyInv
<1>4. CASE Disconnect
  <2>1. client \in Streams /\ client' = 0 /\ conn' = [conn EXCEPT ![client].wire = <<>>] /\ wake' = wake
    BY <1>4 DEF Disconnect, Streams
  <2>2. DEFINE c == [conn[client] EXCEPT !.wire = <<>>]
  <2>3. conn[client] \in Conn /\ Len(conn[client].buf) <= BufSize
        /\ (conn[client].st \in {"none", "request", "closed"} => conn[client].buf = <<>>)
    BY <2>1 DEF NotifyInv, ConnsTyped, BuffersFit
  <2>4. /\ conn' = [conn EXCEPT ![client] = c] /\ c \in Conn
        /\ c.buf = conn[client].buf /\ c.st = conn[client].st
    <3>1. conn' = [conn EXCEPT ![client] = c]
      BY <2>1
    <3>2. <<>> \in Seq({"ready", "change"})
      OBVIOUS
    <3> QED  BY <2>3, <3>1, <3>2 DEF Conn
  <2>5. ConnsTyped' /\ BuffersFit'
    BY <2>1, <2>3, <2>4, OneConn DEF NotifyInv
  <2>6. FlagsTyped' /\ ClientOpen' /\ WakeOnItsWay'
    BY <1>1, <2>1 DEF NotifyInv, FlagsTyped, ClientOpen, WakeOnItsWay
  <2> QED  BY <1>2, <2>5, <2>6 DEF NotifyInv
<1>5. CASE Read
  <2>1. /\ client \in Streams /\ client' = client /\ wake' = TRUE
        /\ conn' = [conn EXCEPT ![client].wire = Tail(@)] /\ conn[client].wire # <<>>
    BY <1>5 DEF Read, NotifyInv, ClientOpen
  <2>2. DEFINE c == [conn[client] EXCEPT !.wire = Tail(conn[client].wire)]
  <2>3. conn[client] \in Conn /\ Len(conn[client].buf) <= BufSize
        /\ (conn[client].st \in {"none", "request", "closed"} => conn[client].buf = <<>>)
    BY <2>1 DEF NotifyInv, ConnsTyped, BuffersFit
  <2>4. Tail(conn[client].wire) \in Seq({"ready", "change"})
    BY <2>1, <2>3 DEF Conn
  <2>5. /\ conn' = [conn EXCEPT ![client] = c] /\ c \in Conn
        /\ c.buf = conn[client].buf /\ c.st = conn[client].st
    BY <2>1, <2>3, <2>4 DEF Conn
  <2>6. ConnsTyped' /\ BuffersFit' /\ conn'[client] = c
    <3>1. ConnsTyped /\ BuffersFit
      BY DEF NotifyInv
    <3>2. Len(c.buf) <= BufSize /\ (c.st \in {"none", "request", "closed"} => c.buf = <<>>)
      BY <2>3, <2>5
    <3>3. c \in Conn /\ conn' = [conn EXCEPT ![client] = c] /\ client \in Streams
      BY <2>1, <2>5
    <3> HIDE DEF c
    <3> QED  BY <3>1, <3>2, <3>3, OneConn
  <2>7. FlagsTyped' /\ ClientOpen' /\ WakeOnItsWay'
    BY <1>1, <2>1, <2>5, <2>6 DEF NotifyInv, FlagsTyped, ClientOpen, WakeOnItsWay
  <2> QED  BY <1>2, <2>6, <2>7 DEF NotifyInv
<1> QED  BY <1>3, <1>4, <1>5

(* Work that the loop has not listed has a wake-up on its way, unless since *)
(* its last listing one met a full buffer of the connection it reads or was *)
(* used up by a listing that failed; with any buffer size, and however      *)
(* often the connection is lost (pubsub/local.go Publish, sse.go handleSSE, *)
(* runner.go Poll).                                                         *)
THEOREM WakeTheorem == NotifySpec => [](NotifyTypeOK /\ WakeOnItsWay)
<1> USE NotifyAssumption
<1>1. NotifyInit => NotifyInv
  <2> SUFFICES ASSUME NotifyInit PROVE NotifyInv
    OBVIOUS
  <2>1. NoConn \in Conn /\ Len(NoConn.buf) = 0 /\ NoConn.buf = <<>>
    BY DEF NoConn, Conn
  <2>2. conn = [i \in Streams |-> NoConn]
    BY DEF NotifyInit
  <2>3. ConnsTyped /\ BuffersFit
    BY <2>1, <2>2 DEF ConnsTyped, BuffersFit
  <2>4. ClientOpen /\ WakeOnItsWay
    BY DEF NotifyInit, ClientOpen, WakeOnItsWay
  <2>5. CountsTyped
    BY DEF NotifyInit, CountsTyped, Audience
  <2>6. FlagsTyped
    <3>1. wake \in BOOLEAN /\ unseen \in BOOLEAN /\ missed \in BOOLEAN
      BY Zenon DEF NotifyInit
    <3> QED  BY <3>1 DEF NotifyInit, FlagsTyped
  <2> QED  BY <2>3, <2>4, <2>5, <2>6 DEF NotifyInv
<1>2. NotifyInv /\ [NotifyNext]_notifyVars => NotifyInv'
  <2> SUFFICES ASSUME NotifyInv, [NotifyNext]_notifyVars PROVE NotifyInv'
    OBVIOUS
  <2>1. CASE NotifyNext
    BY <2>1, StreamSteps, PublishStep, LoopSteps, ClientSteps DEF NotifyNext
  <2>2. CASE UNCHANGED notifyVars
    BY <2>2 DEF notifyVars, NotifyInv, ConnsTyped, BuffersFit, ClientOpen,
                CountsTyped, FlagsTyped, WakeOnItsWay
  <2> QED  BY <2>1, <2>2
<1>3. NotifyInv => NotifyTypeOK /\ WakeOnItsWay
  <2> SUFFICES ASSUME NotifyInv PROVE NotifyTypeOK /\ WakeOnItsWay
    OBVIOUS
  <2>1. DOMAIN conn = Streams /\ \A i \in Streams : conn[i] \in Conn
    BY DEF NotifyInv, ConnsTyped
  <2> QED  BY <2>1 DEF NotifyInv, NotifyTypeOK, BuffersFit, CountsTyped, FlagsTyped, Conn
<1> QED  BY <1>1, <1>2, <1>3, PTL DEF NotifySpec
-----------------------------------------------------------------------------
(* Accounts.                                                                *)
UserRec == [stored : BOOLEAN, defaultOrg : 0..MaxOrgs,
            github : Profiles \cup {None}, atlassian : Profiles \cup {None}]
OrgRec  == [owner : People, archived : BOOLEAN, members : SUBSET People,
            install : Installs \cup {None}, secret : BOOLEAN]
SlotRec == [pc : {"free", "provision", "archive", "install"},
            user : People \cup {None}, org : 0..MaxOrgs, install : Installs \cup {None}]

TablesTyped ==
  /\ accounts \in [People -> UserRec] /\ slot \in [Slots -> SlotRec]
  /\ orgs \in Seq(OrgRec) /\ Len(orgs) <= MaxOrgs
  /\ creds \subseteq [user : People \cup {None}, org : OrgIds]
  /\ installed \subseteq Installs /\ homes \in [People -> Nat] /\ relinks \in 0..MaxLinks

(* A person has a default org or none yet; the one he has is his.           *)
HomesOK ==
  \A u \in People :
    /\ accounts[u].defaultOrg = 0 => homes[u] = 0 /\ ~accounts[u].stored
    /\ accounts[u].defaultOrg # 0 =>
         /\ accounts[u].defaultOrg \in OrgIds /\ homes[u] = 1
         /\ orgs[accounts[u].defaultOrg].owner = u
         /\ u \in orgs[accounts[u].defaultOrg].members
         /\ ~orgs[accounts[u].defaultOrg].archived

(* What a handler read before its second step still holds at that step.     *)
SlotFits(x, as, os, ids) ==
  /\ x.pc = "provision" => x.user \in People /\ x.org = as[x.user].defaultOrg
  /\ x.pc = "archive" => /\ x.user \in People /\ x.org \in ids
                         /\ os[x.org].owner = x.user
                         /\ as[x.user].defaultOrg # x.org
  /\ x.pc = "install" => x.org \in ids
SlotsOK == \A s \in Slots : SlotFits(slot[s], accounts, orgs, OrgIds)
OneLogin ==
  \A r, s \in Slots : slot[r].pc = "provision" /\ slot[s].pc = "provision"
                        /\ slot[r].user = slot[s].user => r = s

AccountsInv == TablesTyped /\ HomesOK /\ SlotsOK /\ OneLogin

(* A free slot.                                                             *)
LEMMA FreeTyped == Free \in SlotRec /\ Free.pc = "free"
BY AccountsAssumption DEF Free, SlotRec

(* The rows of orgs change in place: owners stay, keep their membership,    *)
(* and only an org that is nobody's default is archived.                    *)
LEMMA OrgsStep ==
  ASSUME AccountsInv, orgs' \in Seq(OrgRec), Len(orgs') = Len(orgs),
         \A o \in OrgIds :
           /\ orgs'[o].owner = orgs[o].owner
           /\ orgs[o].owner \in orgs[o].members => orgs[o].owner \in orgs'[o].members
           /\ orgs'[o].archived =>
                orgs[o].archived \/ accounts[orgs[o].owner].defaultOrg # o,
         UNCHANGED <<accounts, creds, homes>>, relinks' \in 0..MaxLinks,
         installed' \subseteq Installs,
         slot' = slot \/ \E s \in Slots : slot' = [slot EXCEPT ![s] = Free]
  PROVE  AccountsInv'
<1>1. OrgIds' = OrgIds
  BY DEF OrgIds
<1>2. /\ slot' \in [Slots -> SlotRec]
      /\ \A s \in Slots : slot'[s] = slot[s] \/ slot'[s] = Free
  BY FreeTyped DEF AccountsInv, TablesTyped
<1>3. TablesTyped'
  BY <1>1, <1>2 DEF AccountsInv, TablesTyped
<1>4. HomesOK'
  BY <1>1 DEF AccountsInv, HomesOK
<1>5. SlotsOK'
  <2> SUFFICES ASSUME NEW s \in Slots PROVE SlotFits(slot'[s], accounts', orgs', OrgIds')
    BY DEF SlotsOK
  <2>1. CASE slot'[s] = Free
    BY <2>1, FreeTyped DEF SlotFits
  <2>2. CASE slot'[s] = slot[s]
    <3>1. SlotFits(slot[s], accounts, orgs, OrgIds)
      BY DEF AccountsInv, SlotsOK
    <3> QED  BY <1>1, <2>2, <3>1 DEF SlotFits
  <2> QED  BY <1>2, <2>1, <2>2
<1>6. OneLogin'
  BY <1>2, FreeTyped DEF AccountsInv, OneLogin
<1> QED  BY <1>3, <1>4, <1>5, <1>6 DEF AccountsInv

(* A handler takes a free slot.                                             *)
LEMMA SlotStep ==
  ASSUME AccountsInv, NEW s \in Slots, NEW x \in SlotRec, SlotFits(x, accounts, orgs, OrgIds),
         slot' = [slot EXCEPT ![s] = x],
         x.pc = "provision" => ~\E r \in Slots : slot[r].pc = "provision" /\ slot[r].user = x.user,
         UNCHANGED <<accounts, orgs, creds, installed, homes, relinks>>
  PROVE  AccountsInv'
<1>1. OrgIds' = OrgIds
  BY DEF OrgIds
<1>2. slot' \in [Slots -> SlotRec] /\ slot'[s] = x /\ \A r \in Slots : r # s => slot'[r] = slot[r]
  BY DEF AccountsInv, TablesTyped
<1>3. TablesTyped' /\ HomesOK'
  BY <1>1, <1>2 DEF AccountsInv, TablesTyped, HomesOK
<1>4. SlotsOK'
  <2> SUFFICES ASSUME NEW r \in Slots PROVE SlotFits(slot'[r], accounts', orgs', OrgIds')
    BY DEF SlotsOK
  <2>1. SlotFits(slot'[r], accounts, orgs, OrgIds)
    BY <1>2 DEF AccountsInv, SlotsOK
  <2> QED  BY <1>1, <2>1 DEF SlotFits
<1>5. OneLogin'
  BY <1>2 DEF AccountsInv, OneLogin
<1> QED  BY <1>3, <1>4, <1>5 DEF AccountsInv

(* Logins and handlers that take a slot.                                    *)
LEMMA SlotSteps ==
  ASSUME AccountsInv,
         \/ \E s \in Slots, u \in People : UpsertUser(s, u)
         \/ \E c \in creds, s \in Slots, o \in OrgIds : DeleteOrg(s, c, o)
         \/ \E c \in creds, s \in Slots, i \in Installs : VerifyInstallationAccess(s, c, i)
  PROVE  AccountsInv'
<1> USE AccountsAssumption
<1>0. /\ accounts \in [People -> UserRec] /\ orgs \in Seq(OrgRec) /\ Len(orgs) <= MaxOrgs
      /\ Len(orgs) \in Nat /\ OrgIds \subseteq 0..MaxOrgs
      /\ creds \subseteq [user : People \cup {None}, org : OrgIds]
  BY DEF AccountsInv, TablesTyped, OrgIds
<1>1. ASSUME NEW s \in Slots, NEW u \in People, UpsertUser(s, u) PROVE AccountsInv'
  <2> DEFINE x == [Free EXCEPT !.pc = "provision", !.user = u, !.org = accounts[u].defaultOrg]
  <2>1. x \in SlotRec /\ x.pc = "provision" /\ x.user = u /\ x.org = accounts[u].defaultOrg
    BY <1>0 DEF Free, SlotRec, UserRec
  <2>2. /\ slot' = [slot EXCEPT ![s] = x]
        /\ ~\E r \in Slots : slot[r].pc = "provision" /\ slot[r].user = u
        /\ UNCHANGED <<accounts, orgs, creds, installed, homes, relinks>>
    BY <1>1 DEF UpsertUser
  <2> HIDE DEF x
  <2>3. SlotFits(x, accounts, orgs, OrgIds)
    BY <2>1 DEF SlotFits
  <2> QED  BY <2>1, <2>2, <2>3, SlotStep
<1>2. ASSUME NEW c \in creds, NEW s \in Slots, NEW o \in OrgIds, DeleteOrg(s, c, o)
      PROVE  AccountsInv'
  <2> DEFINE x == [Free EXCEPT !.pc = "archive", !.user = c.user, !.org = o]
  <2>1. c.user \in People \cup {None} /\ o \in 0..MaxOrgs
    BY <1>0
  <2>2. x \in SlotRec /\ x.pc = "archive" /\ x.user = c.user /\ x.org = o
    BY <2>1 DEF Free, SlotRec
  <2>3. /\ slot' = [slot EXCEPT ![s] = x] /\ orgs[o].owner = c.user
        /\ accounts[c.user].defaultOrg # o
        /\ UNCHANGED <<accounts, orgs, creds, installed, homes, relinks>>
    BY <1>2 DEF DeleteOrg
  <2>4. orgs[o] \in OrgRec
    BY <1>0, ElementOfSeq DEF OrgIds
  <2>5. c.user \in People
    BY <2>3, <2>4 DEF OrgRec
  <2> HIDE DEF x
  <2>6. SlotFits(x, accounts, orgs, OrgIds)
    BY <2>2, <2>3, <2>5 DEF SlotFits
  <2> QED  BY <2>2, <2>3, <2>6, SlotStep
<1>3. ASSUME NEW c \in creds, NEW s \in Slots, NEW i \in Installs, VerifyInstallationAccess(s, c, i)
      PROVE  AccountsInv'
  <2> DEFINE x == [Free EXCEPT !.pc = "install", !.user = c.user, !.org = c.org, !.install = i]
  <2>1. c.user \in People \cup {None} /\ c.org \in 0..MaxOrgs /\ c.org \in OrgIds
    BY <1>0
  <2>2. x \in SlotRec /\ x.pc = "install" /\ x.org = c.org
    BY <2>1 DEF Free, SlotRec
  <2>3. /\ slot' = [slot EXCEPT ![s] = x]
        /\ UNCHANGED <<accounts, orgs, creds, installed, homes, relinks>>
    BY <1>3 DEF VerifyInstallationAccess
  <2> HIDE DEF x
  <2>4. SlotFits(x, accounts, orgs, OrgIds)
    BY <2>1, <2>2 DEF SlotFits
  <2> QED  BY <2>2, <2>3, <2>4, SlotStep
<1> QED  BY <1>1, <1>2, <1>3

(* The handlers that edit an org, with or without a slot.                   *)
LEMMA EditSteps ==
  ASSUME AccountsInv,
         \/ \E c \in creds : \/ GenerateAtlassianWebhookSecret(c)
                             \/ \E u \in People : AddOrgMember(c, u) \/ RemoveOrgMember(c, u)
         \/ \E s \in Slots : ArchiveOrg(s) \/ LinkGitHubInstallation(s)
         \/ \E i \in Installs : handleInstallationEvent(i)
  PROVE  AccountsInv'
<1> USE AccountsAssumption
<1>0. /\ orgs \in Seq(OrgRec) /\ Len(orgs) \in Nat /\ relinks \in 0..MaxLinks
      /\ installed \subseteq Installs
      /\ creds \subseteq [user : People \cup {None}, org : OrgIds]
      /\ \A o \in OrgIds : orgs[o] \in OrgRec
  BY ElementOfSeq DEF AccountsInv, TablesTyped, OrgIds
<1>1. ASSUME NEW o \in OrgIds, NEW row \in OrgRec, orgs' = [orgs EXCEPT ![o] = row],
             row.owner = orgs[o].owner,
             orgs[o].owner \in orgs[o].members => orgs[o].owner \in row.members,
             row.archived => orgs[o].archived \/ accounts[orgs[o].owner].defaultOrg # o,
             UNCHANGED <<accounts, creds, homes, installed>>, relinks' \in 0..MaxLinks,
             slot' = slot \/ \E s \in Slots : slot' = [slot EXCEPT ![s] = Free]
      PROVE  AccountsInv'
  <2>1. /\ orgs' \in Seq(OrgRec) /\ Len(orgs') = Len(orgs)
        /\ \A j \in OrgIds : orgs'[j] = IF j = o THEN row ELSE orgs[j]
    BY <1>0, <1>1, ExceptSeq DEF OrgIds
  <2>2. \A j \in OrgIds :
           /\ orgs'[j].owner = orgs[j].owner
           /\ orgs[j].owner \in orgs[j].members => orgs[j].owner \in orgs'[j].members
           /\ orgs'[j].archived => orgs[j].archived \/ accounts[orgs[j].owner].defaultOrg # j
    BY <1>1, <2>1
  <2> QED  BY <1>0, <1>1, <2>1, <2>2, OrgsStep
<1>2. ASSUME NEW c \in creds, GenerateAtlassianWebhookSecret(c) PROVE AccountsInv'
  <2> DEFINE row == [orgs[c.org] EXCEPT !.secret = TRUE]
  <2>1. c.org \in OrgIds /\ orgs[c.org] \in OrgRec
    BY <1>0
  <2>2. /\ orgs' = [orgs EXCEPT ![c.org] = row] /\ relinks' \in 0..MaxLinks
        /\ UNCHANGED <<accounts, slot, creds, installed, homes>>
    BY <1>0, <1>2 DEF GenerateAtlassianWebhookSecret, Relink
  <2>3. /\ row \in OrgRec /\ row.owner = orgs[c.org].owner /\ row.members = orgs[c.org].members
        /\ row.archived = orgs[c.org].archived
    BY <2>1 DEF OrgRec
  <2> HIDE DEF row
  <2> QED  BY <1>1, <2>1, <2>2, <2>3
<1>3. ASSUME NEW c \in creds, NEW u \in People, AddOrgMember(c, u) \/ RemoveOrgMember(c, u)
      PROVE  AccountsInv'
  <2>1. c.org \in OrgIds /\ orgs[c.org] \in OrgRec
    BY <1>0
  <2>2. PICK ms \in SUBSET People :
          /\ orgs[c.org].owner \in orgs[c.org].members => orgs[c.org].owner \in ms
          /\ orgs' = [orgs EXCEPT ![c.org] = [orgs[c.org] EXCEPT !.members = ms]]
    <3>1. CASE AddOrgMember(c, u)
      BY <2>1, <3>1 DEF AddOrgMember, Edit, OrgRec
    <3>2. CASE RemoveOrgMember(c, u)
      BY <2>1, <3>2 DEF RemoveOrgMember, Edit, OrgRec
    <3> QED  BY <1>3, <3>1, <3>2
  <2> DEFINE row == [orgs[c.org] EXCEPT !.members = ms]
  <2>3. UNCHANGED <<accounts, slot, creds, installed, homes, relinks>>
    BY <1>3 DEF AddOrgMember, RemoveOrgMember, Edit
  <2>4. /\ row \in OrgRec /\ row.owner = orgs[c.org].owner /\ row.members = ms
        /\ row.archived = orgs[c.org].archived /\ orgs' = [orgs EXCEPT ![c.org] = row]
    BY <2>1, <2>2 DEF OrgRec
  <2> HIDE DEF row
  <2> QED  BY <1>0, <1>1, <2>1, <2>2, <2>3, <2>4
<1>4. ASSUME NEW s \in Slots, ArchiveOrg(s) PROVE AccountsInv'
  <2> DEFINE o == slot[s].org
             row == [orgs[o] EXCEPT !.archived = TRUE]
  <2>1. /\ slot[s].pc = "archive" /\ orgs' = [orgs EXCEPT ![o] = row]
        /\ slot' = [slot EXCEPT ![s] = Free] /\ UNCHANGED <<accounts, creds, installed, homes, relinks>>
    BY <1>4 DEF ArchiveOrg
  <2>2. o \in OrgIds /\ accounts[orgs[o].owner].defaultOrg # o
    BY <2>1 DEF AccountsInv, SlotsOK, SlotFits
  <2>3. row \in OrgRec /\ row.owner = orgs[o].owner /\ row.members = orgs[o].members
    BY <1>0, <2>2 DEF OrgRec
  <2> HIDE DEF row
  <2> QED  BY <1>0, <1>1, <2>1, <2>2, <2>3
<1>5. ASSUME NEW s \in Slots, LinkGitHubInstallation(s) PROVE AccountsInv'
  <2> DEFINE o == slot[s].org
             row == [orgs[o] EXCEPT !.install = slot[s].install]
  <2>1. /\ slot[s].pc = "install" /\ orgs' = [orgs EXCEPT ![o] = row]
        /\ slot' = [slot EXCEPT ![s] = Free] /\ UNCHANGED <<accounts, creds, installed, homes, relinks>>
    BY <1>5 DEF LinkGitHubInstallation
  <2>2. o \in OrgIds /\ slot[s] \in SlotRec
    BY <2>1 DEF AccountsInv, SlotsOK, SlotFits, TablesTyped
  <2>3. slot[s].install \in Installs \cup {None}
    BY <2>2 DEF SlotRec
  <2>4. /\ row \in OrgRec /\ row.owner = orgs[o].owner /\ row.members = orgs[o].members
        /\ row.archived = orgs[o].archived
    BY <1>0, <2>2, <2>3 DEF OrgRec
  <2> HIDE DEF row
  <2> QED  BY <1>0, <1>1, <2>1, <2>2, <2>4
<1>6. ASSUME NEW i \in Installs, handleInstallationEvent(i) PROVE AccountsInv'
  <2>1. /\ orgs' = [o \in OrgIds |-> IF orgs[o].install = i THEN [orgs[o] EXCEPT !.install = None]
                                                           ELSE orgs[o]]
        /\ installed' \subseteq Installs /\ UNCHANGED <<accounts, slot, creds, homes, relinks>>
    BY <1>0, <1>6 DEF handleInstallationEvent
  <2>2. ASSUME NEW o \in OrgIds
        PROVE  /\ orgs'[o] \in OrgRec /\ orgs'[o].owner = orgs[o].owner
               /\ orgs'[o].members = orgs[o].members /\ orgs'[o].archived = orgs[o].archived
    <3>1. orgs[o] \in OrgRec
      BY <1>0
    <3>2. CASE orgs[o].install = i
      BY <2>1, <3>1, <3>2 DEF OrgRec
    <3>3. CASE orgs[o].install # i
      BY <2>1, <3>1, <3>3
    <3> QED  BY <3>2, <3>3
  <2>3. orgs' = [o \in 1..Len(orgs) |-> orgs'[o]]
    BY <2>1 DEF OrgIds
  <2>4. orgs' \in [1..Len(orgs) -> OrgRec]
    BY <2>2, <2>3 DEF OrgIds
  <2>5. orgs' \in Seq(OrgRec) /\ Len(orgs') = Len(orgs)
    BY <1>0, <2>4
  <2> QED  BY <1>0, <2>1, <2>2, <2>5, OrgsStep
<1> QED  BY <1>2, <1>3, <1>4, <1>5, <1>6

(* Tokens and keys: an org that exists.                                     *)
LEMMA CredSteps ==
  ASSUME AccountsInv, Credential
  PROVE  AccountsInv'
<1> USE AccountsAssumption
<1>0. creds \subseteq [user : People \cup {None}, org : OrgIds]
  BY DEF AccountsInv, TablesTyped
<1>1. /\ UNCHANGED <<accounts, orgs, slot, installed, homes, relinks>>
      /\ creds' \subseteq [user : People \cup {None}, org : OrgIds]
  <2>1. ASSUME NEW u \in People, NEW o \in 0..Len(orgs), HandleToken(u, o)
        PROVE  /\ UNCHANGED <<accounts, orgs, slot, installed, homes, relinks>>
               /\ creds' \subseteq [user : People \cup {None}, org : OrgIds]
    <3>1. ResolveOrg(u, o) \in OrgIds /\ Issue(Cred(u, ResolveOrg(u, o)))
      BY <2>1 DEF HandleToken, IsOrgMember
    <3>2. Cred(u, ResolveOrg(u, o)) \in [user : People \cup {None}, org : OrgIds]
      BY <3>1 DEF Cred
    <3> QED  BY <1>0, <3>1, <3>2 DEF Issue
  <2>2. ASSUME NEW c \in creds, CreateKey(c) \/ Expire(c)
        PROVE  /\ UNCHANGED <<accounts, orgs, slot, installed, homes, relinks>>
               /\ creds' \subseteq [user : People \cup {None}, org : OrgIds]
    <3>1. Cred(None, c.org) \in [user : People \cup {None}, org : OrgIds]
      BY <1>0 DEF Cred
    <3> QED  BY <1>0, <2>2, <3>1 DEF CreateKey, Expire, Issue
  <2> QED  BY <2>1, <2>2 DEF Credential
<1>2. OrgIds' = OrgIds
  BY <1>1 DEF OrgIds
<1>3. TablesTyped'
  BY <1>1, <1>2 DEF AccountsInv, TablesTyped
<1>4. HomesOK' /\ OneLogin'
  BY <1>1, <1>2 DEF AccountsInv, HomesOK, OneLogin
<1>5. SlotsOK'
  BY <1>1, <1>2 DEF AccountsInv, SlotsOK, SlotFits
<1> QED  BY <1>3, <1>4, <1>5 DEF AccountsInv

(* The account links leave what matters of a row alone.                     *)
LEMMA LinkSteps ==
  ASSUME AccountsInv, NEW c \in creds,
         \/ \E p \in Profiles : LinkGitHubAccount(c, p) \/ LinkAtlassianAccount(c, p)
         \/ UnlinkGitHubAccount(c) \/ UnlinkAtlassianAccount(c)
  PROVE  AccountsInv'
<1> USE AccountsAssumption
<1>0. accounts \in [People -> UserRec] /\ relinks \in 0..MaxLinks
  BY DEF AccountsInv, TablesTyped
<1>1. PICK u \in People, row \in UserRec :
        /\ accounts' = [accounts EXCEPT ![u] = row] /\ row.stored = accounts[u].stored
        /\ row.defaultOrg = accounts[u].defaultOrg
        /\ relinks' \in 0..MaxLinks /\ UNCHANGED <<orgs, slot, creds, installed, homes>>
  <2>1. c.user \in People
    BY
     DEF LinkGitHubAccount, LinkAtlassianAccount, UnlinkGitHubAccount, UnlinkAtlassianAccount, Stored
  <2>2. PICK row :
          /\ SetAccount(c.user, row)
          /\ \/ \E p \in Profiles \cup {None} : row = [accounts[c.user] EXCEPT !.github = p]
             \/ \E p \in Profiles \cup {None} : row = [accounts[c.user] EXCEPT !.atlassian = p]
    BY
     DEF LinkGitHubAccount, LinkAtlassianAccount, UnlinkGitHubAccount, UnlinkAtlassianAccount
  <2>3. /\ row \in UserRec /\ row.stored = accounts[c.user].stored
        /\ row.defaultOrg = accounts[c.user].defaultOrg
    BY <1>0, <2>1, <2>2 DEF UserRec
  <2>4. relinks' \in 0..MaxLinks
    BY <1>0, <2>2 DEF SetAccount, Relink
  <2>5. /\ accounts' = [accounts EXCEPT ![c.user] = row]
        /\ UNCHANGED <<orgs, slot, creds, installed, homes>>
    BY <2>2 DEF SetAccount
  <2> QED  BY <2>1, <2>3, <2>4, <2>5
<1>2. /\ accounts' \in [People -> UserRec]
      /\ \A w \in People : /\ accounts'[w].stored = accounts[w].stored
                           /\ accounts'[w].defaultOrg = accounts[w].defaultOrg
  BY <1>0, <1>1
<1>3. OrgIds' = OrgIds
  BY <1>1 DEF OrgIds
<1>4. TablesTyped'
  BY <1>1, <1>2, <1>3 DEF AccountsInv, TablesTyped
<1>5. HomesOK' /\ OneLogin'
  BY <1>1, <1>2, <1>3 DEF AccountsInv, HomesOK, OneLogin
<1>6. SlotsOK'
  BY <1>1, <1>2, <1>3 DEF AccountsInv, SlotsOK, SlotFits
<1> QED  BY <1>4, <1>5, <1>6 DEF AccountsInv

(* An org is added at the end of the table.                                 *)
LEMMA AppendOrg ==
  ASSUME AccountsInv, NEW u \in People, Len(orgs) < MaxOrgs, orgs' = Append(orgs, NewOrg(u))
  PROVE  /\ orgs' \in Seq(OrgRec) /\ Len(orgs') = Len(orgs) + 1 /\ Len(orgs') <= MaxOrgs
         /\ Len(orgs) \in Nat
         /\ OrgIds \subseteq OrgIds' /\ Len(orgs) + 1 \in OrgIds' /\ Len(orgs) + 1 \notin OrgIds
         /\ Len(orgs) + 1 \in 0..MaxOrgs /\ Len(orgs) + 1 # 0
         /\ \A o \in OrgIds : orgs'[o] = orgs[o]
         /\ orgs'[Len(orgs) + 1] = NewOrg(u)
<1> USE AccountsAssumption
<1>0. orgs \in Seq(OrgRec) /\ Len(orgs) \in Nat /\ Len(orgs) < MaxOrgs
  BY DEF AccountsInv, TablesTyped
<1>1. NewOrg(u) \in OrgRec
  BY DEF NewOrg, OrgRec
<1> HIDE DEF NewOrg, OrgRec
<1>2. /\ orgs' \in Seq(OrgRec) /\ Len(orgs') = Len(orgs) + 1
      /\ orgs'[Len(orgs) + 1] = NewOrg(u)
      /\ \A i \in 1..Len(orgs) : orgs'[i] = orgs[i]
  BY <1>0, <1>1, AppendProperties
<1> QED  BY <1>0, <1>2 DEF OrgIds

(* CreateOrg, and the end of a first login.                                 *)
LEMMA NewOrgSteps ==
  ASSUME AccountsInv, (\E c \in creds : CreateOrg(c)) \/ \E s \in Slots : Provision(s)
  PROVE  AccountsInv'
<1> USE AccountsAssumption
<1>0. /\ accounts \in [People -> UserRec] /\ slot \in [Slots -> SlotRec]
      /\ homes \in [People -> Nat]
  BY DEF AccountsInv, TablesTyped
<1>1. ASSUME NEW c \in creds, CreateOrg(c) PROVE AccountsInv'
  <2>1. /\ c.user \in People /\ Len(orgs) < MaxOrgs /\ orgs' = Append(orgs, NewOrg(c.user))
        /\ UNCHANGED <<accounts, slot, creds, installed, homes, relinks>>
    BY <1>1 DEF CreateOrg, Stored
  <2>2. /\ orgs' \in Seq(OrgRec) /\ Len(orgs') <= MaxOrgs /\ OrgIds \subseteq OrgIds'
        /\ \A o \in OrgIds : orgs'[o] = orgs[o]
    BY <2>1, AppendOrg
  <2>3. TablesTyped'
    BY <2>1, <2>2 DEF AccountsInv, TablesTyped
  <2>4. HomesOK' /\ OneLogin'
    BY <2>1, <2>2 DEF AccountsInv, HomesOK, OneLogin
  <2>5. SlotsOK'
    BY <2>1, <2>2 DEF AccountsInv, SlotsOK, SlotFits
  <2> QED  BY <2>3, <2>4, <2>5 DEF AccountsInv
<1>2. ASSUME NEW s \in Slots, Provision(s) PROVE AccountsInv'
  <2> DEFINE u == slot[s].user
  <2>0. slot[s].pc = "provision" /\ UNCHANGED <<creds, installed, relinks>>
        /\ slot' = [slot EXCEPT ![s] = Free]
    BY <1>2 DEF Provision
  <2>1. u \in People /\ slot[s].org = accounts[u].defaultOrg
    BY <2>0 DEF AccountsInv, SlotsOK, SlotFits
  <2>2. accounts[u] \in UserRec /\ homes[u] \in Nat
    BY <1>0, <2>1
  <2>3. /\ slot' \in [Slots -> SlotRec] /\ slot'[s] = Free
        /\ \A r \in Slots : r # s => slot'[r] = slot[r]
    BY <1>0, <2>0, FreeTyped
  <2>4. OneLogin'
    BY <2>3, FreeTyped DEF AccountsInv, OneLogin
  <2>5. \A r \in Slots : slot'[r].pc = "provision" => slot'[r] = slot[r] /\ slot[r].user # u
    BY <2>0, <2>3, FreeTyped DEF AccountsInv, OneLogin
  <2>6. CASE slot[s].org = 0
    <3> DEFINE row == [accounts[u] EXCEPT !.stored = TRUE, !.defaultOrg = Len(orgs) + 1]
    <3>1. /\ Len(orgs) < MaxOrgs /\ orgs' = Append(orgs, NewOrg(u))
          /\ homes' = [homes EXCEPT ![u] = homes[u] + 1]
          /\ accounts' = [accounts EXCEPT ![u] = row]
      BY <1>2, <2>6 DEF Provision
    <3>2. /\ orgs' \in Seq(OrgRec) /\ Len(orgs') <= MaxOrgs
          /\ OrgIds \subseteq OrgIds' /\ Len(orgs) + 1 \in OrgIds' /\ Len(orgs) + 1 \notin OrgIds
          /\ Len(orgs) + 1 \in 0..MaxOrgs /\ Len(orgs) + 1 # 0
          /\ \A o \in OrgIds : orgs'[o] = orgs[o]
          /\ orgs'[Len(orgs) + 1] = NewOrg(u)
      BY <2>1, <3>1, AppendOrg
    <3>3. row \in UserRec /\ row.defaultOrg = Len(orgs) + 1
      BY <2>2, <3>2 DEF UserRec
    <3> HIDE DEF row
    <3>4. /\ accounts' \in [People -> UserRec] /\ accounts'[u] = row
          /\ \A w \in People : w # u => accounts'[w] = accounts[w] /\ homes'[w] = homes[w]
          /\ homes' \in [People -> Nat] /\ homes'[u] = homes[u] + 1
      BY <1>0, <2>1, <2>2, <3>1, <3>3
    <3>5. homes'[u] = 1
      <4>1. homes[u] = 0
        BY <2>1, <2>6 DEF AccountsInv, HomesOK
      <4>2. homes'[u] = homes[u] + 1
        BY <3>4
      <4> QED  BY <4>1, <4>2
    <3>6. TablesTyped'
      BY <2>0, <2>3, <3>2, <3>4 DEF AccountsInv, TablesTyped
    <3>7. HomesOK'
      <4> SUFFICES ASSUME NEW w \in People
                   PROVE  /\ accounts'[w].defaultOrg = 0 => homes'[w] = 0 /\ ~accounts'[w].stored
                          /\ accounts'[w].defaultOrg # 0 =>
                               /\ accounts'[w].defaultOrg \in OrgIds' /\ homes'[w] = 1
                               /\ orgs'[accounts'[w].defaultOrg].owner = w
                               /\ w \in orgs'[accounts'[w].defaultOrg].members
                               /\ ~orgs'[accounts'[w].defaultOrg].archived
        BY DEF HomesOK
      <4>1. CASE w = u
        BY <3>2, <3>3, <3>4, <3>5, <4>1 DEF NewOrg
      <4>2. CASE w # u
        BY <3>2, <3>4, <4>2 DEF AccountsInv, HomesOK
      <4> QED  BY <4>1, <4>2
    <3>8. SlotsOK'
      <4> SUFFICES ASSUME NEW r \in Slots PROVE SlotFits(slot'[r], accounts', orgs', OrgIds')
        BY DEF SlotsOK
      <4>1. CASE r = s
        BY <2>3, <4>1, FreeTyped DEF SlotFits
      <4>2. CASE r # s
        <5>1. SlotFits(slot[r], accounts, orgs, OrgIds) /\ slot'[r] = slot[r]
          BY <2>3, <4>2 DEF AccountsInv, SlotsOK
        <5> QED  BY <2>5, <3>2, <3>3, <3>4, <5>1 DEF SlotFits
      <4> QED  BY <4>1, <4>2
    <3> QED  BY <2>4, <3>6, <3>7, <3>8 DEF AccountsInv
  <2>7. CASE slot[s].org # 0
    <3> DEFINE row == [accounts[u] EXCEPT !.stored = TRUE]
    <3>1. accounts' = [accounts EXCEPT ![u] = row] /\ UNCHANGED <<orgs, homes>>
      BY <1>2, <2>7 DEF Provision
    <3>2. row \in UserRec /\ row.defaultOrg = accounts[u].defaultOrg /\ row.defaultOrg # 0
      BY <2>1, <2>2, <2>7 DEF UserRec
    <3> HIDE DEF row
    <3>3. /\ accounts' \in [People -> UserRec] /\ accounts'[u] = row
          /\ \A w \in People : w # u => accounts'[w] = accounts[w]
      BY <1>0, <2>1, <3>1, <3>2
    <3>4. OrgIds' = OrgIds
      BY <3>1 DEF OrgIds
    <3>5. TablesTyped'
      BY <2>0, <2>3, <3>1, <3>3, <3>4 DEF AccountsInv, TablesTyped
    <3>6. HomesOK'
      BY <3>1, <3>2, <3>3, <3>4 DEF AccountsInv, HomesOK
    <3>7. SlotsOK'
      <4> SUFFICES ASSUME NEW r \in Slots PROVE SlotFits(slot'[r], accounts', orgs', OrgIds')
        BY DEF SlotsOK
      <4>1. CASE r = s
        BY <2>3, <4>1, FreeTyped DEF SlotFits
      <4>2. CASE r # s
        <5>1. SlotFits(slot[r], accounts, orgs, OrgIds) /\ slot'[r] = slot[r]
          BY <2>3, <4>2 DEF AccountsInv, SlotsOK
        <5>2. \A w \in People : accounts'[w].defaultOrg = accounts[w].defaultOrg
          BY <3>2, <3>3
        <5> QED  BY <3>1, <3>4, <5>1, <5>2 DEF SlotFits
      <4> QED  BY <4>1, <4>2
    <3> QED  BY <2>4, <3>5, <3>6, <3>7 DEF AccountsInv
  <2> QED  BY <2>6, <2>7
<1> QED  BY <1>1, <1>2

(* Everybody who has logged in keeps one personal org that stands, for any  *)
(* number of people, racing logins, stale tokens and half-done handlers     *)
(* (storeauth.go Provision, org.go DeleteOrg, RemoveOrgMember).             *)
THEOREM DefaultOrgTheorem == AccountsSpec => [](AccountsTypeOK /\ DefaultOrgStands)
<1> USE AccountsAssumption
<1>1. AccountsInit => AccountsInv
  <2> SUFFICES ASSUME AccountsInit PROVE AccountsInv
    OBVIOUS
  <2>1. NoUser \in UserRec /\ NoUser.defaultOrg = 0 /\ ~NoUser.stored
    BY DEF NoUser, UserRec
  <2> HIDE DEF NoUser, UserRec, OrgRec, SlotRec, Free
  <2>2. <<>> \in Seq(OrgRec) /\ Len(<<>>) = 0
    OBVIOUS
  <2>3. TablesTyped
    BY <2>1, <2>2, FreeTyped DEF AccountsInit, TablesTyped
  <2>4. HomesOK
    BY <2>1 DEF AccountsInit, HomesOK
  <2>5. SlotsOK /\ OneLogin
    BY FreeTyped DEF AccountsInit, SlotsOK, SlotFits, OneLogin
  <2> QED  BY <2>3, <2>4, <2>5 DEF AccountsInv
<1>2. AccountsInv /\ [AccountsNext]_accountVars => AccountsInv'
  <2> SUFFICES ASSUME AccountsInv, [AccountsNext]_accountVars PROVE AccountsInv'
    OBVIOUS
  <2>1. CASE Login \/ Credential
    BY <2>1, SlotSteps, CredSteps DEF Login
  <2>2. CASE Handler
    BY <2>2, SlotSteps, EditSteps, LinkSteps, NewOrgSteps DEF Handler
  <2>3. CASE \E s \in Slots : Provision(s) \/ ArchiveOrg(s) \/ LinkGitHubInstallation(s)
    BY <2>3, EditSteps, NewOrgSteps
  <2>4. CASE \E i \in Installs : handleInstallationEvent(i)
    BY <2>4, EditSteps
  <2>5. CASE UNCHANGED accountVars
    <3>1. OrgIds' = OrgIds
      BY <2>5 DEF accountVars, OrgIds
    <3>2. TablesTyped' /\ HomesOK' /\ OneLogin'
      BY <2>5, <3>1 DEF accountVars, AccountsInv, TablesTyped, HomesOK, OneLogin
    <3>3. SlotsOK'
      BY <2>5, <3>1 DEF accountVars, AccountsInv, SlotsOK, SlotFits
    <3> QED  BY <3>2, <3>3 DEF AccountsInv
  <2> QED  BY <2>1, <2>2, <2>3, <2>4, <2>5 DEF AccountsNext
<1>3. AccountsInv => AccountsTypeOK /\ DefaultOrgStands
  <2> SUFFICES ASSUME AccountsInv PROVE AccountsTypeOK /\ DefaultOrgStands
    OBVIOUS
  <2>1. AccountsTypeOK
    BY DEF AccountsInv, TablesTyped, AccountsTypeOK, UserRec, OrgRec, SlotRec
  <2>2. DefaultOrgStands
    BY DEF AccountsInv, HomesOK, DefaultOrgStands, Stored, IsOrgMember, ResolveOrg
  <2> QED  BY <2>1, <2>2
<1> QED  BY <1>1, <1>2, <1>3, PTL DEF AccountsSpec
-----------------------------------------------------------------------------
(* Event routing.                                                           *)

(* A bounded nonempty set of numbers has a least and a greatest element.    *)
LEMMA LeastNumber ==
  ASSUME NEW S \in SUBSET Nat, S # {}
  PROVE  \E x \in S : \A y \in S : x <= y
<1>1. IsWellFoundedOn(OpToRel(<, Nat), Nat)
  BY NatLessThanWellFounded
<1>2. PICK x \in S : \A y \in S : ~(<<y, x>> \in OpToRel(<, Nat))
  BY <1>1, WFMin
<1>3. \A y \in S : ~(y < x)
  BY <1>2 DEF OpToRel
<1> QED  BY <1>3

(* The greatest, by the least of the distances to the bound.                *)
LEMMA GreatestNumber ==
  ASSUME NEW n \in Nat, NEW S \in SUBSET (1..n), S # {}
  PROVE  \E x \in S : \A y \in S : y <= x
<1> DEFINE gaps == {n - x : x \in S}
<1>0. PICK z \in S : TRUE
  OBVIOUS
<1>1. gaps \in SUBSET Nat /\ n - z \in gaps
  BY <1>0
<1> HIDE DEF gaps
<1>2. PICK g \in gaps : \A h \in gaps : g <= h
  BY <1>1, LeastNumber
<1>3. PICK x \in S : g = n - x
  BY <1>2 DEF gaps
<1>4. \A y \in S : n - y \in gaps
  BY DEF gaps
<1>5. ASSUME NEW y \in S PROVE y <= x
  BY <1>2, <1>3, <1>4
<1> QED  BY <1>5

-----------------------------------------------------------------------------
(* The tables.  A link names a task there is.                               *)
LinkRow == [task : Nat, subscribe : BOOLEAN,
            key : Seq(STRING) \cup {RoutingKey(u) : u \in Seq(STRING)}]

Tables(T, L) ==
  /\ T \in Seq(TaskRow) /\ L \in Seq(LinkRow)
  /\ \A i \in 1..Len(L) : L[i].task \in 1..Len(T)

RulesOK == DOMAIN rules = Orgs /\ \A o \in Orgs : RuleList(rules[o])

(* A row of events lies in an org its delivery was planned for.             *)
EventsOK(T, E, D) ==
  \A e \in E : /\ e.task \in 1..Len(T) /\ e.by \in Deliveries
               /\ D[e.by] # Idle
               /\ T[e.task].org \in DOMAIN D[e.by].plan

(* A task the router made has the subscribed link of its delivery's key.    *)
MadeOK(T, L, D) ==
  \A r \in 1..Len(T) : T[r].by # NoRow =>
    /\ T[r].by \in Deliveries
    /\ D[T[r].by] # Idle /\ D[T[r].by].pc # "lookup"
    /\ \E i \in 1..Len(L) : /\ L[i].task = r /\ L[i].subscribe
                            /\ L[i].key = RoutingKey(D[T[r].by].event.url)

-----------------------------------------------------------------------------
(* A delivery: planned where it may write, with links of those orgs, among  *)
(* them one of every router-made task of its key that lives at the lookup.  *)
Fields == {"pc", "event", "test", "plan", "todo", "org", "queue", "found",
           "outcomes", "failed", "live"}

Planned(dl) ==
  /\ DOMAIN dl = Fields
  /\ dl.todo \subseteq DOMAIN dl.plan
  /\ \A o \in DOMAIN dl.plan :
       /\ o \in Orgs /\ dl.plan[o].rule.ns \in Namespaces
       /\ dl.plan[o].member \/ (o \in dl.event.orgs /\ dl.plan[o].rule.public)
  /\ dl.event.url \in Seq(STRING)

FoundOK(dl, T, L) ==
  \A o \in DOMAIN dl.plan : \A i \in dl.found[o] :
    i \in 1..Len(L) /\ T[L[i].task].org = o

LiveFound(dl, T, L, D) ==
  /\ dl.live \subseteq 1..Len(T)
  /\ \A r \in dl.live :
       /\ T[r].by # NoRow /\ T[r].org \in DOMAIN dl.plan
       /\ RoutingKey(D[T[r].by].event.url) = RoutingKey(dl.event.url)
       => \E i \in dl.found[T[r].org] : L[i].task = r

Based(dl, T, L, D) == Planned(dl) /\ FoundOK(dl, T, L) /\ LiveFound(dl, T, L, D)

(* What became of a link that was found, and how far the delivery is.       *)
Wanted(dl, o, i, T, L) == T[L[i].task].ns = dl.plan[o].rule.ns
Served(dl, d, i, L, E) ==
  L[i].task \in dl.failed \/ [task |-> L[i].task, by |-> d] \in E
Queued(dl, i, L) == \E j \in dl.queue : L[j].task = L[i].task

Handled(dl, d, o, T, L, E) ==
  \A i \in dl.found[o] : Wanted(dl, o, i, T, L) => Served(dl, d, i, L, E)

Attaching(dl, d, T, L, E) ==
  /\ dl.org \in DOMAIN dl.plan
  /\ dl.queue # {} /\ dl.queue \subseteq dl.found[dl.org]
  /\ \A i \in dl.found[dl.org] :
       Wanted(dl, dl.org, i, T, L) => Served(dl, d, i, L, E) \/ Queued(dl, i, L)

Creating(dl, T, L) ==
  /\ dl.org \in DOMAIN dl.plan
  /\ \A i \in dl.found[dl.org] : ~Wanted(dl, dl.org, i, T, L)

At(dl, d, T, L, E) ==
  /\ dl.pc \in {"lookup", "attach", "create", "callback", "done"}
  /\ dl.pc = "lookup" => dl.todo = DOMAIN dl.plan
  /\ dl.pc = "attach" => Attaching(dl, d, T, L, E)
  /\ dl.pc = "create" => Creating(dl, T, L)
  /\ dl.pc \in {"callback", "done"} => dl.todo = {}
  /\ dl.pc # "lookup" =>
       \A o \in DOMAIN dl.plan \ dl.todo :
         Handled(dl, d, o, T, L, E) \/ (dl.pc = "attach" /\ o = dl.org)

DeliveryOK(dl, d, T, L, E, D) == Based(dl, T, L, D) /\ At(dl, d, T, L, E)

RouterInv ==
  /\ Tables(tasks, links) /\ RulesOK
  /\ EventsOK(tasks, events, deliveries) /\ MadeOK(tasks, links, deliveries)
  /\ DOMAIN deliveries = Deliveries
  /\ \A d \in Deliveries :
       \/ deliveries[d] = Idle
       \/ DeliveryOK(deliveries[d], d, tasks, links, events, deliveries)
  /\ SequentialDedup

-----------------------------------------------------------------------------
(* Rows keep their org, namespace and maker, links do not change, and what  *)
(* a delivery was planned with stays.                                       *)
Grown(T, L, E, D, T2, L2, E2, D2) ==
  /\ Len(T) <= Len(T2)
  /\ \A t \in 1..Len(T) : /\ T2[t].org = T[t].org /\ T2[t].ns = T[t].ns
                          /\ T2[t].by = T[t].by
  /\ Len(L) <= Len(L2) /\ \A i \in 1..Len(L) : L2[i] = L[i]
  /\ E \subseteq E2
  /\ \A d \in Deliveries : D[d] # Idle =>
       /\ D2[d] # Idle /\ D2[d].event = D[d].event /\ D2[d].plan = D[d].plan
       /\ D[d].pc # "lookup" => D2[d].pc # "lookup" /\ D2[d].live = D[d].live

(* What was true of a delivery stays true when the tables grow.             *)
LEMMA DeliveryKept ==
  ASSUME NEW T, NEW L, NEW E, NEW D, NEW T2, NEW L2, NEW E2, NEW D2,
         Tables(T, L), MadeOK(T, L, D), Tables(T2, L2),
         Grown(T, L, E, D, T2, L2, E2, D2),
         NEW dl, NEW d, DeliveryOK(dl, d, T, L, E, D)
  PROVE  DeliveryOK(dl, d, T2, L2, E2, D2)
<1> DEFINE plan == dl.plan
<1>0. Len(T) \in Nat /\ Len(L) \in Nat /\ Len(T2) \in Nat /\ Len(L2) \in Nat
  BY DEF Tables
<1>1. Planned(dl) /\ FoundOK(dl, T, L) /\ LiveFound(dl, T, L, D) /\ At(dl, d, T, L, E)
  BY DEF DeliveryOK, Based
<1>2. \A o \in DOMAIN plan : \A i \in dl.found[o] :
        /\ i \in 1..Len(L) /\ L[i].task \in 1..Len(T) /\ L2[i] = L[i]
        /\ T2[L[i].task].org = T[L[i].task].org /\ T2[L[i].task].ns = T[L[i].task].ns
  BY <1>1 DEF FoundOK, Tables, Grown
<1>3. FoundOK(dl, T2, L2)
  BY <1>0, <1>1, <1>2 DEF FoundOK, Grown
<1>4. LiveFound(dl, T2, L2, D2)
  <2>1. dl.live \subseteq 1..Len(T2)
    BY <1>0, <1>1 DEF LiveFound, Grown
  <2>2. ASSUME NEW r \in dl.live,
               T2[r].by # NoRow, T2[r].org \in DOMAIN dl.plan,
               RoutingKey(D2[T2[r].by].event.url) = RoutingKey(dl.event.url)
        PROVE  \E i \in dl.found[T2[r].org] : L2[i].task = r
    <3>1. r \in 1..Len(T) /\ T2[r].by = T[r].by /\ T2[r].org = T[r].org
      BY <1>1 DEF LiveFound, Grown
    <3>2. D[T[r].by] # Idle /\ T[r].by \in Deliveries
      BY <3>1, <2>2 DEF MadeOK
    <3>3. D2[T[r].by].event = D[T[r].by].event
      BY <3>2 DEF Grown
    <3>4. PICK i \in dl.found[T[r].org] : L[i].task = r
      BY <3>1, <3>3, <2>2, <1>1 DEF LiveFound
    <3> QED  BY <3>4, <3>1, <1>2, <2>2
  <2> QED  BY <2>1, <2>2 DEF LiveFound
<1>5. \A o \in DOMAIN plan : \A i \in dl.found[o] :
        /\ Wanted(dl, o, i, T2, L2) <=> Wanted(dl, o, i, T, L)
        /\ Served(dl, d, i, L, E) => Served(dl, d, i, L2, E2)
  BY <1>2 DEF Wanted, Served, Grown
<1>6. \A o \in DOMAIN plan : Handled(dl, d, o, T, L, E) => Handled(dl, d, o, T2, L2, E2)
  BY <1>5 DEF Handled
<1>7. Attaching(dl, d, T, L, E) => Attaching(dl, d, T2, L2, E2)
  <2> SUFFICES ASSUME Attaching(dl, d, T, L, E) PROVE Attaching(dl, d, T2, L2, E2)
    OBVIOUS
  <2>1. dl.org \in DOMAIN plan /\ dl.queue \subseteq dl.found[dl.org] /\ dl.queue # {}
    BY DEF Attaching
  <2>2. \A i \in dl.found[dl.org] : Queued(dl, i, L) => Queued(dl, i, L2)
    BY <2>1, <1>2 DEF Queued
  <2> QED  BY <2>1, <2>2, <1>5 DEF Attaching
<1>8. Creating(dl, T, L) => Creating(dl, T2, L2)
  BY <1>5 DEF Creating
<1>9. At(dl, d, T2, L2, E2)
  BY <1>1, <1>6, <1>7, <1>8 DEF At
<1> QED  BY <1>1, <1>3, <1>4, <1>9 DEF DeliveryOK, Based

(* So do the rows of events and the links of router-made tasks.             *)
LEMMA RowsKept ==
  ASSUME NEW T, NEW L, NEW E, NEW D, NEW T2, NEW L2, NEW E2, NEW D2,
         Tables(T, L), Tables(T2, L2), Grown(T, L, E, D, T2, L2, E2, D2)
  PROVE  /\ EventsOK(T, E, D) => EventsOK(T2, E, D2)
         /\ MadeOK(T, L, D) =>
              \A r \in 1..Len(T) : T2[r].by # NoRow =>
                /\ T2[r].by \in Deliveries
                /\ D2[T2[r].by] # Idle /\ D2[T2[r].by].pc # "lookup"
                /\ \E i \in 1..Len(L2) :
                     /\ L2[i].task = r /\ L2[i].subscribe
                     /\ L2[i].key = RoutingKey(D2[T2[r].by].event.url)
<1>0. Len(T) \in Nat /\ Len(L) \in Nat /\ Len(T2) \in Nat /\ Len(L2) \in Nat
  BY DEF Tables
<1>1. EventsOK(T, E, D) => EventsOK(T2, E, D2)
  BY <1>0 DEF EventsOK, Grown
<1>2. ASSUME MadeOK(T, L, D), NEW r \in 1..Len(T), T2[r].by # NoRow
      PROVE  /\ T2[r].by \in Deliveries
             /\ D2[T2[r].by] # Idle /\ D2[T2[r].by].pc # "lookup"
             /\ \E i \in 1..Len(L2) :
                  /\ L2[i].task = r /\ L2[i].subscribe
                  /\ L2[i].key = RoutingKey(D2[T2[r].by].event.url)
  <2>1. T2[r].by = T[r].by
    BY DEF Grown
  <2>2. PICK i \in 1..Len(L) : /\ L[i].task = r /\ L[i].subscribe
                               /\ L[i].key = RoutingKey(D[T[r].by].event.url)
    BY <1>2, <2>1 DEF MadeOK
  <2>3. T[r].by \in Deliveries /\ D[T[r].by] # Idle /\ D[T[r].by].pc # "lookup"
    BY <1>2, <2>1 DEF MadeOK
  <2>4. D2[T[r].by] # Idle /\ D2[T[r].by].pc # "lookup"
        /\ D2[T[r].by].event = D[T[r].by].event
    BY <2>3 DEF Grown
  <2>5. i \in 1..Len(L2) /\ L2[i] = L[i]
    BY <1>0 DEF Grown
  <2> QED  BY <2>1, <2>2, <2>3, <2>4, <2>5
<1> QED  BY <1>1, <1>2

(* Every link found in the rule's namespace is represented among the        *)
(* subscribers by the newest link of its task.                              *)
LEMMA Represented ==
  ASSUME Tables(tasks, links),
         NEW found \in SUBSET (1..Len(links)), NEW n,
         NEW i \in found, tasks[links[i].task].ns = n
  PROVE  \E j \in Subscribers(found, n) : links[j].task = links[i].task
<1> DEFINE same == {j \in found : links[j].task = links[i].task}
<1>0. Len(links) \in Nat
  BY DEF Tables
<1>1. same \in SUBSET (1..Len(links)) /\ i \in same
  OBVIOUS
<1>2. PICK j \in same : \A k \in same : k <= j
  <2> HIDE DEF same
  <2> QED  BY <1>0, <1>1, GreatestNumber
<1>3. j \in Subscribers(found, n)
  BY <1>2 DEF Subscribers
<1> QED  BY <1>3, <1>2

(* Where NextMatch takes a delivery: to the callback when no org is left    *)
(* with anything to do, else to an org with subscribers or to a create.     *)
LEMMA NextMatchShape ==
  ASSUME NEW dl, DOMAIN dl = Fields, NEW nx \in NextMatch(dl)
  PROVE  /\ DOMAIN nx = Fields
         /\ nx.event = dl.event /\ nx.plan = dl.plan /\ nx.found = dl.found
         /\ nx.failed = dl.failed /\ nx.live = dl.live
         /\ nx.todo \subseteq dl.todo
         /\ \A o \in dl.todo \ nx.todo :
              \/ Subscribers(dl.found[o], dl.plan[o].rule.ns) = {}
              \/ o = nx.org /\ nx.pc = "attach"
         /\ \/ nx.pc = "callback" /\ nx.todo = {}
            \/ /\ nx.org \in dl.todo /\ nx.pc \in {"attach", "create"}
               /\ nx.queue = Subscribers(dl.found[nx.org], dl.plan[nx.org].rule.ns)
               /\ nx.pc = "attach" <=> nx.queue # {}
<1> DEFINE subs(o) == Subscribers(dl.found[o], dl.plan[o].rule.ns)
           todo    == {o \in dl.todo : subs(o) # {} \/ dl.plan[o].rule.create}
<1>1. CASE todo = {}
  <2>1. nx = [dl EXCEPT !.pc = "callback", !.todo = {}]
    BY <1>1 DEF NextMatch
  <2>2. \A o \in dl.todo : subs(o) = {}
    BY <1>1
  <2> HIDE DEF subs, todo
  <2>3. /\ DOMAIN nx = Fields /\ nx.pc = "callback" /\ nx.todo = {}
        /\ nx.event = dl.event /\ nx.plan = dl.plan /\ nx.found = dl.found
        /\ nx.failed = dl.failed /\ nx.live = dl.live
    BY <2>1 DEF Fields
  <2> QED  BY <2>2, <2>3 DEF subs
<1>2. CASE todo # {}
  <2>1. PICK o \in todo :
          nx = [dl EXCEPT !.pc = IF subs(o) # {} THEN "attach" ELSE "create",
                          !.org = o, !.todo = todo \ {o}, !.queue = subs(o)]
    BY <1>2 DEF NextMatch
  <2>2. todo \subseteq dl.todo /\ \A p \in dl.todo \ todo : subs(p) = {}
    OBVIOUS
  <2> HIDE DEF subs, todo
  <2>3. /\ DOMAIN nx = Fields /\ nx.org = o /\ nx.todo = todo \ {o} /\ nx.queue = subs(o)
        /\ nx.event = dl.event /\ nx.plan = dl.plan /\ nx.found = dl.found
        /\ nx.failed = dl.failed /\ nx.live = dl.live
        /\ nx.pc = IF subs(o) # {} THEN "attach" ELSE "create"
    BY <2>1 DEF Fields
  <2>4. nx.pc \in {"attach", "create"} /\ (nx.pc = "attach" <=> nx.queue # {})
    BY <2>3
  <2>5. \A p \in dl.todo \ nx.todo : subs(p) = {} \/ (p = nx.org /\ nx.pc = "attach")
    BY <2>2, <2>3
  <2> QED  BY <2>1, <2>2, <2>3, <2>4, <2>5 DEF subs
<1> QED  BY <1>1, <1>2

(* A delivery that is done with all orgs but those to do goes on well.      *)
LEMMA NextMatchOK ==
  ASSUME Tables(tasks, links), NEW d, NEW E, NEW D, NEW dl,
         Based(dl, tasks, links, D),
         \A o \in DOMAIN dl.plan \ dl.todo : Handled(dl, d, o, tasks, links, E),
         NEW nx \in NextMatch(dl)
  PROVE  DeliveryOK(nx, d, tasks, links, E, D)
<1>0. DOMAIN dl = Fields /\ dl.todo \subseteq DOMAIN dl.plan
  BY DEF Based, Planned
<1>1. /\ DOMAIN nx = Fields
      /\ nx.event = dl.event /\ nx.plan = dl.plan /\ nx.found = dl.found
      /\ nx.failed = dl.failed /\ nx.live = dl.live
      /\ nx.todo \subseteq dl.todo
      /\ \A o \in dl.todo \ nx.todo :
           \/ Subscribers(dl.found[o], dl.plan[o].rule.ns) = {}
           \/ o = nx.org /\ nx.pc = "attach"
      /\ \/ nx.pc = "callback" /\ nx.todo = {}
         \/ /\ nx.org \in dl.todo /\ nx.pc \in {"attach", "create"}
            /\ nx.queue = Subscribers(dl.found[nx.org], dl.plan[nx.org].rule.ns)
            /\ nx.pc = "attach" <=> nx.queue # {}
  BY <1>0, NextMatchShape
<1>2. Planned(nx)
  BY <1>0, <1>1 DEF Based, Planned
<1>3. FoundOK(nx, tasks, links)
  BY <1>1 DEF Based, FoundOK
<1>4. LiveFound(nx, tasks, links, D)
  BY <1>1 DEF Based, LiveFound
<1>5. \A o \in DOMAIN dl.plan : dl.found[o] \in SUBSET (1..Len(links))
  BY DEF Based, FoundOK
<1>6. ASSUME NEW o \in dl.todo, Subscribers(dl.found[o], dl.plan[o].rule.ns) = {},
             NEW i \in dl.found[o]
      PROVE  ~Wanted(nx, o, i, tasks, links)
  BY <1>0, <1>1, <1>5, <1>6, Represented DEF Wanted
<1>7. ASSUME NEW o \in DOMAIN nx.plan \ nx.todo, ~(nx.pc = "attach" /\ o = nx.org)
      PROVE  Handled(nx, d, o, tasks, links, E)
  <2>1. CASE o \in dl.todo
    BY <2>1, <1>1, <1>6, <1>7 DEF Handled
  <2>2. CASE o \notin dl.todo
    BY <2>2, <1>1, <1>7 DEF Handled, Wanted, Served
  <2> QED  BY <2>1, <2>2
<1>8. ASSUME nx.pc = "attach" PROVE Attaching(nx, d, tasks, links, E)
  <2>1. /\ nx.org \in dl.todo /\ nx.queue # {}
        /\ nx.queue = Subscribers(dl.found[nx.org], dl.plan[nx.org].rule.ns)
    BY <1>1, <1>8
  <2>2. nx.queue \subseteq dl.found[nx.org]
    BY <2>1 DEF Subscribers
  <2>3. \A i \in nx.found[nx.org] :
          Wanted(nx, nx.org, i, tasks, links) => Queued(nx, i, links)
    BY <1>0, <1>1, <1>5, <2>1, Represented DEF Wanted, Queued
  <2> QED  BY <1>0, <1>1, <2>1, <2>2, <2>3 DEF Attaching
<1>9. ASSUME nx.pc = "create" PROVE Creating(nx, tasks, links)
  BY <1>0, <1>1, <1>6, <1>9 DEF Creating
<1> QED  BY <1>1, <1>2, <1>3, <1>4, <1>7, <1>8, <1>9 DEF DeliveryOK, Based, At

-----------------------------------------------------------------------------
(* A delivery stays where it is or goes on well, and the tables grow.       *)
Goes(d) ==
  \/ deliveries'[d] = deliveries[d]
  \/ DeliveryOK(deliveries'[d], d, tasks, links, events', deliveries)

GrownStep ==
  Grown(tasks, links, events, deliveries, tasks', links', events', deliveries')

(* A step that keeps the tables and lets every delivery go on well keeps    *)
(* the invariant.                                                           *)
LEMMA Combine ==
  ASSUME RouterInv, Tables(tasks', links'), RulesOK', GrownStep,
         DOMAIN deliveries' = Deliveries, \A d \in Deliveries : Goes(d),
         EventsOK(tasks', events', deliveries'), MadeOK(tasks', links', deliveries'),
         SequentialDedup'
  PROVE  RouterInv'
<1>1. Tables(tasks, links) /\ MadeOK(tasks, links, deliveries)
  BY DEF RouterInv
<1>2. Grown(tasks, links, events', deliveries, tasks', links', events', deliveries')
  BY DEF GrownStep, Grown
<1>3. ASSUME NEW d \in Deliveries
      PROVE  \/ deliveries'[d] = Idle
             \/ DeliveryOK(deliveries'[d], d, tasks', links', events', deliveries')
  <2>1. CASE deliveries'[d] = deliveries[d]
    <3>1. \/ deliveries[d] = Idle
          \/ DeliveryOK(deliveries[d], d, tasks, links, events, deliveries)
      BY DEF RouterInv
    <3>2. DeliveryOK(deliveries[d], d, tasks, links, events, deliveries)
          => DeliveryOK(deliveries[d], d, tasks', links', events', deliveries')
      BY <1>1, DeliveryKept DEF GrownStep
    <3> QED  BY <2>1, <3>1, <3>2
  <2>2. CASE DeliveryOK(deliveries'[d], d, tasks, links, events', deliveries)
    <3>1. DeliveryOK(deliveries'[d], d, tasks', links', events', deliveries')
      BY <2>2, <1>1, <1>2, DeliveryKept
    <3> QED  BY <3>1
  <2> QED  BY <2>1, <2>2 DEF Goes
<1> QED  BY <1>3 DEF RouterInv

(* A step after which every row the router made was there before keeps what *)
(* is said of those rows.                                                   *)
LEMMA NoneMade ==
  ASSUME RouterInv, Tables(tasks', links'), GrownStep,
         \A r \in 1..Len(tasks') : r \notin 1..Len(tasks) => tasks'[r].by = NoRow
  PROVE  /\ EventsOK(tasks', events, deliveries')
         /\ MadeOK(tasks', links', deliveries')
         /\ SequentialDedup'
<1>1. Tables(tasks, links) /\ MadeOK(tasks, links, deliveries)
      /\ EventsOK(tasks, events, deliveries)
  BY DEF RouterInv
<1>2. EventsOK(tasks', events, deliveries')
  BY <1>1, RowsKept DEF GrownStep
<1>3. \A r \in 1..Len(tasks) : tasks'[r].by # NoRow =>
        /\ tasks'[r].by \in Deliveries
        /\ deliveries'[tasks'[r].by] # Idle /\ deliveries'[tasks'[r].by].pc # "lookup"
        /\ \E i \in 1..Len(links') :
             /\ links'[i].task = r /\ links'[i].subscribe
             /\ links'[i].key = RoutingKey(deliveries'[tasks'[r].by].event.url)
  BY <1>1, RowsKept DEF GrownStep
<1>4. MadeOK(tasks', links', deliveries')
  BY <1>3 DEF MadeOK
<1>5. ASSUME NEW t \in 1..Len(tasks'), NEW r \in 1..Len(tasks'),
             t # r, tasks'[t].by # NoRow, tasks'[r].by # NoRow,
             tasks'[t].org = tasks'[r].org, tasks'[t].ns = tasks'[r].ns,
             RoutingKey(deliveries'[tasks'[t].by].event.url) =
               RoutingKey(deliveries'[tasks'[r].by].event.url)
      PROVE  r \notin deliveries'[tasks'[t].by].live
  <2>1. t \in 1..Len(tasks) /\ r \in 1..Len(tasks)
    BY <1>5
  <2>2. /\ tasks'[t].by = tasks[t].by /\ tasks'[t].org = tasks[t].org
        /\ tasks'[t].ns = tasks[t].ns
        /\ tasks'[r].by = tasks[r].by /\ tasks'[r].org = tasks[r].org
        /\ tasks'[r].ns = tasks[r].ns
    BY <2>1 DEF GrownStep, Grown
  <2>3. /\ tasks[t].by \in Deliveries /\ tasks[r].by \in Deliveries
        /\ deliveries[tasks[t].by] # Idle /\ deliveries[tasks[t].by].pc # "lookup"
        /\ deliveries[tasks[r].by] # Idle
    BY <1>1, <1>5, <2>1, <2>2 DEF MadeOK
  <2>4. /\ deliveries'[tasks[t].by].event = deliveries[tasks[t].by].event
        /\ deliveries'[tasks[t].by].live = deliveries[tasks[t].by].live
        /\ deliveries'[tasks[r].by].event = deliveries[tasks[r].by].event
    BY <2>3 DEF GrownStep, Grown
  <2>5. SequentialDedup
    BY DEF RouterInv
  <2> QED  BY <1>5, <2>1, <2>2, <2>4, <2>5 DEF SequentialDedup, TaskIds
<1>6. SequentialDedup'
  BY <1>5 DEF SequentialDedup, TaskIds
<1> QED  BY <1>2, <1>4, <1>6

-----------------------------------------------------------------------------
(* The users.                                                               *)
LEMMA UsersOK ==
  ASSUME RouterInv, UserStep
  PROVE  RouterInv'
<1>0. Tables(tasks, links) /\ RulesOK /\ DOMAIN deliveries = Deliveries
  BY DEF RouterInv
<1>l. /\ tasks \in Seq(TaskRow) /\ links \in Seq(LinkRow)
      /\ \A i \in 1..Len(links) : links[i].task \in 1..Len(tasks)
  BY <1>0 DEF Tables
<1>1. events' = events /\ deliveries' = deliveries
  BY DEF UserStep, sent
<1>2. ASSUME RulesOK', Tables(tasks', links'), Len(tasks) <= Len(tasks'),
             \A t \in 1..Len(tasks) : /\ tasks'[t].org = tasks[t].org
                                      /\ tasks'[t].ns = tasks[t].ns
                                      /\ tasks'[t].by = tasks[t].by,
             \A t \in 1..Len(tasks') : t \notin 1..Len(tasks) => tasks'[t].by = NoRow,
             Len(links) <= Len(links'), \A i \in 1..Len(links) : links'[i] = links[i]
      PROVE  RouterInv'
  <2>1. GrownStep
    BY <1>1, <1>2 DEF GrownStep, Grown
  <2>2. \A d \in Deliveries : Goes(d)
    BY <1>1 DEF Goes
  <2>3. /\ EventsOK(tasks', events, deliveries') /\ MadeOK(tasks', links', deliveries')
        /\ SequentialDedup'
    BY <1>2, <2>1, NoneMade
  <2> QED  BY <1>0, <1>1, <1>2, <2>1, <2>2, <2>3, Combine
<1>3. ASSUME NEW o \in Orgs, NEW list \in RuleLists, SetRoutingRules(o, list)
      PROVE  RouterInv'
  <2>1. tasks' = tasks /\ links' = links /\ rules' = [rules EXCEPT ![o] = list]
    BY <1>3 DEF SetRoutingRules
  <2>2. RuleList(list)
    BY RouterAssumption
  <2>3. RulesOK'
    BY <1>0, <2>1, <2>2 DEF RulesOK, RuleList
  <2> QED  BY <1>0, <1>l, <1>2, <2>1, <2>3
<1>4. ASSUME NEW o \in Orgs, NEW u \in Users, MemberLeaves(o, u)
      PROVE  RouterInv'
  <2>1. tasks' = tasks /\ links' = links /\ rules' = rules
    BY <1>4 DEF MemberLeaves
  <2>3. RulesOK'
    BY <1>0, <2>1 DEF RulesOK, RuleList
  <2> QED  BY <1>0, <1>l, <1>2, <2>1, <2>3
<1>5. ASSUME NEW o \in Orgs, NEW n \in Namespaces, CreateTask(o, n)
      PROVE  RouterInv'
  <2> DEFINE row == NewTask(o, n, NoRow, TRUE)
  <2>1. tasks' = Append(tasks, row) /\ links' = links /\ rules' = rules
    BY <1>5 DEF CreateTask
  <2>2. row \in TaskRow /\ row.by = NoRow
    BY DEF NewTask, TaskRow, NoRow
  <2> HIDE DEF row
  <2>3. /\ tasks' \in Seq(TaskRow) /\ Len(tasks') = Len(tasks) + 1
        /\ \A t \in 1..Len(tasks) : tasks'[t] = tasks[t]
        /\ tasks'[Len(tasks) + 1] = row
    BY <1>l, <2>1, <2>2
  <2>4. RulesOK'
    BY <1>0, <2>1 DEF RulesOK, RuleList
  <2>5. Tables(tasks', links')
    BY <1>l, <2>1, <2>3 DEF Tables
  <2> QED  BY <1>l, <1>2, <2>1, <2>2, <2>3, <2>4, <2>5
<1>6. ASSUME NEW t \in TaskIds, ArchiveTask(t) \/ UnarchiveTask(t)
      PROVE  RouterInv'
  <2>0. t \in 1..Len(tasks) /\ tasks[t] \in TaskRow
    BY <1>l DEF TaskIds
  <2>1. links' = links /\ rules' = rules
    BY <1>6 DEF ArchiveTask, UnarchiveTask
  <2>2. PICK row \in TaskRow : /\ tasks' = [tasks EXCEPT ![t] = row]
                               /\ row.org = tasks[t].org /\ row.ns = tasks[t].ns
                               /\ row.by = tasks[t].by
    <3>1. CASE ArchiveTask(t)
      <4> DEFINE row == [tasks[t] EXCEPT !.archived = TRUE, !.woken = FALSE]
      <4>1. tasks' = [tasks EXCEPT ![t] = row]
        BY <3>1, <2>0, <1>l DEF ArchiveTask
      <4>2. row \in TaskRow /\ row.org = tasks[t].org /\ row.ns = tasks[t].ns
            /\ row.by = tasks[t].by
        BY <2>0 DEF TaskRow
      <4> QED  BY <4>1, <4>2
    <3>2. CASE UnarchiveTask(t)
      <4> DEFINE row == [tasks[t] EXCEPT !.archived = FALSE]
      <4>1. tasks' = [tasks EXCEPT ![t] = row]
        BY <3>2, <2>0, <1>l DEF UnarchiveTask
      <4>2. row \in TaskRow /\ row.org = tasks[t].org /\ row.ns = tasks[t].ns
            /\ row.by = tasks[t].by
        BY <2>0 DEF TaskRow
      <4> QED  BY <4>1, <4>2
    <3> QED  BY <1>6, <3>1, <3>2
  <2>3. /\ tasks' \in Seq(TaskRow) /\ Len(tasks') = Len(tasks)
        /\ \A r \in 1..Len(tasks) : tasks'[r] = IF r = t THEN row ELSE tasks[r]
    BY <1>l, <2>0, <2>2
  <2>4. RulesOK'
    BY <1>0, <2>1 DEF RulesOK, RuleList
  <2>5. Tables(tasks', links')
    BY <1>l, <2>1, <2>3 DEF Tables
  <2> QED  BY <1>l, <1>2, <2>1, <2>2, <2>3, <2>4, <2>5
<1>7. ASSUME NEW t \in TaskIds, NEW e \in Events, NEW b \in BOOLEAN,
             CreateLink(t, e.url, b)
      PROVE  RouterInv'
  <2> DEFINE row == [task |-> t, key |-> RoutingKey(e.url), subscribe |-> b]
  <2>1. links' = Append(links, row) /\ tasks' = tasks /\ rules' = rules
    BY <1>7 DEF CreateLink
  <2>2. e.url \in Seq(STRING)
    BY RouterAssumption
  <2>3. row \in LinkRow /\ row.task \in 1..Len(tasks)
    BY <2>2, <1>l DEF LinkRow, TaskIds
  <2> HIDE DEF row
  <2>4. /\ links' \in Seq(LinkRow) /\ Len(links') = Len(links) + 1
        /\ \A i \in 1..Len(links) : links'[i] = links[i]
        /\ links'[Len(links) + 1] = row
    BY <1>l, <2>1, <2>3
  <2>5. RulesOK'
    BY <1>0, <2>1 DEF RulesOK, RuleList
  <2>6. Tables(tasks', links')
    BY <1>l, <2>1, <2>3, <2>4 DEF Tables
  <2> QED  BY <1>l, <1>2, <2>1, <2>3, <2>4, <2>5, <2>6
<1> QED  BY <1>3, <1>4, <1>5, <1>6, <1>7 DEF UserStep

-----------------------------------------------------------------------------
(* The delivery.  FirstMatch picks a rule of the list that the actor may    *)
(* use.                                                                     *)
LEMMA FirstMatchOK ==
  ASSUME NEW list, RuleList(list), NEW isMember, NEW e,
         FirstMatch(list, isMember, e) # 0
  PROVE  LET hit == FirstMatch(list, isMember, e)
         IN  hit \in DOMAIN list /\ (isMember \/ list[hit].public)
<1> DEFINE hits == {i \in DOMAIN list : /\ isMember \/ list[i].public
                                        /\ Match(list[i], e)}
<1>1. hits # {} /\ FirstMatch(list, isMember, e) = CHOOSE i \in hits : \A j \in hits : i <= j
  BY DEF FirstMatch
<1>2. hits \in SUBSET Nat
  BY DEF RuleList
<1>3. \E i \in hits : \A j \in hits : i <= j
  <2> HIDE DEF hits
  <2> QED  BY <1>1, <1>2, LeastNumber
<1>4. FirstMatch(list, isMember, e) \in hits
  <2> HIDE DEF hits
  <2> QED  BY <1>1, <1>3
<1> QED  BY <1>4

(* Plan takes in only orgs the delivery may write to.                       *)
LEMMA PlanOK ==
  ASSUME RulesOK, NEW e, e.orgs \subseteq Orgs, NEW o \in DOMAIN Plan(e)
  PROVE  /\ o \in Orgs /\ Plan(e)[o].rule.ns \in Namespaces
         /\ Plan(e)[o].member \/ (o \in e.orgs /\ Plan(e)[o].rule.public)
<1> DEFINE hit(p) == FirstMatch(rules[p], e.user \in members[p], e)
<1>1. /\ o \in ListRoutingRulesForEvent(e) /\ hit(o) # 0
      /\ Plan(e)[o] = [rule |-> rules[o][hit(o)], member |-> e.user \in members[o]]
  BY DEF Plan
<1>2. o \in Orgs /\ (e.user \in members[o] \/ o \in e.orgs)
  BY <1>1 DEF ListRoutingRulesForEvent
<1>3. RuleList(rules[o])
  BY <1>2 DEF RulesOK
<1>4. hit(o) \in DOMAIN rules[o] /\ (e.user \in members[o] \/ rules[o][hit(o)].public)
  BY <1>1, <1>3, FirstMatchOK
<1>5. rules[o][hit(o)].ns \in Namespaces
  BY <1>3, <1>4 DEF RuleList
<1> HIDE DEF hit
<1>6. Plan(e)[o].rule = rules[o][hit(o)]
  BY <1>1
<1>7. ASSUME e.user \in members[o] PROVE Plan(e)[o].member
  <2>1. (e.user \in members[o]) = TRUE
    BY <1>7, Zenon
  <2>2. Plan(e)[o] = [rule |-> rules[o][hit(o)], member |-> TRUE]
    BY <1>1, <2>1, Zenon
  <2> QED  BY <2>2
<1> QED  BY <1>2, <1>4, <1>5, <1>6, <1>7, Zenon

(* A delivery that has been planned starts well.                            *)
LEMMA StartOK ==
  ASSUME NEW T, NEW L, NEW E, NEW D, NEW d, NEW e, NEW b, NEW plan,
         e.url \in Seq(STRING),
         \A o \in DOMAIN plan :
           /\ o \in Orgs /\ plan[o].rule.ns \in Namespaces
           /\ plan[o].member \/ (o \in e.orgs /\ plan[o].rule.public)
  PROVE  DeliveryOK(Delivery("lookup", e, b, plan), d, T, L, E, D)
<1> DEFINE dl == Delivery("lookup", e, b, plan)
<1>1. /\ DOMAIN dl = Fields /\ dl.pc = "lookup" /\ dl.event = e /\ dl.plan = plan
      /\ dl.todo = DOMAIN plan /\ dl.live = {}
      /\ dl.found = [o \in DOMAIN plan |-> {}]
  BY DEF Delivery, Fields
<1> HIDE DEF dl
<1>2. Planned(dl)
  BY <1>1 DEF Planned
<1>3. FoundOK(dl, T, L)
  BY <1>1 DEF FoundOK
<1>4. LiveFound(dl, T, L, D)
  BY <1>1 DEF LiveFound
<1>5. At(dl, d, T, L, E)
  BY <1>1 DEF At
<1> QED  BY <1>2, <1>3, <1>4, <1>5 DEF DeliveryOK, Based, dl

(* A step of one delivery.                                                  *)
LEMMA OneGoes ==
  ASSUME RouterInv, NEW d \in Deliveries, NEW nx,
         deliveries' = [deliveries EXCEPT ![d] = nx],
         DeliveryOK(nx, d, tasks, links, events', deliveries)
  PROVE  /\ DOMAIN deliveries' = Deliveries /\ deliveries'[d] = nx
         /\ \A c \in Deliveries : c # d => deliveries'[c] = deliveries[c]
         /\ \A c \in Deliveries : Goes(c)
<1>1. DOMAIN deliveries = Deliveries
  BY DEF RouterInv
<1>2. /\ DOMAIN deliveries' = Deliveries /\ deliveries'[d] = nx
      /\ \A c \in Deliveries : c # d => deliveries'[c] = deliveries[c]
  BY <1>1
<1>3. \A c \in Deliveries : Goes(c)
  BY <1>2 DEF Goes
<1> QED  BY <1>2, <1>3

(* A step that writes no row: planning, lookup and callback.                *)
LEMMA NoRowStep ==
  ASSUME RouterInv, NEW d \in Deliveries, NEW nx,
         deliveries' = [deliveries EXCEPT ![d] = nx],
         tasks' = tasks, links' = links, events' = events, rules' = rules,
         DeliveryOK(nx, d, tasks, links, events, deliveries),
         \/ deliveries[d] = Idle
         \/ /\ nx.event = deliveries[d].event /\ nx.plan = deliveries[d].plan
            /\ deliveries[d].pc # "lookup" =>
                 nx.pc # "lookup" /\ nx.live = deliveries[d].live
  PROVE  RouterInv'
<1>0. Tables(tasks, links) /\ RulesOK
  BY DEF RouterInv
<1>1. /\ DOMAIN deliveries' = Deliveries /\ deliveries'[d] = nx
      /\ \A c \in Deliveries : c # d => deliveries'[c] = deliveries[c]
      /\ \A c \in Deliveries : Goes(c)
  BY OneGoes
<1>2. nx # Idle
  <2>1. nx.pc # "idle"
    BY DEF DeliveryOK, At
  <2> QED  BY <2>1 DEF Idle
<1>3. GrownStep
  <2>1. Len(tasks) \in Nat /\ Len(links) \in Nat
    BY <1>0 DEF Tables
  <2> QED  BY <1>1, <1>2, <2>1 DEF GrownStep, Grown
<1>4. Tables(tasks', links')
  BY <1>0
<1>5. RulesOK'
  BY <1>0 DEF RulesOK, RuleList
<1>6. /\ EventsOK(tasks', events', deliveries') /\ MadeOK(tasks', links', deliveries')
      /\ SequentialDedup'
  BY <1>3, <1>4, NoneMade
<1> QED  BY <1>1, <1>3, <1>4, <1>5, <1>6, Combine

(* Route plans against the rules of the moment.                             *)
LEMMA RouteOK ==
  ASSUME RouterInv, NEW d \in Deliveries, NEW e \in Events, Route(d, e)
  PROVE  RouterInv'
<1>1. /\ deliveries[d] = Idle
      /\ deliveries' = [deliveries EXCEPT ![d] = Delivery("lookup", e, FALSE, Plan(e))]
      /\ tasks' = tasks /\ links' = links /\ events' = events /\ rules' = rules
  BY DEF Route
<1>2. e.url \in Seq(STRING) /\ e.orgs \subseteq Orgs /\ RulesOK
  BY RouterAssumption DEF RouterInv
<1>3. DeliveryOK(Delivery("lookup", e, FALSE, Plan(e)), d, tasks, links, events, deliveries)
  BY <1>2, PlanOK, StartOK
<1> QED  BY <1>1, <1>3, NoRowStep

(* TestEvent plans for one org.                                             *)
LEMMA TestEventOK ==
  ASSUME RouterInv, NEW d \in Deliveries, NEW e \in Events, NEW o \in Orgs,
         TestEvent(d, e, o)
  PROVE  RouterInv'
<1> DEFINE scoped == [e EXCEPT !.orgs = {o}]
           plan   == [p \in DOMAIN Plan(scoped) \cap {o} |-> Plan(scoped)[p]]
           dl     == Delivery("lookup", scoped, TRUE, plan)
<1>1. /\ deliveries[d] = Idle /\ deliveries' = [deliveries EXCEPT ![d] = dl]
      /\ tasks' = tasks /\ links' = links /\ events' = events /\ rules' = rules
  BY DEF TestEvent
<1>2. scoped.url = e.url /\ scoped.orgs = {o} /\ e.url \in Seq(STRING) /\ RulesOK
  BY RouterAssumption DEF RouterInv
<1> HIDE DEF scoped
<1>3. scoped.orgs \subseteq Orgs /\ scoped.url \in Seq(STRING)
  BY <1>2
<1>4. \A p \in DOMAIN Plan(scoped) :
         /\ p \in Orgs /\ Plan(scoped)[p].rule.ns \in Namespaces
         /\ Plan(scoped)[p].member \/ (p \in scoped.orgs /\ Plan(scoped)[p].rule.public)
  BY <1>2, <1>3, PlanOK
<1>5. \A p \in DOMAIN plan : p \in DOMAIN Plan(scoped) /\ plan[p] = Plan(scoped)[p]
  OBVIOUS
<1> HIDE DEF plan
<1>6. DeliveryOK(dl, d, tasks, links, events, deliveries)
  BY <1>3, <1>4, <1>5, StartOK
<1> HIDE DEF dl
<1> QED  BY <1>1, <1>6, NoRowStep

(* The lookup finds, among others, the link of every live task the router   *)
(* had made for the key.                                                    *)
LEMMA LookupOK ==
  ASSUME RouterInv, NEW d \in Deliveries, Lookup(d)
  PROVE  RouterInv'
<1> DEFINE dl  == deliveries[d]
           key == RoutingKey(dl.event.url)
           bs  == [dl EXCEPT !.found = [o \in DOMAIN dl.plan |->
                                          FindSubscribedLinksForOrgs(key, o)],
                             !.live = {t \in TaskIds : ~tasks[t].archived}]
<1>1. PICK nx \in NextMatch(bs) : deliveries' = [deliveries EXCEPT ![d] = nx]
  BY DEF Lookup
<1>2. /\ dl.pc = "lookup"
      /\ tasks' = tasks /\ links' = links /\ events' = events /\ rules' = rules
  BY DEF Lookup
<1>3. /\ Tables(tasks, links) /\ MadeOK(tasks, links, deliveries)
      /\ DeliveryOK(dl, d, tasks, links, events, deliveries)
  BY <1>2 DEF RouterInv, Idle
<1>4. Planned(dl) /\ dl.todo = DOMAIN dl.plan
  BY <1>2, <1>3 DEF DeliveryOK, Based, At
<1>5. /\ DOMAIN bs = Fields /\ bs.event = dl.event /\ bs.plan = dl.plan
      /\ bs.todo = dl.todo
      /\ bs.found = [o \in DOMAIN dl.plan |-> FindSubscribedLinksForOrgs(key, o)]
      /\ bs.live = {t \in TaskIds : ~tasks[t].archived}
  BY <1>4 DEF Planned, Fields
<1> HIDE DEF bs
<1>6. Planned(bs)
  BY <1>4, <1>5 DEF Planned
<1>7. FoundOK(bs, tasks, links)
  BY <1>3, <1>5 DEF FoundOK, FindSubscribedLinksForOrgs, Tables
<1>8. LiveFound(bs, tasks, links, deliveries)
  <2>1. bs.live \subseteq 1..Len(tasks)
    BY <1>5 DEF TaskIds
  <2>2. ASSUME NEW r \in bs.live, tasks[r].by # NoRow, tasks[r].org \in DOMAIN bs.plan,
               RoutingKey(deliveries[tasks[r].by].event.url) = RoutingKey(bs.event.url)
        PROVE  \E i \in bs.found[tasks[r].org] : links[i].task = r
    <3>1. PICK i \in 1..Len(links) :
            /\ links[i].task = r /\ links[i].subscribe
            /\ links[i].key = RoutingKey(deliveries[tasks[r].by].event.url)
      BY <1>3, <2>1, <2>2 DEF MadeOK
    <3>2. i \in DOMAIN links /\ links[i].key = key
      BY <3>1, <2>2, <1>3, <1>5 DEF Tables
    <3>3. ~tasks[r].archived
      BY <1>5
    <3>4. i \in FindSubscribedLinksForOrgs(key, tasks[r].org)
      BY <3>1, <3>2, <3>3 DEF FindSubscribedLinksForOrgs
    <3> QED  BY <3>1, <3>4, <2>2, <1>5
  <2> QED  BY <2>1, <2>2 DEF LiveFound
<1>9. DeliveryOK(nx, d, tasks, links, events, deliveries)
  BY <1>3, <1>4, <1>5, <1>6, <1>7, <1>8, NextMatchOK DEF Based
<1>10. nx.event = dl.event /\ nx.plan = dl.plan
  BY <1>5, NextMatchShape
<1> QED  BY <1>1, <1>2, <1>9, <1>10, NoRowStep

(* The callback writes no row of these tables.                              *)
LEMMA OutcomesOK ==
  ASSUME RouterInv, NEW d \in Deliveries, Outcomes(d)
  PROVE  RouterInv'
<1> DEFINE dl == deliveries[d]
           nx == [dl EXCEPT !.pc = "done"]
<1>0. DOMAIN deliveries = Deliveries
  BY DEF RouterInv
<1>1. /\ dl.pc = "callback" /\ deliveries' = [deliveries EXCEPT ![d] = nx]
      /\ tasks' = tasks /\ links' = links /\ events' = events /\ rules' = rules
  BY <1>0 DEF Outcomes
<1>2. DeliveryOK(dl, d, tasks, links, events, deliveries)
  BY <1>1 DEF RouterInv, Idle
<1>3. DOMAIN dl = Fields
  BY <1>2 DEF DeliveryOK, Based, Planned
<1>4. /\ DOMAIN nx = Fields /\ nx.pc = "done" /\ nx.event = dl.event
      /\ nx.plan = dl.plan /\ nx.todo = dl.todo /\ nx.found = dl.found
      /\ nx.failed = dl.failed /\ nx.live = dl.live
  BY <1>3 DEF Fields
<1> HIDE DEF nx
<1>5. Based(nx, tasks, links, deliveries)
  BY <1>2, <1>4 DEF DeliveryOK, Based, Planned, FoundOK, LiveFound
<1>6. At(nx, d, tasks, links, events)
  BY <1>1, <1>2, <1>4 DEF DeliveryOK, At, Handled, Wanted, Served
<1>7. DeliveryOK(nx, d, tasks, links, events, deliveries)
  BY <1>5, <1>6 DEF DeliveryOK
<1> QED  BY <1>1, <1>4, <1>7, NoRowStep

(* One subscriber is served, or its attach has failed.                      *)
LEMMA AttachOK ==
  ASSUME RouterInv, NEW d \in Deliveries, NEW ok \in BOOLEAN, Attach(d, ok)
  PROVE  RouterInv'
<1> DEFINE dl   == deliveries[d]
           i    == Newest(dl.queue)
           t    == links[i].task
           left == dl.queue \ {i}
           done == [dl EXCEPT !.queue = left,
                      !.outcomes[dl.org].tasks = IF ok THEN @ \cup {t} ELSE @,
                      !.failed = IF ok THEN @ ELSE @ \cup {t}]
<1>1. PICK nx \in IF left = {} THEN NextMatch(done) ELSE {done} :
        deliveries' = [deliveries EXCEPT ![d] = nx]
  BY DEF Attach
<1>2. /\ dl.pc = "attach" /\ links' = links /\ rules' = rules
      /\ events' = IF ok THEN events \cup {[task |-> t, by |-> d]} ELSE events
      /\ tasks' = IF ok /\ dl.plan[dl.org].rule.wakeup /\ ~tasks[t].archived
                    THEN [tasks EXCEPT ![t].woken = TRUE] ELSE tasks
  BY DEF Attach
<1>3. /\ Tables(tasks, links) /\ MadeOK(tasks, links, deliveries) /\ RulesOK
      /\ DeliveryOK(dl, d, tasks, links, events, deliveries)
      /\ EventsOK(tasks, events, deliveries)
  BY <1>2 DEF RouterInv, Idle
<1>4. /\ Planned(dl) /\ FoundOK(dl, tasks, links) /\ LiveFound(dl, tasks, links, deliveries)
      /\ Attaching(dl, d, tasks, links, events)
      /\ \A o \in DOMAIN dl.plan \ dl.todo :
           Handled(dl, d, o, tasks, links, events) \/ o = dl.org
  BY <1>2, <1>3 DEF DeliveryOK, Based, At
<1>5. /\ dl.org \in DOMAIN dl.plan /\ dl.queue # {} /\ dl.queue \subseteq dl.found[dl.org]
      /\ dl.queue \in SUBSET (1..Len(links)) /\ Len(links) \in Nat
  BY <1>3, <1>4 DEF Attaching, FoundOK, Tables
<1>6. i \in dl.queue
  <2>1. \E j \in dl.queue : \A k \in dl.queue : k <= j
    BY <1>5, GreatestNumber
  <2> QED  BY <2>1 DEF Newest
<1>7. t \in 1..Len(tasks) /\ tasks[t].org = dl.org /\ tasks[t] \in TaskRow
  BY <1>3, <1>4, <1>5, <1>6 DEF FoundOK, Tables
<1>8. /\ DOMAIN done = Fields /\ done.pc = "attach" /\ done.event = dl.event
      /\ done.plan = dl.plan /\ done.todo = dl.todo /\ done.found = dl.found
      /\ done.org = dl.org /\ done.live = dl.live /\ done.queue = left
      /\ done.failed = IF ok THEN dl.failed ELSE dl.failed \cup {t}
  BY <1>2, <1>4 DEF Planned, Fields
<1> HIDE DEF done, i
<1>9. Based(done, tasks, links, deliveries)
  BY <1>4, <1>8 DEF Based, Planned, FoundOK, LiveFound
<1>10. \A j \in 1..Len(links) :
         /\ Served(dl, d, j, links, events) => Served(done, d, j, links, events')
         /\ links[j].task = t => Served(done, d, j, links, events')
  BY <1>2, <1>8 DEF Served
<1>11. \A o \in DOMAIN done.plan \ done.todo :
         Handled(done, d, o, tasks, links, events') \/ o = done.org
  <2>1. \A o \in DOMAIN dl.plan : \A j \in dl.found[o] : j \in 1..Len(links)
    BY <1>4 DEF FoundOK
  <2> QED  BY <2>1, <1>4, <1>8, <1>10 DEF Handled, Wanted
<1>12. \A j \in done.found[done.org] : Wanted(done, done.org, j, tasks, links) =>
          Served(done, d, j, links, events') \/ Queued(done, j, links)
  <2> SUFFICES ASSUME NEW j \in dl.found[dl.org], Wanted(done, dl.org, j, tasks, links)
               PROVE  Served(done, d, j, links, events') \/ Queued(done, j, links)
    BY <1>8
  <2>1. j \in 1..Len(links) /\ Wanted(dl, dl.org, j, tasks, links)
    BY <1>4, <1>5, <1>8 DEF FoundOK, Wanted
  <2>2. Served(dl, d, j, links, events) \/ Queued(dl, j, links)
    BY <1>4, <2>1 DEF Attaching
  <2>3. ASSUME Queued(dl, j, links), links[j].task # t
        PROVE  Queued(done, j, links)
    BY <2>3, <1>8 DEF Queued
  <2> QED  BY <2>1, <2>2, <2>3, <1>10
<1>13. DeliveryOK(nx, d, tasks, links, events', deliveries)
  <2>1. CASE left = {}
    <3>1. \A j \in done.found[done.org] : ~Queued(done, j, links)
      BY <2>1, <1>8 DEF Queued
    <3>2. Handled(done, d, done.org, tasks, links, events')
      BY <3>1, <1>12 DEF Handled
    <3>3. \A o \in DOMAIN done.plan \ done.todo :
            Handled(done, d, o, tasks, links, events')
      BY <3>2, <1>11
    <3> QED  BY <2>1, <3>3, <1>1, <1>3, <1>9, NextMatchOK
  <2>2. CASE left # {}
    <3>1. Attaching(done, d, tasks, links, events')
      BY <2>2, <1>5, <1>8, <1>12 DEF Attaching
    <3>2. At(done, d, tasks, links, events')
      BY <3>1, <1>8, <1>11 DEF At
    <3> QED  BY <2>2, <3>2, <1>1, <1>9 DEF DeliveryOK
  <2> QED  BY <2>1, <2>2
<1>14. /\ nx.event = dl.event /\ nx.plan = dl.plan /\ nx.live = dl.live
       /\ nx.pc \notin {"idle", "lookup"}
  <2>1. CASE left = {}
    BY <2>1, <1>1, <1>8, NextMatchShape
  <2>2. CASE left # {}
    BY <2>2, <1>1, <1>8
  <2> QED  BY <2>1, <2>2
<1>15. /\ DOMAIN deliveries' = Deliveries /\ deliveries'[d] = nx
       /\ \A c \in Deliveries : c # d => deliveries'[c] = deliveries[c]
       /\ \A c \in Deliveries : Goes(c)
  BY <1>1, <1>13, OneGoes
<1>16. PICK row \in TaskRow : /\ tasks' = [tasks EXCEPT ![t] = row]
                              /\ row.org = tasks[t].org /\ row.ns = tasks[t].ns
                              /\ row.by = tasks[t].by
  <2> DEFINE woke == [tasks[t] EXCEPT !.woken = TRUE]
  <2>1. woke \in TaskRow /\ woke.org = tasks[t].org /\ woke.ns = tasks[t].ns
        /\ woke.by = tasks[t].by
    BY <1>7 DEF TaskRow
  <2>2. tasks' = [tasks EXCEPT ![t] = woke] \/ tasks' = [tasks EXCEPT ![t] = tasks[t]]
    BY <1>2, <1>3, <1>7 DEF Tables
  <2> HIDE DEF woke
  <2> QED  BY <1>7, <2>1, <2>2
<1>17. /\ tasks' \in Seq(TaskRow) /\ Len(tasks') = Len(tasks)
       /\ \A r \in 1..Len(tasks) : tasks'[r] = IF r = t THEN row ELSE tasks[r]
  BY <1>3, <1>7, <1>16 DEF Tables
<1>18. Tables(tasks', links')
  BY <1>2, <1>3, <1>17 DEF Tables
<1>19. GrownStep
  <2>1. nx # Idle
    BY <1>14 DEF Idle
  <2>2. Len(tasks) \in Nat
    BY <1>3 DEF Tables
  <2>3. \A r \in 1..Len(tasks) : /\ tasks'[r].org = tasks[r].org
                                 /\ tasks'[r].ns = tasks[r].ns
                                 /\ tasks'[r].by = tasks[r].by
    BY <1>16, <1>17
  <2>4. events \subseteq events'
    BY <1>2
  <2> QED  BY <1>2, <1>5, <1>14, <1>15, <1>17, <2>1, <2>2, <2>3, <2>4 DEF GrownStep, Grown
<1>20. /\ EventsOK(tasks', events, deliveries') /\ MadeOK(tasks', links', deliveries')
       /\ SequentialDedup'
  BY <1>17, <1>18, <1>19, NoneMade
<1>21. EventsOK(tasks', events', deliveries')
  <2>1. deliveries'[d] # Idle /\ deliveries'[d].plan = dl.plan
    BY <1>14, <1>15 DEF Idle
  <2>2. t \in 1..Len(tasks') /\ tasks'[t].org = dl.org
    BY <1>7, <1>16, <1>17
  <2>3. \A e \in events' : e \in events \/ e = [task |-> t, by |-> d]
    BY <1>2
  <2> QED  BY <2>1, <2>2, <2>3, <1>5, <1>20 DEF EventsOK
<1>22. RulesOK'
  BY <1>2, <1>3 DEF RulesOK, RuleList
<1> QED  BY <1>15, <1>18, <1>19, <1>20, <1>21, <1>22, Combine

(* The created task: no live task of its kind was there when the delivery   *)
(* looked, because its link would have been found.                          *)
LEMMA CreateOK ==
  ASSUME RouterInv, NEW d \in Deliveries, NEW ok \in BOOLEAN, Create(d, ok)
  PROVE  RouterInv'
<1> DEFINE dl   == deliveries[d]
           rule == dl.plan[dl.org].rule
           t    == Len(tasks) + 1
           done == [dl EXCEPT !.outcomes[dl.org] =
                      [created |-> ok, tasks |-> IF ok THEN {t} ELSE {}]]
           key  == RoutingKey(dl.event.url)
           row  == NewTask(dl.org, rule.ns, d, TRUE)
           link == [task |-> t, key |-> key, subscribe |-> TRUE]
<1>1. PICK nx \in NextMatch(done) : deliveries' = [deliveries EXCEPT ![d] = nx]
  BY DEF Create
<1>2. /\ dl.pc = "create" /\ rules' = rules
      /\ tasks' = IF ok THEN Append(tasks, row) ELSE tasks
      /\ links' = IF ok THEN Append(links, link) ELSE links
      /\ events' = IF ok THEN events \cup {[task |-> t, by |-> d]} ELSE events
  BY DEF Create
<1>3. /\ Tables(tasks, links) /\ MadeOK(tasks, links, deliveries) /\ RulesOK
      /\ DeliveryOK(dl, d, tasks, links, events, deliveries)
      /\ EventsOK(tasks, events, deliveries)
  BY <1>2 DEF RouterInv, Idle
<1>4. /\ Planned(dl) /\ FoundOK(dl, tasks, links) /\ LiveFound(dl, tasks, links, deliveries)
      /\ Creating(dl, tasks, links)
      /\ \A o \in DOMAIN dl.plan \ dl.todo : Handled(dl, d, o, tasks, links, events)
  BY <1>2, <1>3 DEF DeliveryOK, Based, At
<1>5. dl.org \in DOMAIN dl.plan /\ dl.org \in Orgs /\ rule.ns \in Namespaces
      /\ dl.event.url \in Seq(STRING)
  BY <1>4 DEF Creating, Planned
<1>6. /\ DOMAIN done = Fields /\ done.event = dl.event
      /\ done.plan = dl.plan /\ done.todo = dl.todo /\ done.found = dl.found
      /\ done.live = dl.live /\ done.failed = dl.failed
  BY <1>4 DEF Planned, Fields
<1> HIDE DEF done
<1>7. Based(done, tasks, links, deliveries)
  BY <1>4, <1>6 DEF Based, Planned, FoundOK, LiveFound
<1>8. events \subseteq events' /\ \A e \in events' : e \in events \/ (ok /\ e = [task |-> t, by |-> d])
  BY <1>2
<1>9. \A o \in DOMAIN done.plan \ done.todo : Handled(done, d, o, tasks, links, events')
  BY <1>4, <1>6, <1>8 DEF Handled, Wanted, Served
<1>10. DeliveryOK(nx, d, tasks, links, events', deliveries)
  BY <1>1, <1>3, <1>7, <1>9, NextMatchOK
<1>11. /\ nx.event = dl.event /\ nx.plan = dl.plan /\ nx.live = dl.live
       /\ nx.pc \notin {"idle", "lookup"}
  BY <1>1, <1>6, NextMatchShape
<1>12. /\ DOMAIN deliveries' = Deliveries /\ deliveries'[d] = nx
       /\ \A c \in Deliveries : c # d => deliveries'[c] = deliveries[c]
       /\ \A c \in Deliveries : Goes(c)
  BY <1>1, <1>10, OneGoes
<1>13. /\ tasks \in Seq(TaskRow) /\ links \in Seq(LinkRow)
       /\ Len(tasks) \in Nat /\ Len(links) \in Nat
       /\ \A i \in 1..Len(links) : links[i].task \in 1..Len(tasks)
  BY <1>3 DEF Tables
<1>14. row \in TaskRow /\ row.org = dl.org /\ row.ns = rule.ns /\ row.by = d
  BY <1>5 DEF TaskRow, NewTask
<1>15. link \in LinkRow /\ link.task = t /\ link.key = key /\ link.subscribe
  BY <1>5, <1>13 DEF LinkRow
<1> HIDE DEF row, link
<1>16. /\ \A r \in 1..Len(tasks) : tasks'[r] = tasks[r]
       /\ \A i \in 1..Len(links) : links'[i] = links[i]
       /\ Len(tasks) <= Len(tasks') /\ Len(links) <= Len(links')
       /\ tasks' \in Seq(TaskRow) /\ links' \in Seq(LinkRow)
  BY <1>2, <1>13, <1>14, <1>15
<1>17. CASE ~ok
  <2>1. tasks' = tasks /\ links' = links /\ events' = events
    BY <1>2, <1>17
  <2>2. DeliveryOK(nx, d, tasks, links, events, deliveries)
    BY <1>10, <2>1
  <2> QED  BY <1>1, <1>2, <1>11, <2>1, <2>2, NoRowStep
<1>18. CASE ok
  <2>1. /\ Len(tasks') = t /\ tasks'[t] = row /\ Len(links') = Len(links) + 1
        /\ links'[Len(links) + 1] = link /\ t \in 1..Len(tasks') /\ t \notin 1..Len(tasks)
    BY <1>2, <1>13, <1>14, <1>15, <1>18
  <2>2. \A r \in 1..Len(tasks') : r \in 1..Len(tasks) \/ r = t
    BY <2>1, <1>13
  <2>3. Tables(tasks', links')
    BY <1>13, <1>15, <1>16, <2>1 DEF Tables
  <2>4. nx # Idle
    BY <1>11 DEF Idle
  <2>5. GrownStep
    BY <1>8, <1>11, <1>12, <1>16, <2>4 DEF GrownStep, Grown
  <2> HIDE DEF t, rule, key
  <2>6. EventsOK(tasks', events', deliveries')
    <3>1. EventsOK(tasks', events, deliveries')
      BY <1>3, <2>3, <2>5, RowsKept DEF GrownStep
    <3>2. \A e \in events' : e \in events \/ e = [task |-> t, by |-> d]
      BY <1>8
    <3>3. deliveries'[d] # Idle /\ deliveries'[d].plan = dl.plan /\ tasks'[t].org = dl.org
      BY <1>11, <1>12, <1>14, <2>1, <2>4
    <3> QED  BY <3>1, <3>2, <3>3, <1>5, <2>1 DEF EventsOK
  <2>7. MadeOK(tasks', links', deliveries')
    <3>1. \A r \in 1..Len(tasks) : tasks'[r].by # NoRow =>
            /\ tasks'[r].by \in Deliveries
            /\ deliveries'[tasks'[r].by] # Idle /\ deliveries'[tasks'[r].by].pc # "lookup"
            /\ \E i \in 1..Len(links') :
                 /\ links'[i].task = r /\ links'[i].subscribe
                 /\ links'[i].key = RoutingKey(deliveries'[tasks'[r].by].event.url)
      BY <1>3, <2>3, <2>5, RowsKept DEF GrownStep
    <3>2. /\ tasks'[t].by = d /\ deliveries'[d] # Idle /\ deliveries'[d].pc # "lookup"
          /\ Len(links) + 1 \in 1..Len(links')
          /\ links'[Len(links) + 1].task = t /\ links'[Len(links) + 1].subscribe
          /\ links'[Len(links) + 1].key = RoutingKey(deliveries'[d].event.url)
      BY <1>11, <1>12, <1>13, <1>14, <1>15, <2>1, <2>4 DEF key
    <3> QED  BY <3>1, <3>2, <2>2 DEF MadeOK
  <2>8. ASSUME NEW x \in 1..Len(tasks'), NEW r \in 1..Len(tasks'),
               x # r, tasks'[x].by # NoRow, tasks'[r].by # NoRow,
               tasks'[x].org = tasks'[r].org, tasks'[x].ns = tasks'[r].ns,
               RoutingKey(deliveries'[tasks'[x].by].event.url) =
                 RoutingKey(deliveries'[tasks'[r].by].event.url)
        PROVE  r \notin deliveries'[tasks'[x].by].live
    <3>1. ASSUME NEW y \in 1..Len(tasks), tasks'[y].by # NoRow
          PROVE  /\ tasks'[y] = tasks[y] /\ tasks[y].by \in Deliveries
                 /\ deliveries[tasks[y].by] # Idle
                 /\ deliveries[tasks[y].by].pc \notin {"idle", "lookup"}
                 /\ deliveries'[tasks[y].by].event = deliveries[tasks[y].by].event
                 /\ deliveries'[tasks[y].by].live = deliveries[tasks[y].by].live
                 /\ deliveries[tasks[y].by].live \subseteq 1..Len(tasks)
      <4>1. tasks'[y] = tasks[y]
        BY <1>16
      <4>2. /\ tasks[y].by \in Deliveries /\ deliveries[tasks[y].by] # Idle
            /\ deliveries[tasks[y].by].pc # "lookup"
        BY <1>3, <3>1, <4>1 DEF MadeOK
      <4>3. DeliveryOK(deliveries[tasks[y].by], tasks[y].by, tasks, links, events, deliveries)
        BY <4>2 DEF RouterInv
      <4>4. /\ deliveries[tasks[y].by].live \subseteq 1..Len(tasks)
            /\ deliveries[tasks[y].by].pc # "idle"
        BY <4>3 DEF DeliveryOK, Based, LiveFound, At
      <4> QED  BY <4>1, <4>2, <4>4, <2>5 DEF GrownStep, Grown
    <3>2. CASE x = t
      <4>1. r \in 1..Len(tasks) /\ tasks'[x].by = d
        BY <2>1, <2>2, <2>8, <3>2, <1>14
      <4>2. /\ tasks[r].org = dl.org /\ tasks[r].ns = rule.ns /\ tasks[r].by # NoRow
            /\ RoutingKey(deliveries[tasks[r].by].event.url) = RoutingKey(dl.event.url)
        BY <4>1, <3>1, <3>2, <2>1, <2>8, <1>11, <1>12, <1>14
      <4>3. SUFFICES ASSUME r \in dl.live PROVE FALSE
        BY <4>1, <1>11, <1>12
      <4>4. PICK i \in dl.found[dl.org] : links[i].task = r
        BY <4>2, <4>3, <1>4, <1>5 DEF LiveFound
      <4> QED  BY <4>2, <4>4, <1>4 DEF Creating, Wanted, rule
    <3>3. CASE x # t /\ r = t
      <4>1. x \in 1..Len(tasks)
        BY <2>2, <3>3
      <4> QED  BY <4>1, <3>1, <3>3, <2>1, <2>8
    <3>4. CASE x # t /\ r # t
      <4>1. x \in 1..Len(tasks) /\ r \in 1..Len(tasks)
        BY <2>2, <3>4
      <4>2. SequentialDedup
        BY DEF RouterInv
      <4> QED  BY <4>1, <4>2, <3>1, <2>8 DEF SequentialDedup, TaskIds
    <3> QED  BY <3>2, <3>3, <3>4
  <2>9. SequentialDedup'
    BY <2>8 DEF SequentialDedup, TaskIds
  <2>10. RulesOK'
    BY <1>2, <1>3 DEF RulesOK, RuleList
  <2> QED  BY <1>12, <2>3, <2>5, <2>6, <2>7, <2>9, <2>10, Combine
<1> QED  BY <1>17, <1>18

-----------------------------------------------------------------------------
(* Whatever the rules, members, tasks and links become between the steps of *)
(* any number of deliveries, a delivery writes only where its plan allowed  *)
(* it, a failed attach costs no other subscriber its event, and sequential  *)
(* redeliveries make one task (eventrouter.go Plan, Apply, create).         *)
LEMMA RouterInvInductive == RouterSpec => []RouterInv
<1>1. ASSUME RouterInit PROVE RouterInv
  <2>1. PICK p \in Populations : /\ members = p.members /\ rules = p.rules
                                 /\ tasks = p.tasks /\ links = p.links
    BY <1>1 DEF RouterInit
  <2>2. events = {} /\ deliveries = [d \in Deliveries |-> Idle]
    BY <1>1 DEF RouterInit
  <2> DEFINE first == [task : DOMAIN tasks, key : Seq(STRING), subscribe : BOOLEAN]
  <2>a. /\ tasks \in Seq(TaskRow) /\ \A t \in DOMAIN tasks : tasks[t].by = 0
        /\ links \in Seq(first)
    BY <2>1, RouterAssumption, Zenon
  <2>4. DOMAIN tasks = 1..Len(tasks) /\ Len(tasks) \in Nat
    BY <2>a
  <2>3. tasks \in Seq(TaskRow) /\ \A t \in 1..Len(tasks) : tasks[t].by = NoRow
    BY <2>a, <2>4 DEF NoRow
  <2>b. \A l \in first : l \in LinkRow /\ l.task \in 1..Len(tasks)
    BY <2>4 DEF LinkRow
  <2> HIDE DEF first
  <2>c. Len(links) \in Nat /\ \A i \in 1..Len(links) : links[i] \in first
    BY <2>a
  <2>5. \A i \in 1..Len(links) : links[i] \in LinkRow /\ links[i].task \in 1..Len(tasks)
    BY <2>b, <2>c
  <2>6. links \in Seq(LinkRow)
    BY <2>a, <2>b
  <2>7. Tables(tasks, links)
    BY <2>3, <2>5, <2>6 DEF Tables
  <2>8. RulesOK
    BY <2>1, RouterAssumption DEF RulesOK
  <2> QED  BY <2>2, <2>3, <2>7, <2>8
           DEF RouterInv, EventsOK, MadeOK, SequentialDedup, TaskIds
<1>2. ASSUME RouterInv, [RouterNext]_routerVars PROVE RouterInv'
  <2>1. CASE UNCHANGED routerVars
    <3>1. /\ tasks' = tasks /\ links' = links /\ rules' = rules /\ events' = events
          /\ deliveries' = deliveries
      BY <2>1 DEF routerVars
    <3> QED  BY <3>1, <1>2 DEF RouterInv, RulesOK, SequentialDedup, TaskIds
  <2>2. CASE RouterNext
    BY <1>2, <2>2, UsersOK, RouteOK, TestEventOK, LookupOK, AttachOK, CreateOK, OutcomesOK
       DEF RouterNext, RouteStep
  <2> QED  BY <1>2, <2>1, <2>2
<1> QED  BY <1>1, <1>2, PTL DEF RouterSpec

(* Tenancy: a delivery writes only into orgs its actor belonged to when it  *)
(* was planned, or through a public rule of an org of the event.            *)
THEOREM WritesTheorem == RouterSpec => []WritesOnlyWhereAllowed
<1>1. RouterInv => WritesOnlyWhereAllowed
  <2> SUFFICES ASSUME RouterInv, NEW e \in events
               PROVE  /\ tasks[e.task].org \in DOMAIN deliveries[e.by].plan
                      /\ \/ deliveries[e.by].plan[tasks[e.task].org].member
                         \/ /\ tasks[e.task].org \in deliveries[e.by].event.orgs
                            /\ deliveries[e.by].plan[tasks[e.task].org].rule.public
    BY DEF WritesOnlyWhereAllowed
  <2>1. /\ e.by \in Deliveries /\ deliveries[e.by] # Idle
        /\ tasks[e.task].org \in DOMAIN deliveries[e.by].plan
    BY DEF RouterInv, EventsOK
  <2>2. Planned(deliveries[e.by])
    BY <2>1 DEF RouterInv, DeliveryOK, Based
  <2> QED  BY <2>1, <2>2 DEF Planned
<1> QED  BY <1>1, RouterInvInductive, PTL

(* Redeliveries one after the other do not multiply tasks.                  *)
THEOREM DedupTheorem == RouterSpec => []SequentialDedup
<1>1. RouterInv => SequentialDedup
  BY DEF RouterInv
<1> QED  BY <1>1, RouterInvInductive, PTL

(* One failed attach costs nobody else the event.                           *)
THEOREM IsolationTheorem == RouterSpec => []FailureIsolated
<1>1. RouterInv => FailureIsolated
  <2> SUFFICES ASSUME RouterInv, NEW d \in Deliveries, deliveries[d].pc = "done",
                      NEW o \in DOMAIN deliveries[d].plan, NEW i \in deliveries[d].found[o],
                      tasks[links[i].task].ns = deliveries[d].plan[o].rule.ns
               PROVE  \/ links[i].task \in deliveries[d].failed
                      \/ [task |-> links[i].task, by |-> d] \in events
    BY DEF FailureIsolated
  <2>1. At(deliveries[d], d, tasks, links, events)
    BY DEF RouterInv, DeliveryOK, Idle
  <2>2. Handled(deliveries[d], d, o, tasks, links, events)
    BY <2>1 DEF At
  <2> QED  BY <2>2 DEF Handled, Wanted, Served
<1> QED  BY <1>1, RouterInvInductive, PTL
=============================================================================
