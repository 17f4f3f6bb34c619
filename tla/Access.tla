------------------------------- MODULE Access -------------------------------
(***************************************************************************)
(* What a task's token may do (auth/authscope, auth/agentauth and the      *)
(* checks of the task handlers).  A token carries scopes: patterns over an *)
(* operation and the attributes of the row it is about.  Archiving a task  *)
(* is meant to revoke its token, with no list of tokens anywhere: a        *)
(* handler finds out from the row it reads.  Some handlers check a row     *)
(* they hold locked, others one they have read before and then write.      *)
(***************************************************************************)
EXTENDS Integers, Sequences, FiniteSets

CONSTANTS
  OrgOf,          \* the org of every task
  MaxMints,       \* bound: tokens minted
  MaxInFlight      \* bound: requests between their check and their effect

NoTask == "none"

ASSUME AccessAssumption ==
  MaxMints \in Nat /\ MaxInFlight \in Nat /\ NoTask \notin DOMAIN OrgOf

VARIABLES
  archived,       \* the tasks that are archived
  callers,        \* users and task tokens: [task, org, wire]
  pending,        \* requests that were checked and have not taken effect
  last            \* the last effect of a request: [by, task, op, locked, late]

accessVars == <<archived, callers, pending, last>>

TaskIDs == DOMAIN OrgOf

----------------------------------------------------------------------------
(* Scopes: preds and attributes are sets of <<key, value>>.                *)

OpTaskRead == <<"task", "read">>
OpTaskWrite == <<"task", "write">>
OpTaskCreate == <<"task", "create">>
OpTaskTokenCreate == <<"task_token", "create">>
OpGitHubTokenCreate == <<"github_token", "create">>

NewScope(op, attrs) == [op |-> op, preds |-> attrs]
WithTaskID(t) == <<"task.id", t>>
WithTaskArchived(b) == <<"task.archived", IF b THEN "true" ELSE "false">>

\* The wire form of a scope and back: without predicates it is the path alone.
String(s) == IF s.preds = {} THEN <<s.op>> ELSE <<s.op, s.preds>>
ValidOp(op) == op # <<>> /\ \A i \in DOMAIN op : op[i] # ""
Parse(w) == NewScope(w[1], IF Len(w) = 1 THEN {} ELSE w[2])
\* A malformed scope fails the list, and the request with it: nothing is allowed.
ParseScopes(ws) == IF \A w \in ws : ValidOp(w[1]) THEN {Parse(w) : w \in ws} ELSE {}

allowOp(s, op) ==
  /\ Len(s.op) = Len(op)
  /\ \A i \in DOMAIN op : s.op[i] \in {"*", op[i]}
allow(s, op, attrs) == allowOp(s, op) /\ s.preds \subseteq attrs
Allow(scopes, op, attrs) == \E s \in scopes : allow(s, op, attrs)
AllowOp(scopes, op) == \E s \in scopes : allowOp(s, op)

AdminScope == <<<<"*", "*">>>>

\* Mutant: the scopes of a task token do not ask about the archived flag.
TaskScopesForever(t, caps) ==
  {NewScope(OpTaskRead, {WithTaskID(t)}), NewScope(OpTaskWrite, {WithTaskID(t)})}
    \cup {NewScope(OpGitHubTokenCreate, {}) : c \in caps}

\* agentauth.Scopes: read and write of the task itself while it is not archived.
TaskScopes(t, caps) ==
  {NewScope(op, {WithTaskID(t), WithTaskArchived(FALSE)}) : op \in {OpTaskRead, OpTaskWrite}}
    \cup {NewScope(OpGitHubTokenCreate, {}) : c \in caps}

ScopeAttr(t) == {WithTaskID(t), WithTaskArchived(t \in archived)}

----------------------------------------------------------------------------
(* Callers and their requests.                                             *)

Effect(k, t, op, locked, late) ==
  [by |-> k, task |-> t, op |-> op, locked |-> locked, late |-> late]

\* A user of an org is its admin.
User(o) == [task |-> NoTask, org |-> o, wire |-> {AdminScope}]

AccessInit ==
  /\ archived = {} /\ pending = {}
  /\ callers = {User(o) : o \in {OrgOf[t] : t \in TaskIDs}}
  /\ last = {}

Held(k) == ParseScopes(k.wire)

\* CreateTaskToken: the task comes from the row, only the capabilities from the request.
ValidCapability(c) == c = "github_token"
CreateTaskToken(k, t, caps) ==
  /\ Allow(Held(k), OpTaskTokenCreate, {})
  /\ \A c \in caps : ValidCapability(c)
  /\ OrgOf[t] = k.org
  /\ Cardinality({x \in callers : x.task # NoTask}) < MaxMints
  /\ callers' = callers \cup {[task |-> t, org |-> k.org,
                               wire |-> {String(s) : s \in TaskScopes(t, caps)}]}
  /\ last' = {}
  /\ UNCHANGED <<archived, pending>>

\* The capability first, then the row of the caller's org, then the instance.
Permitted(k, t, op) ==
  AllowOp(Held(k), op) /\ OrgOf[t] = k.org /\ Allow(Held(k), op, ScopeAttr(t))

\* UpdateTask, CancelTask, RestartTask, OpenShell and the driver's reports
\* check the row they have locked and write in the same transaction;
\* GetTask answers with the row it checked.
LockedRequest(k, t, op) ==
  /\ Permitted(k, t, op)
  /\ last' = {Effect(k, t, op, TRUE, t \in archived)}
  /\ UNCHANGED <<archived, callers, pending>>

\* So do ArchiveTask and UnarchiveTask; a task may archive itself.
ArchiveAs(k, t, flag) ==
  /\ Permitted(k, t, OpTaskWrite)
  /\ archived' = IF flag THEN archived \cup {t} ELSE archived \ {t}
  /\ last' = {Effect(k, t, OpTaskWrite, TRUE, t \in archived)}
  /\ UNCHANGED <<callers, pending>>

\* CreateLink, UploadLogs, AppendLogChunk and the lists of one task check a
\* row they have read, and act afterwards.
CheckRequest(k, t, op) ==
  /\ Permitted(k, t, op) /\ Cardinality(pending) < MaxInFlight
  /\ pending' = pending \cup {<<k, t, op>>}
  /\ last' = {}
  /\ UNCHANGED <<archived, callers>>

Act(p) ==
  /\ pending' = pending \ {p}
  /\ last' = {Effect(p[1], p[2], p[3], FALSE, p[2] \in archived)}
  /\ UNCHANGED <<archived, callers>>

\* ListTasks and ListRunnerTasks have no instance to check: who passes sees all of the org.
ListTasks(k) ==
  /\ Allow(Held(k), OpTaskRead, {})
  /\ last' = {Effect(k, t, OpTaskRead, TRUE, t \in archived) :
                t \in {x \in TaskIDs : OrgOf[x] = k.org}}
  /\ UNCHANGED <<archived, callers, pending>>

\* CreateTask has no row yet: a fresh task is never archived.
CreateAs(k) ==
  /\ Allow(Held(k), OpTaskCreate, {WithTaskArchived(FALSE)})
  /\ last' = {Effect(k, NoTask, OpTaskCreate, TRUE, FALSE)}
  /\ UNCHANGED <<archived, callers, pending>>

AccessNext ==
  \/ \E k \in callers, t \in TaskIDs :
       \/ \E caps \in SUBSET {"github_token", "other"} : CreateTaskToken(k, t, caps)
       \/ \E flag \in BOOLEAN : ArchiveAs(k, t, flag)
       \/ \E op \in {OpTaskRead, OpTaskWrite} : LockedRequest(k, t, op) \/ CheckRequest(k, t, op)
  \/ \E p \in pending : Act(p)
  \/ \E k \in callers : ListTasks(k) \/ CreateAs(k)

AccessSpec == AccessInit /\ [][AccessNext]_accessVars

----------------------------------------------------------------------------
(* Properties.                                                             *)

(* A task token touches its own task only, and mints, lists and creates    *)
(* nothing, whatever capabilities it carries; and once the task is         *)
(* archived nothing it asks of a locked row goes through, until the task   *)
(* is unarchived (agentauth.Scopes, Task.ScopeAttr).                       *)
ArchiveRevokes ==
  /\ \A e \in last : e.by.task # NoTask =>
        /\ e.task = e.by.task
        /\ e.locked => ~e.late
  /\ \A k \in callers : k.task # NoTask => ~Allow(Held(k), OpTaskTokenCreate, {})

(* The same of the handlers that check before they act: not so, a request  *)
(* checked before the archive takes effect after it.                       *)
NoLateEffect == \A e \in last : e.by.task # NoTask => ~e.late
=============================================================================
