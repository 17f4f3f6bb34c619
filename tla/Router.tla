------------------------------- MODULE Router -------------------------------
(***************************************************************************)
(* Event routing: a delivery (a webhook, or a fired TestEvent) is planned  *)
(* against the orgs' rules, looks up the subscribed links once, and then   *)
(* wakes the subscribers or creates a task, org by org, each in a          *)
(* transaction of its own (internal/server/eventrouter).  Users archive,   *)
(* link and re-rule between any two of these steps, other deliveries too.  *)
(*                                                                         *)
(* Of a task row only what routing reads is kept: org, namespace,          *)
(* archived, and whether a wake is pending on it (Task!Start does nothing  *)
(* to an archived row).  The instruction, lifecycle and link events that   *)
(* create writes are not told apart from the row it inserts.               *)
(***************************************************************************)
EXTENDS Routing, FiniteSets

CONSTANTS
  Orgs, Users, Deliveries, Namespaces,
  Events,       \* what may be delivered: records as Routing reads them
  RuleLists,    \* what SetRoutingRules may be given
  Registry,     \* the registered event types
  Populations,  \* members, rules, tasks and links there are at the start
  MaxTasks,     \* bound on the tasks table
  MaxEdits      \* bound on the users' operations

(* A task row of an org's table, and what an org's rule list looks like.    *)
TaskRow == [org : Orgs, ns : Namespaces, archived : BOOLEAN, woken : BOOLEAN,
            by : Deliveries \cup {0}]
RuleList(list) ==
  DOMAIN list = 1..Len(list) /\ \A i \in DOMAIN list : list[i].ns \in Namespaces

ASSUME RouterAssumption ==
  /\ 0 \notin Deliveries
  /\ \A list \in RuleLists : RuleList(list)
  /\ \A e \in Events : /\ {"url", "orgs", "user"} \subseteq DOMAIN e
                       /\ e.url \in Seq(STRING) /\ e.orgs \subseteq Orgs
  /\ \A p \in Populations :
       /\ p.members \in [Orgs -> SUBSET Users]
       /\ DOMAIN p.rules = Orgs /\ \A o \in Orgs : RuleList(p.rules[o])
       /\ p.tasks \in Seq(TaskRow) /\ \A t \in DOMAIN p.tasks : p.tasks[t].by = 0
       /\ p.links \in Seq([task : DOMAIN p.tasks, key : Seq(STRING), subscribe : BOOLEAN])

VARIABLES
  members,      \* org -> its members
  rules,        \* org -> its rule list
  tasks,        \* the tasks table, in id order
  links,        \* task_links, in creation order
  events,       \* external event rows written: [task, by]
  deliveries,   \* the routing goroutines
  reactions,    \* emoji sent, per delivery and org
  edits         \* users' operations so far

routerVars ==
  <<members, rules, tasks, links, events, deliveries, reactions, edits>>
sent == <<events, deliveries, reactions>>

NoRow    == 0
NoOrg    == ""
Idle     == [pc |-> "idle"]
TaskIds  == 1..Len(tasks)

(* A delivery between steps: the rule that matched each org and the orgs    *)
(* still to handle; the current one and its subscribers still to attach;    *)
(* the links of the one lookup; what was done for each org; and, as         *)
(* history, the attaches that failed and the tasks live at the lookup.      *)
Delivery(pc, event, fromTest, plan) ==
  [pc |-> pc, event |-> event, test |-> fromTest, plan |-> plan,
   todo |-> DOMAIN plan, org |-> NoOrg, queue |-> {},
   found |-> [o \in DOMAIN plan |-> {}],
   outcomes |-> [o \in DOMAIN plan |-> [created |-> FALSE, tasks |-> {}]],
   failed |-> {}, live |-> {}]

RouterInit ==
  /\ \E p \in Populations : /\ members = p.members /\ rules = p.rules
                             /\ tasks = p.tasks /\ links = p.links
  /\ events = {}
  /\ deliveries = [d \in Deliveries |-> Idle]
  /\ reactions = {} /\ edits = 0

-----------------------------------------------------------------------------
(* Users.                                                                   *)

SetRoutingRules(o, list) ==
  /\ \A i \in DOMAIN list : Validate(list[i], Registry)
  /\ rules' = [rules EXCEPT ![o] = list]
  /\ UNCHANGED <<members, tasks, links>>

MemberLeaves(o, u) ==
  /\ u \in members[o]
  /\ members' = [members EXCEPT ![o] = @ \ {u}]
  /\ UNCHANGED <<rules, tasks, links>>

NewTask(o, n, by, woken) ==
  [org |-> o, ns |-> n, archived |-> FALSE, woken |-> woken, by |-> by]

CreateTask(o, n) ==
  /\ Len(tasks) < MaxTasks
  /\ tasks' = Append(tasks, NewTask(o, n, NoRow, TRUE))
  /\ UNCHANGED <<members, rules, links>>

(* The run ended; then the task may be archived.                            *)
ArchiveTask(t) ==
  /\ ~tasks[t].archived
  /\ tasks' = [tasks EXCEPT ![t].archived = TRUE, ![t].woken = FALSE]
  /\ UNCHANGED <<members, rules, links>>

UnarchiveTask(t) ==
  /\ tasks[t].archived
  /\ tasks' = [tasks EXCEPT ![t].archived = FALSE]
  /\ UNCHANGED <<members, rules, links>>

CreateLink(t, url, subscribe) ==
  /\ links' = Append(links, [task |-> t, key |-> RoutingKey(url),
                             subscribe |-> subscribe])
  /\ UNCHANGED <<members, rules, tasks>>

-----------------------------------------------------------------------------
(* The delivery.                                                            *)

ListRoutingRulesForEvent(e) ==
  {o \in Orgs : e.user \in members[o]} \cup e.orgs

(* Mutant: a rule of an org the actor does not belong to need not be public. *)
PlanIgnoresPublic(e) ==
  LET hit(o) == FirstMatch(rules[o], TRUE, e)
      orgs   == {o \in ListRoutingRulesForEvent(e) : hit(o) # 0}
  IN  [o \in orgs |-> [rule   |-> rules[o][hit(o)],
                       member |-> e.user \in members[o]]]

Plan(e) ==
  LET hit(o) == FirstMatch(rules[o], e.user \in members[o], e)
      orgs   == {o \in ListRoutingRulesForEvent(e) : hit(o) # 0}
  IN  [o \in orgs |-> [rule   |-> rules[o][hit(o)],
                       member |-> e.user \in members[o]]]

(* An event without a URL is not routed.                                    *)
Route(d, e) ==
  /\ deliveries[d] = Idle /\ e.url # <<>>
  /\ deliveries' = [deliveries EXCEPT ![d] =
                      Delivery("lookup", e, FALSE, Plan(e))]
  /\ UNCHANGED <<members, rules, tasks, links, events, reactions, edits>>

(* A fired test event, cut to the org its caller looks at (who may have     *)
(* left it since); an empty URL is a key like any other here.               *)
TestEvent(d, e, o) ==
  LET scoped == [e EXCEPT !.orgs = {o}]
      plan   == Plan(scoped)
  IN  /\ deliveries[d] = Idle
      /\ deliveries' = [deliveries EXCEPT ![d] =
           Delivery("lookup", scoped, TRUE,
                    [p \in DOMAIN plan \cap {o} |-> plan[p]])]
      /\ UNCHANGED <<members, rules, tasks, links, events, reactions, edits>>

(* The subscribed links of a key in an org; nothing deletes or changes a    *)
(* link, so its place in the table stands for it.                           *)
FindSubscribedLinksForOrgs(key, o) ==
  {i \in DOMAIN links : /\ links[i].key = key /\ links[i].subscribe
                        /\ tasks[links[i].task].org = o
                        /\ ~tasks[links[i].task].archived}

(* Of those, the ones of the rule's namespace, one for each task.           *)
Subscribers(found, n) ==
  {i \in found : /\ tasks[links[i].task].ns = n
                 /\ \A j \in found : links[j].task = links[i].task => j <= i}

(* The rows come newest first.                                              *)
Newest(queue) == CHOOSE i \in queue : \A j \in queue : j <= i

(* The delivery when it is done with an org: at the next one that leaves it *)
(* something to do, in whatever order the store listed them.                *)
NextMatch(dl) ==
  LET subs(o) == Subscribers(dl.found[o], dl.plan[o].rule.ns)
      todo    == {o \in dl.todo : subs(o) # {} \/ dl.plan[o].rule.create}
  IN  IF todo = {} THEN {[dl EXCEPT !.pc = "callback", !.todo = {}]}
      ELSE {[dl EXCEPT !.pc = IF subs(o) # {} THEN "attach" ELSE "create",
                       !.org = o, !.todo = todo \ {o}, !.queue = subs(o)] :
              o \in todo}

(* One read for all matched orgs; Apply works from it to the end.           *)
Lookup(d) ==
  LET dl  == deliveries[d]
      key == RoutingKey(dl.event.url)
  IN  /\ dl.pc = "lookup"
      /\ \E next \in NextMatch([dl EXCEPT
             !.found = [o \in DOMAIN dl.plan |->
                          FindSubscribedLinksForOrgs(key, o)],
             !.live = {t \in TaskIds : ~tasks[t].archived}]) :
           deliveries' = [deliveries EXCEPT ![d] = next]
      /\ UNCHANGED <<members, rules, tasks, links, events, reactions, edits>>

(* Mutant: the first failed attach ends the fan-out.                        *)
AttachStops(d, ok) ==
  LET dl   == deliveries[d]
      i    == Newest(dl.queue)
      t    == links[i].task
      left == IF ok THEN dl.queue \ {i} ELSE {}
      done == [dl EXCEPT !.queue = left,
                 !.outcomes[dl.org].tasks = IF ok THEN @ \cup {t} ELSE @,
                 !.failed = IF ok THEN @ ELSE @ \cup {t}]
  IN  /\ dl.pc = "attach"
      /\ \E next \in IF left = {} THEN NextMatch(done) ELSE {done} :
           deliveries' = [deliveries EXCEPT ![d] = next]
      /\ events' = IF ok THEN events \cup {[task |-> t, by |-> d]} ELSE events
      /\ tasks' = IF ok /\ dl.plan[dl.org].rule.wakeup /\ ~tasks[t].archived
                    THEN [tasks EXCEPT ![t].woken = TRUE] ELSE tasks
      /\ UNCHANGED <<members, rules, links, reactions, edits>>

(* One subscriber: its event row and, for a waking rule, its start, in one  *)
(* transaction that may fail; the rest of the fan-out goes on.              *)
Attach(d, ok) ==
  LET dl   == deliveries[d]
      i    == Newest(dl.queue)
      t    == links[i].task
      left == dl.queue \ {i}
      done == [dl EXCEPT !.queue = left,
                 !.outcomes[dl.org].tasks = IF ok THEN @ \cup {t} ELSE @,
                 !.failed = IF ok THEN @ ELSE @ \cup {t}]
  IN  /\ dl.pc = "attach"
      /\ \E next \in IF left = {} THEN NextMatch(done) ELSE {done} :
           deliveries' = [deliveries EXCEPT ![d] = next]
      /\ events' = IF ok THEN events \cup {[task |-> t, by |-> d]} ELSE events
      /\ tasks' = IF ok /\ dl.plan[dl.org].rule.wakeup /\ ~tasks[t].archived
                    THEN [tasks EXCEPT ![t].woken = TRUE] ELSE tasks
      /\ UNCHANGED <<members, rules, links, reactions, edits>>

(* Mutant: the link of the created task keeps the event's own URL.          *)
CreateKeepsUrl(d, ok) ==
  LET dl   == deliveries[d]
      rule == dl.plan[dl.org].rule
      t    == Len(tasks) + 1
  IN  /\ dl.pc = "create" /\ (ok => t <= MaxTasks)
      /\ tasks' = IF ok THEN Append(tasks, NewTask(dl.org, rule.ns, d, TRUE))
                        ELSE tasks
      /\ links' = IF ok THEN Append(links, [task |-> t, key |-> dl.event.url,
                                            subscribe |-> TRUE])
                        ELSE links
      /\ events' = IF ok THEN events \cup {[task |-> t, by |-> d]} ELSE events
      /\ \E next \in NextMatch([dl EXCEPT !.outcomes[dl.org] =
             [created |-> ok, tasks |-> IF ok THEN {t} ELSE {}]]) :
           deliveries' = [deliveries EXCEPT ![d] = next]
      /\ UNCHANGED <<members, rules, reactions, edits>>

(* Task, trigger event and subscribed link in one transaction.              *)
Create(d, ok) ==
  LET dl   == deliveries[d]
      rule == dl.plan[dl.org].rule
      t    == Len(tasks) + 1
  IN  /\ dl.pc = "create" /\ (ok => t <= MaxTasks)
      /\ tasks' = IF ok THEN Append(tasks, NewTask(dl.org, rule.ns, d, TRUE))
                        ELSE tasks
      /\ links' = IF ok THEN Append(links, [task |-> t,
                                            key |-> RoutingKey(dl.event.url),
                                            subscribe |-> TRUE])
                        ELSE links
      /\ events' = IF ok THEN events \cup {[task |-> t, by |-> d]} ELSE events
      /\ \E next \in NextMatch([dl EXCEPT !.outcomes[dl.org] =
             [created |-> ok, tasks |-> IF ok THEN {t} ELSE {}]]) :
           deliveries' = [deliveries EXCEPT ![d] = next]
      /\ UNCHANGED <<members, rules, reactions, edits>>

(* The emoji of an outcome: a created task, a subscriber reached, nothing.  *)
React(outcome) ==
  IF outcome.created THEN {"rocket"}
  ELSE IF outcome.tasks # {} THEN {"eyes"} ELSE {}

(* The callback, once per matched org when all are handled; the router that *)
(* serves test events has none.                                             *)
Outcomes(d) ==
  LET dl == deliveries[d]
  IN  /\ dl.pc = "callback"
      /\ reactions' = IF dl.test THEN reactions
                        ELSE reactions \cup
                               UNION {{[by |-> d, org |-> o, emoji |-> e] :
                                         e \in React(dl.outcomes[o])} :
                                        o \in DOMAIN dl.outcomes}
      /\ deliveries' = [deliveries EXCEPT ![d].pc = "done"]
      /\ UNCHANGED <<members, rules, tasks, links, events, edits>>

RouteStep(d) ==
  \/ Lookup(d)
  \/ \E ok \in BOOLEAN : Attach(d, ok) \/ Create(d, ok)
  \/ Outcomes(d)

UserStep ==
  /\ edits < MaxEdits /\ edits' = edits + 1 /\ UNCHANGED sent
  /\ \/ \E o \in Orgs, list \in RuleLists : SetRoutingRules(o, list)
     \/ \E o \in Orgs, u \in Users : MemberLeaves(o, u)
     \/ \E o \in Orgs, n \in Namespaces : CreateTask(o, n)
     \/ \E t \in TaskIds : ArchiveTask(t) \/ UnarchiveTask(t)
     \/ \E t \in TaskIds, e \in Events, b \in BOOLEAN : CreateLink(t, e.url, b)

RouterNext ==
  \/ UserStep
  \/ \E d \in Deliveries, e \in Events :
       Route(d, e) \/ \E o \in Orgs : TestEvent(d, e, o)
  \/ \E d \in Deliveries : RouteStep(d)

RouterSpec == RouterInit /\ [][RouterNext]_routerVars
-----------------------------------------------------------------------------
(* Every table holds rows of its type and every delivery is at a step of    *)
(* Route.                                                                   *)
RouterTypeOK ==
  /\ members \in [Orgs -> SUBSET Users]
  /\ \A o \in Orgs : \A i \in DOMAIN rules[o] : Validate(rules[o][i], Registry)
  /\ Len(tasks) <= MaxTasks
  /\ \A t \in TaskIds : tasks[t] \in TaskRow
  /\ \A i \in DOMAIN links : links[i].task \in TaskIds
  /\ events \subseteq [task : TaskIds, by : Deliveries]
  /\ \A d \in Deliveries : deliveries[d].pc \in
       {"idle", "lookup", "attach", "create", "callback", "done"}

(* Tenancy: whatever the rules, memberships and links become in between, a  *)
(* delivery writes only into orgs its actor belonged to when it was         *)
(* planned, or into an org of the event through a rule that opted in with   *)
(* Public (eventrouter.go Plan).                                            *)
WritesOnlyWhereAllowed ==
  \A e \in events :
    LET dl == deliveries[e.by]
        o  == tasks[e.task].org
    IN  /\ o \in DOMAIN dl.plan
        /\ \/ dl.plan[o].member
           \/ o \in dl.event.orgs /\ dl.plan[o].rule.public

(* Redeliveries one after the other do not multiply tasks: when a delivery  *)
(* creates one, no task the router had made for the same org, namespace and *)
(* resource was live when it looked.  Only overlapping deliveries duplicate *)
(* (eventrouter.go create, "Dedup for sequential redeliveries").            *)
SequentialDedup ==
  \A t, r \in TaskIds :
    /\ t # r /\ tasks[t].by # NoRow /\ tasks[r].by # NoRow
    /\ tasks[t].org = tasks[r].org /\ tasks[t].ns = tasks[r].ns
    /\ RoutingKey(deliveries[tasks[t].by].event.url) =
         RoutingKey(deliveries[tasks[r].by].event.url)
    => r \notin deliveries[tasks[t].by].live

(* One failed attach costs nobody else the event: when a delivery is done,  *)
(* every subscriber it found in a matched rule's namespace has its row or   *)
(* its own attach failed.                                                   *)
FailureIsolated ==
  \A d \in Deliveries : deliveries[d].pc = "done" =>
    LET dl == deliveries[d]
    IN  \A o \in DOMAIN dl.plan : \A i \in dl.found[o] :
          LET t == links[i].task
          IN  tasks[t].ns = dl.plan[o].rule.ns =>
                t \in dl.failed \/ [task |-> t, by |-> d] \in events

=============================================================================
