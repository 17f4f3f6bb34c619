------------------------------- MODULE Routing -------------------------------
(***************************************************************************)
(* The pure part of event routing: the rule matcher and the rule validator *)
(* of internal/server/eventrouter, and model.RoutingKey.                   *)
(*                                                                         *)
(* A text (a body, a condition's value) is a sequence of words, a URL the  *)
(* sequence of its host and path segments; a query or fragment is one last *)
(* segment of its own.  The empty selector is the wildcard.           *)
(***************************************************************************)
EXTENDS Integers, SequencesExt

Wildcard == ""

Number    == {"5", "7"}
Suffixed  == {"#c", "?q"}
JiraHosts == {"x.atlassian.net"}

-----------------------------------------------------------------------------
(* One key for every spelling of an issue or pull request; whatever is not  *)
(* recognised is its own key.                                               *)

IsGithubWeb(u) ==
  /\ Len(u) >= 5 /\ u[1] = "github.com"
  /\ u[4] \in {"issues", "pull"} /\ u[5] \in Number

IsGithubApi(u) ==
  /\ Len(u) >= 6 /\ u[1] = "api.github.com" /\ u[2] = "repos"
  /\ u[5] \in {"issues", "pulls"} /\ u[6] \in Number

(* The issue key of a Jira path, {} when it has none.                       *)
JiraKey(u) ==
  IF Len(u) >= 3 /\ u[2] = "browse" /\ u[3] \notin Suffixed
    THEN {u[3]}
  ELSE IF /\ Len(u) >= 6 /\ u[2] = "rest" /\ u[3] = "api"
          /\ u[4] \in Number /\ u[5] = "issue" /\ u[6] \notin Number \cup Suffixed
    THEN {u[6]}
  ELSE {}

RoutingKey(u) ==
  CASE IsGithubWeb(u) -> SubSeq(u, 1, 5)
    [] IsGithubApi(u) ->
         <<"github.com", u[3], u[4],
           IF u[5] = "pulls" THEN "pull" ELSE u[5], u[6]>>
    [] Len(u) > 0 /\ u[1] \in JiraHosts /\ JiraKey(u) # {} ->
         <<u[1], "browse", CHOOSE k \in JiraKey(u) : TRUE>>
    [] OTHER -> u

-----------------------------------------------------------------------------
(* Rules against events.                                                    *)

Ops == {"equals", "prefix", "contains"}

(* body and url are views; any other attribute is what the event carries.   *)
Attr(event, key) ==
  CASE key = "body" -> {event.data}
    [] key = "url"  -> {event.url}
    [] key \in DOMAIN event.attrs \ {"body", "url"} -> event.attrs[key]
    [] OTHER -> {}

ConditionMatch(c, values) ==
  \E v \in values :
    \/ c.op = "equals"   /\ v = c.value
    \/ c.op = "prefix"   /\ IsPrefix(c.value, v)
    \/ c.op = "contains" /\ \E i \in 0..Len(v) :
         IsPrefix(c.value, SubSeq(v, i + 1, Len(v)))

Match(rule, event) ==
  /\ rule.source \in {Wildcard, event.source}
  /\ rule.type \in {Wildcard, event.type}
  /\ \A c \in rule.conditions : ConditionMatch(c, Attr(event, c.attr))

(* A rule that SetRoutingRules stores: one registered event type, known     *)
(* operators, attributes of that type.  registry maps <<source, type>> to   *)
(* the attributes of the event type, the views included.                    *)
Validate(rule, registry) ==
  /\ rule.type # Wildcard /\ rule.source # Wildcard
  /\ <<rule.source, rule.type>> \in DOMAIN registry
  /\ \A c \in rule.conditions :
       c.op \in Ops /\ c.attr \in registry[<<rule.source, rule.type>>]

(* The first matching rule of an org's list, 0 when there is none; an org   *)
(* the actor does not belong to offers only its public rules.               *)
FirstMatch(rules, isMember, event) ==
  LET hits == {i \in DOMAIN rules : /\ isMember \/ rules[i].public
                                    /\ Match(rules[i], event)}
  IN  IF hits = {} THEN 0 ELSE CHOOSE i \in hits : \A j \in hits : i <= j
==============================================================================
