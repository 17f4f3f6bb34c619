------------------------------ MODULE Webhooks ------------------------------
(***************************************************************************)
(* What reaches the router: the registered event types and how the GitHub  *)
(* and Jira webhook handlers turn a payload into an input event            *)
(* (githubserver/webhook.go and schema.go, atlassianserver likewise).      *)
(*                                                                         *)
(* A payload has its event, its action, the text it is about (the comment, *)
(* the review, the description of the issue or pull request), its actor,   *)
(* the names it adds (mentions, assignee, labels), its URL, where it came  *)
(* from (installation or org), and whether every field the handler needs   *)
(* is present.  text is carried along for BodyHonest only.                 *)
(***************************************************************************)
EXTENDS Router

Ignored == [type |-> "ignored"]

Kind(event, actions, type, attr, data) ==
  [event |-> event, actions |-> actions, type |-> type, attr |-> attr, data |-> data]

-----------------------------------------------------------------------------
(* The tables of toInputEvent: payload event and actions, event type, the   *)
(* attribute beside user, and what Data is set to.                          *)

CommentKinds ==
  {Kind("issue_comment", {"created", "edited"}, "issue_comment", "mention", "text"),
   Kind("pull_request_review_comment", {"created", "edited"},
        "pull_request_review_comment", "mention", "text"),
   Kind("pull_request_review", {"submitted"}, "pull_request_review",
        "mention", "text")}

IssueKinds ==
  {Kind("issues", {"assigned"}, "issue_assigned", "assignee", "none"),
   Kind("issues", {"labeled"}, "label_added", "label", "none")}

PullRequestKinds ==
  {Kind("pull_request", {"opened"}, "pull_request_opened", "none", "none"),
   Kind("pull_request", {"assigned"}, "pull_request_assigned", "assignee", "none"),
   Kind("pull_request", {"labeled"}, "label_added", "label", "none"),
   Kind("pull_request", {"closed"}, "pull_request_closed", "state", "state")}

JiraKinds ==
  {Kind("comment_created", {"comment_created"}, "comment_created", "mention", "text"),
   Kind("jira:issue_updated", {"labels"}, "label_added", "label", "none")}

(* RegisterSchemas: every type has body, url and user, and its own          *)
(* attribute.                                                               *)
Attributes(kinds, type) ==
  {"body", "url", "user"} \cup
    ({k.attr : k \in {l \in kinds : l.type = type}} \ {"none"})

GithubSchemas ==
  LET kinds == CommentKinds \cup IssueKinds \cup PullRequestKinds
  IN  [p \in {"github"} \X {k.type : k \in kinds} |-> Attributes(kinds, p[2])]

AtlassianSchemas ==
  [p \in {"atlassian"} \X {k.type : k \in JiraKinds} |-> Attributes(JiraKinds, p[2])]

Schemas ==
  [p \in DOMAIN GithubSchemas \cup DOMAIN AtlassianSchemas |->
     IF p \in DOMAIN GithubSchemas THEN GithubSchemas[p] ELSE AtlassianSchemas[p]]

-----------------------------------------------------------------------------
(* The input event of a payload of one of the kinds.                        *)
InputEvent(source, p, k) ==
  [source |-> source, type |-> k.type, url |-> p.url,
   data   |-> CASE k.data = "text"  -> p.text
                [] k.data = "state" -> <<p.state>>
                [] OTHER            -> <<>>,
   attrs  |-> [a \in {k.attr, "user"} |->
                 CASE a = "user"  -> {<<p.actor>>}
                   [] a = "state" -> {<<p.state>>}
                   [] OTHER       -> {<<n>> : n \in p.names}],
   text   |-> p.text]

toInputEvent(source, kinds, p) ==
  LET hits == {k \in kinds : k.event = p.event /\ p.action \in k.actions}
  IN  IF hits = {} \/ ~p.complete THEN Ignored
      ELSE InputEvent(source, p, CHOOSE k \in hits : TRUE)

(* A labels change names what it added; without an addition it is ignored.  *)
AddedLabels(p) ==
  IF p.action = "labels"
  THEN [p EXCEPT !.names = p.names \ p.before,
                 !.complete = p.complete /\ ~(p.names \subseteq p.before)]
  ELSE p

Scoped(input, orgs, user) ==
  [k \in DOMAIN input \cup {"orgs", "user"} |->
     CASE k = "orgs" -> orgs [] k = "user" -> user [] OTHER -> input[k]]

(* The GitHub handler: the orgs of the installation and the linked user, if *)
(* there is one.                                                            *)
GithubWebhook(p, orgsOf, userOf) ==
  LET input == toInputEvent("github",
                 CommentKinds \cup IssueKinds \cup PullRequestKinds, p)
  IN  IF input = Ignored THEN Ignored
      ELSE Scoped(input, orgsOf[p.from], userOf[p.actor])

(* The Jira handler: the org the webhook was addressed to.                  *)
JiraWebhook(p, userOf) ==
  LET input == toInputEvent("atlassian", JiraKinds, AddedLabels(p))
  IN  IF input = Ignored THEN Ignored
      ELSE Scoped(input, {p.from}, userOf[p.actor])

-----------------------------------------------------------------------------
(* A body condition is matched against the text the schema's help names:    *)
(* the comment, or the description of the issue or pull request             *)
(* (githubserver/schema.go, atlassianserver/schema.go, Help of "body").     *)
BodyHonest ==
  \A d \in Deliveries : deliveries[d].pc # "idle" =>
    LET e == deliveries[d].event IN Attr(e, "body") = {e.text}
=============================================================================
