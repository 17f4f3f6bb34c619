------------------------------ MODULE MCIntake ------------------------------
(* What comes into the server for TLC, side by side: webhooks and the       *)
(* router, the log of a run and its reader, the bridge's filter,     *)
(* accounts, and the tokens of tasks.  They share no state, so a behaviour  *)
(* moves one of them and leaves the others where they start.                *)
EXTENDS Webhooks, LogStream, Channel, Accounts, Access

VARIABLE desk      \* the component this behaviour is about

intakeVars == <<routerVars, logVars, channelVars, accountVars, accessVars, desk>>

(* Two rule lists, and orgs with one or with two tasks linked to the same   *)
(* pull request, spelled the web's and the API's way.                       *)
Rule(public, create, wakeup, n) ==
  [source |-> "github", type |-> "issue_comment",
   conditions |-> {[attr |-> "body", op |-> "contains", value |-> <<"go">>]},
   public |-> public, create |-> create, wakeup |-> wakeup, ns |-> n]
Open        == <<Rule(TRUE, TRUE, TRUE, "a")>>
Guarded     == <<Rule(FALSE, FALSE, FALSE, "b"), Rule(TRUE, TRUE, TRUE, "a")>>
MCRuleLists == {Open, Guarded}

Web == <<"github.com", "o", "r", "pull", "5", "#c">>
Api == <<"api.github.com", "repos", "o", "r", "pulls", "5">>
Population(m1, m2, r1, r2, ts, ls) ==
  [members |-> [o1 |-> m1, o2 |-> m2], rules |-> [o1 |-> r1, o2 |-> r2],
   tasks |-> [i \in DOMAIN ts |-> NewTask("o1", ts[i], NoRow, FALSE)],
   links |-> [i \in DOMAIN ls |-> [task |-> i, key |-> RoutingKey(ls[i]),
                                   subscribe |-> TRUE]]]
Fresh         == Population({"u"}, {}, Open, Open, <<>>, <<>>)
MCPopulations ==
  {Fresh,
   Population({"u"}, {"u"}, Open, Guarded, <<"a", "a">>, <<Web, Api>>),
   Population({}, {"u"}, Guarded, Open, <<"b">>, <<Web>>)}

(* Comments of a linked and of an unlinked account, one that is ignored,    *)
(* and a label on an issue whose description the rule asks for.             *)
Payload(event, action, actor, from) ==
  [event |-> event, action |-> action, actor |-> actor, from |-> from,
   text |-> <<"please", "go">>, names |-> {"bot"}, before |-> {},
   state |-> "closed", url |-> Web, complete |-> TRUE]
Handled(ps) ==
  {GithubWebhook(p, [i1 |-> {"o1"}, i2 |-> {"o1", "o2"}],
                    [ann |-> "u", bob |-> "nobody"]) : p \in ps} \ {Ignored}
MCEvents    == Handled({Payload("issue_comment", "created", "ann", "i1"),
                        Payload("issue_comment", "edited", "bob", "i2"),
                        Payload("issue_comment", "deleted", "ann", "i1")})
LabelEvents ==
  Handled({Payload("issues", "labeled", "ann", "i1")})
    \cup {JiraWebhook([Payload("jira:issue_updated", "labels", "ann", "o1") EXCEPT
                         !.url = <<"x.atlassian.net", "browse", "K-1">>],
                      [ann |-> "u"])}

(* Two tasks of one org and one of another.                                 *)
MCOrgOf == [t1 |-> "o1", t2 |-> "o1", t3 |-> "o2"]

MCSymmetry == Permutations(People) \cup Permutations(Slots)
                \cup Permutations(Calls) \cup Permutations(Deliveries)

IntakeInit ==
  /\ desk \in {"router", "log", "channel", "accounts", "access"}
  /\ RouterInit /\ LogInit /\ ChannelInit /\ AccountsInit /\ AccessInit
  /\ desk = "router" \/ tasks = Fresh.tasks

IntakeNext ==
  /\ UNCHANGED desk
  /\ \/ /\ desk = "router" /\ RouterNext
        /\ UNCHANGED <<logVars, channelVars, accountVars, accessVars>>
     \/ /\ desk = "log" /\ LogNext
        /\ UNCHANGED <<routerVars, channelVars, accountVars, accessVars>>
     \/ /\ desk = "channel" /\ ChannelNext
        /\ UNCHANGED <<routerVars, logVars, accountVars, accessVars>>
     \/ /\ desk = "accounts" /\ AccountsNext
        /\ UNCHANGED <<routerVars, logVars, channelVars, accessVars>>
     \/ /\ desk = "access" /\ AccessNext
        /\ UNCHANGED <<routerVars, logVars, channelVars, accountVars>>

IntakeSpec == IntakeInit /\ [][IntakeNext]_intakeVars

(* For what a write to the log is followed by; the symmetric sets are not   *)
(* LogStream's, and nothing of it is fair where the others leave it.        *)
FairIntakeSpec == IntakeSpec /\ LogFairness
=============================================================================
