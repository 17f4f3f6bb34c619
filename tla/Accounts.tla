------------------------------ MODULE Accounts ------------------------------
(***************************************************************************)
(* Users, organizations and the credentials that name them: first logins,  *)
(* the org handlers of the API, the account links, the GitHub App's        *)
(* installations, API keys and the tokens of the OAuth flow                *)
(* (internal/server/storeauth.go, apiserver/org.go, key.go, github.go,     *)
(* internal/auth).                                                         *)
(*                                                                         *)
(* A token carries the org it was issued for and is believed until it      *)
(* expires, so a handler can run for an org its caller has left or that    *)
(* was archived since.  Handlers that read before they write without a     *)
(* transaction are two steps.  homes is a history variable.                *)
(***************************************************************************)
EXTENDS Integers, Sequences, FiniteSets

CONSTANTS
  People,       \* the subjects of the identity provider
  Profiles,     \* GitHub and Atlassian accounts
  Installs,     \* ids of App installations
  Slots,        \* handlers that can be between two steps at once
  MaxOrgs,      \* bound on the orgs table
  MaxCreds,     \* bound on the credentials outstanding
  MaxLinks      \* bound on the changes of links, secrets and installations

ASSUME AccountsAssumption == MaxOrgs \in Nat /\ MaxCreds \in Nat /\ MaxLinks \in Nat

VARIABLES
  accounts,     \* the users table: person -> row
  orgs,         \* the orgs table with its members, in id order
  slot,         \* the handlers between two steps
  creds,        \* unexpired tokens and keys
  installed,    \* installations that exist at GitHub
  homes,        \* personal orgs made for each person
  relinks         \* changes of links, secrets and installations so far

accountVars == <<accounts, orgs, slot, creds, installed, homes, relinks>>

None    == "none"
NoUser  == [stored |-> FALSE, defaultOrg |-> 0, github |-> None, atlassian |-> None]
Free    == [pc |-> "free", user |-> None, org |-> 0, install |-> None]
OrgIds  == 1..Len(orgs)
Stored  == {u \in People : accounts[u].stored}

AccountsTypeOK ==
  /\ accounts \in [People -> [stored : BOOLEAN, defaultOrg : 0..MaxOrgs,
                              github : Profiles \cup {None},
                              atlassian : Profiles \cup {None}]]
  /\ orgs \in Seq([owner : People, archived : BOOLEAN, members : SUBSET People,
                   install : Installs \cup {None}, secret : BOOLEAN])
  /\ Len(orgs) <= MaxOrgs
  /\ slot \in [Slots -> [pc : {"free", "provision", "archive", "install"},
                         user : People \cup {None}, org : 0..MaxOrgs,
                         install : Installs \cup {None}]]
  /\ creds \subseteq [user : People \cup {None}, org : OrgIds]
  /\ installed \subseteq Installs
  /\ homes \in [People -> Nat] /\ relinks \in 0..MaxLinks

AccountsInit ==
  /\ accounts = [u \in People |-> NoUser] /\ orgs = <<>>
  /\ slot = [s \in Slots |-> Free]
  /\ creds = {} /\ installed = Installs
  /\ homes = [u \in People |-> 0] /\ relinks = 0

-----------------------------------------------------------------------------
(* First logins: one transaction, on which the row lock of the upsert makes *)
(* a concurrent login of the same person wait.                              *)

UpsertUser(s, u) ==
  /\ slot[s] = Free
  /\ ~\E r \in Slots : slot[r].pc = "provision" /\ slot[r].user = u
  /\ slot' = [slot EXCEPT ![s] = [Free EXCEPT !.pc = "provision", !.user = u,
                                              !.org = accounts[u].defaultOrg]]
  /\ UNCHANGED <<accounts, orgs, creds, installed, homes, relinks>>

NewOrg(u) == [owner |-> u, archived |-> FALSE, members |-> {u},
              install |-> None, secret |-> FALSE]

Provision(s) ==
  LET u == slot[s].user
  IN  /\ slot[s].pc = "provision" /\ (slot[s].org = 0 => Len(orgs) < MaxOrgs)
      /\ IF slot[s].org = 0
         THEN /\ orgs' = Append(orgs, NewOrg(u))
              /\ homes' = [homes EXCEPT ![u] = @ + 1]
              /\ accounts' = [accounts EXCEPT ![u].stored = TRUE,
                                              ![u].defaultOrg = Len(orgs) + 1]
         ELSE /\ accounts' = [accounts EXCEPT ![u].stored = TRUE]
              /\ UNCHANGED <<orgs, homes>>
      /\ slot' = [slot EXCEPT ![s] = Free]
      /\ UNCHANGED <<creds, installed, relinks>>

-----------------------------------------------------------------------------
(* Credentials.                                                             *)

(* A token's claims, or a key: it has no user.                              *)
Cred(user, org) == [user |-> user, org |-> org]

IsOrgMember(o, u) ==
  o \in OrgIds /\ ~orgs[o].archived /\ u \in orgs[o].members

(* The org of a session's next token: the requested one, or the default.    *)
ResolveOrg(u, o) == IF o = 0 THEN accounts[u].defaultOrg ELSE o

(* Every grant of the OAuth flow passes the claims on as they are           *)
(* (issueTokens), so a chain of codes and refresh tokens is one credential  *)
(* here that may last.                                                      *)
Issue(c) ==
  /\ Cardinality(creds \cup {c}) <= MaxCreds
  /\ creds' = creds \cup {c}
  /\ UNCHANGED <<accounts, orgs, slot, installed, homes, relinks>>

(* A session of a person who has logged in asks for a token.                *)
HandleToken(u, o) ==
  /\ u \in Stored
  /\ IsOrgMember(ResolveOrg(u, o), u)
  /\ Issue(Cred(u, ResolveOrg(u, o)))

CreateKey(c) == Issue(Cred(None, c.org))

(* Expiry; for a key also DeleteKey.                                        *)
Expire(c) ==
  /\ creds' = creds \ {c}
  /\ UNCHANGED <<accounts, orgs, slot, installed, homes, relinks>>

-----------------------------------------------------------------------------
(* The handlers; c is the caller's credential.  A key has no user, so it    *)
(* owns nothing.                                                            *)

Edit(o, row) ==
  /\ orgs' = [orgs EXCEPT ![o] = row]
  /\ UNCHANGED <<accounts, slot, creds, installed, homes, relinks>>

(* The membership row needs a user, so a key's transaction rolls back.      *)
CreateOrg(c) ==
  /\ c.user \in Stored /\ Len(orgs) < MaxOrgs
  /\ orgs' = Append(orgs, NewOrg(c.user))
  /\ UNCHANGED <<accounts, slot, creds, installed, homes, relinks>>

(* Mutant: the default org can be deleted like any other.                   *)
DeleteSkipsDefault(s, c, o) ==
  /\ slot[s] = Free /\ orgs[o].owner = c.user
  /\ slot' = [slot EXCEPT ![s] = [Free EXCEPT !.pc = "archive", !.user = c.user,
                                              !.org = o]]
  /\ UNCHANGED <<accounts, orgs, creds, installed, homes, relinks>>

(* DeleteOrg of any id: the checks ...                                      *)
DeleteOrg(s, c, o) ==
  /\ slot[s] = Free /\ orgs[o].owner = c.user
  /\ accounts[c.user].defaultOrg # o
  /\ slot' = [slot EXCEPT ![s] = [Free EXCEPT !.pc = "archive", !.user = c.user,
                                              !.org = o]]
  /\ UNCHANGED <<accounts, orgs, creds, installed, homes, relinks>>

(* ... and the update.                                                      *)
ArchiveOrg(s) ==
  /\ slot[s].pc = "archive"
  /\ orgs' = [orgs EXCEPT ![slot[s].org].archived = TRUE]
  /\ slot' = [slot EXCEPT ![s] = Free]
  /\ UNCHANGED <<accounts, creds, installed, homes, relinks>>

AddOrgMember(c, u) ==
  /\ orgs[c.org].owner = c.user /\ u \in Stored
  /\ Edit(c.org, [orgs[c.org] EXCEPT !.members = @ \cup {u}])

RemoveOrgMember(c, u) ==
  /\ orgs[c.org].owner = c.user /\ u # orgs[c.org].owner
  /\ Edit(c.org, [orgs[c.org] EXCEPT !.members = @ \ {u}])

Relink == relinks < MaxLinks /\ relinks' = relinks + 1

GenerateAtlassianWebhookSecret(c) ==
  /\ Relink
  /\ orgs' = [orgs EXCEPT ![c.org].secret = TRUE]
  /\ UNCHANGED <<accounts, slot, creds, installed, homes>>

-----------------------------------------------------------------------------
(* Accounts elsewhere: one user for each, by unique indexes.                *)

SetAccount(u, row) ==
  /\ Relink
  /\ accounts' = [accounts EXCEPT ![u] = row]
  /\ UNCHANGED <<orgs, slot, creds, installed, homes>>

LinkGitHubAccount(c, p) ==
  /\ c.user \in Stored
  /\ \A u \in People \ {c.user} : accounts[u].github # p
  /\ SetAccount(c.user, [accounts[c.user] EXCEPT !.github = p])

UnlinkGitHubAccount(c) ==
  /\ c.user \in Stored
  /\ SetAccount(c.user, [accounts[c.user] EXCEPT !.github = None])

LinkAtlassianAccount(c, p) ==
  /\ c.user \in Stored
  /\ \A u \in People \ {c.user} : accounts[u].atlassian # p
  /\ SetAccount(c.user, [accounts[c.user] EXCEPT !.atlassian = p])

UnlinkAtlassianAccount(c) ==
  /\ c.user \in Stored
  /\ SetAccount(c.user, [accounts[c.user] EXCEPT !.atlassian = None])

(* The installation must exist when GitHub is asked (its membership answer  *)
(* is left open); the row is written after that.                            *)
VerifyInstallationAccess(s, c, i) ==
  /\ slot[s] = Free /\ c.user \in Stored /\ accounts[c.user].github # None
  /\ i \in installed
  /\ slot' = [slot EXCEPT ![s] = [Free EXCEPT !.pc = "install", !.user = c.user,
                                              !.org = c.org, !.install = i]]
  /\ UNCHANGED <<accounts, orgs, creds, installed, homes, relinks>>

LinkGitHubInstallation(s) ==
  /\ slot[s].pc = "install"
  /\ orgs' = [orgs EXCEPT ![slot[s].org].install = slot[s].install]
  /\ slot' = [slot EXCEPT ![s] = Free]
  /\ UNCHANGED <<accounts, creds, installed, homes, relinks>>

(* The App is uninstalled and its webhook clears the id from every org.     *)
handleInstallationEvent(i) ==
  /\ i \in installed /\ installed' = installed \ {i}
  /\ orgs' = [o \in OrgIds |-> IF orgs[o].install = i
                                 THEN [orgs[o] EXCEPT !.install = None]
                                 ELSE orgs[o]]
  /\ UNCHANGED <<accounts, slot, creds, homes, relinks>>

-----------------------------------------------------------------------------
Login      == \E s \in Slots, u \in People : UpsertUser(s, u)
Credential ==
  \/ \E u \in People, o \in 0..Len(orgs) : HandleToken(u, o)
  \/ \E c \in creds : CreateKey(c) \/ Expire(c)
Handler ==
  \E c \in creds :
    \/ CreateOrg(c) \/ GenerateAtlassianWebhookSecret(c)
    \/ \E u \in People : AddOrgMember(c, u) \/ RemoveOrgMember(c, u)
    \/ \E s \in Slots, o \in OrgIds : DeleteOrg(s, c, o)
    \/ \E s \in Slots, i \in Installs : VerifyInstallationAccess(s, c, i)
    \/ \E p \in Profiles : LinkGitHubAccount(c, p) \/ LinkAtlassianAccount(c, p)
    \/ UnlinkGitHubAccount(c) \/ UnlinkAtlassianAccount(c)

AccountsNext ==
  \/ Login \/ Credential \/ Handler
  \/ \E s \in Slots : Provision(s) \/ ArchiveOrg(s) \/ LinkGitHubInstallation(s)
  \/ \E i \in Installs : handleInstallationEvent(i)

AccountsSpec == AccountsInit /\ [][AccountsNext]_accountVars

-----------------------------------------------------------------------------
(* A person who has logged in can always work: there is one personal org,   *)
(* however many first logins raced (storeauth.go Provision), and the org    *)
(* ResolveOrg falls back to stays unarchived with him as its owner and a    *)
(* member, whatever DeleteOrg, RemoveOrgMember and stale tokens do to it.   *)
DefaultOrgStands ==
  \A u \in Stored :
    /\ IsOrgMember(ResolveOrg(u, 0), u)
    /\ orgs[ResolveOrg(u, 0)].owner = u
    /\ homes[u] = 1

(* An uninstalled App is named by no org (webhook.go                        *)
(* handleInstallationEvent: "so Settings stops showing Installed").         *)
NoDeadInstall == \A o \in OrgIds : orgs[o].install \in installed \cup {None}
=============================================================================
