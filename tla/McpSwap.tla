------------------------------ MODULE McpSwap -------------------------------
(***************************************************************************)
(* The GitHub MCP proxy of a sandbox (x/githubmcp over x/mcpswap): it      *)
(* forwards the agent's requests to the session that is active, and a      *)
(* goroutine replaces that session before the token it was opened with     *)
(* expires, retrying with a backoff while the old one serves.              *)
(*                                                                         *)
(* Time is counted in backoffs.  Minting a token is external.              *)
(***************************************************************************)
EXTENDS Integers, Sequences

CONSTANTS
  Requests,       \* requests of the agent that are in flight at once
  TTL,            \* lifetime of a fresh token
  MinTTL,         \* rotate when less is left
  MaxTrouble,     \* failed attempts in a row, and backoffs a slow one takes
  MaxNow          \* bound: the clock

(* The margin outlasts the trouble, and a token that took as long as that   *)
(* to be of use is still good for the margin.                               *)
ASSUME SwapAssumption ==
  /\ {TTL, MinTTL, MaxTrouble, MaxNow} \subseteq Nat
  /\ MaxTrouble < MinTTL /\ MinTTL + MaxTrouble <= TTL

VARIABLES
  now,            \* the clock
  server,         \* "boot", "serving", "ending", "returned"
  done,           \* the context of the command is over
  current,         \* the active session, 0 for none
  sessions,       \* every session opened: [expires, state]
  swapMu,         \* who holds it: "none", "swap", "close"
  rotor,          \* the swap in progress: "idle", "mint", "connect", "over"
  minted,         \* expiry of the token just minted
  due,            \* when the rotation timer fires
  trouble,        \* failures and delays since the last swap
  request         \* per request: Unsent, the session it is on, or its answer

swapVars == <<now, server, done, current, sessions, swapMu, rotor, minted, due, trouble, request>>

Unsent == 0
Ok == -1
Failed == -2

SwapInit ==
  /\ now = 0 /\ server = "boot" /\ done = FALSE
  /\ current = 0 /\ sessions = <<>> /\ swapMu = "none"
  /\ rotor = "mint" /\ minted = 0 /\ due = 0 /\ trouble = 0
  /\ request = [r \in Requests |-> Unsent]

----------------------------------------------------------------------------
(* swap and rotate.                                                        *)

\* A failed attempt ends Run at boot, is retried after the backoff later.
Retry ==
  IF server = "boot" \/ done
  THEN /\ rotor' = "over"
       /\ server' = IF server = "boot" THEN "ending" ELSE server
       /\ UNCHANGED <<due, trouble>>
  ELSE /\ rotor' = "idle"
       /\ due' = now + 1 /\ trouble' = trouble + 1
       /\ UNCHANGED server

Mayfail == done \/ server = "boot" \/ trouble < MaxTrouble

\* CreateGitHubToken: a token of full lifetime, or an error.
CreateGitHubToken ==
  /\ rotor = "mint"
  /\ \/ minted' = now + TTL /\ rotor' = "connect" /\ UNCHANGED <<server, due, trouble>>
     \/ Mayfail /\ Retry /\ UNCHANGED minted
  /\ UNCHANGED <<now, done, current, sessions, swapMu, request>>

\* Swap holds swapMu over the connect.
SwapLock ==
  /\ rotor = "connect" /\ swapMu = "none"
  /\ swapMu' = "swap"
  /\ UNCHANGED <<now, server, done, current, sessions, rotor, minted, due, trouble, request>>

SwapFails ==
  /\ rotor = "connect" /\ swapMu = "swap" /\ Mayfail
  /\ Retry /\ swapMu' = "none"
  /\ UNCHANGED <<now, done, current, sessions, minted, request>>

\* Mutant: the timer of the next rotation is the token's expiry.
WhenToRotateLate(expires) == expires
WhenToRotate(expires) == IF expires - MinTTL > now THEN expires - MinTTL ELSE now

\* The new session becomes the active one, the previous one is closed in
\* the background, and the rotation timer is set from the new token.
Swap ==
  /\ rotor = "connect" /\ swapMu = "swap"
  /\ swapMu' = "none"
  /\ current' = Len(sessions) + 1
  /\ sessions' = Append([s \in DOMAIN sessions |->
                           IF s = current THEN [sessions[s] EXCEPT !.state = "closing"] ELSE sessions[s]],
                        [expires |-> minted, state |-> "open"])
  /\ rotor' = "idle" /\ due' = WhenToRotate(minted) /\ trouble' = 0
  /\ server' = IF server = "boot" THEN "serving" ELSE server
  /\ UNCHANGED <<now, done, minted, request>>

\* Requests on a session that is closed are answered with an error.
closeInBackground ==
  \E s \in DOMAIN sessions :
    /\ sessions[s].state = "closing"
    /\ sessions' = [sessions EXCEPT ![s].state = "closed"]
    /\ request' = [r \in Requests |-> IF request[r] = s THEN Failed ELSE request[r]]
    /\ UNCHANGED <<now, server, done, current, swapMu, rotor, minted, due, trouble>>

rotate ==
  /\ rotor = "idle"
  /\ rotor' = IF done THEN "over" ELSE "mint"
  /\ done \/ now >= due
  /\ UNCHANGED <<now, server, done, current, sessions, swapMu, minted, due, trouble, request>>

----------------------------------------------------------------------------
(* Requests, the end of Run, time.                                         *)

\* Dispatch takes the active session once and forwards to it.
Dispatch(r) ==
  /\ server = "serving" /\ request[r] = Unsent
  /\ request' = [request EXCEPT ![r] = IF current = 0 THEN Failed ELSE current]
  /\ UNCHANGED <<now, server, done, current, sessions, swapMu, rotor, minted, due, trouble>>

Usable(s) == sessions[s].state # "closed" /\ now < sessions[s].expires

Answer(r) ==
  /\ request[r] \in DOMAIN sessions
  /\ request' = [request EXCEPT ![r] = IF Usable(request[r]) THEN Ok ELSE Failed]
  /\ UNCHANGED <<now, server, done, current, sessions, swapMu, rotor, minted, due, trouble>>

Received(r) ==
  /\ request[r] \in {Ok, Failed}
  /\ request' = [request EXCEPT ![r] = Unsent]
  /\ UNCHANGED <<now, server, done, current, sessions, swapMu, rotor, minted, due, trouble>>

Cancelled ==
  /\ ~done /\ done' = TRUE
  /\ UNCHANGED <<now, server, current, sessions, swapMu, rotor, minted, due, trouble, request>>

\* srv.Run ends with the context or when the agent closes the connection.
ServeEnds ==
  /\ server = "serving" /\ server' = "ending"
  /\ UNCHANGED <<now, done, current, sessions, swapMu, rotor, minted, due, trouble, request>>

\* The deferred Close waits for swapMu; it closes what is active then.
CloseUpstream ==
  /\ server = "ending" /\ swapMu = "none"
  /\ server' = "returned" /\ current' = 0
  /\ sessions' = [s \in DOMAIN sessions |->
                    IF s = current THEN [sessions[s] EXCEPT !.state = "closed"] ELSE sessions[s]]
  /\ request' = [r \in Requests |-> IF request[r] = current /\ current # 0 THEN Failed ELSE request[r]]
  /\ UNCHANGED <<now, done, swapMu, rotor, minted, due, trouble>>

\* The timer fires when it is due; an attempt that is slow lets time pass too.
Tick ==
  /\ now < MaxNow
  /\ now' = now + 1
  /\ \/ rotor = "idle" /\ (now < due \/ done) /\ UNCHANGED trouble
     \/ rotor = "over" /\ UNCHANGED trouble
     \/ rotor \in {"mint", "connect"} /\ trouble < MaxTrouble /\ trouble' = trouble + 1
  /\ UNCHANGED <<server, done, current, sessions, swapMu, rotor, minted, due, request>>

SwapNext ==
  \/ CreateGitHubToken \/ SwapLock \/ SwapFails \/ Swap \/ closeInBackground \/ rotate
  \/ \E r \in Requests : Dispatch(r) \/ Answer(r) \/ Received(r)
  \/ Cancelled \/ ServeEnds \/ CloseUpstream \/ Tick

SwapSpec == SwapInit /\ [][SwapNext]_swapVars

----------------------------------------------------------------------------
(* Properties.                                                             *)

(* As long as the proxy serves and its command is not being cancelled, a   *)
(* request finds a session, that session is the newest one, is not being   *)
(* closed, and its token has time left: whatever attempts failed or took   *)
(* long, the margin MinTTL covers them (rotate, Swap).                     *)
SessionFresh ==
  server = "serving" /\ ~done =>
    /\ current = Len(sessions) /\ current > 0
    /\ sessions[current].state = "open"
    /\ now < sessions[current].expires
=============================================================================
