------------------------------- MODULE Shell -------------------------------
(***************************************************************************)
(* One debug-shell session: OpenShell seeds it, the registry of            *)
(* internal/server/shellserver keeps it, the rendezvous of                 *)
(* internal/shell/shellrelay bridges two WebSocket legs, and at the ends   *)
(* shell.Serve (the driver, with a PTY) and shell.Operate (the operator).  *)
(*                                                                         *)
(* The relay's mutex makes register one step, but teardown lets go of it   *)
(* between taking its copy of the legs and closing done, and closes the    *)
(* legs later still: those are three steps.  A socket is two FIFO queues   *)
(* and two ends that can be closed; what was sent before the other end     *)
(* closed is still read, unless the closer left input unread and the       *)
(* connection is reset.  A server crash loses the registry and the legs.   *)
(***************************************************************************)
EXTENDS Integers, FiniteSets, SequencesExt

CONSTANTS
  Drivers,      \* connections of shell runs of the task's sandbox
  Operators,    \* connections to the attach route
  Entitled,     \* those whose token covers the session's task or org
  MaxOutput,    \* bound on the output of one shell
  MaxInput,     \* bound on the frames one operator sends
  MaxServerCrash      \* bound on server crashes

Conns == Drivers \cup Operators

ASSUME ShellAssumption ==
  /\ Drivers \cap Operators = {} /\ Entitled \subseteq Conns
  /\ {MaxOutput, MaxInput, MaxServerCrash} \subseteq Nat

VARIABLES
  column,       \* tasks.shell_session names this session
  entry,        \* the session in the registry
  relay,        \* Session: legs, ready, done, timers and its teardown
  join,         \* the handler of each connection
  srv, cli,     \* the ends of each connection that are still open
  inbound, outbound,  \* frames on their way to and from the server
  proc,         \* the process at the client end
  wrote,        \* output written to the PTY by the shell
  sent,         \* frames the client end has sent
  seen,         \* frames the client end has taken
  crashes

clientVars == <<proc, wrote, sent, seen>>
serverVars == <<column, entry, relay, join>>
socketVars == <<srv, cli, inbound, outbound>>
shellVars  == <<serverVars, socketVars, clientVars, crashes>>

Frame(type, n) == [type |-> type, n |-> n]
Exit == Frame("exit", 0)
Send(c, f) == /\ inbound' = [inbound EXCEPT ![c] = Append(@, f)]
              /\ sent' = [sent EXCEPT ![c] = Append(@, f)]

ShellInit ==
  /\ column = FALSE /\ entry = "none"
  /\ relay = [legs |-> <<>>, ready |-> FALSE, done |-> FALSE, timer |-> "off",
              idle |-> FALSE, tear |-> "no", snap |-> {}]
  /\ join = [c \in Conns |-> "out"]
  /\ srv = [c \in Conns |-> FALSE] /\ cli = [c \in Conns |-> FALSE]
  /\ inbound = [c \in Conns |-> <<>>] /\ outbound = [c \in Conns |-> <<>>]
  /\ proc = [c \in Conns |-> "idle"] /\ wrote = [c \in Conns |-> 0]
  /\ sent = [c \in Conns |-> <<>>] /\ seen = [c \in Conns |-> <<>>]
  /\ crashes = 0

-----------------------------------------------------------------------------
(* OpenShell: the transaction that sets shell_session and starts the task,  *)
(* and after its commit the seeding of the registry.                        *)
OpenShell ==
  /\ entry = "none"
  /\ column' = TRUE /\ entry' = "committed"
  /\ UNCHANGED <<relay, join, socketVars, clientVars, crashes>>

Seed ==
  /\ entry = "committed"
  /\ entry' = "seeded" /\ relay' = [relay EXCEPT !.timer = "armed"]
  /\ UNCHANGED <<column, join, socketVars, clientVars, crashes>>

(* A client dials.  A driver does when its run read a session from the      *)
(* task, an operator once OpenShell has answered.  An unknown session and a *)
(* caller of another task or org are turned away before the upgrade.        *)
Dial(c) ==
  /\ proc[c] = "idle"
  /\ IF c \in Drivers THEN column ELSE entry \notin {"none", "committed"}
  /\ IF entry = "seeded" /\ c \in Entitled
     THEN /\ proc' = [proc EXCEPT ![c] = "on"]
          /\ join' = [join EXCEPT ![c] = "accepted"]
          /\ srv' = [srv EXCEPT ![c] = TRUE] /\ cli' = [cli EXCEPT ![c] = TRUE]
     ELSE /\ proc' = [proc EXCEPT ![c] = "over"]
          /\ UNCHANGED <<join, srv, cli>>
  /\ UNCHANGED <<column, entry, relay, inbound, outbound, wrote, sent, seen, crashes>>

Register(c) ==
  /\ join[c] = "accepted"
  /\ IF relay.done \/ Len(relay.legs) = 2
     THEN /\ join' = [join EXCEPT ![c] = "returned"]
          /\ srv' = [srv EXCEPT ![c] = FALSE]
          /\ UNCHANGED relay
     ELSE /\ join' = [join EXCEPT ![c] = "waiting"]
          /\ relay' = IF relay.legs = <<>> THEN [relay EXCEPT !.legs = <<c>>]
                      ELSE [relay EXCEPT !.legs = Append(@, c), !.ready = TRUE,
                              !.idle = TRUE,
                              !.timer = IF @ = "armed" THEN "off" ELSE @]
          /\ UNCHANGED srv
  /\ UNCHANGED <<column, entry, cli, inbound, outbound, clientVars, crashes>>

(* Join's select: with ready and done both closed, either case.             *)
Selected(c) ==
  /\ join[c] = "waiting"
  /\ \/ /\ relay.ready
        /\ join' = [join EXCEPT ![c] = "pumping"] /\ UNCHANGED srv
     \/ /\ relay.done
        /\ join' = [join EXCEPT ![c] = "returned"]
        /\ srv' = [srv EXCEPT ![c] = FALSE]
  /\ UNCHANGED <<column, entry, relay, cli, inbound, outbound, clientVars, crashes>>

(* Mutant: a session that was joined is not torn down.                      *)
BeginTeardownUnlessReady == relay' =
  IF relay.tear = "no" /\ ~relay.ready
  THEN [relay EXCEPT !.tear = "copied", !.snap = ToSet(relay.legs),
          !.idle = FALSE, !.timer = "off"]
  ELSE relay

(* teardown, first step: the first caller stops the timers and copies the   *)
(* legs under the mutex; every later caller finds nothing to do.            *)
BeginTeardown == relay' =
  IF relay.tear = "no"
  THEN [relay EXCEPT !.tear = "copied", !.snap = ToSet(relay.legs),
          !.idle = FALSE, !.timer = IF @ = "armed" THEN "off" ELSE @]
  ELSE relay

(* Its second step closes done, its third the legs it copied.               *)
CloseDone ==
  /\ relay.tear = "copied"
  /\ relay' = [relay EXCEPT !.tear = "done", !.done = TRUE]
  /\ UNCHANGED <<column, entry, join, socketVars, clientVars, crashes>>

CloseLegs ==
  /\ relay.tear = "done"
  /\ relay' = [relay EXCEPT !.tear = "closed"]
  /\ srv' = [c \in Conns |-> srv[c] /\ c \notin relay.snap]
  /\ UNCHANGED <<column, entry, join, cli, inbound, outbound, clientVars, crashes>>

(* The timers, and Registry.Close at shutdown.  A timer that has fired is   *)
(* not stopped any more.                                                    *)
TimerFires ==
  /\ relay.timer = "armed"
  /\ relay' = [relay EXCEPT !.timer = "fired"]
  /\ UNCHANGED <<column, entry, join, socketVars, clientVars, crashes>>

TimedOut ==
  /\ \/ relay.timer = "fired" \/ relay.idle
  /\ relay.tear = "no"
  /\ BeginTeardown
  /\ UNCHANGED <<column, entry, join, socketVars, clientVars, crashes>>

Close ==
  /\ entry = "seeded" /\ relay.tear = "no" /\ BeginTeardown
  /\ UNCHANGED <<column, entry, join, socketVars, clientVars, crashes>>

-----------------------------------------------------------------------------
(* Session.pump for the leg c: a frame is read, and written to the peer.    *)
(* The pump ends when the server's end is closed, when the client has hung  *)
(* up and everything is read, or when the peer's end is closed; then the    *)
(* session is torn down.                                                    *)
Peer(c) == IF relay.legs[1] = c THEN relay.legs[2] ELSE relay.legs[1]

Relayed(c) ==
  /\ join[c] = "pumping" /\ srv[c] /\ inbound[c] # <<>> /\ srv[Peer(c)]
  /\ inbound' = [inbound EXCEPT ![c] = Tail(@)]
  /\ outbound' = [outbound EXCEPT ![Peer(c)] = Append(@, Head(inbound[c]))]
  /\ UNCHANGED <<serverVars, srv, cli, clientVars, crashes>>

PumpEnds(c) ==
  /\ join[c] = "pumping"
  /\ \/ ~srv[c]
     \/ inbound[c] = <<>> /\ ~cli[c]
     \/ inbound[c] # <<>> /\ ~srv[Peer(c)]
  /\ join' = [join EXCEPT ![c] = "returned"]
  /\ BeginTeardown
  /\ UNCHANGED <<column, entry, socketVars, clientVars, crashes>>

(* The goroutine Seed left behind: the session leaves the registry, and     *)
(* OnClose clears the task's column.  An UPDATE that fails is logged and    *)
(* given up, and the column keeps naming a session that is gone.            *)
Evict ==
  /\ entry = "seeded" /\ relay.done
  /\ entry' = "removed"
  /\ UNCHANGED <<column, relay, join, socketVars, clientVars, crashes>>

OnClose ==
  /\ entry = "removed"
  /\ \/ entry' = "cleared" /\ column' = FALSE
     \/ entry' = "uncleared" /\ UNCHANGED column
  /\ UNCHANGED <<relay, join, socketVars, clientVars, crashes>>

(* The server dies: the registry, the sessions and the legs with it.        *)
ServerCrash ==
  /\ crashes < MaxServerCrash /\ entry # "none"
  /\ crashes' = crashes + 1 /\ entry' = "lost"
  /\ relay' = [relay EXCEPT !.done = TRUE, !.tear = "closed", !.idle = FALSE,
                            !.timer = "off", !.snap = Conns]
  /\ srv' = [c \in Conns |-> FALSE]
  /\ join' = [c \in Conns |-> IF join[c] = "out" THEN "out" ELSE "returned"]
  /\ UNCHANGED <<column, cli, inbound, outbound, clientVars>>

-----------------------------------------------------------------------------
(* shell.Serve.  The shell writes to its PTY and the output pump sends it;  *)
(* when the shell has exited the pump drains the PTY, then comes the exit   *)
(* frame and the connection is closed.  A read error or SIGTERM closes the  *)
(* connection and kills the shell.                                          *)
Drained(c) == Len(sent[c]) = wrote[c]

ShellWrites(c) ==
  /\ proc[c] = "on" /\ wrote[c] < MaxOutput
  /\ wrote' = [wrote EXCEPT ![c] = @ + 1]
  /\ UNCHANGED <<serverVars, socketVars, proc, sent, seen, crashes>>

OutputPump(c) ==
  /\ proc[c] \in {"on", "exited"} /\ cli[c] /\ ~Drained(c)
  /\ Send(c, Frame("data", Len(sent[c]) + 1))
  /\ UNCHANGED <<serverVars, srv, cli, outbound, proc, wrote, seen, crashes>>

ShellExits(c) ==
  /\ proc[c] = "on"
  /\ proc' = [proc EXCEPT ![c] = "exited"]
  /\ UNCHANGED <<serverVars, socketVars, wrote, sent, seen, crashes>>

(* Mutant: the exit is sent while output is still in the pty.               *)
ReportExitUndrained(c) ==
  /\ proc[c] = "exited"
  /\ Send(c, Exit)
  /\ proc' = [proc EXCEPT ![c] = "over"] /\ cli' = [cli EXCEPT ![c] = FALSE]
  /\ UNCHANGED <<serverVars, srv, outbound, wrote, seen, crashes>>
ReportExit(c) ==
  /\ proc[c] = "exited" /\ Drained(c)
  /\ Send(c, Exit)
  /\ proc' = [proc EXCEPT ![c] = "over"] /\ cli' = [cli EXCEPT ![c] = FALSE]
  /\ UNCHANGED <<serverVars, srv, outbound, wrote, seen, crashes>>

(* A frame from the operator reaches the PTY.                               *)
DriverReads(c) ==
  /\ proc[c] = "on" /\ outbound[c] # <<>>
  /\ outbound' = [outbound EXCEPT ![c] = Tail(@)]
  /\ seen' = [seen EXCEPT ![c] = Append(@, Head(outbound[c]))]
  /\ UNCHANGED <<serverVars, srv, cli, inbound, proc, wrote, sent, crashes>>

HungUp(c) == outbound[c] = <<>> /\ ~srv[c] /\ join[c] # "out"

DriverKilled(c) ==
  /\ proc[c] \in {"on", "exited"}
  /\ HungUp(c)
  /\ proc' = [proc EXCEPT ![c] = "over"] /\ cli' = [cli EXCEPT ![c] = FALSE]
  /\ UNCHANGED <<serverVars, srv, inbound, outbound, wrote, sent, seen, crashes>>

Sigterm(c) ==
  /\ proc[c] = "on"
  /\ proc' = [proc EXCEPT ![c] = "over"] /\ cli' = [cli EXCEPT ![c] = FALSE]
  /\ UNCHANGED <<serverVars, srv, inbound, outbound, wrote, sent, seen, crashes>>

(* shell.Operate: input goes out, data frames to the terminal, an exit      *)
(* frame or a read error ends it; the user may end it at any time.          *)
Types(c) ==
  /\ proc[c] = "on" /\ Len(sent[c]) < MaxInput
  /\ Send(c, Frame("data", Len(sent[c]) + 1))
  /\ UNCHANGED <<serverVars, srv, cli, outbound, proc, wrote, seen, crashes>>

Operate(c) ==
  /\ proc[c] = "on" /\ outbound[c] # <<>>
  /\ outbound' = [outbound EXCEPT ![c] = Tail(@)]
  /\ seen' = [seen EXCEPT ![c] = Append(@, Head(outbound[c]))]
  /\ IF Head(outbound[c]) = Exit
     THEN proc' = [proc EXCEPT ![c] = "over"] /\ cli' = [cli EXCEPT ![c] = FALSE]
     ELSE UNCHANGED <<proc, cli>>
  /\ UNCHANGED <<serverVars, srv, inbound, wrote, sent, crashes>>

OperatorDetach(c) ==
  /\ proc[c] = "on"
  /\ proc' = [proc EXCEPT ![c] = "over"] /\ cli' = [cli EXCEPT ![c] = FALSE]
  /\ UNCHANGED <<serverVars, srv, inbound, outbound, wrote, sent, seen, crashes>>

(* The end the server closed had input it never read: what the client has   *)
(* not taken yet may be lost with the connection.                           *)
Reset(c) ==
  /\ ~srv[c] /\ cli[c] /\ inbound[c] # <<>> /\ outbound[c] # <<>>
  /\ outbound' = [outbound EXCEPT ![c] = <<>>]
  /\ UNCHANGED <<serverVars, srv, cli, inbound, clientVars, crashes>>

-----------------------------------------------------------------------------
DriverStep(c) == OutputPump(c) \/ ReportExit(c) \/ DriverReads(c) \/ DriverKilled(c)
OperatorStep(c) == Operate(c) \/ (HungUp(c) /\ OperatorDetach(c))
ServerStep ==
  \/ Seed \/ TimerFires \/ TimedOut \/ CloseDone \/ CloseLegs \/ Evict \/ OnClose
  \/ \E c \in Conns : Register(c) \/ Selected(c) \/ Relayed(c) \/ PumpEnds(c)

ShellNext ==
  \/ OpenShell \/ Close \/ ServerCrash
  \/ \E c \in Conns : Dial(c) \/ Reset(c)
  \/ \E c \in Drivers : ShellWrites(c) \/ ShellExits(c) \/ Sigterm(c) \/ DriverStep(c)
  \/ \E c \in Operators : Types(c) \/ Operate(c) \/ OperatorDetach(c)
  \/ ServerStep

(* Every goroutine of the server and of the clients runs on; both timers    *)
(* fire if nothing stops them.  No user, and no shell, has to do anything.  *)
ShellFairness ==
  WF_shellVars(ServerStep \/ (\E c \in Drivers : DriverStep(c))
                          \/ (\E c \in Operators : OperatorStep(c)))

ShellSpec == ShellInit /\ [][ShellNext]_shellVars /\ ShellFairness

-----------------------------------------------------------------------------
(* Every variable has its type, and a session never has a third leg.        *)
ShellTypeOK ==
  /\ column \in BOOLEAN /\ crashes \in 0..MaxServerCrash
  /\ entry \in {"none", "committed", "seeded", "removed", "cleared", "uncleared",
               "lost"}
  /\ relay.legs \in BoundedSeq(Conns, 2) /\ relay.ready = (Len(relay.legs) = 2)
  /\ \A c \in Conns : /\ join[c] \in {"out", "accepted", "waiting", "pumping", "returned"}
                      /\ proc[c] \in {"idle", "on", "exited", "over"}
                      /\ wrote[c] \in 0..MaxOutput
                      /\ srv[c] \in BOOLEAN /\ cli[c] \in BOOLEAN

(* The relay delivers verbatim and in order (shellrelay: "copies WebSocket  *)
(* frames verbatim"), and an operator who is given an exit code was given   *)
(* all the shell had written before (Serve waits for the output pump before *)
(* it sends the exit frame).                                                *)
ExitAfterOutput ==
  \A c \in ToSet(relay.legs) :
    (seen[c] # <<>>) =>
      /\ IsPrefix(seen[c], sent[Peer(c)])
      /\ (Last(seen[c]) = Exit) => Len(seen[c]) = wrote[Peer(c)] + 1

(* The legs that registered after teardown copied the legs: nobody closes   *)
(* them.                                                                    *)
Stranded == {c \in ToSet(relay.legs) : relay.tear # "no" /\ c \notin relay.snap}

(* A shell never outlives its session (Serve: "the shell is always reaped   *)
(* and Serve returns rather than leaking a shell or hanging the driver"),   *)
(* whichever of the timeouts, a dropped leg, a shutdown or a crash ends it, *)
(* except for a leg stranded by teardown.                                   *)
ShellReaped ==
  \A d \in Drivers : proc[d] = "on" ~> (proc[d] = "over" \/ d \in Stranded)

(* Once teardown is through, every leg still being pumped is closed         *)
(* (Session, "the whole session is torn down and both legs are closed").    *)
LegsClosed ==
  relay.tear = "closed" =>
    \A c \in ToSet(relay.legs) : join[c] = "pumping" => ~srv[c]

(* The column of a session is cleared in the end, so that a later run of    *)
(* the task boots the agent again, unless the server crashed or the one     *)
(* attempt failed (Options, "invoked exactly once per session after it      *)
(* tears down"; onShellClose, "Best effort").                               *)
SessionCleared == column ~> (~column \/ crashes > 0 \/ entry = "uncleared")

(* An established session joins a driver with one operator (AttachHandler,  *)
(* "Any member of that org may attach (one at a time)").                    *)
OneOperator == relay.ready => Cardinality(ToSet(relay.legs) \cap Operators) = 1
=============================================================================
