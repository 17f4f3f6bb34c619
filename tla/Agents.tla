------------------------------- MODULE Agents -------------------------------
(***************************************************************************)
(* One prompt of the driver to an agent (runner/agent: claude, codex,      *)
(* copilot, cursor, sloppy, dummy).  A CLI agent is a child process in a   *)
(* process group of its own, whose standard output is a pipe that Prompt   *)
(* scans line by line until its end; only then does it wait for the child. *)
(* Stopping the run sends SIGTERM to the group and, WaitDelay later,       *)
(* SIGKILL to the child alone.  The child and a helper it started (npx     *)
(* starts node) both hold the pipe open.                                   *)
(*                                                                         *)
(* Left out: command lines, the wording of log entries, the layout of the  *)
(* MCP configurations (only whether they can be written matters).          *)
(***************************************************************************)
EXTENDS Integers, Sequences

CONSTANTS
  PipeSize,       \* lines the pipe holds before a writer blocks
  MaxLines        \* bound: lines the agent writes

ASSUME AgentsAssumption == PipeSize \in Nat \ {0} /\ MaxLines \in Nat

VARIABLES
  conf,           \* [type, servers, resume, verbose]: what NewAgent and Prompt are given
  prompt,         \* where Prompt is: "uncalled", "new", "ready", "scan", "wait", "work", "returned"
  result,         \* what it returned: "none", "ok", "error", "exit", "canceled"
  child,          \* "none", "alive", "signalled" (SIGTERM), or how it ended
  helper,         \* "none", "alive", "signalled", "gone"
  pipe,           \* lines written and not yet read
  printed,         \* lines written
  log,            \* lines that left an entry in the driver's log
  ctx,            \* the run's context: "live", "stopped" (cause ErrStop)
  killDue,        \* the WaitDelay timer of the command runs
  saved,          \* runAgent saved the configuration after the prompt
  outcome         \* what the driver reports: "none", "stopped", "failed"

procVars == <<child, helper, pipe, printed, killDue>>
driverRunVars == <<ctx, saved, outcome>>
agentVars == <<conf, prompt, result, log, procVars, driverRunVars>>

CliAgents == {"claude", "codex", "copilot", "cursor", "sloppy"}

\* A line of output: not JSON, a JSON event that is reported, one that is
\* not, or a line longer than the scanner's buffer.
LineKinds == {"plain", "event", "quiet", "long"}
\* How the child ends: by itself, in its handler of SIGTERM with status 0, of a signal.
Ended == {"exit0", "exit1", "quit0", "terminated"}

NewAgent(c) == c.type \in CliAgents \cup {"dummy"}

AgentsInit ==
  /\ conf \in [type : CliAgents \cup {"dummy"}, servers : {"none", "stdio", "http"},
               resume : BOOLEAN, verbose : BOOLEAN]
  /\ NewAgent(conf)
  /\ prompt = "uncalled" /\ result = "none" /\ log = <<>>
  /\ child = "none" /\ helper = "none" /\ pipe = <<>> /\ printed = <<>> /\ killDue = FALSE
  /\ ctx = "live" /\ saved = FALSE /\ outcome = "none"

----------------------------------------------------------------------------
(* What Prompt does before its process exists.                             *)

CallPrompt ==
  /\ prompt = "uncalled" /\ prompt' = "new"
  /\ UNCHANGED <<conf, result, log, procVars, driverRunVars>>

Ready ==
  /\ prompt = "new" /\ prompt' = "ready"
  /\ UNCHANGED <<conf, result, log, procVars, driverRunVars>>

Returns(r) ==
  /\ prompt' = "returned" /\ result' = r
  /\ UNCHANGED <<conf, log, procVars, driverRunVars>>

Fails == prompt = "new" /\ Returns("error")

\* The MCP configuration of claude and copilot is an argument, which cannot fail.
ClaudePrompt == conf.type = "claude" /\ Ready
CopilotPrompt == conf.type = "copilot" /\ Ready

\* The others write it to a file in the home directory, which can.
writeConfigFails == conf.servers # "none" /\ Fails
CodexPrompt == conf.type = "codex" /\ (Ready \/ writeConfigFails)

\* Cursor's command is also looked for in several places, perhaps in vain.
findBinFails == Fails
CursorPrompt == conf.type = "cursor" /\ (Ready \/ writeConfigFails \/ findBinFails)

\* Sloppy resumes nothing and takes only stdio servers.
sloppyMcpConfig == IF conf.servers = "http" THEN Fails ELSE Ready \/ writeConfigFails
SloppyPrompt == conf.type = "sloppy" /\ (IF conf.resume THEN Fails ELSE sloppyMcpConfig)

\* cmd.Start: the context may be over, the command missing.
StartChild ==
  /\ prompt = "ready"
  /\ \/ ctx = "stopped" /\ Returns("canceled")
     \/ Returns("error")
     \/ /\ ctx = "live"
        /\ prompt' = "scan" /\ child' = "alive"
        /\ UNCHANGED <<conf, result, log, helper, pipe, printed, killDue, driverRunVars>>

----------------------------------------------------------------------------
(* The processes of the group (external: whatever the agent's CLI does).   *)

Holder(p) == p \in {"alive", "signalled"}
Open == Holder(child) \/ Holder(helper)

\* A write blocks while the pipe is full.
AgentWrites ==
  /\ Open /\ Len(printed) < MaxLines /\ Len(pipe) < PipeSize
  /\ \E l \in LineKinds : pipe' = Append(pipe, l) /\ printed' = Append(printed, l)
  /\ UNCHANGED <<conf, prompt, result, log, child, helper, killDue, driverRunVars>>

Spawns ==
  /\ child = "alive" /\ helper = "none" /\ helper' = "alive"
  /\ UNCHANGED <<conf, prompt, result, log, child, pipe, printed, killDue, driverRunVars>>

\* The child ends by itself, or, signalled, of the signal or in its handler.
ChildExits ==
  /\ Holder(child)
  /\ child' \in (IF child = "signalled" THEN Ended \ {"exit0"} ELSE {"exit0", "exit1"})
  /\ UNCHANGED <<conf, prompt, result, log, helper, pipe, printed, killDue, driverRunVars>>

HelperExits ==
  /\ Holder(helper) /\ helper' = "gone"
  /\ UNCHANGED <<conf, prompt, result, log, child, pipe, printed, killDue, driverRunVars>>

----------------------------------------------------------------------------
(* The scan, the wait and the stop.                                        *)

Signalled(p) == IF p = "alive" THEN "signalled" ELSE p

\* Mutant: only the child is signalled.
StopSignalsChild ==
  /\ ctx = "live" /\ prompt # "uncalled" /\ outcome = "none"
  /\ ctx' = "stopped"
  /\ IF prompt \in {"scan", "wait"}
     THEN child' = Signalled(child) /\ killDue' = TRUE
     ELSE UNCHANGED <<child, killDue>>
  /\ UNCHANGED <<conf, prompt, result, log, helper, pipe, printed, saved, outcome>>

\* SIGTERM to the driver cancels the context; exec then calls Cancel, which
\* signals the whole group, unless the child has been waited for.
StopOnSignal ==
  /\ ctx = "live" /\ prompt # "uncalled" /\ outcome = "none"
  /\ ctx' = "stopped"
  /\ IF prompt \in {"scan", "wait"}
     THEN child' = Signalled(child) /\ helper' = Signalled(helper) /\ killDue' = TRUE
     ELSE UNCHANGED <<child, helper, killDue>>
  /\ UNCHANGED <<conf, prompt, result, log, pipe, printed, saved, outcome>>

\* WaitDelay after the cancellation the child is killed, the helper is not.
WaitDelay ==
  /\ killDue /\ killDue' = FALSE
  /\ child' = IF Holder(child) THEN "terminated" ELSE child
  /\ UNCHANGED <<conf, prompt, result, log, helper, pipe, printed, driverRunVars>>

\* What of a line reaches the log: a JSON event its handler knows, or else
\* the line as it is; JSON of another type leaves nothing behind.
handleStreamEvent(line) == line \in {"event", "quiet"}
Logged(line) ==
  \/ conf.type \in {"copilot", "sloppy"} \/ conf.verbose
  \/ ~handleStreamEvent(line)
  \/ line = "event"

\* The scanner gives up at a line longer than its buffer, without an error.
Scan ==
  /\ prompt = "scan" /\ pipe # <<>>
  /\ pipe' = Tail(pipe)
  /\ IF Head(pipe) = "long"
     THEN prompt' = "wait" /\ log' = log
     ELSE prompt' = prompt /\ log' = IF Logged(Head(pipe)) THEN Append(log, Head(pipe)) ELSE log
  /\ UNCHANGED <<conf, result, child, helper, printed, killDue, driverRunVars>>

ScanEnds ==
  /\ prompt = "scan" /\ pipe = <<>> /\ ~Open
  /\ prompt' = "wait"
  /\ UNCHANGED <<conf, result, log, procVars, driverRunVars>>

\* Mutant: an exit status of 0 is success, cancelled or not.
StatusOfChild == IF child \in {"exit1", "terminated"} THEN "exit" ELSE "ok"

\* cmd.Wait: the exit status comes first, then the cancellation.
Status ==
  IF child \in {"exit1", "terminated"} THEN "exit"
  ELSE IF ctx = "stopped" THEN "canceled" ELSE "ok"
Wait ==
  /\ prompt = "wait" /\ child \in Ended
  /\ prompt' = "returned" /\ result' = Status
  /\ killDue' = FALSE
  /\ UNCHANGED <<conf, log, child, helper, pipe, printed, driverRunVars>>

\* The dummy agent runs its tool calls and commands and sleeps, perhaps for ever.
DummyPrompt ==
  /\ conf.type = "dummy" /\ prompt = "new" /\ prompt' = "work"
  /\ UNCHANGED <<conf, result, log, procVars, driverRunVars>>
doWork == prompt = "work" /\ \E r \in {"ok", "error"} : Returns(r)
doSleep == prompt = "work" /\ ctx = "stopped" /\ \E r \in {"canceled", "error"} : Returns(r)

----------------------------------------------------------------------------
(* The driver.                                                             *)

\* runAgent saves only after a prompt without an error.
runAgent ==
  /\ prompt = "returned" /\ outcome = "none" /\ ~saved /\ result = "ok"
  /\ saved' = TRUE
  /\ UNCHANGED <<conf, prompt, result, log, procVars, ctx, outcome>>

\* Run: an error counts as a stop when the context was stopped.
Run ==
  /\ prompt = "returned" /\ outcome = "none"
  /\ result = "ok" => saved
  /\ outcome' = IF result = "ok" \/ ctx = "stopped" THEN "stopped" ELSE "failed"
  /\ UNCHANGED <<conf, prompt, result, log, procVars, ctx, saved>>

Prepare == ClaudePrompt \/ CodexPrompt \/ CopilotPrompt \/ CursorPrompt \/ SloppyPrompt
Processes == AgentWrites \/ Spawns \/ ChildExits \/ HelperExits

AgentsNext ==
  \/ CallPrompt \/ Prepare \/ StartChild \/ DummyPrompt \/ doWork \/ doSleep
  \/ Processes
  \/ StopOnSignal \/ WaitDelay
  \/ Scan \/ ScanEnds \/ Wait
  \/ runAgent \/ Run

\* Prompt and the timer are never held up; a helper is assumed to honour
\* SIGTERM, the child need not.
AgentsFairness ==
  /\ WF_agentVars(Prepare \/ StartChild \/ DummyPrompt \/ doSleep)
  /\ WF_agentVars(Scan \/ ScanEnds \/ Wait)
  /\ WF_agentVars(WaitDelay)
  /\ WF_agentVars(helper = "signalled" /\ HelperExits)
  /\ WF_agentVars(runAgent \/ Run)

AgentsSpec == AgentsInit /\ [][AgentsNext]_agentVars /\ AgentsFairness

----------------------------------------------------------------------------
(* Properties.                                                             *)

(* Once the run is stopped Prompt returns and the driver reports: no       *)
(* process of the group keeps the output pipe open for ever, and a child   *)
(* that blocks on a full pipe or ignores SIGTERM is killed (cmd.Cancel and *)
(* WaitDelay of every agent).                                              *)
StopEndsPrompt == (ctx = "stopped") ~> (outcome # "none")

(* The log is what of the first n lines printed is Logged, in their order. *)
LoggedUpTo(n) ==
  \E at \in [DOMAIN log -> 1..n] :
    /\ \A i, j \in DOMAIN log : i < j => at[i] < at[j]
    /\ \A i \in DOMAIN log : log[i] = printed[at[i]]
    /\ \A k \in 1..n : Logged(printed[k]) <=> \E i \in DOMAIN log : at[i] = k

(* The configuration, with the cursor past the events the prompt carried,  *)
(* is saved only after an agent that ended by itself: one that was stopped *)
(* and left with status 0 has not finished.  By then all it printed has    *)
(* been logged, unless a line was too long for the scanner (runAgent,      *)
(* Prompt's scan before its Wait).                                         *)
SavedIsComplete ==
  saved /\ conf.type # "dummy" =>
    /\ child = "exit0"
    /\ (\E i \in DOMAIN printed : printed[i] = "long") \/ LoggedUpTo(Len(printed))

(* interface.go: a prompt whose context was cancelled returns an error     *)
(* that is context.Canceled.                                               *)
CancelInChain ==
  [][prompt = "wait" /\ prompt' = "returned" /\ ctx = "stopped"
       => result' = "canceled"]_agentVars
=============================================================================
