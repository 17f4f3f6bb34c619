----------------------------- MODULE MCSandbox -----------------------------
(* What runs in and around a sandbox for TLC, side by side: a debug-shell   *)
(* session, the microVMs of one task, the driver server of one sandbox, one *)
(* prompt to an agent, the masking of its log and the GitHub MCP proxy.     *)
(* They share no state, so a behaviour moves one of them and leaves the     *)
(* others where they start; nothing that is fair is enabled there.          *)
EXTENDS Shell, MicroVM, DriverServer, Agents, Redact, McpSwap

VARIABLE part      \* the component this behaviour is about

sandboxVars ==
  <<shellVars, microVars, driverVars, agentVars, redactVars, swapVars, part>>

(* An empty secret, one that is the end of two others, and two that overlap. *)
MCSecrets == [empty |-> <<>>, token |-> <<"a", "b">>,
              key |-> <<"a", "a", "b">>, long |-> <<"b", "a", "a", "b">>]

(* The options of an agent matter one at a time.                            *)
Plain(c) == c.servers = "none" /\ ~c.resume /\ ~c.verbose
OneOption ==
  \/ Plain(conf) \/ Plain([conf EXCEPT !.servers = "none"])
  \/ Plain([conf EXCEPT !.resume = FALSE]) \/ Plain([conf EXCEPT !.verbose = FALSE])

SandboxInit ==
  /\ part \in {"shell", "microvm", "driver", "agent", "redact", "mcp"}
  /\ ShellInit /\ MicroInit /\ DriverInit /\ AgentsInit /\ RedactInit /\ SwapInit
  /\ OneOption /\ (part = "agent" \/ (Plain(conf) /\ conf.type = "dummy"))

SandboxNext ==
  /\ UNCHANGED part
  /\ \/ /\ part = "shell" /\ ShellNext
        /\ UNCHANGED <<microVars, driverVars, agentVars, redactVars, swapVars>>
     \/ /\ part = "microvm" /\ MicroNext
        /\ UNCHANGED <<shellVars, driverVars, agentVars, redactVars, swapVars>>
     \/ /\ part = "driver" /\ DriverNext
        /\ UNCHANGED <<shellVars, microVars, agentVars, redactVars, swapVars>>
     \/ /\ part = "agent" /\ AgentsNext
        /\ UNCHANGED <<shellVars, microVars, driverVars, redactVars, swapVars>>
     \/ /\ part = "redact" /\ RedactNext
        /\ UNCHANGED <<shellVars, microVars, driverVars, agentVars, swapVars>>
     \/ /\ part = "mcp" /\ SwapNext
        /\ UNCHANGED <<shellVars, microVars, driverVars, agentVars, redactVars>>

SandboxSpec ==
  /\ SandboxInit /\ [][SandboxNext]_sandboxVars
  /\ ShellFairness /\ MicroFairness /\ DriverFairness /\ AgentsFairness
=============================================================================
