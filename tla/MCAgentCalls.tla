----------------------------- MODULE MCAgentCalls -----------------------------
(***************************************************************************)
(* An instance of AgentCalls for TLC: two calls of any kinds.              *)
(***************************************************************************)
EXTENDS AgentCalls

CONSTANTS c1, c2

Pair(x, y) == [c \in {c1, c2} |-> IF c = c1 THEN x ELSE y]

(* What can meet: listings and what changes the host, deployments of one   *)
(* project, and the kinds that meet nobody.                                *)
MCMixes == {Pair("containers", "act"), Pair("list", "build"), Pair("deploy", "deploy"),
            Pair("exec", "podLogs"), Pair("logs", "exec")}

=============================================================================
