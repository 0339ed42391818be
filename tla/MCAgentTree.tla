----------------------------- MODULE MCAgentTree -----------------------------
(* A root whose task call starts a and b; a may delegate to c.              *)
EXTENDS AgentTree

CONSTANTS root, a, b, c

MCNode == {root, a, b, c}
MCKids == [n \in MCNode |-> CASE n = root -> {a, b} [] n = a -> {c} [] OTHER -> {}]
MCCalls == [n \in MCNode |-> CASE n = root -> {"task"}
                              [] n = a -> {"task", "write_file"}
                              [] n = b -> {"run_command"}
                              [] OTHER -> {"write_file", "grep_search"}]
MCFast == {b}

=============================================================================
