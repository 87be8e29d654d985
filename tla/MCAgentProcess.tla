--------------------------- MODULE MCAgentProcess ---------------------------
(* Small instances of AgentProcess for TLC. *)
EXTENDS AgentProcess

CONSTANTS first, second

TwoStarts == {first, second}
=============================================================================
