--------------------------- MODULE MCAgentClient ---------------------------
(* Small instances of AgentClient for TLC. *)
EXTENDS AgentClient

CONSTANTS a, b, c

TwoCallers   == {a, b}
ThreeCallers == {a, b, c}
=============================================================================
