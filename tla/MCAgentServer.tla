--------------------------- MODULE MCAgentServer ---------------------------
(* Small instances of AgentServer for TLC. *)
EXTENDS AgentServer

AllTiers    == AccessLevel
MiddleTier  == {View}
SomeMethods == {"GET", "POST", "malformed"}
BothPaths   == {"tickers", "balances"}
LowestTier  == {Market}
=============================================================================
