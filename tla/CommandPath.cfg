\* Every surface; the user enters one input, twice.
CONSTANTS
  Now = 5
  OrderStates = {"new", "filled"}
  OrderTypes = {"limit", "market"}
  Decimals <- MCDecimals
  Uuids <- MCUuids
  MaxU32 = 8
  Pems <- MCPems
  Urls <- MCUrls
  Setups <- MCSetups
  Inputs <- MCInputs
  Account <- MCAccount
  MaxAsks = 2
SPECIFICATION FairSpec
CHECK_DEADLOCK FALSE
INVARIANTS TypeOK NothingDropped SentWithinAuthority GoodCredentialsSuffice
PROPERTIES ImplementsDesk WaitingEnds
