\* Two concurrent sessions, with the fairness the runtime provides.
CONSTANTS
  MaxConnId = 2
  MAX_CONNECTIONS = 2
  MAX_AUTH_ATTEMPTS = 1
  Ceilings <- LowestTier
  Methods <- SomeMethods
  Paths <- BothPaths
SPECIFICATION FairSpec
CHECK_DEADLOCK FALSE
PROPERTIES SilentPeerReaped ShutdownEndsEverything
