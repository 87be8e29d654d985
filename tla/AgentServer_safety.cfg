\* Two sessions at a time, three connections over the run.
CONSTANTS
  MaxConnId = 3
  MAX_CONNECTIONS = 2
  MAX_AUTH_ATTEMPTS = 2
  Ceilings <- MiddleTier
  Methods <- SomeMethods
  Paths <- BothPaths
SPECIFICATION Spec
CHECK_DEADLOCK FALSE
INVARIANTS TypeOK WithinCeiling TokenAuthorizesOnce GuessesBounded
           RegistryMatchesSessions CapRespected
PROPERTIES IdsNeverReused AuthorityHasASource ImplementsGate
