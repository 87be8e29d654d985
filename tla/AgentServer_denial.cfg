\* One connection is enough: it is denied while it still holds the token.
CONSTANTS
  MaxConnId = 2
  MAX_CONNECTIONS = 2
  MAX_AUTH_ATTEMPTS = 2
  Ceilings <- AllTiers
  Methods <- SomeMethods
  Paths <- BothPaths
SPECIFICATION Spec
CHECK_DEADLOCK FALSE
PROPERTIES DenialSticks
