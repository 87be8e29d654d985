\* A caller that may drop its call, and the next one on the connection.
CONSTANTS
  a = a
  b = b
  c = c
  Callers <- TwoCallers
  MaxRequests = 2
  Cancels = {TRUE}
SPECIFICATION Spec
CHECK_DEADLOCK FALSE
INVARIANTS NoForeignAnswer
