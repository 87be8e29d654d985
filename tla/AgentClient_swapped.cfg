\* Three callers: one whose response stalls, and two queued on the lock behind it.
CONSTANTS
  a = a
  b = b
  c = c
  Callers <- ThreeCallers
  MaxRequests = 3
  Cancels = {FALSE}
SPECIFICATION Spec
CHECK_DEADLOCK FALSE
INVARIANTS NoForeignAnswer
