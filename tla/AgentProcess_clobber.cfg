\* A second start while the first one serves.
CONSTANTS
  first = first
  second = second
  Starts <- TwoStarts
  Overlap = {TRUE}
  Alarms = FALSE
  IdleTimeout = 0
SPECIFICATION Spec
CHECK_DEADLOCK FALSE
PROPERTIES LiveSocketKept
