\* Two starts, one after the other or overlapping, each ending in any way, and
\* an idle timeout of two ticks.
CONSTANTS
  first = first
  second = second
  Starts <- TwoStarts
  Overlap = {FALSE, TRUE}
  Alarms = TRUE
  IdleTimeout = 2
SPECIFICATION FairSpec
CHECK_DEADLOCK FALSE
INVARIANTS TypeOK RestartsSucceed LocksOnlyWhenQuiet
PROPERTIES IdleAgentLocks QuitIsHonoured
