\* Any sequence of lines, two at a time, restarts of the agent and operator decisions.
CONSTANTS
  a = a
  b = b
  c = c
  Conns <- ThreeConns
  Ids = {1, 2}
  MaxUnread = 2
SPECIFICATION FairSpec
CHECK_DEADLOCK TRUE
INVARIANTS TypeOK SessionWasAuthorized EachRequestAnsweredOnce
PROPERTIES AwaitedEntryKept DeadConnectionDropped EveryLineAnswered
