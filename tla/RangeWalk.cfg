\* Up to three windows of two instants, three items, pages of two.
CONSTANTS
  MaxInt = 127
  MAX_WINDOW_MS = 2
  MAX_WINDOWS = 3
  RetryBudget = 1
  PageSize = 2
  Now = 4
  Requests <- SmallRequests
  Histories <- ThreeItems
SPECIFICATION FairSpec
CHECK_DEADLOCK FALSE
INVARIANTS TypeOK Complete EachOnceNewestFirst CapKeepsTheNewest QueriesAcceptable
PROPERTIES WalkEnds
