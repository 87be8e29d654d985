\* Four-bit dates: a span that does not fit wraps to a negative number.
CONSTANTS
  MaxInt = 7
  MAX_WINDOW_MS = 2
  MAX_WINDOWS = 2
  RetryBudget = 1
  PageSize = 2
  Now = 4
  Requests <- ExtremeRequests
  Histories <- NoItems
SPECIFICATION Spec
CHECK_DEADLOCK FALSE
INVARIANTS AbsurdRangesRefused
