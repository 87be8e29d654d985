\* Three callers on one connection, three calls, with and without callers that
\* drop their call half-way, and an agent that may stall or go away.
CONSTANTS
  a = a
  b = b
  c = c
  Callers <- ThreeCallers
  MaxRequests = 3
  Cancels = {FALSE, TRUE}
SPECIFICATION FairSpec
CHECK_DEADLOCK FALSE
INVARIANTS TypeOK InStepUnlessBroken AnswersAreOwn AuthenticatedHasCaps
PROPERTIES StalledBodyEnds NobodyWaitsForAGoneAgent
