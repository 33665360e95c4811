SPECIFICATION OutboxFairSpec
CONSTANTS
  e1 = e1
  e2 = e2
  Events = {e1, e2}
  OccurredAt <- MCOccurredAt
  BatchSize = 1
  MaxAttempts = 3
  Dispatchers = {d1, d2}
INVARIANTS
  DispatchedWasDelivered
  GivenUpWasTried
PROPERTIES
  EveryEventSettles
CHECK_DEADLOCK FALSE
