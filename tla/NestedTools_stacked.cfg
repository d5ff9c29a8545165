SPECIFICATION FairSpec
CONSTANTS
  Call = {1, 2, 3, 4, 5, 6, 7, 8, 9, 10}
  Safe = {1, 2, 3, 4}
  Parent <- Stacked
  MaxParallel = 2
CHECK_DEADLOCK FALSE
INVARIANTS TypeOK UnsafeRunsAlone LeaseHeldWhileWorking SuspensionsAreOwed NothingOutlivesItsCaller
PROPERTY StopEndsTheBatch
