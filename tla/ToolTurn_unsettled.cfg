SPECIFICATION Spec
CONSTANTS
  Call = {1, 2}
  Mutation = {1, 2}
  SafeRead = {}
  Host = {2}
  Guarded = {1}
  Safe = {}
  MaxCrashes = 1
CHECK_DEADLOCK FALSE
INVARIANT ClosedTurnsAreSettled
