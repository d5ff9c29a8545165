SPECIFICATION Spec
CONSTANTS
  Package = {p}
  Op = {"o1", "o2"}
  Work <- MCWork
  MaxStarts = 2
  MaxFaults = 1
  MaxFrames = 1
CHECK_DEADLOCK FALSE
INVARIANTS TypeOK AckedIsApplied TargetsAreLoadable FailedIsPutBack
