SPECIFICATION Spec
CONSTANTS
  None = None
  Run = {w1, r1}
  ResumeRun = {r1}
  Work = {"turn", "end"}
  Ttl = 1
  MaxClock = 2
  MaxRows = 2
  MaxQueue = 1
  MayHold = TRUE
  OpenMayFail = TRUE
CHECK_DEADLOCK FALSE
INVARIANT FailedResumeIsListedAgain
