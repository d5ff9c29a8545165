SPECIFICATION FairSpec
CONSTANTS
  None = None
  Run = {w1, r1, r2}
  ResumeRun = {r1, r2}
  Work = {"turn", "end"}
  Ttl = 1
  MaxClock = 2
  MaxRows = 2
  MaxQueue = 1
  MayHold = TRUE
  OpenMayFail = FALSE
CHECK_DEADLOCK FALSE
PROPERTY CrashedTurnIsPickedUp
INVARIANT LeaseLostOnlyIfLapsed
