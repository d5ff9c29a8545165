SPECIFICATION Spec
CONSTANTS
  None = None
  Run = {w1, w2}
  ResumeRun = {}
  Work = {"cas", "claim", "turn"}
  Ttl = 1
  MaxClock = 2
  MaxRows = 2
  MaxQueue = 2
  MayHold = FALSE
  OpenMayFail = TRUE
CHECK_DEADLOCK FALSE
SYMMETRY Symmetry
INVARIANTS TypeOK ChainIsLinear NoLostUpdate HolderIsUpToDate
PROPERTIES LogSpec ClaimsAreNotStolen
