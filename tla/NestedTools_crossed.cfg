SPECIFICATION FairSpec
CONSTANTS
  Call = {1, 2, 3, 4}
  Safe = {1, 2, 4}
  Parent <- Crossed
  MaxParallel = 2
CHECK_DEADLOCK FALSE
PROPERTY WaitersAreAdmitted
