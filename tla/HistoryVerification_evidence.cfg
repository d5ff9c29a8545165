SPECIFICATION FairSpec
CONSTANTS
  TailRows = 1
  MaxRows = 3
  MaxDamage = 1
  MaxChecks = 1
  MaxFailures = 1
CHECK_DEADLOCK FALSE
INVARIANTS TypeOK EvidenceWasHashed DamagedLedgerStaysShut
PROPERTIES DroppedCheckpointStays WaitersAreReleased
