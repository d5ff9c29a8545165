SPECIFICATION Spec
CONSTANTS
  Command = {a}
  Call = {r1, r2}
  MaxRows = 3
CHECK_DEADLOCK FALSE
SYMMETRY Symmetry
INVARIANTS TypeOK AppliedOnce AnswersAgree NothingIsForgotten
