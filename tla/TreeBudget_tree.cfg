SPECIFICATION FairSpec
CONSTANTS
  Task = {0, 1, 2}
  Root = 0
  Parent <- MCParent
  RootCap = 5
  ChildCaps = {3}
  MaxFanOut = 2
  Call = {1, 2, 3}
  TaskOf <- MCTaskOf
  Kind <- MCKind
  Quote <- MCQuote
  Actuals = {1, 3}
  MaxFaults = 2
CHECK_DEADLOCK FALSE
INVARIANTS TypeOK BooksBalance CapHolds BooksClose
PROPERTY HoldsAreResolved
