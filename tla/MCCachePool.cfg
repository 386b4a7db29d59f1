CONSTANTS
  r1 = r1
  r2 = r2
  r3 = r3
  Records <- MCRecords
  numOfSlots = 2
  Null = Null
SPECIFICATION Spec
SYMMETRY Sym
INVARIANTS
  RecordsListed
  SlotsExact
  CachesLinked
CHECK_DEADLOCK FALSE
