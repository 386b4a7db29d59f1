\* Three threads print and one of them reads; another one does neither.
SPECIFICATION FairSpec
CONSTANTS
  other = other
  Users = {printer1, printer2, reader}
  Readers = {reader}
INVARIANTS
  LockTold
PROPERTIES
  ImplementsMutex
  LockPasses
