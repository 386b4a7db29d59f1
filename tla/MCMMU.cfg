CONSTANTS
  pg1 = pg1
  pg2 = pg2
  pg3 = pg3
  pg4 = pg4
  pg5 = pg5
  pg6 = pg6
  pg7 = pg7
  N = 2
  Tables <- MCTables
  KernelPages = {0}
  CodePages = {1, 7}
  Touched = {0, 1, 2, 7}
SPECIFICATION TablesSpec
INVARIANTS
  TablesExact
PROPERTIES
  ImplementsTranslation
