\* Two threads, up to two passes, two counters, and any failure.
SPECIFICATION Spec
CONSTANTS
  FuncTables <- SmallTables
  Accesses = 1
  NCounters = 2
  Word = 16
  Uninit = 13
  MaxMishaps = 1
  PinMayFail = TRUE
  CsvMayFail = TRUE
INVARIANTS
  TypeOK
  RowsExact
  CsvComplete
  OnlyMispairedHangs
PROPERTIES
  CountersUntouched
  Progress
  ImplementsSession
  Ends
