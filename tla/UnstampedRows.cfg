\* Nothing fails, but thread 1's function pushes no times.
SPECIFICATION Spec
CONSTANTS
  FuncTables <- WriteTable
  Accesses = 1
  NCounters = 2
  Word = 16
  Uninit = 13
  MaxMishaps = 0
  PinMayFail = FALSE
  CsvMayFail = FALSE
INVARIANTS
  RowsHaveTime
