\* Every pin succeeds, and still a thread measures before it is pinned.
SPECIFICATION Spec
CONSTANTS
  FuncTables <- MainTable
  Accesses = 1
  NCounters = 2
  Word = 16
  Uninit = 13
  MaxMishaps = 0
  PinMayFail = FALSE
  CsvMayFail = FALSE
INVARIANTS
  MeasuredOnOwnCpu
