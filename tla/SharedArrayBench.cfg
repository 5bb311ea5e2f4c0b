\* Every function table, over an array of three elements.
SPECIFICATION Spec
CONSTANTS
  N = 3
  Iterations = 2
  FixedReads = 1
  HalfRead = FALSE
  OpenMayFail = FALSE
  FuncTables <- AllTables
  NoArray = NoArray
INVARIANTS
  TypeOK
  PassOrder
  SecondReaderSafe
  PreparedArray
  RowsStamped
  SinkFdValid
  OneDescriptorLeaked
  OnlyMispairedHangs
PROPERTIES
  Progress
  Termination
  ImplementsOrderedRuns
