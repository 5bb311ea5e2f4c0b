\* Thread 0 reads an array thread 1 has yet to fill.
SPECIFICATION Spec
CONSTANTS
  N = 2
  Iterations = 1
  FixedReads = 1
  HalfRead = FALSE
  OpenMayFail = FALSE
  FuncTables <- MainTable
  NoArray = NoArray
INVARIANTS
  PreparedBeforeRead
