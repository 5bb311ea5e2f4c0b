\* The order of the fourth experiment of plots/iteration3.
SPECIFICATION Spec
CONSTANTS
  N = 2
  Iterations = 1
  FixedReads = 1
  HalfRead = FALSE
  OpenMayFail = FALSE
  FuncTables <- Run4Table
  NoArray = NoArray
INVARIANTS
  SecondDoneBeforeFirstWrites
