\* oned_arrays fills more than it allocated.
SPECIFICATION Spec
CONSTANTS
  N = 8
  Rows = 6
  Cols = 3
  MRows = 5
  MCols = 3
  Bytes = 16
  Line = 4
  Word = 2
  Iterations = 2
  Patterns <- Overrun
INVARIANTS
  InArray
