\* Small arrays of every shape, two passes.
SPECIFICATION Spec
CONSTANTS
  N = 8
  Rows = 6
  Cols = 3
  MRows = 5
  MCols = 3
  Bytes = 16
  Line = 4
  Word = 2
  Iterations = 2
  Patterns <- Sound
INVARIANTS
  TypeOK
  InArray
  OnlyFilled
  EachOncePerPass
