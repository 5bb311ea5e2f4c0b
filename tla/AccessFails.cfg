\* An access fails and the assertion on its result holds.
SPECIFICATION Spec
CONSTANTS
  Programs = {"main"}
  NCpus = 2
  NPmc = 2
  NCustom = 2
  NFixed = 0
  Off = Off
  Foreign = Foreign
  MaxRuns = 1
  MaxFaults = 1
INVARIANTS
  EnabledWhenRunning
