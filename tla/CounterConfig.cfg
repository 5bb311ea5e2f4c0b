\* Two CPUs, two starts of the program, one failing access.
SPECIFICATION Spec
CONSTANTS
  Programs = {"main", "main_ritika"}
  NCpus = 2
  NPmc = 3
  NCustom = 2
  NFixed = 1
  Off = Off
  Foreign = Foreign
  MaxRuns = 2
  MaxFaults = 1
INVARIANTS
  TypeOK
  ConfiguredWhenRunning
  QuietOnExit
PROPERTIES
  ProgrammedWhileDisabled
  StartsClean
  Progress
  ImplementsSession
