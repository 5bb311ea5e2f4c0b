\* rdmsr alone: -d shows the whole register, and then a field of ones as the
\* magnitude below its highest bit.
SPECIFICATION ToolsSpec
CONSTANTS
  NumCores = 2
  FixedCounters <- OneFixed
  Uninit = 13
  Commands <- SomeCommands
  Scenarios <- RdmsrScenarios
  Width = 4
INVARIANT
  SignedFieldOnly
