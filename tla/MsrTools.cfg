\* Pairs of tools, two CPUs, two events, one failing access.
SPECIFICATION ToolsSpec
CONSTANTS
  NumCores = 2
  FixedCounters <- OneFixed
  Uninit = 13
  Commands <- SomeCommands
  Scenarios <- SomeScenarios
  Width = 4
INVARIANTS
  ToolsTypeOK
  ReportExact
  WrmsrReports
  NeverImpossible
  ShowsField
  FillFits
PROPERTIES
  LeavesClean
