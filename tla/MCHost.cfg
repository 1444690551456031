CONSTANTS
  Members <- TwoGroups
  GroupOrder <- Order
  Values = {"low", "tuned"}
  Cores <- TwinCores
  Irqs = {"nic", "disk", "gpu"}
  Managed = {"disk"}
  Affinities <- SomeAffinities
  KillStages = {"note", "restore", "run"}
CHECK_DEADLOCK FALSE
SPECIFICATION HostSpec
INVARIANTS
  LeavesNoTrace
  ReservedCoresStayFree
PROPERTIES
  TuneKeepsItsWord
