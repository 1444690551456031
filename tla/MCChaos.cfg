CONSTANTS
  NormalS = 1
  FaultS = 2
  RecoverS = 1
  DRAIN_FIRING_S = 2
  START_SLACK = 1
  CollectS = 3
  HangS = 2
  ReadyS = 2
  ProbeS = 4
  Experiments <- All
  Horizon = 12
  MaxExperiments = 2
  MaxTroubles = 1
CHECK_DEADLOCK FALSE
SPECIFICATION ChaosSpec
INVARIANTS
  OneFailureLeavesNothing
  EvidenceIsSound
  PassIsHonest
  ProbeLeavesOneChampion
PROPERTIES
  EveryExperimentEnds
