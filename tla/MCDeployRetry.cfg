CONSTANTS
  run1 = run1
  run2 = run2
  Base = v3
  Runs = {run1, run2}
  SourceOf <- MCSourceOf
  Alpha = 5
  MaxDrop = 2
  BaseAnswers <- MCBaseAnswers
  Outcomes <- MCOutcomes
  CanaryQuestions <- MCCanaryQuestions
  Pool <- MCPool
  Windows <- MCWindows
  NLike = 3
  MaxRounds = 2
  TornReadings = FALSE
  Faults = {"deploy"}
  ConcurrentRuns = FALSE
SYMMETRY RunSymmetry
CHECK_DEADLOCK FALSE
SPECIFICATION PipelineSpec
PROPERTIES
  RollsBackCompletely
