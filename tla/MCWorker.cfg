CONSTANTS
  c1 = c1
  c2 = c2
  Clients = {c1, c2}
  IdOf <- OwnIds
  Streaming = {c1, c2}
  Timeout = {c1}
  DefaultTimeout = FALSE
  MaxTokens = 2
  TokensPerStep = 1
  ChunkedRecompute = FALSE
CHECK_DEADLOCK FALSE
SPECIFICATION FairSpec
INVARIANTS
  StreamCarriesOutput
  WorkerIsConsistent
  DeadEngineEndsEveryStream
PROPERTIES
  EveryStreamEnds
  DisconnectFreesRequest
