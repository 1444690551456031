CONSTANTS
  c1 = c1
  c2 = c2
  Clients = {c1, c2}
  IdOf <- SameId
  Streaming = {c1, c2}
  Timeout = {c1, c2}
  DefaultTimeout = TRUE
  MaxTokens = 2
  TokensPerStep = 1
  ChunkedRecompute = FALSE
CHECK_DEADLOCK FALSE
SPECIFICATION Spec
INVARIANTS
  DeadEngineEndsEveryStream
