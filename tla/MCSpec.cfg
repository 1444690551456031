CONSTANTS
  r1 = r1
  r2 = r2
  r3 = r3
  b1 = b1
  b2 = b2
  b3 = b3
  b4 = b4
  b5 = b5
  Requests = {r1, r2, r3}
  Blocks = {b1, b2, b3, b4, b5}
  Prompt <- NestedPrompts
  MaxTokens <- DraftLimits
  BlockSize = 2
  Watermark = 0
  EnablePrefixCaching = TRUE
  MaxLen = 11
  NumSpecTokens = 2
  NumDraftBlocks = 9
  ReuseIds = FALSE
  MaxNumSeqs = 2
  MaxNumBatchedTokens = 3
  MaxCacheHitTokens = 4
SYMMETRY BlockSymmetry
CHECK_DEADLOCK FALSE
SPECIFICATION Spec
INVARIANTS
  UnpreemptedOutputsAreDense
  CorrectionIsExact
  ShadowFollowsRequest
  OnlyLeftoversRaise
PROPERTIES
  KeepsBlockManagerProtocol
