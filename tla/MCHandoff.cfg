CONSTANTS
  r1 = r1
  r2 = r2
  r3 = r3
  b1 = b1
  b2 = b2
  b3 = b3
  b4 = b4
  Requests = {r1, r2, r3}
  Blocks = {b1, b2, b3}
  Prompt <- Prompts
  MaxTokens <- Limits
  BlockSize = 2
  Watermark = 0
  EnablePrefixCaching = FALSE
  MaxLen = 5
  NumSpecTokens = 0
  NumDraftBlocks = 1
  ReuseIds = TRUE
  MaxNumSeqs = 1
  MaxNumBatchedTokens = 5
  MaxCacheHitTokens = 4
CHECK_DEADLOCK FALSE
SPECIFICATION PDSpec
INVARIANTS
  HandoffIsTransparent
  ItlLogIsGapless
PROPERTIES
  HandoffKeepsContract
  EveryHandoffAnswered
