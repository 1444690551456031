CONSTANTS
  r1 = r1
  r2 = r2
  r3 = r3
  b1 = b1
  b2 = b2
  b3 = b3
  b4 = b4
  b5 = b5
  Requests = {r1, r2, r3}
  Blocks = {b1, b2, b3}
  Prompt <- ShortPrompts
  MaxTokens <- ThreeTokens
  BlockSize = 2
  Watermark = 0
  EnablePrefixCaching = FALSE
  MaxLen = 7
  NumSpecTokens = 0
  NumDraftBlocks = 1
  ReuseIds = TRUE
  MaxNumSeqs = 2
  MaxNumBatchedTokens = 2
  MaxCacheHitTokens = 2
SYMMETRY BlockSymmetry
SPECIFICATION Spec
INVARIANTS
  OutputsAreDense
