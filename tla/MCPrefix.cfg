CONSTANTS
  r1 = r1
  r2 = r2
  r3 = r3
  b1 = b1
  b2 = b2
  b3 = b3
  b4 = b4
  b5 = b5
  Requests = {r1, r2, r3}
  Blocks = {b1, b2, b3, b4}
  Prompt <- SharedPrompts
  MaxTokens <- ThreeTokens
  BlockSize = 2
  Watermark = 1
  EnablePrefixCaching = TRUE
  MaxLen = 7
  NumSpecTokens = 0
  NumDraftBlocks = 1
  ReuseIds = TRUE
  MaxNumSeqs = 3
  MaxNumBatchedTokens = 2
  MaxCacheHitTokens = 4
SYMMETRY BlockSymmetry
SPECIFICATION Spec
INVARIANTS
  StepIsConsistent
  ArrivalOrder
  KVIsCorrect
  EveryRunningRequestAdvances
  CheckedAllocationSucceeds
