CONSTANTS
  r1 = r1
  r2 = r2
  r3 = r3
  b1 = b1
  b2 = b2
  b3 = b3
  b4 = b4
  b5 = b5
  b6 = b6
  Requests = {r1, r2, r3}
  Blocks = {b1, b2, b3, b4, b5, b6}
  Prompt <- MCPrompt
  BlockSize = 2
  Watermark = 0
  EnablePrefixCaching = TRUE
  MaxLen = 7
SYMMETRY BlockSymmetry
CHECK_DEADLOCK FALSE
SPECIFICATION BMSpec
INVARIANTS
  Accounting
  NoBlockClaimedTwice
  NoBlockLost
  RefCountsExact
  SharedBlocksInPlace
  TrieIsPrefixClosed
