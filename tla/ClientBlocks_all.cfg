SPECIFICATION FairSpec
CONSTANTS
  b1 = b1
  b2 = b2
  Blocks = {b1, b2}
  NoBlock = NoBlock
  Calls = {c1, c2}
  NoCall = NoCall
  Budgets = {2}
  NoBudget = NoBudget
  Size <- TwoSizes
  MaxPhrases = 2
INVARIANTS RowsReadBack SweepKeepsBudget
PROPERTIES ViewerImplemented LoadingIsBounded
