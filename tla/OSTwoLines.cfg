SPECIFICATION FairSpec
CONSTANTS
  l1 = l1
  l2 = l2
  Txs = {t1, t2}
  Lines <- TwoLines
  Ordered <- TwoEach
  MaxQty = 2
INVARIANT TypeOK
INVARIANT NeverOverClaimed
PROPERTY EveryRequestEnds
