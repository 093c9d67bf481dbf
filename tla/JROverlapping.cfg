SPECIFICATION Spec
CONSTANTS
  t1 = t1
  t2 = t2
  p1 = p1
  p2 = p2
  d1 = d1
  Txs <- TwoTxs
  Periods <- TwoPeriods
  Documents <- OneDocument
  Manual = manual
  Committed = committed
  MaxEntries = 3
  MaxSteps = 2
SYMMETRY Symmetry
CHECK_DEADLOCK FALSE
INVARIANT NumbersRunOn
INVARIANT PostedOnce
INVARIANT VoidsPair
PROPERTY ClosedToNewcomers
