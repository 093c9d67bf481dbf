SPECIFICATION Spec
CONSTANTS
  c1 = c1
  c2 = c2
  NLines = 2
  Orders <- ThreeOrders
  Limits <- TwoLimits
  MaxRequests = 2
  MaxPayments = 2
  Clients <- TwoClients
  Overlapping <- GoodsAndMoney
SYMMETRY Symmetry
CHECK_DEADLOCK FALSE
INVARIANT TypeOK
INVARIANT GoodsWithinOrder
INVARIANT PaidWithinReceived
PROPERTY StatusFollowsReceipts
PROPERTY SentAsApproved
