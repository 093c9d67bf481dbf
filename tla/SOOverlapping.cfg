SPECIFICATION Spec
CONSTANTS
  l1 = l1
  l2 = l2
  Lines <- OneLine
  Ordered <- TwoEach
  Opening <- FourInStock
  MaxDeliveries = 2
  MaxInvoices = 2
  MaxQty = 2
  WarehouseOps = FALSE
  Policies <- BlockOnly
  Serial = FALSE
CHECK_DEADLOCK FALSE
INVARIANT TypeOK
INVARIANT StockConserved
INVARIANT CogsFollowsStock
INVARIANT NoOverShipment
INVARIANT CreditsHaveReturns
INVARIANT OrderStatusTracksLines
PROPERTY KeepsCommitment
PROPERTY StatusTellsReturns
