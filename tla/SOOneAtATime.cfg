SPECIFICATION Spec
CONSTANTS
  l1 = l1
  l2 = l2
  Lines <- TwoLines
  Ordered <- TwoEach
  Opening <- OneInStock
  MaxDeliveries = 2
  MaxInvoices = 2
  MaxQty = 2
  WarehouseOps = FALSE
  Policies <- BothPolicies
  Serial = TRUE
CHECK_DEADLOCK FALSE
INVARIANT GoodsLeaveOnce
