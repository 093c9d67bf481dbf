SPECIFICATION Spec
CONSTANTS
  l1 = l1
  l2 = l2
  Lines <- OneLine
  Ordered <- TwoEach
  Opening <- FourInStock
  MaxDeliveries = 2
  MaxInvoices = 1
  MaxQty = 2
  WarehouseOps = FALSE
  Policies <- BlockOnly
  Serial = TRUE
CHECK_DEADLOCK FALSE
INVARIANT CreditWithinInvoice
