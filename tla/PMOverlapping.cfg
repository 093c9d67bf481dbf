SPECIFICATION Spec
CONSTANTS
  p3 = p3
  a1 = a1
  a2 = a2
  k1 = k1
  k2 = k2
  None = None
  Attempts = {a1, a2}
  Keys = {k1, k2}
  EmailKeys = {k2}
  Price = 1
  Payments = {p3}
  Modules = {}
  Buys <- Bought
  Credit <- Credited
  NCalls = 1
  MaxOutages = 1
  MaxCrashes = 0
  SettlesTogether = FALSE
CHECK_DEADLOCK FALSE
INVARIANT LedgerAgrees
INVARIANT ToppedUpOnce
INVARIANT PaidIfSent
PROPERTY EveryChargeSettles
