SPECIFICATION BillingSpec
CONSTANTS
  p1 = p1
  p2 = p2
  p3 = p3
  m1 = m1
  m2 = m2
  Payments = {p1, p2}
  Modules = {m1, m2}
  Buys <- Bought
  Credit <- Credited
  NCalls = 2
  MaxOutages = 1
  MaxCrashes = 2
  SettlesTogether = FALSE
CHECK_DEADLOCK FALSE
INVARIANT PeriodsAddUp
PROPERTY SettlesPayments
