SPECIFICATION Spec
CONSTANTS
  c1 = c1
  c2 = c2
  e1 = e1
  a1 = a1
  r1 = r1
  r2 = r2
  None = None
  Clients = {c1, c2}
  ExpenseIds = {}
  Assets = {}
  Runs = {r1, r2}
  ExpenseOf <- FourCents
  Terms <- Bought
  DaysIn <- ShortSecond
  ThroughDates <- Throughs
  Proceeds = {0, 2}
  Payslips <- TwoPayslips
  Overlapping <- OverlappingOps
  Instalments = {2}
SYMMETRY Symmetric
CHECK_DEADLOCK FALSE
INVARIANT EntriesHaveRuns
