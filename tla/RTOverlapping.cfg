SPECIFICATION RoutesSpec
CONSTANTS
  r1 = r1
  r2 = r2
  d1 = d1
  x1 = x1
  c1 = c1
  c2 = c2
  None = None
  Routes = {r1, r2}
  Orders = {d1}
  Sites = {x1}
  Clients = {c1, c2}
  MaxStops = 3
  MaxSequence = 2
  Changes <- Reopened
  Overlapping <- OverlappingOps
SYMMETRY Symmetric
CHECK_DEADLOCK FALSE
INVARIANT OneLiveStop
INVARIANT OneOrder
INVARIANT RescheduledOnce
PROPERTY ResolvedStays
