--------------------------- MODULE DeliveryRoutes ---------------------------
(***************************************************************************)
(* The routes of one day and their stops, which are delivery orders or     *)
(* visits to a customer's site: stops added, ordered, optimised, removed,  *)
(* delivered, failed and rescheduled by dispatchers and drivers, and the   *)
(* planner that moves delivery orders between routes.                      *)
(*                                                                         *)
(* Most of these requests check what they need, wait for a route optimiser *)
(* or another statement, and then write; those are two actions, and        *)
(* Overlapping says which of them others may come between.  Conditional    *)
(* updates (the claims of a proof or a failure) are one.                   *)
(*                                                                         *)
(* Teams and their hours, pins, windows, ETAs and alerts are left out.     *)
(***************************************************************************)
EXTENDS Integers, Sequences, FiniteSets

CONSTANTS
  Routes,       \* ids of routes
  Orders,       \* delivery orders
  Sites,        \* customers' addresses that a stop may go to
  MaxStops,     \* bound: stops ever made
  MaxSequence,  \* bound: sequence numbers
  Clients,      \* those whose requests may be open at the same time
  Changes,      \* the statuses that an update of a route may set
  Overlapping,  \* the requests that others may come between
  None          \* no route, no target

Stops   == 1..MaxStops
Targets == Orders \cup Sites

RouteStatuses == {"PLANNED", "ACTIVE", "COMPLETED", "CANCELLED"}

ASSUME RoutesAssumption ==
  /\ MaxStops \in Nat
  /\ Changes \subseteq RouteStatuses
  /\ MaxSequence \in Nat \ {0}
  /\ None \notin Routes \cup Targets
  /\ Orders \cap Sites = {}

VARIABLES
  route,   \* Route.status of each route
  stop,    \* the rows of RouteStop, in the order they were made
  order,   \* status and signature of each delivery order
  req      \* what each client's request has read

routesVars == <<route, stop, order, req>>

OrderStatuses == {"PACKED", "SHIPPED", "FAILED", "RETURNED", "CANCELLED"}

\* is: whether the row exists; active: activeDeliveryOrderId; replaces: the
\* failed visit that this one was made for, 0 for none (not in the schema).
StopRows == [is : {"none", "here", "deleted"}, route : Routes \cup {None}, target : Targets \cup {None},
             active : Orders \cup {None}, sequence : 1..MaxSequence,
             signed : BOOLEAN, failed : BOOLEAN, superseded : BOOLEAN, replaces : 0..MaxStops]

Ops == {"idle", "add", "thenAdd", "remove", "optimize", "rescheduleVisit", "reschedule", "proof",
        "plan", "history"}

\* stops: the stops read or to be written; seen: the highest sequence read;
\* orders: those a plan is to place; takenOff: those it takes off the routes
\* it affects; routes: these, or those whose version is to be bumped; emptied:
\* those a plan takes every stop of; stale: an affected route has been bumped
\* since.
Reads == [op : Ops, route : Routes \cup {None}, target : Targets \cup {None}, stops : SUBSET Stops,
          seen : 0..MaxSequence, orders : SUBSET Orders, takenOff : SUBSET Orders,
          routes : SUBSET Routes, emptied : SUBSET Routes, stale : BOOLEAN]

Idle == [op |-> "idle", route |-> None, target |-> None, stops |-> {}, seen |-> 0,
         orders |-> {}, takenOff |-> {}, routes |-> {}, emptied |-> {}, stale |-> FALSE]

NoStop == [is |-> "none", route |-> None, target |-> None, active |-> None, sequence |-> 1,
           signed |-> FALSE, failed |-> FALSE, superseded |-> FALSE, replaces |-> 0]

RoutesTypeOK ==
  /\ route \in [Routes -> RouteStatuses \cup {"NONE"}]
  /\ stop \in [Stops -> StopRows]
  /\ order \in [Orders -> [status : OrderStatuses, signed : BOOLEAN]]
  /\ req \in [Clients -> Reads]

RoutesInit ==
  /\ route \in [Routes -> {"NONE", "PLANNED"}]
  /\ stop = [s \in Stops |-> NoStop]
  /\ order = [d \in Orders |-> [status |-> "PACKED", signed |-> FALSE]]
  /\ req = [c \in Clients |-> Idle]

-----------------------------------------------------------------------------
(* Stops *)

Here(s)  == stop[s].is = "here"
On(r)    == {s \in Stops : Here(s) /\ stop[s].route = r}
Live(d)  == {s \in Stops : Here(s) /\ stop[s].active = d}

\* Mutant of OrderStopStatus: a return only counts as delivered or failed
\* when it was signed for.
OrderStopStatusUnsigned(d) ==
  CASE order[d].status = "FAILED" -> "FAILED"
    [] order[d].status \in {"SHIPPED", "RETURNED"} -> IF order[d].signed THEN "DELIVERED" ELSE "PENDING"
    [] OTHER -> "PENDING"

\* deriveStopStatus()
OrderStopStatus(d) ==
  CASE order[d].status = "FAILED" -> "FAILED"
    [] order[d].status = "SHIPPED" -> IF order[d].signed THEN "DELIVERED" ELSE "PENDING"
    [] order[d].status = "RETURNED" -> IF order[d].signed THEN "DELIVERED" ELSE "FAILED"
    [] OTHER -> "PENDING"

StopStatus(s) ==
  CASE stop[s].superseded -> "FAILED"
    [] ~ stop[s].superseded /\ stop[s].target \in Orders -> OrderStopStatus(stop[s].target)
    [] OTHER -> IF stop[s].failed THEN "FAILED" ELSE IF stop[s].signed THEN "DELIVERED" ELSE "PENDING"

Pending(s)  == StopStatus(s) = "PENDING"
Open(r)     == route[r] \in {"PLANNED", "ACTIVE"}

HighestOf(S) == CHOOSE n \in 0..MaxSequence :
                  /\ \A s \in S : stop[s].sequence <= n
                  /\ n = 0 \/ \E s \in S : stop[s].sequence = n

\* The place of s when the stops of S are numbered anew.
Place(s, S) == Cardinality({u \in S : stop[u].sequence <= stop[s].sequence})

\* The place of the next row.
FirstFree == 1 + Cardinality({s \in Stops : stop[s].is # "none"})

NewStop(r, x, n) ==
  [NoStop EXCEPT !.is = "here", !.route = r, !.target = x, !.sequence = n,
                 !.active = IF x \in Orders THEN x ELSE None]

Deleted(s) == [NoStop EXCEPT !.is = "deleted", !.replaces = stop[s].replaces]

\* A visit of the same site that is still to be made.
Awaited(r, x) == {s \in On(r) : stop[s].target = x /\ ~ stop[s].signed /\ ~ stop[s].failed}

-----------------------------------------------------------------------------
(* Requests *)

Undisturbed(c) == \A e \in Clients \ {c} : req[e].op \in Overlapping \cup {"idle"}
Quiet          == \A e \in Clients : req[e].op \in Overlapping \cup {"idle"}

Opens(c, r) ==
  /\ req[c] = Idle
  /\ Undisturbed(c)
  /\ req' = [req EXCEPT ![c] = r]

Continues(c, op) ==
  /\ req[c].op = op
  /\ Undisturbed(c)

Ends(c) == req' = [req EXCEPT ![c] = Idle]

\* What is left to do after a change of the stops of the routes R: their
\* history, and the new stop of a rescheduled order.
Recording(R) == [Idle EXCEPT !.op = "history", !.routes = R]

\* recordHistory() is a step of its own, and best-effort: it may be lost.
Bump(c) ==
  /\ Continues(c, "history")
  /\ req' = [e \in Clients |->
       IF e = c THEN IF req[c].route = None THEN Idle
                     ELSE [Idle EXCEPT !.op = "thenAdd", !.route = req[c].route, !.target = req[c].target]
       ELSE [req[e] EXCEPT !.stale = req[e].op = "plan" /\ (@ \/ req[e].routes \cap req[c].routes # {})]]
  /\ UNCHANGED <<route, stop, order>>

\* Any request may end in an error, or its client be lost.
Fails(c) ==
  /\ req[c] # Idle
  /\ Ends(c)
  /\ UNCHANGED <<route, stop, order>>
-----------------------------------------------------------------------------
(* Routes: createRoute(), updateRoute() *)

CreateRoute(r) ==
  /\ Quiet
  /\ route[r] = "NONE"
  /\ route' = [route EXCEPT ![r] = "PLANNED"]
  /\ UNCHANGED <<stop, order, req>>

\* Any status, whatever the stops are.
UpdateRoute(r, status) ==
  /\ Quiet
  /\ route[r] \notin {"NONE", status}
  /\ route' = [route EXCEPT ![r] = status]
  /\ UNCHANGED <<stop, order, req>>

-----------------------------------------------------------------------------
(* Adding and removing stops *)

Available(d) == Live(d) = {} /\ order[d].status \in {"PACKED", "SHIPPED"}

\* addStop() up to its transaction, of a dispatcher or for rescheduleDelivery().
AddRead(c, r, x) ==
  /\ Open(r)
  /\ IF x \in Orders THEN Available(x) ELSE Awaited(r, x) = {}
  /\ \/ Opens(c, [Idle EXCEPT !.op = "add", !.route = r, !.target = x])
     \/ /\ Continues(c, "thenAdd") /\ req[c].route = r /\ req[c].target = x
        /\ req' = [req EXCEPT ![c].op = "add"]
  /\ UNCHANGED <<route, stop, order>>

\* At the place n, and the stops at it and after it move up; without a place in
\* the request n is the end of the route.  Moving them may also break off on the
\* unique index on routeId and sequence (Fails); the one on
\* activeDeliveryOrderId refuses a second live stop.
AddCommit(c, n) ==
  /\ Continues(c, "add")
  /\ FirstFree \in Stops
  /\ LET r == req[c].route
     IN  /\ \A s \in On(r) : stop[s].sequence >= n => stop[s].sequence < MaxSequence
         /\ req[c].target \in Orders => Live(req[c].target) = {}
         /\ stop' = [s \in Stops |->
              IF s = FirstFree THEN NewStop(r, req[c].target, n)
              ELSE IF s \in On(r) /\ stop[s].sequence >= n THEN [stop[s] EXCEPT !.sequence = @ + 1]
              ELSE stop[s]]
         /\ req' = [req EXCEPT ![c] = Recording({r})]
  /\ UNCHANGED <<route, order>>

RemoveRead(c, s) ==
  /\ Here(s) /\ Open(stop[s].route) /\ Pending(s)
  /\ Opens(c, [Idle EXCEPT !.op = "remove", !.stops = {s}])
  /\ UNCHANGED <<route, stop, order>>

\* Deleted whatever has become of it since.
RemoveCommit(c) ==
  /\ Continues(c, "remove")
  /\ \E s \in req[c].stops :
       /\ Here(s)
       /\ stop' = [stop EXCEPT ![s] = Deleted(s)]
       /\ req' = [req EXCEPT ![c] = Recording({stop[s].route})]
  /\ UNCHANGED <<route, order>>

-----------------------------------------------------------------------------
(* The order of stops *)

\* reorderStops(): a new number for every stop of the route, all different.
ReorderStops(c, r) ==
  /\ route[r] # "NONE"
  /\ Opens(c, Recording({r}))
  /\ \E f \in [On(r) -> 1..MaxSequence] :
       /\ \A s, u \in On(r) : f[s] = f[u] => s = u
       /\ stop' = [s \in Stops |-> IF s \in On(r) THEN [stop[s] EXCEPT !.sequence = f[s]] ELSE stop[s]]
  /\ UNCHANGED <<route, order>>

\* optimize() reads the stops, and asks VROOM for an order of the pending ones.
OptimizeRead(c, r) ==
  /\ route[r] # "NONE"
  /\ {s \in On(r) : Pending(s)} # {}
  /\ Opens(c, [Idle EXCEPT !.op = "optimize", !.route = r, !.stops = {s \in On(r) : Pending(s)},
                           !.seen = HighestOf({s \in On(r) : ~ Pending(s)})])
  /\ UNCHANGED <<route, stop, order>>

\* What was pending is placed after what was resolved, in the order f; a
\* stop deleted or a number taken since aborts the transaction.
OptimizeCommit(c, f) ==
  LET S == req[c].stops
      n == req[c].seen
  IN  /\ Continues(c, "optimize")
      /\ n + Cardinality(S) <= MaxSequence
      /\ \A s \in S : Here(s) /\ f[s] \in 1..Cardinality(S)
      /\ \A s, u \in S : f[s] = f[u] => s = u
      /\ \A u \in On(req[c].route) \ S : \A s \in S : stop[u].sequence # n + f[s]
      /\ stop' = [s \in Stops |-> IF s \in S THEN [stop[s] EXCEPT !.sequence = n + f[s]] ELSE stop[s]]
      /\ req' = [req EXCEPT ![c] = Recording({req[c].route})]
      /\ UNCHANGED <<route, order>>

-----------------------------------------------------------------------------
(* Visits to a site *)

Unresolved(s) == Here(s) /\ stop[s].target \in Sites /\ ~ stop[s].signed /\ ~ stop[s].failed

SiteProof(s) ==
  /\ Quiet
  /\ Unresolved(s) /\ route[stop[s].route] # "CANCELLED"
  /\ stop' = [stop EXCEPT ![s].signed = TRUE]
  /\ UNCHANGED <<route, order, req>>

SiteFailure(s) ==
  /\ Quiet
  /\ Unresolved(s) /\ route[stop[s].route] # "CANCELLED"
  /\ stop' = [stop EXCEPT ![s].failed = TRUE]
  /\ UNCHANGED <<route, order, req>>

\* applyStopAddress()
ChangeSite(s, x) ==
  /\ Quiet
  /\ Unresolved(s) /\ Open(stop[s].route)
  /\ Awaited(stop[s].route, x) \subseteq {s}
  /\ stop' = [stop EXCEPT ![s].target = x]
  /\ UNCHANGED <<route, order, req>>

\* rescheduleCustomerStop()
RescheduleRead(c, s, r) ==
  /\ Here(s) /\ stop[s].target \in Sites /\ stop[s].failed /\ ~ stop[s].superseded
  /\ Open(r)
  /\ Awaited(r, stop[s].target) = {}
  /\ Opens(c, [Idle EXCEPT !.op = "rescheduleVisit", !.route = r, !.target = stop[s].target, !.stops = {s}])
  /\ UNCHANGED <<route, stop, order>>

\* Mutant of RescheduleCommit: the failed visit is not claimed.
RescheduleCommitUnclaimed(c) ==
  /\ Continues(c, "rescheduleVisit")
  /\ FirstFree \in Stops
  /\ HighestOf(On(req[c].route)) < MaxSequence
  /\ \E s \in req[c].stops :
       /\ Here(s)
       /\ stop' = [stop EXCEPT ![s].superseded = TRUE, ![FirstFree] =
            [NewStop(req[c].route, req[c].target, HighestOf(On(req[c].route)) + 1) EXCEPT !.replaces = s]]
       /\ req' = [req EXCEPT ![c] = Recording({stop[s].route, req[c].route})]
  /\ UNCHANGED <<route, order>>

RescheduleCommit(c) ==
  /\ Continues(c, "rescheduleVisit")
  /\ FirstFree \in Stops
  /\ HighestOf(On(req[c].route)) < MaxSequence
  /\ \E s \in req[c].stops :
       /\ Here(s) /\ ~ stop[s].superseded
       /\ stop' = [stop EXCEPT ![s].superseded = TRUE, ![FirstFree] =
            [NewStop(req[c].route, req[c].target, HighestOf(On(req[c].route)) + 1) EXCEPT !.replaces = s]]
       /\ req' = [req EXCEPT ![c] = Recording({stop[s].route, req[c].route})]
  /\ UNCHANGED <<route, order>>

-----------------------------------------------------------------------------
(* Delivery orders *)

Becomes(d, from, to) ==
  /\ Quiet
  /\ order[d].status \in from
  /\ order' = [order EXCEPT ![d].status = to]

Ship(d)         == Becomes(d, {"PACKED"}, "SHIPPED") /\ UNCHANGED <<route, stop, req>>
OrderFailure(d) == Becomes(d, {"SHIPPED"}, "FAILED") /\ UNCHANGED <<route, stop, req>>

\* recordReturn() of everything that was shipped.
ReturnOrder(d)  == Becomes(d, {"SHIPPED", "FAILED"}, "RETURNED") /\ UNCHANGED <<route, stop, req>>

\* voidInvoice() cancels the packed orders of the invoice, and no stop.
VoidInvoice(d)  == Becomes(d, {"PACKED"}, "CANCELLED") /\ UNCHANGED <<route, stop, req>>

\* cancel() takes the order off its route.
CancelOrder(c, d) ==
  /\ order[d].status = "PACKED"
  /\ Opens(c, Recording({stop[s].route : s \in Live(d)}))
  /\ order' = [order EXCEPT ![d].status = "CANCELLED"]
  /\ stop' = [s \in Stops |-> IF s \in Live(d) THEN Deleted(s) ELSE stop[s]]
  /\ UNCHANGED route

OrderProofRead(c, d) ==
  /\ order[d].status = "SHIPPED"
  /\ Opens(c, [Idle EXCEPT !.op = "proof", !.target = d])
  /\ UNCHANGED <<route, stop, order>>

\* Written whatever the status has become.
OrderProofWrite(c) ==
  /\ Continues(c, "proof")
  /\ order' = [order EXCEPT ![req[c].target].signed = TRUE]
  /\ Ends(c)
  /\ UNCHANGED <<route, stop>>

\* rescheduleDelivery(), onto a route or to no route.
OrderRescheduleRead(c, d, r) ==
  /\ order[d].status = "FAILED"
  /\ r # None => Open(r)
  /\ Opens(c, [Idle EXCEPT !.op = "reschedule", !.route = r, !.target = d, !.stops = Live(d)])
  /\ UNCHANGED <<route, stop, order>>

\* What follows the commit: the history of the old route, and the new stop.
Following(c) ==
  IF req[c].stops # {} THEN [Recording({stop[s].route : s \in req[c].stops}) EXCEPT
                               !.route = req[c].route, !.target = req[c].target]
  ELSE IF req[c].route = None THEN Idle
  ELSE [Idle EXCEPT !.op = "thenAdd", !.route = req[c].route, !.target = req[c].target]

\* Mutant of OrderRescheduleCommit: the old stop is freed, but not closed.
OrderRescheduleCommitOpen(c) ==
  /\ Continues(c, "reschedule")
  /\ \A s \in req[c].stops : Here(s)
  /\ stop' = [s \in Stops |-> IF s \in req[c].stops THEN [stop[s] EXCEPT !.active = None] ELSE stop[s]]
  /\ order' = [order EXCEPT ![req[c].target].status = "SHIPPED"]
  /\ req' = [req EXCEPT ![c] = Following(c)]
  /\ UNCHANGED route

OrderRescheduleCommit(c) ==
  /\ Continues(c, "reschedule")
  /\ \A s \in req[c].stops : Here(s)
  /\ stop' = [s \in Stops |-> IF s \in req[c].stops
                THEN [stop[s] EXCEPT !.superseded = TRUE, !.active = None] ELSE stop[s]]
  /\ order' = [order EXCEPT ![req[c].target].status = "SHIPPED"]
  /\ req' = [req EXCEPT ![c] = Following(c)]
  /\ UNCHANGED route

-----------------------------------------------------------------------------
(* The planner *)

Locked(r) == route[r] # "PLANNED" \/ \E s \in On(r) : ~ Pending(s)

\* The team of a plan is the one of r, which may be a route still to be made.
Affected(r, D) == {q \in Routes : route[q] # "NONE" /\ q = r} \cup {stop[s].route : s \in UNION {Live(d) : d \in D}}

\* loadContext(): D is placed anew, and what else is on r comes off it.
PlanRead(c, r, D) ==
  /\ route[r] = "NONE" \/ ~ Locked(r)
  /\ \A d \in D : /\ order[d].status \in {"PACKED", "SHIPPED"} /\ ~ order[d].signed
                 /\ \A s \in Live(d) : ~ Locked(stop[s].route)
  /\ LET affected == Affected(r, D)
         taken    == {s \in Stops : Here(s) /\ stop[s].active # None /\ stop[s].route \in affected
                                   /\ (stop[s].active \in D \/ stop[s].route = r)}
     IN  Opens(c, [Idle EXCEPT !.op = "plan", !.route = r, !.orders = D,
                               !.takenOff = D \cup {stop[s].active : s \in taken},
                               !.routes = affected, !.emptied = {q \in affected : On(q) \subseteq taken}])
  /\ UNCHANGED <<route, stop, order>>

\* leftoverRoutes()
Cancelled(c, rebuilt) == req[c].emptied \ rebuilt

\* Mutant of PlaceAfter: the stops left on a route keep their places.
PlaceAfterKept(s, S, n) == IF n > 0 THEN stop[s].sequence ELSE Place(s, S)

\* The place of a stop that stays, after the n that the plan puts before it.
PlaceAfter(s, S, n) == n + Place(s, S)

\* apply(): the orders of p are placed on r in that order; those selected and
\* not placed are on no route.
PlanCommit(c, p) ==
  LET r       == req[c].route
      D       == {p[i] : i \in 1..Len(p)}
      deleted == {s \in Stops : Here(s) /\ stop[s].route \in req[c].routes /\ stop[s].active \in req[c].takenOff}
      rebuilt == IF p = <<>> THEN {} ELSE {r}
      kept(q) == On(q) \ deleted
      Made(s) == s - FirstFree + 1
  IN  /\ Continues(c, "plan")
      /\ ~ req[c].stale
      /\ \A q \in req[c].routes : route[q] = "PLANNED"
      /\ D \subseteq req[c].orders /\ Cardinality(D) = Len(p)
      /\ r \in req[c].routes \/ route[r] = "NONE"
      /\ p = <<>> \/ (FirstFree \in Stops /\ FirstFree + Len(p) - 1 <= MaxStops)
      /\ Len(p) + Cardinality(kept(r)) <= MaxSequence
      /\ \A d \in D : Live(d) \subseteq deleted
      /\ stop' = [s \in Stops |->
           IF s \in deleted THEN Deleted(s)
           ELSE IF p # <<>> /\ Made(s) \in 1..Len(p) THEN NewStop(r, p[Made(s)], Made(s))
           ELSE IF Here(s) /\ stop[s].route \in req[c].routes \ Cancelled(c, rebuilt)
                THEN [stop[s] EXCEPT !.sequence =
                        PlaceAfter(s, kept(stop[s].route), IF stop[s].route = r THEN Len(p) ELSE 0)]
           ELSE stop[s]]
      /\ route' = [q \in Routes |-> IF q \in Cancelled(c, rebuilt) THEN "CANCELLED"
                                   ELSE IF q \in rebuilt THEN "PLANNED" ELSE route[q]]
      /\ req' = [req EXCEPT ![c] = Recording(req[c].routes \cup rebuilt)]
      /\ UNCHANGED order

-----------------------------------------------------------------------------
RoutesNext ==
  \/ \E r \in Routes : CreateRoute(r) \/ \E status \in Changes : UpdateRoute(r, status)
  \/ \E d \in Orders : Ship(d) \/ OrderFailure(d) \/ ReturnOrder(d) \/ VoidInvoice(d)
  \/ \E s \in Stops : SiteProof(s) \/ SiteFailure(s) \/ \E x \in Sites : ChangeSite(s, x)
  \/ \E c \in Clients :
       \/ Bump(c) \/ Fails(c)
       \/ \E r \in Routes, x \in Targets : AddRead(c, r, x)
       \/ \E n \in 1..MaxSequence : AddCommit(c, n)
       \/ \E s \in Stops : RemoveRead(c, s)
       \/ RemoveCommit(c)
       \/ \E r \in Routes : ReorderStops(c, r) \/ OptimizeRead(c, r)
       \/ \E f \in [Stops -> 1..MaxSequence] : OptimizeCommit(c, f)
       \/ \E s \in Stops, r \in Routes : RescheduleRead(c, s, r)
       \/ RescheduleCommit(c)
       \/ \E d \in Orders : CancelOrder(c, d) \/ OrderProofRead(c, d)
       \/ OrderProofWrite(c)
       \/ \E d \in Orders, r \in Routes \cup {None} : OrderRescheduleRead(c, d, r)
       \/ OrderRescheduleCommit(c)
       \/ \E r \in Routes, D \in SUBSET Orders : PlanRead(c, r, D)
       \/ \E n \in 0..Cardinality(Orders) : \E p \in [1..n -> req[c].orders] : PlanCommit(c, p)

RoutesSpec == RoutesInit /\ [][RoutesNext]_routesVars

-----------------------------------------------------------------------------
(* Properties *)

\* rescheduleDelivery(), addStop(), cancel() and the planner: a stop of a
\* delivery order is either the order's one live stop or closed history.
\* A second live stop would have two drivers deliver the same goods.
OneLiveStop ==
  \A s \in Stops : Here(s) /\ stop[s].target \in Orders =>
    /\ stop[s].superseded <=> stop[s].active = None
    /\ ~ stop[s].superseded => Live(stop[s].target) = {s}

\* The sequence numbers of a route are different, through every renumbering
\* (addStop(), reorderStops(), optimize(), the planner): the drivers' next
\* stop is one stop.
OneOrder ==
  \A s, u \in Stops : Here(s) /\ Here(u) /\ stop[s].route = stop[u].route /\ stop[s].sequence = stop[u].sequence
    => s = u

\* A visit that failed is replaced by one later visit at most, however often
\* rescheduleCustomerStop() is asked for.
RescheduledOnce ==
  \A s, u \in Stops : s # u /\ stop[s].replaces # 0 => stop[s].replaces # stop[u].replaces

\* Once a stop reads delivered or failed it stays on record and is never to
\* be made again: returns, reschedules and plans leave it resolved.
ResolvedStays ==
  [][\A s \in Stops : Here(s) /\ ~ Pending(s) => (Here(s) /\ ~ Pending(s))']_routesVars
=============================================================================
