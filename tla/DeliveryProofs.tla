--------------------------- MODULE DeliveryProofs ---------------------------
(***************************************************************************)
(* What holds of the two modules about getting goods delivered, for any    *)
(* number of transactions, lines, routes, orders and clients.              *)
(*                                                                         *)
(* OrderStatusLocks: type correctness, and that claims never take a line   *)
(* over its ordered quantity.                                              *)
(*                                                                         *)
(* DeliveryRoutes: type correctness; that an order has one live stop, the  *)
(* stops of a route different numbers and a failed visit one in its place, *)
(* whichever requests overlap; and that what is delivered or failed stays  *)
(* so while removals, reschedules and plans are undisturbed.               *)
(***************************************************************************)
EXTENDS OrderStatusLocks, DeliveryRoutes, TotalsProofs

-----------------------------------------------------------------------------
(* Order lines and their locks *)

\* A transaction that waits for the order has still to update every line it
\* changes, one past its lines has none left, and a line it has updated will
\* be within bounds when it commits.
InBounds ==
  \A t \in Txs :
    /\ pc[t] = "order" => \A l \in Lines : change[t][l] # 0 => \E i \in DOMAIN todo[t] : todo[t][i] = l
    /\ pc[t] \in {"read", "write", "commit"} => todo[t] = <<>>
    /\ \A l \in Updated(t) : delivered[l] + change[t][l] \in 0..Ordered[l]

LockInv == TypeOK /\ NeverOverClaimed /\ InBounds

\* What a request lists: its quantities, and a sequence of exactly the lines
\* that have one.
LEMMA RequestShape ==
  ASSUME NEW q \in Requests, NEW s \in Listings(Support(q))
  PROVE  /\ q \in [Lines -> Nat]
         /\ s \in Seq(Lines)
         /\ \A l \in Lines : q[l] # 0 => \E i \in DOMAIN s : s[i] = l
<1>1. q \in [Lines -> Nat]
  BY LockOrderAssumption DEF Requests
<1>2. Support(q) \subseteq Lines /\ IsFiniteSet(Support(q))
  BY LockOrderAssumption, FS_Subset DEF Support
<1>3. Cardinality(Support(q)) \in Nat
  BY <1>2, FS_CardinalityType
<1>4. s \in [1..Cardinality(Support(q)) -> Lines]
  BY <1>2 DEF Listings
<1>5. s \in Seq(Lines)
  BY <1>3, <1>4
<1>6. ASSUME NEW l \in Lines, q[l] # 0 PROVE \E i \in DOMAIN s : s[i] = l
  <2>1. l \in Support(q)
    BY <1>1, <1>6 DEF Support
  <2> QED BY <2>1 DEF Listings
<1> QED BY <1>1, <1>5, <1>6

\* The initial state satisfies the invariant.
LEMMA LockInit == Init => LockInv
<1> SUFFICES ASSUME Init PROVE LockInv
  OBVIOUS
<1>1. TypeOK
  BY LockOrderAssumption DEF Init, TypeOK, NoChange, Statuses, Rows, Updated
<1>2. NeverOverClaimed
  BY LockOrderAssumption DEF Init, NeverOverClaimed, NoChange
<1>3. InBounds
  BY DEF Init, InBounds, Updated
<1> QED BY <1>1, <1>2, <1>3 DEF LockInv

\* A transaction that begins has updated nothing.
LEMMA BeginKeeps ==
  ASSUME LockInv, NEW t \in Txs, Begin(t)
  PROVE  LockInv'
<1>0. PICK q \in Requests : \E s \in Listings(Support(q)) : BeginClaim(t, q, s) \/ BeginRelease(t, q, s)
  BY DEF Begin
<1>1. PICK s \in Listings(Support(q)) : BeginClaim(t, q, s) \/ BeginRelease(t, q, s)
  BY <1>0
<1>2. /\ q \in [Lines -> Nat] /\ s \in Seq(Lines)
      /\ \A l \in Lines : q[l] # 0 => \E i \in DOMAIN s : s[i] = l
  BY RequestShape
<1>3. \E c \in [Lines -> Int], p \in {"order", "lines"} :
        /\ \A l \in Lines : c[l] # 0 => \E i \in DOMAIN s : s[i] = l
        /\ change' = [change EXCEPT ![t] = c]
        /\ pc' = [pc EXCEPT ![t] = p]
  <2>1. CASE BeginClaim(t, q, s)
    <3>1. q \in [Lines -> Int]
      BY <1>2
    <3>2. change' = [change EXCEPT ![t] = q] /\ pc' = [pc EXCEPT ![t] = "order"]
      BY <2>1 DEF BeginClaim
    <3> QED BY <3>1, <3>2, <1>2
  <2>2. CASE BeginRelease(t, q, s)
    <3> DEFINE c == [l \in Lines |-> - q[l]]
    <3>1. c \in [Lines -> Int] /\ \A l \in Lines : c[l] # 0 => q[l] # 0
      BY <1>2
    <3>2. change' = [change EXCEPT ![t] = c] /\ pc' = [pc EXCEPT ![t] = "lines"]
      BY <2>2 DEF BeginRelease
    <3>3. \A l \in Lines : c[l] # 0 => \E i \in DOMAIN s : s[i] = l
      BY <3>1, <1>2
    <3> HIDE DEF c
    <3> QED BY <3>1, <3>2, <3>3
  <2> QED BY <1>1, <2>1, <2>2
<1>4. PICK c \in [Lines -> Int], p \in {"order", "lines"} :
        /\ \A l \in Lines : c[l] # 0 => \E i \in DOMAIN s : s[i] = l
        /\ change' = [change EXCEPT ![t] = c]
        /\ pc' = [pc EXCEPT ![t] = p]
  BY <1>3
<1>5. todo' = [todo EXCEPT ![t] = s] /\ UNCHANGED <<status, delivered, seen, new, lock>>
  BY <1>1 DEF BeginClaim, BeginRelease
<1>6. Updated(t)' = {}
  BY <1>4, <1>5 DEF Updated, LockInv, TypeOK
<1>7. \A u \in Txs \ {t} : /\ Updated(u)' = Updated(u)
                           /\ pc'[u] = pc[u] /\ change'[u] = change[u] /\ todo'[u] = todo[u]
  BY <1>4, <1>5 DEF Updated, LockInv, TypeOK
<1>8. TypeOK'
  <2>1. /\ change' \in [Txs -> [Lines -> Int]] /\ todo' \in [Txs -> Seq(Lines)]
        /\ pc' \in [Txs -> {"idle", "order", "lines", "read", "write", "commit"}]
    BY <1>2, <1>4, <1>5 DEF LockInv, TypeOK
  <2>2. \A u \in Txs : \A l \in Updated(u)' : lock'[l] = u
    <3>1. ASSUME NEW u \in Txs \ {t}, NEW l \in Updated(u)' PROVE lock'[l] = u
      <4>1. l \in Updated(u)
        BY <1>7, <3>1
      <4> QED BY <4>1, <1>5 DEF LockInv, TypeOK
    <3> QED BY <1>6, <3>1
  <2> QED BY <1>5, <2>1, <2>2 DEF LockInv, TypeOK
<1>9. NeverOverClaimed'
  BY <1>5 DEF LockInv, NeverOverClaimed
<1>10. InBounds'
  BY <1>4, <1>5, <1>6, <1>7 DEF LockInv, InBounds, TypeOK
<1> QED BY <1>8, <1>9, <1>10 DEF LockInv

\* A transaction that ends has updated nothing, and the others still hold
\* what they have.
LEMMA EndUpdates ==
  ASSUME LockInv, NEW t \in Txs, End(t)
  PROVE  /\ Updated(t)' = {} /\ pc'[t] = "idle"
         /\ \A u \in Txs \ {t} : /\ Updated(u)' = Updated(u)
                                 /\ pc'[u] = pc[u] /\ change'[u] = change[u] /\ todo'[u] = todo[u]
                                 /\ \A l \in Updated(u)' : lock'[l] = u
         /\ pc' \in [Txs -> {"idle", "order", "lines", "read", "write", "commit"}]
         /\ change' \in [Txs -> [Lines -> Int]]
         /\ todo' \in [Txs -> Seq(Lines)]
         /\ seen' \in [Txs -> Statuses] /\ new' \in [Txs -> Statuses]
         /\ lock' \in [Rows -> Txs \cup {Nobody}]
<1>1. /\ pc'[t] = "idle"
      /\ pc' \in [Txs -> {"idle", "order", "lines", "read", "write", "commit"}]
      /\ change' \in [Txs -> [Lines -> Int]]
      /\ todo' \in [Txs -> Seq(Lines)]
      /\ seen' \in [Txs -> Statuses] /\ new' \in [Txs -> Statuses]
      /\ lock' \in [Rows -> Txs \cup {Nobody}]
  BY DEF End, LockInv, TypeOK, NoChange, Statuses
<1>2. Updated(t)' = {}
  BY <1>1 DEF Updated
<1>3. ASSUME NEW u \in Txs \ {t}
      PROVE  /\ Updated(u)' = Updated(u)
             /\ pc'[u] = pc[u] /\ change'[u] = change[u] /\ todo'[u] = todo[u]
  BY DEF End, Updated, LockInv, TypeOK
<1>4. ASSUME NEW u \in Txs \ {t}, NEW l \in Updated(u)' PROVE lock'[l] = u
  <2>1. l \in Updated(u) /\ l \in Lines /\ lock[l] = u
    BY <1>3, <1>4 DEF LockInv, TypeOK, Updated
  <2> QED BY <2>1 DEF End, Rows
<1> QED BY <1>1, <1>2, <1>3, <1>4

\* A refused or aborted transaction leaves no trace.
LEMMA AbortKeeps ==
  ASSUME LockInv, NEW t \in Txs, Abort(t)
  PROVE  LockInv'
<1>1. End(t) /\ UNCHANGED <<status, delivered>>
  BY DEF Abort
<1>2. TypeOK'
  BY <1>1, EndUpdates DEF LockInv, TypeOK
<1>3. NeverOverClaimed'
  BY <1>1 DEF LockInv, NeverOverClaimed
<1>4. InBounds'
  <2>1. /\ Updated(t)' = {} /\ pc'[t] = "idle" /\ delivered' = delivered
        /\ \A u \in Txs \ {t} : /\ Updated(u)' = Updated(u)
                                /\ pc'[u] = pc[u] /\ change'[u] = change[u] /\ todo'[u] = todo[u]
    BY <1>1, EndUpdates
  <2> QED BY <2>1 DEF LockInv, InBounds
<1> QED BY <1>2, <1>3, <1>4 DEF LockInv

\* A transaction's statements that update no line.
LEMMA ReadsKeep ==
  ASSUME LockInv, NEW t \in Txs, ReadOrder(t) \/ ReadLines(t) \/ WriteStatus(t)
  PROVE  LockInv'
<1>1. /\ UNCHANGED <<status, delivered, change, todo>>
      /\ \E p \in {"read", "write", "commit"} : pc' = [pc EXCEPT ![t] = p]
      /\ pc[t] \in {"lines", "read", "write"} /\ todo[t] = <<>>
      /\ \A l \in Lines : lock'[l] = lock[l]
      /\ lock' \in [Rows -> Txs \cup {Nobody}]
      /\ seen' \in [Txs -> Statuses] /\ new' \in [Txs -> Statuses]
  <2>1. CASE ReadOrder(t)
    BY <2>1 DEF ReadOrder, LockInv, TypeOK
  <2>2. CASE ReadLines(t)
    <3>1. StatusFor(Visible(t)) \in Statuses
      BY DEF StatusFor, Statuses
    <3>2. pc[t] = "read" /\ todo[t] = <<>>
      BY <2>2 DEF ReadLines, LockInv, InBounds
    <3>3. \E p \in {"read", "write", "commit"} : pc' = [pc EXCEPT ![t] = p]
      BY <2>2 DEF ReadLines
    <3>4. new' \in [Txs -> Statuses]
      BY <2>2, <3>1 DEF ReadLines, LockInv, TypeOK
    <3> QED BY <2>2, <3>2, <3>3, <3>4 DEF ReadLines, LockInv, TypeOK
  <2>3. CASE WriteStatus(t)
    BY <2>3, RowsAssumption DEF WriteStatus, Take, LockInv, TypeOK, InBounds, Rows
  <2> QED BY <2>1, <2>2, <2>3
<1>2. \A u \in Txs : Updated(u)' = Updated(u)
  BY <1>1 DEF Updated, LockInv, TypeOK
<1>3. TypeOK'
  BY <1>1, <1>2 DEF LockInv, TypeOK, Updated
<1>4. NeverOverClaimed'
  BY <1>1 DEF LockInv, NeverOverClaimed
<1>5. InBounds'
  BY <1>1, <1>2 DEF LockInv, InBounds, TypeOK
<1> QED BY <1>3, <1>4, <1>5 DEF LockInv

\* create() locks the order row and none of its lines.
LEMMA LockOrderKeeps ==
  ASSUME LockInv, NEW t \in Txs, LockOrder(t)
  PROVE  LockInv'
<1>1. CASE Abort(t)
  BY <1>1, AbortKeeps
<1>2. CASE ~Abort(t)
  <2>1. /\ UNCHANGED <<status, delivered, change, todo, seen, new>>
        /\ pc' = [pc EXCEPT ![t] = "lines"] /\ pc[t] = "order"
        /\ \A l \in Lines : lock'[l] = lock[l]
        /\ lock' \in [Rows -> Txs \cup {Nobody}]
    BY <1>2, RowsAssumption DEF LockOrder, Take, LockInv, TypeOK, Rows
  <2>2. \A u \in Txs : Updated(u)' = Updated(u)
    <3>1. \A u \in Txs \ {t} : Updated(u)' = Updated(u)
      BY <2>1 DEF Updated, LockInv, TypeOK
    <3>2. Updated(t) = {}
      BY <2>1 DEF Updated
    <3>3. Updated(t)' = {}
      BY <2>1 DEF Updated, LockInv, InBounds
    <3> QED BY <3>1, <3>2, <3>3
  <2>3. TypeOK'
    BY <2>1, <2>2 DEF LockInv, TypeOK, Updated
  <2>4. NeverOverClaimed'
    BY <2>1 DEF LockInv, NeverOverClaimed
  <2>5. InBounds'
    BY <2>1, <2>2 DEF LockInv, InBounds, TypeOK
  <2> QED BY <2>3, <2>4, <2>5 DEF LockInv
<1> QED BY <1>1, <1>2

\* A transaction updates its next line once it has the row's lock, which
\* nobody holds, and only to a quantity within bounds.
LEMMA UpdateLineKeeps ==
  ASSUME LockInv, NEW t \in Txs, UpdateLine(t)
  PROVE  LockInv'
<1>1. CASE Abort(t)
  BY <1>1, AbortKeeps
<1>2. CASE ~Abort(t)
  <2> DEFINE l == Head(todo[t])
  <2>1. /\ pc[t] = "lines" /\ todo[t] # <<>>
        /\ lock[l] = Nobody
        /\ delivered[l] + change[t][l] \in 0..Ordered[l]
        /\ lock' = [lock EXCEPT ![l] = t]
        /\ todo' = [todo EXCEPT ![t] = Tail(todo[t])]
        /\ UNCHANGED <<status, delivered, pc, change, seen, new>>
    BY <1>2 DEF UpdateLine, Take
  <2>2. /\ todo[t] \in Seq(Lines) /\ l \in Lines /\ Tail(todo[t]) \in Seq(Lines)
        /\ \A i \in DOMAIN todo[t] : todo[t][i] = l \/ \E j \in DOMAIN Tail(todo[t]) : Tail(todo[t])[j] = todo[t][i]
    <3>1. todo[t] \in Seq(Lines)
      BY DEF LockInv, TypeOK
    <3>2. ASSUME NEW i \in DOMAIN todo[t], todo[t][i] # l
          PROVE  \E j \in DOMAIN Tail(todo[t]) : Tail(todo[t])[j] = todo[t][i]
      <4>1. i \in 2..Len(todo[t])
        BY <2>1, <3>1, <3>2
      <4>2. i - 1 \in DOMAIN Tail(todo[t]) /\ Tail(todo[t])[i - 1] = todo[t][i]
        BY <2>1, <3>1, <4>1
      <4> QED BY <4>2
    <3> QED BY <2>1, <3>1, <3>2
  <2>3. \A u \in Txs \ {t} : /\ Updated(u)' = Updated(u) /\ todo'[u] = todo[u]
    BY <2>1 DEF Updated, LockInv, TypeOK
  <2>4. Updated(t)' \subseteq Updated(t) \cup {l}
    <3>1. SUFFICES ASSUME NEW k \in Updated(t)', k # l PROVE k \in Updated(t)
      OBVIOUS
    <3>2. todo'[t] = Tail(todo[t])
      BY <2>1 DEF LockInv, TypeOK
    <3>3. /\ k \in Lines /\ change[t][k] # 0
          /\ \A j \in DOMAIN Tail(todo[t]) : Tail(todo[t])[j] # k
      BY <2>1, <3>2 DEF Updated
    <3>4. \A i \in DOMAIN todo[t] : todo[t][i] # k
      BY <2>2, <3>1, <3>3
    <3> QED BY <2>1, <3>3, <3>4 DEF Updated
  <2>5. \A u \in Txs : \A k \in Updated(u) : k # l
    BY <2>1, RowsAssumption DEF LockInv, TypeOK
  <2>6. TypeOK'
    <3>1. /\ lock' \in [Rows -> Txs \cup {Nobody}]
          /\ lock'[l] = t
          /\ \A k \in Lines \ {l} : lock'[k] = lock[k]
      BY <2>1, <2>2 DEF LockInv, TypeOK, Rows
    <3>2. todo' \in [Txs -> Seq(Lines)]
      BY <2>1, <2>2 DEF LockInv, TypeOK
    <3>3. \A u \in Txs : \A k \in Updated(u)' : lock'[k] = u
      <4>1. ASSUME NEW k \in Updated(t)' PROVE lock'[k] = t
        BY <2>4, <2>5, <3>1, <4>1 DEF LockInv, TypeOK, Updated
      <4>2. ASSUME NEW u \in Txs \ {t}, NEW k \in Updated(u)' PROVE lock'[k] = u
        BY <2>3, <2>5, <3>1, <4>2 DEF LockInv, TypeOK, Updated
      <4> QED BY <4>1, <4>2
    <3> QED BY <2>1, <3>1, <3>2, <3>3 DEF LockInv, TypeOK
  <2>7. NeverOverClaimed'
    BY <2>1 DEF LockInv, NeverOverClaimed
  <2>8. InBounds'
    BY <2>1, <2>2, <2>3, <2>4 DEF LockInv, InBounds, TypeOK
  <2> QED BY <2>6, <2>7, <2>8 DEF LockInv
<1> QED BY <1>1, <1>2

\* A commit writes lines the transaction holds the locks of, so no other
\* transaction has updated them.
LEMMA CommitKeeps ==
  ASSUME LockInv, NEW t \in Txs, Commit(t)
  PROVE  LockInv'
<1>1. /\ End(t) /\ pc[t] = "commit" /\ todo[t] = <<>>
      /\ delivered' = [l \in Lines |-> delivered[l] + change[t][l]]
      /\ status' \in Statuses
  BY DEF Commit, Visible, LockInv, TypeOK, InBounds
<1>2. \A l \in Lines : change[t][l] # 0 => l \in Updated(t)
  BY <1>1 DEF Updated, LockInv, TypeOK
<1>3. \A l \in Lines : delivered'[l] \in 0..Ordered[l]
  <2> TAKE l \in Lines
  <2>1. change[t][l] \in Int /\ delivered[l] \in 0..Ordered[l] /\ Ordered[l] \in Nat
    BY LockOrderAssumption DEF LockInv, TypeOK, NeverOverClaimed
  <2>2. CASE change[t][l] = 0
    BY <1>1, <2>1, <2>2
  <2>3. CASE change[t][l] # 0
    BY <1>1, <1>2, <2>1, <2>3 DEF LockInv, InBounds
  <2> QED BY <2>2, <2>3
<1>4. delivered' \in [Lines -> Nat]
  BY <1>1, <1>3, LockOrderAssumption
<1>5. TypeOK'
  BY <1>1, <1>4, EndUpdates DEF TypeOK
<1>6. NeverOverClaimed'
  BY <1>3 DEF NeverOverClaimed
<1>7. ASSUME NEW u \in Txs \ {t}, NEW l \in Updated(u) PROVE delivered'[l] = delivered[l]
  <2>1. l \in Lines /\ lock[l] = u
    BY DEF LockInv, TypeOK, Updated
  <2>2. change[t][l] = 0
    BY <1>2, <2>1 DEF LockInv, TypeOK
  <2> QED BY <1>1, <2>1, <2>2 DEF LockInv, TypeOK
<1>8. InBounds'
  <2>1. /\ Updated(t)' = {} /\ pc'[t] = "idle"
        /\ \A u \in Txs \ {t} : /\ Updated(u)' = Updated(u)
                                /\ pc'[u] = pc[u] /\ change'[u] = change[u] /\ todo'[u] = todo[u]
    BY <1>1, EndUpdates
  <2>2. ASSUME NEW u \in Txs \ {t}, NEW l \in Updated(u)
        PROVE  delivered'[l] + change'[u][l] \in 0..Ordered[l]
    BY <1>7, <2>1, <2>2 DEF LockInv, InBounds
  <2> QED BY <2>1, <2>2 DEF LockInv, InBounds
<1> QED BY <1>5, <1>6, <1>8 DEF LockInv

\* The invariant is inductive.
LEMMA LockStep == LockInv /\ [Next]_vars => LockInv'
<1> SUFFICES ASSUME LockInv, [Next]_vars PROVE LockInv'
  OBVIOUS
<1>1. CASE Next
  <2>1. PICK t \in Txs : Begin(t) \/ Statement(t)
    BY <1>1 DEF Next
  <2>2. CASE Begin(t)
    BY <2>2, BeginKeeps
  <2>3. CASE LockOrder(t)
    BY <2>3, LockOrderKeeps
  <2>4. CASE UpdateLine(t)
    BY <2>4, UpdateLineKeeps
  <2>5. CASE ReadOrder(t) \/ ReadLines(t) \/ WriteStatus(t)
    BY <2>5, ReadsKeep
  <2>6. CASE Commit(t)
    BY <2>6, CommitKeeps
  <2>7. CASE DeadlockVictim(t)
    BY <2>7, AbortKeeps DEF DeadlockVictim
  <2> QED BY <2>1, <2>2, <2>3, <2>4, <2>5, <2>6, <2>7 DEF Statement
<1>2. CASE UNCHANGED vars
  BY <1>2 DEF vars, LockInv, TypeOK, NeverOverClaimed, InBounds, Updated
<1> QED BY <1>1, <1>2

\* The columns keep their types, and a transaction holds the rows of the
\* lines it has updated until it ends.
THEOREM LocksTypeCorrect == Spec => []TypeOK
<1>1. LockInv => TypeOK
  BY DEF LockInv
<1> QED BY <1>1, LockInit, LockStep, PTL DEF Spec

\* However create(), cancel() and recordReturn() interleave, statement by
\* statement, no line of the order is delivered beyond its quantity.
THEOREM ClaimsStayWithinOrder == Spec => []NeverOverClaimed
<1>1. LockInv => NeverOverClaimed
  BY DEF LockInv
<1> QED BY <1>1, LockInit, LockStep, PTL DEF Spec

-----------------------------------------------------------------------------
(* Rows and numbers *)

\* The rows of stops are filled in order.
RowsFilled == \E k \in 0..MaxStops : \A s \in Stops : stop[s].is # "none" <=> s <= k

LEMMA FirstFreeIsNext ==
  ASSUME RowsFilled
  PROVE  /\ FirstFree \in Nat \ {0} /\ FirstFree - 1 <= MaxStops
         /\ \A s \in Stops : stop[s].is # "none" <=> s < FirstFree
<1>1. PICK k \in 0..MaxStops : \A s \in Stops : stop[s].is # "none" <=> s <= k
  BY DEF RowsFilled
<1>2. {s \in Stops : stop[s].is # "none"} = 1..k
  BY <1>1, RoutesAssumption DEF Stops
<1>3. k \in Nat /\ Cardinality(1..k) = k
  BY <1>1, RoutesAssumption, FS_Interval
<1>4. FirstFree = 1 + k
  BY <1>2, <1>3 DEF FirstFree
<1> QED BY <1>1, <1>3, <1>4, RoutesAssumption DEF Stops

\* The highest number of a set of stops is there, and none is above it.
LEMMA HighestIsHighest ==
  ASSUME RoutesTypeOK, NEW S \in SUBSET Stops
  PROVE  /\ HighestOf(S) \in 0..MaxSequence
         /\ \A s \in S : stop[s].sequence <= HighestOf(S)
<1> DEFINE T == {n \in Nat : \A s \in S : stop[s].sequence <= n}
           IsHighest(n) == /\ \A s \in S : stop[s].sequence <= n
                           /\ n = 0 \/ \E s \in S : stop[s].sequence = n
<1>1. /\ MaxSequence \in Nat
      /\ \A s \in S : stop[s].sequence \in Nat /\ 1 <= stop[s].sequence /\ stop[s].sequence <= MaxSequence
  BY RoutesAssumption DEF RoutesTypeOK, StopRows
<1>2. PICK n \in T : \A k \in T : n <= k
  <2>1. T \subseteq Nat /\ MaxSequence \in T
    BY <1>1
  <2> HIDE DEF T
  <2> QED BY <2>1, LeastNat, Zenon
<1>3. n \in Nat /\ n <= MaxSequence /\ \A s \in S : stop[s].sequence <= n
  BY <1>1, <1>2
<1>4. n = 0 \/ \E s \in S : stop[s].sequence = n
  <2> SUFFICES ASSUME n # 0, \A s \in S : stop[s].sequence # n PROVE FALSE
    OBVIOUS
  <2>1. n - 1 \in T
    BY <1>1, <1>3
  <2> QED BY <1>2, <1>3, <2>1
<1>5. \E m \in 0..MaxSequence : IsHighest(m)
  BY <1>1, <1>3, <1>4
<1>6. HighestOf(S) = CHOOSE m \in 0..MaxSequence : IsHighest(m)
  BY DEF HighestOf
<1>7. HighestOf(S) \in 0..MaxSequence /\ IsHighest(HighestOf(S))
  <2> HIDE DEF IsHighest
  <2> QED BY <1>5, <1>6, Zenon
<1> QED BY <1>7

\* Stops with different numbers have different places, in the same order.
LEMMA PlacesDiffer ==
  ASSUME RoutesTypeOK, NEW S \in SUBSET Stops, NEW s \in S
  PROVE  /\ Place(s, S) \in 1..Cardinality(S) /\ Cardinality(S) \in Nat
         /\ \A u \in S : stop[u].sequence < stop[s].sequence => Place(u, S) < Place(s, S)
<1> DEFINE Upto(x) == {v \in S : stop[v].sequence <= stop[x].sequence}
<1>1. IsFiniteSet(S) /\ Cardinality(S) \in Nat
  <2>1. IsFiniteSet(Stops)
    BY RoutesAssumption, FS_Interval DEF Stops
  <2>2. IsFiniteSet(S)
    BY <2>1, FS_Subset
  <2> QED BY <2>2, FS_CardinalityType
<1>2. \A v \in S : stop[v].sequence \in Nat
  BY RoutesAssumption DEF RoutesTypeOK, StopRows
<1>3. \A x \in S : /\ IsFiniteSet(Upto(x)) /\ Cardinality(Upto(x)) \in Nat
                   /\ Cardinality(Upto(x)) <= Cardinality(S)
                   /\ Place(x, S) = Cardinality(Upto(x))
  <2> TAKE x \in S
  <2>1. Upto(x) \in SUBSET S
    OBVIOUS
  <2>2. IsFiniteSet(Upto(x)) /\ Cardinality(Upto(x)) <= Cardinality(S)
    <3> HIDE DEF Upto
    <3> QED BY <1>1, <2>1, FS_Subset
  <2>3. Cardinality(Upto(x)) \in Nat
    <3> HIDE DEF Upto
    <3> QED BY <2>2, FS_CardinalityType
  <2> QED BY <2>2, <2>3 DEF Place
<1>4. Cardinality(Upto(s)) # 0
  <2>1. s \in Upto(s)
    BY <1>2
  <2> HIDE DEF Upto
  <2> QED BY <1>3, <2>1, FS_EmptySet
<1>5. ASSUME NEW u \in S, stop[u].sequence < stop[s].sequence PROVE Place(u, S) < Place(s, S)
  <2>1. Upto(u) \subseteq Upto(s) /\ s \in Upto(s) /\ s \notin Upto(u)
    BY <1>2, <1>5
  <2> HIDE DEF Upto
  <2>2. Cardinality(Upto(u)) <= Cardinality(Upto(s)) /\ Cardinality(Upto(u)) # Cardinality(Upto(s))
    BY <1>3, <2>1, FS_Subset
  <2> QED BY <1>3, <2>2
<1> QED
  <2> HIDE DEF Upto
  <2> QED BY <1>1, <1>3, <1>4, <1>5

\* A set of stops with different numbers is no larger than the numbers are many.
LEMMA NumbersSuffice ==
  ASSUME RoutesTypeOK, NEW S \in SUBSET Stops,
         \A s, u \in S : stop[s].sequence = stop[u].sequence => s = u
  PROVE  Cardinality(S) <= MaxSequence
<1> DEFINE f == [s \in S |-> stop[s].sequence]
<1>1. f \in [S -> 1..MaxSequence] /\ \A s, u \in S : f[s] = f[u] => s = u
  BY DEF RoutesTypeOK, StopRows
<1> HIDE DEF f
<1>2. f \in Injection(S, 1..MaxSequence)
  BY <1>1 DEF Injection, IsInjective
<1>3. IsFiniteSet(1..MaxSequence) /\ Cardinality(1..MaxSequence) = MaxSequence
  BY RoutesAssumption, FS_Interval
<1> QED BY <1>2, <1>3, FS_Injection

-----------------------------------------------------------------------------
(* The invariant *)

\* A row that holds a stop is on a route, and only the stop that is to
\* deliver an order, or has, counts as its active one.
RowHolds(x) ==
  /\ x.is = "none" => x.replaces = 0 /\ ~ x.superseded
  /\ x.is = "here" =>
       /\ x.route \in Routes /\ x.target \in Targets
       /\ x.active # None => x.active = x.target /\ ~ x.superseded
       /\ x.target \in Orders /\ x.active = None => x.superseded

\* Every stop is on a route that exists, and the unique index holds.
RowsHold  == \A s \in Stops : RowHolds(stop[s])
OnRoutes  == \A s \in Stops : Here(s) => route[stop[s].route] # "NONE"
OneActive == \A s, u \in Stops : Here(s) /\ Here(u) /\ stop[s].active = stop[u].active => s = u \/ stop[s].active = None

\* What a visit was made in place of is closed.
Replaced == \A s \in Stops : stop[s].replaces # 0 =>
              LET u == stop[s].replaces IN stop[u].superseded \/ stop[u].is = "deleted"

\* What a request q has read stays true enough of the rows at, and of the
\* statuses rt of the routes, for what it goes on to write.
RequestHolds(q, at, rt) ==
  /\ q.op \in {"add", "rescheduleVisit", "optimize", "plan"} => q.route \in Routes
  /\ q.op \in {"add", "rescheduleVisit"} => rt[q.route] # "NONE" /\ q.target \in Targets
  /\ q.op = "rescheduleVisit" => q.target \in Sites /\ \A s \in q.stops : at[s].is = "here" => at[s].target \in Sites
  /\ q.op = "optimize" => \A s \in q.stops : at[s].is = "here" => at[s].route = q.route
  /\ q.op \in {"rescheduleVisit", "optimize", "reschedule"} => \A s \in q.stops : at[s].is # "none"
  /\ q.op \in {"proof", "reschedule"} => q.target \in Orders

RequestsHold == \A c \in Clients : RequestHolds(req[c], stop, route)

RoutesInv ==
  /\ RoutesTypeOK /\ RowsFilled /\ RowsHold /\ OnRoutes /\ OneActive
  /\ OneOrder /\ Replaced /\ RescheduledOnce /\ RequestsHold

-----------------------------------------------------------------------------
(* Steps of the rows *)

\* A stop may be deleted or closed, and its order, place or site may change.
Revised(x, y) ==
  \/ y = x
  \/ x.is = "here" /\ y.is = "deleted" /\ y.replaces = x.replaces
  \/ /\ x.is = "here" /\ y.is = "here" /\ RowHolds(y)
     /\ y.route = x.route /\ y.replaces = x.replaces
     /\ x.superseded => y.superseded
     /\ y.target = x.target \/ (x.target \in Sites /\ y.target \in Sites)
     /\ y.active \in {x.active, None}

\* The n next rows are filled.
MadeNext(n, s) == FirstFree <= s /\ s < FirstFree + n

StopsStep(n) ==
  /\ n \in Nat
  /\ n # 0 => FirstFree + n - 1 <= MaxStops
  /\ stop' \in [Stops -> StopRows]
  /\ \A s \in Stops :
       /\ MadeNext(n, s) => stop'[s].is = "here" /\ RowHolds(stop'[s])
       /\ ~ MadeNext(n, s) => Revised(stop[s], stop'[s])

\* No route goes.
RoutesStep ==
  /\ route' \in [Routes -> RouteStatuses \cup {"NONE"}]
  /\ \A r \in Routes : route[r] # "NONE" => route'[r] # "NONE"

LEMMA FilledStep ==
  ASSUME RoutesInv, NEW n, StopsStep(n)
  PROVE  RowsFilled'
<1>1. FirstFree \in Nat \ {0} /\ \A s \in Stops : stop[s].is # "none" <=> s < FirstFree
  BY FirstFreeIsNext DEF RoutesInv
<1>2. \A s \in Stops : stop'[s].is # "none" <=> s < FirstFree + n
  <2> TAKE s \in Stops
  <2>1. s \in Nat /\ n \in Nat
    BY RoutesAssumption DEF Stops, StopsStep
  <2>2. CASE MadeNext(n, s)
    BY <1>1, <2>1, <2>2 DEF StopsStep, MadeNext
  <2>3. CASE ~ MadeNext(n, s)
    <3>1. Revised(stop[s], stop'[s])
      BY <2>3 DEF StopsStep
    <3>2. stop'[s].is # "none" <=> stop[s].is # "none"
      BY <3>1 DEF Revised
    <3> QED BY <1>1, <2>1, <2>3, <3>2 DEF MadeNext
  <2> QED BY <2>2, <2>3
<1>4. FirstFree - 1 <= MaxStops
  BY FirstFreeIsNext DEF RoutesInv
<1> DEFINE m == FirstFree + n - 1
<1>5. m \in 0..MaxStops /\ \A s \in Stops : s < FirstFree + n <=> s <= m
  BY <1>1, <1>4, RoutesAssumption DEF StopsStep, Stops
<1> HIDE DEF m
<1> QED BY <1>2, <1>5 DEF RowsFilled

LEMMA RowsStep ==
  ASSUME RoutesInv, NEW n, StopsStep(n)
  PROVE  RowsHold'
<1> SUFFICES ASSUME NEW s \in Stops PROVE RowHolds(stop'[s])
  BY DEF RowsHold
<1>1. CASE MadeNext(n, s)
  BY <1>1 DEF StopsStep
<1>2. CASE ~ MadeNext(n, s)
  <2>1. Revised(stop[s], stop'[s]) /\ RowHolds(stop[s])
    BY <1>2 DEF StopsStep, RoutesInv, RowsHold
  <2> QED BY <2>1 DEF Revised, RowHolds
<1> QED BY <1>1, <1>2

LEMMA RequestStep ==
  ASSUME RoutesInv, NEW n, StopsStep(n), RoutesStep, NEW q \in Reads, RequestHolds(q, stop, route)
  PROVE  RequestHolds(q, stop', route')
<1>1. FirstFree \in Nat \ {0} /\ \A s \in Stops : stop[s].is # "none" <=> s < FirstFree
  BY FirstFreeIsNext DEF RoutesInv
<1>2. q.stops \subseteq Stops
  BY DEF Reads
<1>3. ASSUME NEW s \in q.stops, stop[s].is # "none"
      PROVE  /\ stop'[s].is # "none"
             /\ stop'[s].is = "here" => /\ stop[s].is = "here" /\ stop'[s].route = stop[s].route
                                        /\ stop[s].target \in Sites => stop'[s].target \in Sites
  <2>1. ~ MadeNext(n, s)
    BY <1>1, <1>2, <1>3, RoutesAssumption DEF MadeNext, Stops
  <2>2. Revised(stop[s], stop'[s])
    BY <1>2, <2>1 DEF StopsStep
  <2> QED BY <1>3, <2>2 DEF Revised
<1>4. q.op \in {"add", "rescheduleVisit"} => route'[q.route] # "NONE"
  BY DEF RequestHolds, RoutesStep
<1> QED BY <1>3, <1>4 DEF RequestHolds

LEMMA OnRoutesStep ==
  ASSUME RoutesInv, NEW n, StopsStep(n), RoutesStep,
         \A s \in Stops : MadeNext(n, s) => route'[stop'[s].route] # "NONE"
  PROVE  OnRoutes'
<1> SUFFICES ASSUME NEW s \in Stops, stop'[s].is = "here" PROVE route'[stop'[s].route] # "NONE"
  BY DEF OnRoutes, Here
<1>1. CASE ~ MadeNext(n, s)
  <2>1. Revised(stop[s], stop'[s]) /\ RowHolds(stop[s])
    BY <1>1 DEF StopsStep, RoutesInv, RowsHold
  <2>2. stop[s].is = "here" /\ stop'[s].route = stop[s].route /\ stop[s].route \in Routes
    BY <2>1 DEF Revised, RowHolds
  <2>3. route[stop[s].route] # "NONE"
    BY <2>2 DEF RoutesInv, OnRoutes, Here
  <2> QED BY <2>2, <2>3 DEF RoutesStep
<1> QED BY <1>1

\* A new row may have an order that no live stop and no other new row has.
LEMMA OneActiveStep ==
  ASSUME RoutesInv, NEW n, StopsStep(n),
         \A s, u \in Stops : MadeNext(n, s) /\ stop'[u].is = "here" /\ stop'[s].active = stop'[u].active
                               => s = u \/ stop'[s].active = None
  PROVE  OneActive'
<1> SUFFICES ASSUME NEW s \in Stops, NEW u \in Stops, stop'[s].is = "here", stop'[u].is = "here",
                    stop'[s].active = stop'[u].active, stop'[s].active # None
             PROVE  s = u
  BY DEF OneActive, Here
<1>1. CASE MadeNext(n, s) \/ MadeNext(n, u)
  BY <1>1
<1>2. CASE ~ MadeNext(n, s) /\ ~ MadeNext(n, u)
  <2>1. Revised(stop[s], stop'[s]) /\ Revised(stop[u], stop'[u])
    BY <1>2 DEF StopsStep
  <2>2. stop[s].is = "here" /\ stop[u].is = "here" /\ stop[s].active = stop'[s].active /\ stop[u].active = stop'[u].active
    BY <2>1 DEF Revised
  <2> QED BY <2>2 DEF RoutesInv, OneActive, Here
<1> QED BY <1>1, <1>2

\* A new row may be made in place of a stop that the step closes.
LEMMA ReplacedStep ==
  ASSUME RoutesInv, NEW n, StopsStep(n),
         \A s \in Stops : MadeNext(n, s) => \/ stop'[s].replaces = 0
                                            \/ /\ n = 1 /\ stop'[s].replaces \in Stops
                                               /\ Here(stop'[s].replaces) /\ ~ stop[stop'[s].replaces].superseded
                                               /\ stop'[stop'[s].replaces].superseded
  PROVE  Replaced' /\ RescheduledOnce'
<1>0. FirstFree \in Nat \ {0} /\ \A s \in Stops : stop[s].is # "none" <=> s < FirstFree
  BY FirstFreeIsNext DEF RoutesInv
<1>1. \A s \in Stops : stop'[s].replaces # 0 => stop'[s].replaces \in Stops
  BY RoutesAssumption DEF StopsStep, StopRows, Stops
<1>2. \A s \in Stops : stop[s].replaces # 0 => stop[s].replaces \in Stops
  BY RoutesAssumption DEF RoutesInv, RoutesTypeOK, StopRows, Stops
<1>3. \A s \in Stops : ~ MadeNext(n, s) => stop'[s].replaces = stop[s].replaces
  BY DEF StopsStep, Revised
<1>4. ASSUME NEW u \in Stops, stop[u].superseded \/ stop[u].is = "deleted", ~ MadeNext(n, u)
      PROVE  stop'[u].superseded \/ stop'[u].is = "deleted"
  <2>1. Revised(stop[u], stop'[u])
    BY <1>4 DEF StopsStep
  <2> QED BY <1>4, <2>1 DEF Revised
<1>5. ASSUME NEW u \in Stops, MadeNext(n, u) PROVE stop[u].is = "none" /\ ~ stop[u].superseded
  <2>1. stop[u].is = "none"
    BY <1>0, <1>5, RoutesAssumption DEF MadeNext, Stops, RoutesInv, RoutesTypeOK, StopRows
  <2> QED BY <2>1 DEF RoutesInv, RowsHold, RowHolds
<1>6. Replaced'
  <2> SUFFICES ASSUME NEW s \in Stops, stop'[s].replaces # 0
               PROVE  stop'[stop'[s].replaces].superseded \/ stop'[stop'[s].replaces].is = "deleted"
    BY DEF Replaced
  <2>1. CASE MadeNext(n, s)
    BY <2>1
  <2>2. CASE ~ MadeNext(n, s)
    <3> DEFINE u == stop[s].replaces
    <3>1. stop'[s].replaces = u /\ u # 0 /\ u \in Stops
      BY <1>2, <1>3, <2>2
    <3>2. stop[u].superseded \/ stop[u].is = "deleted"
      BY <3>1 DEF RoutesInv, Replaced
    <3> HIDE DEF u
    <3> QED BY <1>4, <1>5, <3>1, <3>2
  <2> QED BY <2>1, <2>2
<1>7. ASSUME NEW s \in Stops, NEW u \in Stops, s # u, stop'[s].replaces # 0,
             ~ MadeNext(n, u), stop'[s].replaces = stop'[u].replaces
      PROVE  FALSE
  <2> DEFINE v == stop'[u].replaces
  <2>1. stop[u].replaces = v /\ v \in Stops /\ v # 0
    BY <1>1, <1>3, <1>7
  <2>2. stop[v].superseded \/ stop[v].is = "deleted"
    BY <2>1 DEF RoutesInv, Replaced
  <2>3. stop'[s].replaces = v
    BY <1>7
  <2> HIDE DEF v
  <2>4. CASE MadeNext(n, s)
    BY <2>1, <2>2, <2>3, <2>4 DEF Here
  <2>5. CASE ~ MadeNext(n, s)
    BY <1>3, <1>7, <2>1, <2>3, <2>5 DEF RoutesInv, RescheduledOnce
  <2> QED BY <2>4, <2>5
<1>8. ASSUME NEW s \in Stops, NEW u \in Stops, s # u, MadeNext(n, s), MadeNext(n, u), stop'[s].replaces # 0
      PROVE  FALSE
  <2>1. n = 1
    BY <1>8
  <2>2. s \in Nat /\ u \in Nat /\ FirstFree \in Nat
    BY <1>0, RoutesAssumption DEF Stops
  <2> QED BY <1>8, <2>1, <2>2 DEF MadeNext
<1>9. RescheduledOnce'
  <2> SUFFICES ASSUME NEW s \in Stops, NEW u \in Stops, s # u, stop'[s].replaces # 0,
                      stop'[s].replaces = stop'[u].replaces
               PROVE  FALSE
    BY DEF RescheduledOnce
  <2> QED BY <1>7, <1>8
<1> QED BY <1>6, <1>9

\* The steps that keep everything but the numbers and the requests.
LEMMA RowsKept ==
  ASSUME RoutesInv, NEW n, StopsStep(n), RoutesStep,
         \A s \in Stops : MadeNext(n, s) => route'[stop'[s].route] # "NONE",
         \A s, u \in Stops : MadeNext(n, s) /\ stop'[u].is = "here" /\ stop'[s].active = stop'[u].active
                               => s = u \/ stop'[s].active = None,
         \A s \in Stops : MadeNext(n, s) => \/ stop'[s].replaces = 0
                                            \/ /\ n = 1 /\ stop'[s].replaces \in Stops
                                               /\ Here(stop'[s].replaces) /\ ~ stop[stop'[s].replaces].superseded
                                               /\ stop'[stop'[s].replaces].superseded
  PROVE  RowsFilled' /\ RowsHold' /\ OnRoutes' /\ OneActive' /\ Replaced' /\ RescheduledOnce'
BY FilledStep, RowsStep, OnRoutesStep, OneActiveStep, ReplacedStep

\* A step that makes no row.
LEMMA NothingMade ==
  ASSUME RoutesInv, RoutesStep, stop' \in [Stops -> StopRows],
         \A s \in Stops : Revised(stop[s], stop'[s])
  PROVE  /\ StopsStep(0)
         /\ RowsFilled' /\ RowsHold' /\ OnRoutes' /\ OneActive' /\ Replaced' /\ RescheduledOnce'
<1>1. FirstFree \in Nat \ {0}
  BY FirstFreeIsNext DEF RoutesInv
<1>2. \A s \in Stops : ~ MadeNext(0, s)
  BY <1>1, RoutesAssumption DEF MadeNext, Stops
<1>3. StopsStep(0)
  BY <1>2 DEF StopsStep
<1> QED BY <1>2, <1>3, RowsKept

\* Every client's request is as it was, only told of a change, or new.
SameReading(p, q) == p.op = q.op /\ p.route = q.route /\ p.target = q.target /\ p.stops = q.stops

RequestsStep ==
  /\ req' \in [Clients -> Reads]
  /\ \A e \in Clients : SameReading(req[e], req'[e]) \/ RequestHolds(req'[e], stop', route')

LEMMA RequestsKept ==
  ASSUME RoutesInv, NEW n, StopsStep(n), RoutesStep, RequestsStep
  PROVE  RequestsHold'
<1> SUFFICES ASSUME NEW e \in Clients PROVE RequestHolds(req'[e], stop', route')
  BY DEF RequestsHold
<1>1. req[e] \in Reads /\ RequestHolds(req[e], stop, route)
  BY DEF RoutesInv, RoutesTypeOK, RequestsHold
<1>2. RequestHolds(req[e], stop', route')
  BY <1>1, RequestStep
<1>3. CASE SameReading(req[e], req'[e])
  BY <1>2, <1>3 DEF RequestHolds, SameReading
<1> QED BY <1>2, <1>3 DEF RequestsStep, SameReading

LEMMA OneRequest ==
  ASSUME RoutesInv, NEW c \in Clients, NEW q \in Reads, req' = [req EXCEPT ![c] = q],
         RequestHolds(q, stop', route')
  PROVE  RequestsStep
<1>1. req \in [Clients -> Reads]
  BY DEF RoutesInv, RoutesTypeOK
<1>2. \A e \in Clients : req'[e] = IF e = c THEN q ELSE req[e]
  BY <1>1
<1>3. req' \in [Clients -> Reads]
  BY <1>1
<1> QED BY <1>2, <1>3 DEF RequestsStep, SameReading

\* A request without anything to write later.
LEMMA RequestEnds ==
  ASSUME RoutesInv, NEW c \in Clients, NEW q \in Reads, req' = [req EXCEPT ![c] = q],
         q.op \in {"idle", "history", "thenAdd", "remove"}
  PROVE  RequestsStep
<1>1. RequestHolds(q, stop', route')
  BY DEF RequestHolds
<1> QED BY <1>1, OneRequest

LEMMA IdleIsRead == Idle \in Reads /\ Idle.op = "idle"
BY RoutesAssumption DEF Idle, Reads, Ops

LEMMA RecordingIsRead ==
  ASSUME NEW R \in SUBSET Routes
  PROVE  Recording(R) \in Reads /\ Recording(R).op = "history"
BY IdleIsRead DEF Recording, Idle, Reads, Ops

LEMMA RoutesStay ==
  ASSUME RoutesInv, UNCHANGED route
  PROVE  RoutesStep
BY DEF RoutesInv, RoutesTypeOK, RoutesStep

\* Steps that leave the stops alone.
LEMMA StopsStay ==
  ASSUME RoutesInv, RoutesStep, UNCHANGED stop, RequestsStep,
         order' \in [Orders -> [status : OrderStatuses, signed : BOOLEAN]]
  PROVE  RoutesInv'
<1>1. stop' \in [Stops -> StopRows] /\ \A s \in Stops : Revised(stop[s], stop'[s])
  BY DEF RoutesInv, RoutesTypeOK, Revised
<1>2. /\ StopsStep(0)
      /\ RowsFilled' /\ RowsHold' /\ OnRoutes' /\ OneActive' /\ Replaced' /\ RescheduledOnce'
  BY <1>1, NothingMade
<1>3. RequestsHold'
  BY <1>2, RequestsKept
<1>4. OneOrder'
  BY DEF RoutesInv, OneOrder, Here
<1>5. RoutesTypeOK'
  BY <1>1 DEF RoutesTypeOK, RoutesStep, RequestsStep
<1> QED BY <1>2, <1>3, <1>4, <1>5 DEF RoutesInv

LEMMA OrdersStay ==
  ASSUME RoutesInv, UNCHANGED order
  PROVE  order' \in [Orders -> [status : OrderStatuses, signed : BOOLEAN]]
BY DEF RoutesInv, RoutesTypeOK

LEMMA CreateRouteKeeps ==
  ASSUME RoutesInv, NEW r \in Routes, CreateRoute(r)
  PROVE  RoutesInv'
<1>1. RoutesStep
  BY DEF CreateRoute, RoutesInv, RoutesTypeOK, RoutesStep, RouteStatuses
<1>2. RequestsStep
  BY DEF CreateRoute, RoutesInv, RoutesTypeOK, RequestsStep, SameReading
<1> QED BY <1>1, <1>2, StopsStay, OrdersStay DEF CreateRoute

LEMMA UpdateRouteKeeps ==
  ASSUME RoutesInv, NEW r \in Routes, NEW to \in Changes, UpdateRoute(r, to)
  PROVE  RoutesInv'
<1>1. to \in RouteStatuses
  BY RoutesAssumption
<1>2. RoutesStep
  BY <1>1 DEF UpdateRoute, RoutesInv, RoutesTypeOK, RoutesStep, RouteStatuses
<1>3. RequestsStep
  BY DEF UpdateRoute, RoutesInv, RoutesTypeOK, RequestsStep, SameReading
<1> QED BY <1>2, <1>3, StopsStay, OrdersStay DEF UpdateRoute

LEMMA BecomesKeeps ==
  ASSUME RoutesInv, NEW d \in Orders, NEW from, NEW to \in OrderStatuses, Becomes(d, from, to),
         UNCHANGED <<route, stop, req>>
  PROVE  RoutesInv'
<1>1. RequestsStep
  BY DEF RoutesInv, RoutesTypeOK, RequestsStep, SameReading
<1>2. order' \in [Orders -> [status : OrderStatuses, signed : BOOLEAN]]
  BY DEF RoutesInv, RoutesTypeOK, Becomes
<1> QED BY <1>1, <1>2, StopsStay, RoutesStay

\* Those of the requests that only read, or only change delivery orders.
LEMMA BumpKeeps ==
  ASSUME RoutesInv, NEW c \in Clients, Bump(c)
  PROVE  RoutesInv'
<1>1. req \in [Clients -> Reads] /\ req[c].op = "history"
  BY DEF RoutesInv, RoutesTypeOK, Bump, Continues
<1> DEFINE q == IF req[c].route = None THEN Idle
                ELSE [Idle EXCEPT !.op = "thenAdd", !.route = req[c].route, !.target = req[c].target]
           told(e) == [req[e] EXCEPT !.stale = req[e].op = "plan" /\ (req[e].stale \/ req[e].routes \cap req[c].routes # {})]
<1>2. q \in Reads /\ q.op \in {"idle", "thenAdd"}
  <2>1. req[c].route \in Routes \cup {None} /\ req[c].target \in Targets \cup {None}
    BY <1>1 DEF Reads
  <2> QED BY <2>1, IdleIsRead DEF Reads, Idle, Ops
<1>3. \A e \in Clients : told(e) \in Reads /\ SameReading(req[e], told(e))
  BY <1>1 DEF Reads, SameReading
<1>4. req' = [e \in Clients |-> IF e = c THEN q ELSE told(e)]
  BY DEF Bump
<1> HIDE DEF q, told
<1>5. RequestHolds(q, stop', route')
  BY <1>2 DEF RequestHolds
<1>6. req' \in [Clients -> Reads] /\ \A e \in Clients : req'[e] = IF e = c THEN q ELSE told(e)
  BY <1>2, <1>3, <1>4
<1>7. RequestsStep
  BY <1>3, <1>5, <1>6 DEF RequestsStep
<1> QED BY <1>7, StopsStay, RoutesStay, OrdersStay DEF Bump

LEMMA FailsKeeps ==
  ASSUME RoutesInv, NEW c \in Clients, Fails(c)
  PROVE  RoutesInv'
<1>1. RequestsStep
  BY IdleIsRead, RequestEnds DEF Fails, Ends
<1> QED BY <1>1, StopsStay, RoutesStay, OrdersStay DEF Fails

\* What every request that only reads has in common.
LEMMA ReadKeeps ==
  ASSUME RoutesInv, NEW c \in Clients, NEW q \in Reads, req' = [req EXCEPT ![c] = q],
         RequestHolds(q, stop, route), UNCHANGED <<route, stop, order>>
  PROVE  RoutesInv'
<1>1. RequestHolds(q, stop', route')
  OBVIOUS
<1>2. RequestsStep
  BY <1>1, OneRequest
<1> QED BY <1>2, StopsStay, RoutesStay, OrdersStay

LEMMA AddReadKeeps ==
  ASSUME RoutesInv, NEW c \in Clients, NEW r \in Routes, NEW x \in Targets, AddRead(c, r, x)
  PROVE  RoutesInv'
<1>1. UNCHANGED <<route, stop, order>> /\ route[r] # "NONE"
  BY DEF AddRead, Open
<1>2. CASE Opens(c, [Idle EXCEPT !.op = "add", !.route = r, !.target = x])
  <2> DEFINE q == [Idle EXCEPT !.op = "add", !.route = r, !.target = x]
  <2>1. q \in Reads /\ q.op = "add" /\ q.route = r /\ q.target = x
    BY IdleIsRead DEF Idle, Reads, Ops
  <2>2. req' = [req EXCEPT ![c] = q]
    BY <1>2 DEF Opens
  <2> HIDE DEF q
  <2>3. RequestHolds(q, stop, route)
    BY <1>1, <2>1 DEF RequestHolds
  <2> QED BY <1>1, <2>1, <2>2, <2>3, ReadKeeps
<1>3. CASE Continues(c, "thenAdd") /\ req[c].route = r /\ req[c].target = x /\ req' = [req EXCEPT ![c].op = "add"]
  <2> DEFINE q == [req[c] EXCEPT !.op = "add"]
  <2>1. req \in [Clients -> Reads]
    BY DEF RoutesInv, RoutesTypeOK
  <2>2. q \in Reads /\ q.op = "add" /\ q.route = r /\ q.target = x
    BY <1>3, <2>1 DEF Reads, Ops
  <2>3. req' = [req EXCEPT ![c] = q]
    BY <1>3
  <2> HIDE DEF q
  <2>4. RequestHolds(q, stop, route)
    BY <1>1, <2>2 DEF RequestHolds
  <2> QED BY <1>1, <2>2, <2>3, <2>4, ReadKeeps
<1> QED BY <1>2, <1>3 DEF AddRead

LEMMA RemoveReadKeeps ==
  ASSUME RoutesInv, NEW c \in Clients, NEW s \in Stops, RemoveRead(c, s)
  PROVE  RoutesInv'
<1> DEFINE q == [Idle EXCEPT !.op = "remove", !.stops = {s}]
<1>1. q \in Reads /\ q.op = "remove"
  BY IdleIsRead DEF Idle, Reads, Ops
<1>2. req' = [req EXCEPT ![c] = q] /\ UNCHANGED <<route, stop, order>>
  BY DEF RemoveRead, Opens
<1> HIDE DEF q
<1>3. RequestHolds(q, stop, route)
  BY <1>1 DEF RequestHolds
<1> QED BY <1>1, <1>2, <1>3, ReadKeeps

LEMMA OptimizeReadKeeps ==
  ASSUME RoutesInv, NEW c \in Clients, NEW r \in Routes, OptimizeRead(c, r)
  PROVE  RoutesInv'
<1> DEFINE S == {s \in On(r) : Pending(s)}
           h == HighestOf({s \in On(r) : ~ Pending(s)})
           q == [Idle EXCEPT !.op = "optimize", !.route = r, !.stops = S, !.seen = h]
<1>1. S \in SUBSET Stops /\ \A s \in S : stop[s].is = "here" /\ stop[s].route = r
  BY DEF On, Here
<1>2. {s \in On(r) : ~ Pending(s)} \in SUBSET Stops
  BY DEF On
<1>3. h \in 0..MaxSequence
  BY <1>2, HighestIsHighest DEF RoutesInv
<1>4. req' = [req EXCEPT ![c] = q] /\ UNCHANGED <<route, stop, order>>
  BY DEF OptimizeRead, Opens
<1> HIDE DEF S, h
<1>5. q \in Reads /\ q.op = "optimize" /\ q.route = r /\ q.stops = S
  BY <1>1, <1>3, IdleIsRead DEF Idle, Reads, Ops
<1> HIDE DEF q
<1>6. RequestHolds(q, stop, route)
  BY <1>1, <1>5 DEF RequestHolds
<1> QED BY <1>4, <1>5, <1>6, ReadKeeps

LEMMA RescheduleReadKeeps ==
  ASSUME RoutesInv, NEW c \in Clients, NEW s \in Stops, NEW r \in Routes, RescheduleRead(c, s, r)
  PROVE  RoutesInv'
<1> DEFINE q == [Idle EXCEPT !.op = "rescheduleVisit", !.route = r, !.target = stop[s].target, !.stops = {s}]
<1>1. stop[s].is = "here" /\ stop[s].target \in Sites /\ route[r] # "NONE"
  BY DEF RescheduleRead, Here, Open
<1>2. req' = [req EXCEPT ![c] = q] /\ UNCHANGED <<route, stop, order>>
  BY DEF RescheduleRead, Opens
<1>3. q \in Reads /\ q.op = "rescheduleVisit" /\ q.route = r /\ q.target = stop[s].target /\ q.stops = {s}
  BY <1>1, IdleIsRead DEF Idle, Reads, Ops, Targets
<1> HIDE DEF q
<1>4. RequestHolds(q, stop, route)
  BY <1>1, <1>3 DEF RequestHolds, Targets
<1> QED BY <1>2, <1>3, <1>4, ReadKeeps

LEMMA OrderProofReadKeeps ==
  ASSUME RoutesInv, NEW c \in Clients, NEW d \in Orders, OrderProofRead(c, d)
  PROVE  RoutesInv'
<1> DEFINE q == [Idle EXCEPT !.op = "proof", !.target = d]
<1>1. q \in Reads /\ q.op = "proof" /\ q.target = d
  BY IdleIsRead DEF Idle, Reads, Ops, Targets
<1>2. req' = [req EXCEPT ![c] = q] /\ UNCHANGED <<route, stop, order>>
  BY DEF OrderProofRead, Opens
<1> HIDE DEF q
<1>3. RequestHolds(q, stop, route)
  BY <1>1 DEF RequestHolds
<1> QED BY <1>1, <1>2, <1>3, ReadKeeps

LEMMA OrderProofWriteKeeps ==
  ASSUME RoutesInv, NEW c \in Clients, OrderProofWrite(c)
  PROVE  RoutesInv'
<1>1. RequestsStep
  BY IdleIsRead, RequestEnds DEF OrderProofWrite, Ends
<1>2. req[c].target \in Orders
  BY DEF RoutesInv, RequestsHold, RequestHolds, OrderProofWrite, Continues
<1>3. order' \in [Orders -> [status : OrderStatuses, signed : BOOLEAN]]
  BY <1>2 DEF RoutesInv, RoutesTypeOK, OrderProofWrite
<1> QED BY <1>1, <1>3, StopsStay, RoutesStay DEF OrderProofWrite

LEMMA OrderRescheduleReadKeeps ==
  ASSUME RoutesInv, NEW c \in Clients, NEW d \in Orders, NEW r \in Routes \cup {None}, OrderRescheduleRead(c, d, r)
  PROVE  RoutesInv'
<1> DEFINE S == Live(d)
           q == [Idle EXCEPT !.op = "reschedule", !.route = r, !.target = d, !.stops = S]
<1>1. S \in SUBSET Stops /\ \A s \in S : stop[s].is = "here"
  BY DEF Live, Here
<1>2. req' = [req EXCEPT ![c] = q] /\ UNCHANGED <<route, stop, order>>
  BY DEF OrderRescheduleRead, Opens
<1> HIDE DEF S
<1>3. q \in Reads /\ q.op = "reschedule" /\ q.target = d /\ q.stops = S
  BY <1>1, IdleIsRead DEF Idle, Reads, Ops, Targets
<1> HIDE DEF q
<1>4. RequestHolds(q, stop, route)
  BY <1>1, <1>3 DEF RequestHolds
<1> QED BY <1>2, <1>3, <1>4, ReadKeeps

LEMMA PlanReadKeeps ==
  ASSUME RoutesInv, NEW c \in Clients, NEW r \in Routes, NEW D \in SUBSET Orders, PlanRead(c, r, D)
  PROVE  RoutesInv'
<1> DEFINE affected == Affected(r, D)
           taken    == {s \in Stops : Here(s) /\ stop[s].active # None /\ stop[s].route \in affected
                                     /\ (stop[s].active \in D \/ stop[s].route = r)}
           off      == D \cup {stop[s].active : s \in taken}
           emptied  == {q \in affected : On(q) \subseteq taken}
           q        == [Idle EXCEPT !.op = "plan", !.route = r, !.orders = D, !.takenOff = off,
                                    !.routes = affected, !.emptied = emptied]
<1>1. affected \in SUBSET Routes
  BY DEF Affected, Live, RoutesInv, RowsHold, RowHolds, Here
<1>2. off \in SUBSET Orders
  BY DEF RoutesInv, RoutesTypeOK, StopRows
<1>3. emptied \in SUBSET Routes
  BY <1>1
<1>4. req' = [req EXCEPT ![c] = q] /\ UNCHANGED <<route, stop, order>>
  BY DEF PlanRead, Opens
<1> HIDE DEF affected, off, emptied
<1>5. q \in Reads /\ q.op = "plan" /\ q.route = r
  BY <1>1, <1>2, <1>3, IdleIsRead DEF Idle, Reads, Ops
<1> HIDE DEF q
<1>6. RequestHolds(q, stop, route)
  BY <1>5 DEF RequestHolds
<1> QED BY <1>4, <1>5, <1>6, ReadKeeps

-----------------------------------------------------------------------------
(* Steps that change rows and make none *)

LEMMA RowsRevised ==
  ASSUME RoutesInv, RoutesStep, stop' \in [Stops -> StopRows], \A s \in Stops : Revised(stop[s], stop'[s]),
         OneOrder', RequestsStep, order' \in [Orders -> [status : OrderStatuses, signed : BOOLEAN]]
  PROVE  RoutesInv'
<1>1. /\ StopsStep(0)
      /\ RowsFilled' /\ RowsHold' /\ OnRoutes' /\ OneActive' /\ Replaced' /\ RescheduledOnce'
  BY NothingMade
<1>2. RequestsHold'
  BY <1>1, RequestsKept
<1>3. RoutesTypeOK'
  BY DEF RoutesTypeOK, RoutesStep, RequestsStep
<1> QED BY <1>1, <1>2, <1>3 DEF RoutesInv

LEMMA OneRowRevised ==
  ASSUME RoutesInv, UNCHANGED route, NEW s \in Stops, NEW y \in StopRows, stop' = [stop EXCEPT ![s] = y],
         Revised(stop[s], y), y.is = "here" => y.sequence = stop[s].sequence,
         RequestsStep, order' \in [Orders -> [status : OrderStatuses, signed : BOOLEAN]]
  PROVE  RoutesInv'
<1>1. \A u \in Stops : stop'[u] = IF u = s THEN y ELSE stop[u]
  BY DEF RoutesInv, RoutesTypeOK
<1>2. stop' \in [Stops -> StopRows]
  BY DEF RoutesInv, RoutesTypeOK
<1>3. \A u \in Stops : Revised(stop[u], stop'[u])
  BY <1>1 DEF Revised
<1>4. \A u \in Stops : stop'[u].is = "here" =>
        stop[u].is = "here" /\ stop'[u].route = stop[u].route /\ stop'[u].sequence = stop[u].sequence
  BY <1>1, <1>3 DEF Revised
<1>5. OneOrder'
  BY <1>4 DEF RoutesInv, OneOrder, Here
<1> QED BY <1>2, <1>3, <1>5, RoutesStay, RowsRevised

\* A visit to a site keeps its place while its proof, its failure or its
\* address is written.
LEMMA VisitRevised ==
  ASSUME RoutesInv, NEW s \in Stops, NEW y \in StopRows, stop' = [stop EXCEPT ![s] = y],
         Unresolved(s), UNCHANGED <<route, order, req>>,
         y.is = stop[s].is, y.route = stop[s].route, y.target \in Sites, y.active = stop[s].active,
         y.sequence = stop[s].sequence, y.superseded = stop[s].superseded, y.replaces = stop[s].replaces
  PROVE  RoutesInv'
<1>1. RowHolds(stop[s]) /\ stop[s].is = "here" /\ stop[s].target \in Sites
  BY DEF RoutesInv, RowsHold, Unresolved, Here
<1>2. stop[s].active = None
  BY <1>1, RoutesAssumption DEF RowHolds, RoutesInv, RoutesTypeOK, StopRows
<1>3. Revised(stop[s], y)
  BY <1>1, <1>2, RoutesAssumption DEF Revised, RowHolds, Targets
<1>4. RequestsStep
  BY DEF RoutesInv, RoutesTypeOK, RequestsStep, SameReading
<1> QED BY <1>3, <1>4, OneRowRevised, OrdersStay

LEMMA SiteProofKeeps ==
  ASSUME RoutesInv, NEW s \in Stops, SiteProof(s)
  PROVE  RoutesInv'
<1> DEFINE y == [stop[s] EXCEPT !.signed = TRUE]
<1>1. stop[s] \in StopRows
  BY DEF RoutesInv, RoutesTypeOK
<1>2. /\ y \in StopRows /\ y.is = stop[s].is /\ y.route = stop[s].route /\ y.target = stop[s].target
      /\ y.active = stop[s].active /\ y.sequence = stop[s].sequence /\ y.superseded = stop[s].superseded
      /\ y.replaces = stop[s].replaces
  BY <1>1 DEF StopRows
<1>3. stop' = [stop EXCEPT ![s] = y] /\ Unresolved(s) /\ stop[s].target \in Sites /\ UNCHANGED <<route, order, req>>
  BY DEF SiteProof, Unresolved
<1> HIDE DEF y
<1> QED BY <1>2, <1>3, VisitRevised

LEMMA SiteFailureKeeps ==
  ASSUME RoutesInv, NEW s \in Stops, SiteFailure(s)
  PROVE  RoutesInv'
<1> DEFINE y == [stop[s] EXCEPT !.failed = TRUE]
<1>1. stop[s] \in StopRows
  BY DEF RoutesInv, RoutesTypeOK
<1>2. /\ y \in StopRows /\ y.is = stop[s].is /\ y.route = stop[s].route /\ y.target = stop[s].target
      /\ y.active = stop[s].active /\ y.sequence = stop[s].sequence /\ y.superseded = stop[s].superseded
      /\ y.replaces = stop[s].replaces
  BY <1>1 DEF StopRows
<1>3. stop' = [stop EXCEPT ![s] = y] /\ Unresolved(s) /\ stop[s].target \in Sites /\ UNCHANGED <<route, order, req>>
  BY DEF SiteFailure, Unresolved
<1> HIDE DEF y
<1> QED BY <1>2, <1>3, VisitRevised

LEMMA ChangeSiteKeeps ==
  ASSUME RoutesInv, NEW s \in Stops, NEW x \in Sites, ChangeSite(s, x)
  PROVE  RoutesInv'
<1> DEFINE y == [stop[s] EXCEPT !.target = x]
<1>1. stop[s] \in StopRows
  BY DEF RoutesInv, RoutesTypeOK
<1>2. /\ y \in StopRows /\ y.is = stop[s].is /\ y.route = stop[s].route /\ y.target = x
      /\ y.active = stop[s].active /\ y.sequence = stop[s].sequence /\ y.superseded = stop[s].superseded
      /\ y.replaces = stop[s].replaces
  BY <1>1 DEF StopRows, Targets
<1>3. stop' = [stop EXCEPT ![s] = y] /\ Unresolved(s) /\ UNCHANGED <<route, order, req>>
  BY DEF ChangeSite
<1> HIDE DEF y
<1> QED BY <1>2, <1>3, VisitRevised

LEMMA DeletedIsRow ==
  ASSUME RoutesInv, NEW s \in Stops, Here(s)
  PROVE  Deleted(s) \in StopRows /\ Deleted(s).is = "deleted" /\ Revised(stop[s], Deleted(s))
<1>1. stop[s] \in StopRows /\ stop[s].is = "here"
  BY DEF RoutesInv, RoutesTypeOK, Here
<1>2. NoStop \in StopRows
  BY RoutesAssumption DEF NoStop, StopRows
<1>3. Deleted(s) \in StopRows /\ Deleted(s).is = "deleted" /\ Deleted(s).replaces = stop[s].replaces
  BY <1>1, <1>2 DEF Deleted, NoStop, StopRows
<1> QED BY <1>1, <1>3 DEF Revised

LEMMA RemoveCommitKeeps ==
  ASSUME RoutesInv, NEW c \in Clients, RemoveCommit(c)
  PROVE  RoutesInv'
<1>1. PICK s \in req[c].stops : /\ Here(s)
                                /\ stop' = [stop EXCEPT ![s] = Deleted(s)]
                                /\ req' = [req EXCEPT ![c] = Recording({stop[s].route})]
  BY DEF RemoveCommit
<1>2. s \in Stops
  BY DEF RoutesInv, RoutesTypeOK, Reads
<1>3. {stop[s].route} \in SUBSET Routes
  BY <1>1, <1>2 DEF RoutesInv, RowsHold, RowHolds, Here
<1>4. Recording({stop[s].route}) \in Reads /\ Recording({stop[s].route}).op = "history"
  BY <1>3, RecordingIsRead
<1>5. RequestsStep
  BY <1>1, <1>4, RequestEnds
<1>6. Deleted(s) \in StopRows /\ Deleted(s).is = "deleted" /\ Revised(stop[s], Deleted(s))
  BY <1>1, <1>2, DeletedIsRow
<1> QED BY <1>1, <1>2, <1>5, <1>6, OneRowRevised, OrdersStay DEF RemoveCommit

LEMMA ReorderStopsKeeps ==
  ASSUME RoutesInv, NEW c \in Clients, NEW r \in Routes, ReorderStops(c, r)
  PROVE  RoutesInv'
<1>1. Recording({r}) \in Reads /\ Recording({r}).op = "history"
  BY RecordingIsRead
<1>2. RequestsStep
  BY <1>1, RequestEnds DEF ReorderStops, Opens
<1>3. PICK f \in [On(r) -> 1..MaxSequence] :
        /\ \A s, u \in On(r) : f[s] = f[u] => s = u
        /\ stop' = [s \in Stops |-> IF s \in On(r) THEN [stop[s] EXCEPT !.sequence = f[s]] ELSE stop[s]]
  BY DEF ReorderStops
<1> DEFINE row(s) == [stop[s] EXCEPT !.sequence = f[s]]
<1>4. \A s \in Stops : stop[s] \in StopRows /\ RowHolds(stop[s])
  BY DEF RoutesInv, RoutesTypeOK, RowsHold
<1>5. \A s \in On(r) : s \in Stops /\ stop[s].is = "here" /\ stop[s].route = r /\ f[s] \in 1..MaxSequence
  BY DEF On, Here
<1>6. \A s \in On(r) :
        /\ row(s) \in StopRows /\ row(s).is = "here" /\ row(s).route = stop[s].route
        /\ row(s).target = stop[s].target /\ row(s).active = stop[s].active
        /\ row(s).sequence = f[s] /\ row(s).superseded = stop[s].superseded
        /\ row(s).replaces = stop[s].replaces
  BY <1>4, <1>5 DEF StopRows
<1>7. stop' = [s \in Stops |-> IF s \in On(r) THEN row(s) ELSE stop[s]]
  BY <1>3
<1> HIDE DEF row
<1>8. \A s \in On(r) : Revised(stop[s], row(s))
  BY <1>4, <1>5, <1>6 DEF Revised, RowHolds
<1>9. \A s \in Stops : stop'[s] = IF s \in On(r) THEN row(s) ELSE stop[s]
  BY <1>7
<1>10. stop' \in [Stops -> StopRows]
  BY <1>4, <1>6, <1>7
<1>11. \A s \in Stops : Revised(stop[s], stop'[s])
  BY <1>8, <1>9 DEF Revised
<1>12. \A s \in Stops : /\ stop'[s].is = stop[s].is /\ stop'[s].route = stop[s].route
                        /\ stop'[s].sequence = IF s \in On(r) THEN f[s] ELSE stop[s].sequence
  BY <1>5, <1>6, <1>9
<1>13. OneOrder'
  <2> SUFFICES ASSUME NEW s \in Stops, NEW u \in Stops, stop'[s].is = "here", stop'[u].is = "here",
                      stop'[s].route = stop'[u].route, stop'[s].sequence = stop'[u].sequence
               PROVE  s = u
    BY DEF OneOrder, Here
  <2>1. stop[s].is = "here" /\ stop[u].is = "here" /\ stop[s].route = stop[u].route
    BY <1>12
  <2>2. CASE stop[s].route = r
    <3>1. s \in On(r) /\ u \in On(r)
      BY <2>1, <2>2 DEF On, Here
    <3>2. f[s] = f[u]
      BY <1>12, <3>1
    <3> QED BY <1>3, <3>1, <3>2
  <2>3. CASE stop[s].route # r
    <3>1. s \notin On(r) /\ u \notin On(r)
      BY <2>1, <2>3 DEF On
    <3>2. stop[s].sequence = stop[u].sequence
      BY <1>12, <3>1
    <3> QED BY <2>1, <3>2 DEF RoutesInv, OneOrder, Here
  <2> QED BY <2>2, <2>3
<1> QED BY <1>2, <1>10, <1>11, <1>13, RowsRevised, RoutesStay, OrdersStay DEF ReorderStops

LEMMA CancelOrderKeeps ==
  ASSUME RoutesInv, NEW c \in Clients, NEW d \in Orders, CancelOrder(c, d)
  PROVE  RoutesInv'
<1> DEFINE R == {stop[s].route : s \in Live(d)}
<1>1. \A s \in Live(d) : s \in Stops /\ Here(s)
  BY DEF Live
<1>2. R \in SUBSET Routes
  BY <1>1 DEF RoutesInv, RowsHold, RowHolds, Here
<1>3. Recording(R) \in Reads /\ Recording(R).op = "history"
  BY <1>2, RecordingIsRead
<1>4. req' = [req EXCEPT ![c] = Recording(R)]
  BY DEF CancelOrder, Opens
<1>5. RequestsStep
  BY <1>3, <1>4, RequestEnds
<1>6. stop' = [s \in Stops |-> IF s \in Live(d) THEN Deleted(s) ELSE stop[s]]
  BY DEF CancelOrder
<1>7. \A s \in Stops : stop'[s] \in StopRows /\ Revised(stop[s], stop'[s])
                       /\ (stop'[s].is = "here" => stop'[s] = stop[s])
  <2> TAKE s \in Stops
  <2>1. CASE s \in Live(d)
    <3>1. stop'[s] = Deleted(s)
      BY <1>6, <2>1
    <3> QED BY <1>1, <2>1, <3>1, DeletedIsRow
  <2>2. CASE s \notin Live(d)
    <3>1. stop'[s] = stop[s]
      BY <1>6, <2>2
    <3> QED BY <3>1 DEF RoutesInv, RoutesTypeOK, Revised
  <2> QED BY <2>1, <2>2
<1>8. stop' \in [Stops -> StopRows]
  BY <1>6, <1>7
<1>9. OneOrder'
  BY <1>7 DEF RoutesInv, OneOrder, Here
<1>10. order' \in [Orders -> [status : OrderStatuses, signed : BOOLEAN]]
  BY DEF CancelOrder, RoutesInv, RoutesTypeOK, OrderStatuses
<1> QED BY <1>5, <1>7, <1>8, <1>9, <1>10, RowsRevised, RoutesStay DEF CancelOrder

LEMMA StopsAreFinite ==
  ASSUME NEW S \in SUBSET Stops
  PROVE  IsFiniteSet(S) /\ Cardinality(S) \in Nat
<1>1. IsFiniteSet(Stops)
  BY RoutesAssumption, FS_Interval DEF Stops
<1>2. IsFiniteSet(S)
  BY <1>1, FS_Subset
<1> QED BY <1>2, FS_CardinalityType

\* What is placed anew takes numbers that nothing else on the route has.
LEMMA OptimizeCommitKeeps ==
  ASSUME RoutesInv, NEW c \in Clients, NEW f \in [Stops -> 1..MaxSequence], OptimizeCommit(c, f)
  PROVE  RoutesInv'
<1> DEFINE S == req[c].stops
           n == req[c].seen
           r == req[c].route
           row(s) == [stop[s] EXCEPT !.sequence = n + f[s]]
<1>1. req[c] \in Reads /\ RequestHolds(req[c], stop, route) /\ req[c].op = "optimize"
  BY DEF RoutesInv, RoutesTypeOK, RequestsHold, OptimizeCommit, Continues
<1>2. S \in SUBSET Stops /\ n \in 0..MaxSequence /\ r \in Routes
  BY <1>1 DEF Reads, RequestHolds
<1>3. Cardinality(S) \in Nat
  BY <1>2, StopsAreFinite
<1>4. \A s \in S : stop[s].is = "here" /\ stop[s].route = r /\ f[s] \in 1..Cardinality(S)
  BY <1>1 DEF RequestHolds, OptimizeCommit, Here
<1>5. /\ n + Cardinality(S) <= MaxSequence
      /\ \A s, u \in S : f[s] = f[u] => s = u
      /\ \A u \in Stops \ S : stop[u].is = "here" /\ stop[u].route = r => \A s \in S : stop[u].sequence # n + f[s]
  BY DEF OptimizeCommit, On, Here
<1>6. stop' = [s \in Stops |-> IF s \in S THEN row(s) ELSE stop[s]]
  BY DEF OptimizeCommit
<1>7. req' = [req EXCEPT ![c] = Recording({r})] /\ UNCHANGED <<route, order>>
  BY DEF OptimizeCommit
<1> HIDE DEF S, n, r
<1>8. Recording({r}) \in Reads /\ Recording({r}).op = "history"
  BY <1>2, RecordingIsRead
<1>9. RequestsStep
  BY <1>7, <1>8, RequestEnds
<1>10. \A s \in S : n + f[s] \in 1..MaxSequence
  BY <1>2, <1>3, <1>4, <1>5, RoutesAssumption
<1>11. \A s \in Stops : stop[s] \in StopRows /\ RowHolds(stop[s])
  BY DEF RoutesInv, RoutesTypeOK, RowsHold
<1>12. \A s \in S : /\ row(s) \in StopRows /\ row(s).is = stop[s].is /\ row(s).route = stop[s].route
                    /\ row(s).target = stop[s].target /\ row(s).active = stop[s].active
                    /\ row(s).sequence = n + f[s] /\ row(s).superseded = stop[s].superseded
                    /\ row(s).replaces = stop[s].replaces
  BY <1>2, <1>10, <1>11 DEF StopRows
<1> HIDE DEF row
<1>13. \A s \in S : Revised(stop[s], row(s))
  BY <1>2, <1>4, <1>11, <1>12 DEF Revised, RowHolds
<1>14. \A s \in Stops : stop'[s] = IF s \in S THEN row(s) ELSE stop[s]
  BY <1>6
<1>15. stop' \in [Stops -> StopRows]
  BY <1>6, <1>11, <1>12
<1>16. \A s \in Stops : Revised(stop[s], stop'[s])
  BY <1>13, <1>14 DEF Revised
<1>17. \A s \in Stops : /\ stop'[s].is = stop[s].is /\ stop'[s].route = stop[s].route
                        /\ stop'[s].sequence = IF s \in S THEN n + f[s] ELSE stop[s].sequence
  BY <1>12, <1>14
<1>18. ASSUME NEW s \in Stops, NEW u \in Stops, stop'[s].is = "here", stop'[u].is = "here",
              stop'[s].route = stop'[u].route, stop'[s].sequence = stop'[u].sequence
       PROVE  s = u
  <2>1. CASE s \in S /\ u \in S
    <3>1. n + f[s] = n + f[u] /\ f[s] \in Int /\ f[u] \in Int
      BY <1>17, <1>18, <2>1, <1>4, <1>3
    <3>2. f[s] = f[u]
      BY <3>1, <1>2
    <3> QED BY <1>5, <2>1, <3>2
  <2>2. CASE s \notin S /\ u \notin S
    BY <1>17, <1>18, <2>2 DEF RoutesInv, OneOrder, Here
  <2>3. CASE s \in S /\ u \notin S
    BY <1>4, <1>5, <1>17, <1>18, <2>3
  <2>4. CASE s \notin S /\ u \in S
    BY <1>4, <1>5, <1>17, <1>18, <2>4
  <2> QED BY <2>1, <2>2, <2>3, <2>4
<1>19. OneOrder'
  BY <1>18 DEF OneOrder, Here
<1> QED BY <1>7, <1>9, <1>15, <1>16, <1>19, RowsRevised, RoutesStay, OrdersStay

LEMMA OrderRescheduleCommitKeeps ==
  ASSUME RoutesInv, NEW c \in Clients, OrderRescheduleCommit(c)
  PROVE  RoutesInv'
<1> DEFINE S == req[c].stops
           d == req[c].target
           R == {stop[s].route : s \in S}
           row(s) == [stop[s] EXCEPT !.superseded = TRUE, !.active = None]
<1>1. req[c] \in Reads /\ RequestHolds(req[c], stop, route) /\ req[c].op = "reschedule"
  BY DEF RoutesInv, RoutesTypeOK, RequestsHold, OrderRescheduleCommit, Continues
<1>2. S \in SUBSET Stops /\ d \in Orders
  BY <1>1 DEF Reads, RequestHolds
<1>3. \A s \in S : stop[s].is = "here"
  BY DEF OrderRescheduleCommit, Here
<1>4. \A s \in Stops : stop[s] \in StopRows /\ RowHolds(stop[s])
  BY DEF RoutesInv, RoutesTypeOK, RowsHold
<1>5. Following(c) \in Reads /\ Following(c).op \in {"idle", "history", "thenAdd"}
  <2>1. R \in SUBSET Routes
    BY <1>2, <1>3, <1>4 DEF RowHolds
  <2>2. Recording(R) \in Reads /\ Recording(R).op = "history"
    BY <2>1, RecordingIsRead
  <2>3. req[c].route \in Routes \cup {None} /\ d \in Targets
    BY <1>1, <1>2 DEF Reads, Targets
  <2> HIDE DEF R
  <2>4. [Recording(R) EXCEPT !.route = req[c].route, !.target = d] \in Reads
        /\ [Recording(R) EXCEPT !.route = req[c].route, !.target = d].op = "history"
    BY <2>2, <2>3 DEF Reads
  <2>5. [Idle EXCEPT !.op = "thenAdd", !.route = req[c].route, !.target = d] \in Reads
        /\ [Idle EXCEPT !.op = "thenAdd", !.route = req[c].route, !.target = d].op = "thenAdd"
    BY <2>3, IdleIsRead DEF Reads, Idle, Ops
  <2> QED BY <2>4, <2>5, IdleIsRead DEF Following, R
<1>6. req' = [req EXCEPT ![c] = Following(c)]
  BY DEF OrderRescheduleCommit
<1>7. RequestsStep
  BY <1>5, <1>6, RequestEnds
<1>8. stop' = [s \in Stops |-> IF s \in S THEN row(s) ELSE stop[s]]
  BY DEF OrderRescheduleCommit
<1>9. order' = [order EXCEPT ![d].status = "SHIPPED"] /\ UNCHANGED route
  BY DEF OrderRescheduleCommit
<1> HIDE DEF S, d, R
<1>10. \A s \in S : /\ row(s) \in StopRows /\ row(s).is = stop[s].is /\ row(s).route = stop[s].route
                    /\ row(s).target = stop[s].target /\ row(s).active = None
                    /\ row(s).sequence = stop[s].sequence /\ row(s).superseded = TRUE
                    /\ row(s).replaces = stop[s].replaces
  BY <1>2, <1>4 DEF StopRows
<1> HIDE DEF row
<1>11. \A s \in S : Revised(stop[s], row(s))
  BY <1>2, <1>3, <1>4, <1>10 DEF Revised, RowHolds
<1>12. \A s \in Stops : stop'[s] = IF s \in S THEN row(s) ELSE stop[s]
  BY <1>8
<1>13. stop' \in [Stops -> StopRows]
  BY <1>4, <1>8, <1>10
<1>14. \A s \in Stops : Revised(stop[s], stop'[s])
  BY <1>11, <1>12 DEF Revised
<1>15. \A s \in Stops : stop'[s].is = stop[s].is /\ stop'[s].route = stop[s].route /\ stop'[s].sequence = stop[s].sequence
  BY <1>10, <1>12
<1>16. OneOrder'
  BY <1>15 DEF RoutesInv, OneOrder, Here
<1>17. order' \in [Orders -> [status : OrderStatuses, signed : BOOLEAN]]
  BY <1>2, <1>9 DEF RoutesInv, RoutesTypeOK, OrderStatuses
<1> QED BY <1>7, <1>9, <1>13, <1>14, <1>16, <1>17, RowsRevised, RoutesStay

-----------------------------------------------------------------------------
(* Steps that make rows *)

LEMMA NewStopIsRow ==
  ASSUME NEW r \in Routes, NEW x \in Targets, NEW n \in 1..MaxSequence
  PROVE  /\ NewStop(r, x, n) \in StopRows /\ NewStop(r, x, n).is = "here" /\ NewStop(r, x, n).route = r
         /\ NewStop(r, x, n).target = x /\ NewStop(r, x, n).sequence = n /\ NewStop(r, x, n).replaces = 0
         /\ NewStop(r, x, n).active = (IF x \in Orders THEN x ELSE None) /\ ~ NewStop(r, x, n).superseded
         /\ RowHolds(NewStop(r, x, n))
<1>1. NoStop \in StopRows /\ NoStop.replaces = 0 /\ NoStop.superseded = FALSE
  BY RoutesAssumption DEF NoStop, StopRows
<1>2. /\ NewStop(r, x, n) \in StopRows /\ NewStop(r, x, n).is = "here" /\ NewStop(r, x, n).route = r
      /\ NewStop(r, x, n).target = x /\ NewStop(r, x, n).sequence = n /\ NewStop(r, x, n).replaces = 0
      /\ NewStop(r, x, n).active = (IF x \in Orders THEN x ELSE None) /\ NewStop(r, x, n).superseded = FALSE
  BY <1>1 DEF NewStop, StopRows, Targets
<1> QED BY <1>2, RoutesAssumption DEF RowHolds, Targets

\* The steps that make rows, all at once.
LEMMA RowsMade ==
  ASSUME RoutesInv, NEW n, StopsStep(n), RoutesStep,
         \A s \in Stops : MadeNext(n, s) => route'[stop'[s].route] # "NONE",
         \A s, u \in Stops : MadeNext(n, s) /\ stop'[u].is = "here" /\ stop'[s].active = stop'[u].active
                               => s = u \/ stop'[s].active = None,
         \A s \in Stops : MadeNext(n, s) => \/ stop'[s].replaces = 0
                                            \/ /\ n = 1 /\ stop'[s].replaces \in Stops
                                               /\ Here(stop'[s].replaces) /\ ~ stop[stop'[s].replaces].superseded
                                               /\ stop'[stop'[s].replaces].superseded,
         OneOrder', RequestsStep, UNCHANGED order
  PROVE  RoutesInv'
<1>1. RowsFilled' /\ RowsHold' /\ OnRoutes' /\ OneActive' /\ Replaced' /\ RescheduledOnce'
  BY RowsKept
<1>2. RequestsHold'
  BY RequestsKept
<1>3. RoutesTypeOK'
  BY OrdersStay DEF RoutesTypeOK, RoutesStep, RequestsStep, StopsStep
<1> QED BY <1>1, <1>2, <1>3 DEF RoutesInv

\* One row is made, after the highest or among the others of its route.
LEMMA FirstFreeIsMade ==
  ASSUME RoutesInv, FirstFree \in Stops
  PROVE  /\ \A s \in Stops : MadeNext(1, s) <=> s = FirstFree
         /\ stop[FirstFree].is = "none" /\ FirstFree <= MaxStops /\ FirstFree \in Nat
<1>1. FirstFree \in Nat \ {0} /\ \A s \in Stops : stop[s].is # "none" <=> s < FirstFree
  BY FirstFreeIsNext DEF RoutesInv
<1> QED BY <1>1, RoutesAssumption DEF MadeNext, Stops

LEMMA AddCommitKeeps ==
  ASSUME RoutesInv, NEW c \in Clients, NEW n \in 1..MaxSequence, AddCommit(c, n)
  PROVE  RoutesInv'
<1> DEFINE r    == req[c].route
           x    == req[c].target
           row(s) == [stop[s] EXCEPT !.sequence = stop[s].sequence + 1]
           Up(s)  == s \in On(r) /\ stop[s].sequence >= n
<1>1. req[c] \in Reads /\ RequestHolds(req[c], stop, route) /\ req[c].op = "add"
  BY DEF RoutesInv, RoutesTypeOK, RequestsHold, AddCommit, Continues
<1>2. r \in Routes /\ x \in Targets /\ route[r] # "NONE"
  BY <1>1 DEF RequestHolds
<1>3. /\ FirstFree \in Stops /\ \A s \in On(r) : stop[s].sequence >= n => stop[s].sequence < MaxSequence
      /\ x \in Orders => Live(x) = {}
      /\ stop' = [s \in Stops |-> IF s = FirstFree THEN NewStop(r, x, n) ELSE IF Up(s) THEN row(s) ELSE stop[s]]
      /\ req' = [req EXCEPT ![c] = Recording({r})]
      /\ UNCHANGED <<route, order>>
  BY DEF AddCommit
<1>6. \A s \in Stops : stop[s] \in StopRows /\ RowHolds(stop[s])
  BY DEF RoutesInv, RoutesTypeOK, RowsHold
<1> HIDE DEF r, x
<1>7. \A s \in Stops : Up(s) => stop[s].is = "here" /\ stop[s].sequence + 1 \in 1..MaxSequence
  <2> SUFFICES ASSUME NEW s \in Stops, s \in On(r), stop[s].sequence >= n
               PROVE  stop[s].is = "here" /\ stop[s].sequence + 1 \in 1..MaxSequence
    OBVIOUS
  <2>1. stop[s].is = "here" /\ stop[s].sequence < MaxSequence /\ stop[s].sequence \in 1..MaxSequence
    BY <1>3, <1>6 DEF On, Here, StopRows
  <2> QED BY <2>1, RoutesAssumption
<1>8. \A s \in Stops : Up(s) =>
        /\ row(s) \in StopRows /\ row(s).is = "here" /\ row(s).route = stop[s].route
        /\ row(s).target = stop[s].target /\ row(s).active = stop[s].active
        /\ row(s).sequence = stop[s].sequence + 1 /\ row(s).superseded = stop[s].superseded
        /\ row(s).replaces = stop[s].replaces
  <2> SUFFICES ASSUME NEW s \in Stops, stop[s].is = "here", stop[s].sequence + 1 \in 1..MaxSequence
               PROVE  /\ row(s) \in StopRows /\ row(s).is = "here" /\ row(s).route = stop[s].route
                      /\ row(s).target = stop[s].target /\ row(s).active = stop[s].active
                      /\ row(s).sequence = stop[s].sequence + 1 /\ row(s).superseded = stop[s].superseded
                      /\ row(s).replaces = stop[s].replaces
    BY <1>7
  <2> QED BY <1>6 DEF StopRows
<1> HIDE DEF row
<1>9. \A s \in Stops : Up(s) => Revised(stop[s], row(s))
  BY <1>6, <1>7, <1>8 DEF Revised, RowHolds
<1>10. \A s \in Stops : stop'[s] = IF s = FirstFree THEN NewStop(r, x, n) ELSE IF Up(s) THEN row(s) ELSE stop[s]
  BY <1>3
<1>11. /\ \A s \in Stops : MadeNext(1, s) <=> s = FirstFree
       /\ stop[FirstFree].is = "none" /\ FirstFree <= MaxStops /\ FirstFree \in Nat
  BY <1>3, FirstFreeIsMade
<1> DEFINE y == NewStop(r, x, n)
<1>12. /\ y \in StopRows /\ y.is = "here" /\ y.route = r /\ y.target = x /\ y.sequence = n /\ y.replaces = 0
       /\ y.active = (IF x \in Orders THEN x ELSE None) /\ RowHolds(y)
  BY <1>2, NewStopIsRow
<1>13. stop'[FirstFree] = y
  BY <1>3, <1>10
<1> HIDE DEF y
<1>14. \A s \in Stops \ {FirstFree} : stop'[s] \in StopRows /\ Revised(stop[s], stop'[s])
  BY <1>6, <1>8, <1>9, <1>10 DEF Revised
<1>15. stop' \in [Stops -> StopRows]
  <2>1. DOMAIN stop' = Stops /\ stop' = [s \in Stops |-> stop'[s]]
    BY <1>3
  <2> QED BY <1>12, <1>13, <1>14, <2>1
<1>16. StopsStep(1)
  BY <1>11, <1>12, <1>13, <1>14, <1>15 DEF StopsStep
<1>17. RoutesStep
  BY <1>3, RoutesStay
<1>18. Recording({r}) \in Reads /\ Recording({r}).op = "history"
  BY <1>2, RecordingIsRead
<1>19. RequestsStep
  BY <1>3, <1>18, RequestEnds
<1>20. \A s \in Stops : MadeNext(1, s) => route'[stop'[s].route] # "NONE" /\ stop'[s].replaces = 0
  BY <1>2, <1>3, <1>11, <1>12, <1>13
<1>21. ASSUME NEW u \in Stops, u # FirstFree, stop'[u].is = "here", y.active = stop'[u].active, y.active # None
       PROVE  FALSE
  <2>1. Revised(stop[u], stop'[u])
    BY <1>14, <1>21
  <2>2. stop[u].is = "here" /\ stop[u].active = x /\ x \in Orders
    BY <1>12, <1>21, <2>1 DEF Revised
  <2> QED BY <1>3, <2>2 DEF Live, Here
<1>22. \A s, u \in Stops : MadeNext(1, s) /\ stop'[u].is = "here" /\ stop'[s].active = stop'[u].active
                               => s = u \/ stop'[s].active = None
  BY <1>11, <1>13, <1>21
<1>23. \A s \in Stops \ {FirstFree} : stop'[s].is = "here" =>
         /\ stop[s].is = "here" /\ stop'[s].route = stop[s].route
         /\ stop'[s].sequence = IF Up(s) THEN stop[s].sequence + 1 ELSE stop[s].sequence
  BY <1>7, <1>8, <1>10
<1>24. ASSUME NEW s \in Stops \ {FirstFree}, stop'[s].is = "here", stop'[s].route = r
       PROVE  stop'[s].sequence # n
  <2>1. s \in On(r) /\ stop[s].sequence \in Nat
    BY <1>6, <1>23, <1>24 DEF On, Here, StopRows
  <2> QED BY <1>23, <1>24, <2>1
<1>25. ASSUME NEW s \in Stops \ {FirstFree}, NEW u \in Stops \ {FirstFree}, stop'[s].is = "here", stop'[u].is = "here",
              stop'[s].route = stop'[u].route, stop'[s].sequence = stop'[u].sequence
       PROVE  s = u
  <2>1. stop[s].is = "here" /\ stop[u].is = "here" /\ stop[s].route = stop[u].route
    BY <1>23, <1>25
  <2>2. stop[s].sequence \in Nat /\ stop[u].sequence \in Nat
    BY <1>6 DEF StopRows
  <2>3. CASE Up(s) /\ Up(u)
    <3>1. stop[s].sequence + 1 = stop[u].sequence + 1
      BY <1>23, <1>25, <2>3
    <3> QED BY <2>1, <2>2, <3>1 DEF RoutesInv, OneOrder, Here
  <2>4. CASE ~ Up(s) /\ ~ Up(u)
    BY <1>23, <1>25, <2>1, <2>4 DEF RoutesInv, OneOrder, Here
  <2>5. s \in On(r) <=> u \in On(r)
    BY <2>1 DEF On, Here
  <2>6. CASE Up(s) /\ ~ Up(u)
    BY <1>23, <1>25, <2>2, <2>5, <2>6
  <2>7. CASE ~ Up(s) /\ Up(u)
    BY <1>23, <1>25, <2>2, <2>5, <2>7
  <2> QED BY <2>3, <2>4, <2>6, <2>7
<1>26. OneOrder'
  <2> SUFFICES ASSUME NEW s \in Stops, NEW u \in Stops, stop'[s].is = "here", stop'[u].is = "here",
                      stop'[s].route = stop'[u].route, stop'[s].sequence = stop'[u].sequence
               PROVE  s = u
    BY DEF OneOrder, Here
  <2>1. CASE s # FirstFree /\ u # FirstFree
    BY <1>25, <2>1
  <2>2. CASE s = FirstFree /\ u # FirstFree
    BY <1>12, <1>13, <1>24, <2>2
  <2>3. CASE s # FirstFree /\ u = FirstFree
    BY <1>12, <1>13, <1>24, <2>3
  <2> QED BY <2>1, <2>2, <2>3
<1> QED BY <1>3, <1>16, <1>17, <1>19, <1>20, <1>22, <1>26, RowsMade

\* The failed visit is closed by the step that makes the one in its place.
LEMMA RescheduleCommitKeeps ==
  ASSUME RoutesInv, NEW c \in Clients, RescheduleCommit(c)
  PROVE  RoutesInv'
<1> DEFINE r    == req[c].route
           x    == req[c].target
           last == HighestOf(On(r))
<1>1. req[c] \in Reads /\ RequestHolds(req[c], stop, route) /\ req[c].op = "rescheduleVisit"
  BY DEF RoutesInv, RoutesTypeOK, RequestsHold, RescheduleCommit, Continues
<1>2. r \in Routes /\ x \in Sites /\ x \in Targets /\ route[r] # "NONE"
  BY <1>1 DEF RequestHolds
<1>3. PICK s \in req[c].stops :
        /\ Here(s) /\ ~ stop[s].superseded
        /\ stop' = [stop EXCEPT ![s].superseded = TRUE, ![FirstFree] = [NewStop(r, x, last + 1) EXCEPT !.replaces = s]]
        /\ req' = [req EXCEPT ![c] = Recording({stop[s].route, r})]
  BY DEF RescheduleCommit
<1>4. FirstFree \in Stops /\ last < MaxSequence /\ UNCHANGED <<route, order>>
  BY DEF RescheduleCommit
<1>5. s \in Stops /\ stop[s].is = "here" /\ stop[s].target \in Sites
  BY <1>1, <1>3 DEF Reads, RequestHolds, Here
<1>6. On(r) \in SUBSET Stops
  BY DEF On
<1>7. last \in 0..MaxSequence /\ \A u \in On(r) : stop[u].sequence <= last
  BY <1>6, HighestIsHighest DEF RoutesInv
<1>8. \A u \in Stops : stop[u] \in StopRows /\ RowHolds(stop[u])
  BY DEF RoutesInv, RoutesTypeOK, RowsHold
<1>9. /\ \A u \in Stops : MadeNext(1, u) <=> u = FirstFree
      /\ stop[FirstFree].is = "none" /\ FirstFree <= MaxStops /\ FirstFree \in Nat
  BY <1>4, FirstFreeIsMade
<1> DEFINE y == [NewStop(r, x, last + 1) EXCEPT !.replaces = s]
           z == [stop[s] EXCEPT !.superseded = TRUE]
<1> HIDE DEF r, x, last
<1>10. last + 1 \in 1..MaxSequence
  BY <1>4, <1>7, RoutesAssumption
<1>11. /\ NewStop(r, x, last + 1) \in StopRows /\ NewStop(r, x, last + 1).is = "here"
       /\ NewStop(r, x, last + 1).route = r /\ NewStop(r, x, last + 1).target = x
       /\ NewStop(r, x, last + 1).sequence = last + 1 /\ NewStop(r, x, last + 1).active = None
  BY <1>2, <1>10, NewStopIsRow, RoutesAssumption
<1>12. y \in StopRows /\ y.is = "here" /\ y.route = r /\ y.target = x /\ y.sequence = last + 1 /\ y.active = None /\ y.replaces = s
  <2>1. s \in 0..MaxStops
    BY <1>5, RoutesAssumption DEF Stops
  <2> QED BY <1>11, <2>1 DEF StopRows
<1>13. /\ z \in StopRows /\ z.is = "here" /\ z.route = stop[s].route /\ z.target = stop[s].target
       /\ z.active = stop[s].active /\ z.sequence = stop[s].sequence /\ z.superseded = TRUE
       /\ z.replaces = stop[s].replaces
  BY <1>5, <1>8 DEF StopRows
<1>14. s # FirstFree
  BY <1>5, <1>9
<1>15. stop' = [stop EXCEPT ![s] = z, ![FirstFree] = y]
  BY <1>3, <1>5, <1>14 DEF RoutesInv, RoutesTypeOK
<1> HIDE DEF y, z
<1>16. \A u \in Stops : stop'[u] = IF u = FirstFree THEN y ELSE IF u = s THEN z ELSE stop[u]
  BY <1>4, <1>5, <1>14, <1>15 DEF RoutesInv, RoutesTypeOK
<1>17. stop' \in [Stops -> StopRows]
  BY <1>12, <1>13, <1>15 DEF RoutesInv, RoutesTypeOK
<1>18. stop[s].active = None
  BY <1>5, <1>8, RoutesAssumption DEF RowHolds, StopRows
<1>19. Revised(stop[s], z)
  BY <1>5, <1>8, <1>13, <1>18 DEF Revised, RowHolds
<1>20. RowHolds(y)
  BY <1>2, <1>12, RoutesAssumption DEF RowHolds
<1>21. \A u \in Stops \ {FirstFree} : Revised(stop[u], stop'[u])
  BY <1>16, <1>19 DEF Revised
<1>22. stop'[FirstFree] = y /\ stop'[s] = z
  BY <1>4, <1>5, <1>14, <1>16
<1>23. StopsStep(1)
  BY <1>9, <1>12, <1>17, <1>20, <1>21, <1>22 DEF StopsStep
<1>24. RoutesStep
  BY <1>4, RoutesStay
<1>25. RequestsStep
  <2>1. {stop[s].route, r} \in SUBSET Routes
    BY <1>2, <1>5, <1>8 DEF RowHolds
  <2>2. Recording({stop[s].route, r}) \in Reads /\ Recording({stop[s].route, r}).op = "history"
    BY <2>1, RecordingIsRead
  <2> QED BY <1>3, <2>2, RequestEnds
<1>26. \A u \in Stops : MadeNext(1, u) => route'[stop'[u].route] # "NONE"
  BY <1>2, <1>4, <1>9, <1>12, <1>22
<1>27. \A u, v \in Stops : MadeNext(1, u) /\ stop'[v].is = "here" /\ stop'[u].active = stop'[v].active
                               => u = v \/ stop'[u].active = None
  BY <1>9, <1>12, <1>22
<1>28. \A u \in Stops : MadeNext(1, u) => /\ stop'[u].replaces \in Stops /\ Here(stop'[u].replaces)
                                          /\ ~ stop[stop'[u].replaces].superseded /\ stop'[stop'[u].replaces].superseded
  BY <1>3, <1>5, <1>9, <1>12, <1>13, <1>22
<1>29. \A u \in Stops \ {FirstFree} : stop'[u].is = "here" =>
         stop[u].is = "here" /\ stop'[u].route = stop[u].route /\ stop'[u].sequence = stop[u].sequence
  BY <1>5, <1>13, <1>16
<1>30. ASSUME NEW u \in Stops \ {FirstFree}, stop'[u].is = "here", stop'[u].route = r PROVE stop'[u].sequence # last + 1
  <2>1. u \in On(r) /\ stop[u].sequence \in Nat
    BY <1>8, <1>29, <1>30 DEF On, Here, StopRows
  <2> QED BY <1>7, <1>29, <1>30, <2>1
<1>31. OneOrder'
  <2> SUFFICES ASSUME NEW u \in Stops, NEW v \in Stops, stop'[u].is = "here", stop'[v].is = "here",
                      stop'[u].route = stop'[v].route, stop'[u].sequence = stop'[v].sequence
               PROVE  u = v
    BY DEF OneOrder, Here
  <2>1. CASE u # FirstFree /\ v # FirstFree
    BY <1>29, <2>1 DEF RoutesInv, OneOrder, Here
  <2>2. CASE u = FirstFree /\ v # FirstFree
    BY <1>12, <1>22, <1>30, <2>2
  <2>3. CASE u # FirstFree /\ v = FirstFree
    BY <1>12, <1>22, <1>30, <2>3
  <2> QED BY <2>1, <2>2, <2>3
<1> QED BY <1>4, <1>23, <1>24, <1>25, <1>26, <1>27, <1>28, <1>31, RowsMade

\* A plan lists each delivery order once.
LEMMA ListedOnce ==
  ASSUME NEW k \in Nat, NEW T, NEW p \in [1..k -> T], Cardinality({p[i] : i \in 1..Len(p)}) = Len(p)
  PROVE  p \in Seq(T) /\ Len(p) = k /\ \A i, j \in 1..k : p[i] = p[j] => i = j
<1>1. p \in Seq(T) /\ Len(p) = k
  OBVIOUS
<1> DEFINE D == {p[i] : i \in 1..k}
<1>2. p \in Surjection(1..k, D)
  BY DEF Surjection
<1>3. Cardinality(D) = k
  BY <1>1
<1>4. IsFiniteSet(1..k) /\ Cardinality(1..k) = k
  BY FS_Interval
<1> HIDE DEF D
<1>5. p \in Injection(1..k, D)
  BY <1>2, <1>3, <1>4, FS_SurjSameCardinalityImpliesInj
<1> QED BY <1>1, <1>5 DEF Injection, IsInjective

\* The places of the stops that stay on a route, after those put before them.
LEMMA PlacesAfter ==
  ASSUME RoutesInv, NEW q \in Routes, NEW K \in SUBSET On(q), NEW k \in Nat,
         k = 0 \/ k + Cardinality(K) <= MaxSequence
  PROVE  /\ \A s \in K : PlaceAfter(s, K, k) \in 1..MaxSequence /\ PlaceAfter(s, K, k) > k
         /\ \A s, u \in K : PlaceAfter(s, K, k) = PlaceAfter(u, K, k) => s = u
<1>1. K \in SUBSET Stops /\ \A s \in K : stop[s].is = "here" /\ stop[s].route = q
  BY DEF On, Here
<1>2. \A s, u \in K : stop[s].sequence = stop[u].sequence => s = u
  BY <1>1 DEF RoutesInv, OneOrder, Here
<1>3. Cardinality(K) <= MaxSequence
  BY <1>1, <1>2, NumbersSuffice DEF RoutesInv
<1>4. Cardinality(K) \in Nat
  BY <1>1, StopsAreFinite
<1>5. ASSUME NEW s \in K
      PROVE  /\ Place(s, K) \in 1..Cardinality(K)
             /\ \A u \in K : stop[u].sequence < stop[s].sequence => Place(u, K) < Place(s, K)
  BY <1>1, PlacesDiffer DEF RoutesInv
<1>6. ASSUME NEW s \in K PROVE PlaceAfter(s, K, k) \in 1..MaxSequence /\ PlaceAfter(s, K, k) > k
  <2>1. Place(s, K) \in 1..Cardinality(K)
    BY <1>5
  <2> QED BY <1>3, <1>4, <2>1, RoutesAssumption DEF PlaceAfter
<1>7. ASSUME NEW s \in K, NEW u \in K, PlaceAfter(s, K, k) = PlaceAfter(u, K, k) PROVE s = u
  <2>1. Place(s, K) \in 1..Cardinality(K) /\ Place(u, K) \in 1..Cardinality(K)
    BY <1>5
  <2>2. Place(s, K) = Place(u, K) /\ Place(s, K) \in Nat
    BY <1>4, <1>7, <2>1 DEF PlaceAfter
  <2>3. stop[s].sequence \in Nat /\ stop[u].sequence \in Nat
    BY <1>1, RoutesAssumption DEF RoutesInv, RoutesTypeOK, StopRows
  <2>4. ~ (stop[u].sequence < stop[s].sequence) /\ ~ (stop[s].sequence < stop[u].sequence)
    BY <1>5, <2>2
  <2>5. stop[s].sequence = stop[u].sequence
    BY <2>3, <2>4
  <2> QED BY <1>2, <2>5
<1> QED BY <1>6, <1>7

LEMMA PlanCommitKeeps ==
  ASSUME RoutesInv, NEW c \in Clients, NEW k \in Nat, NEW p \in [1..k -> req[c].orders], PlanCommit(c, p)
  PROVE  RoutesInv'
<1> DEFINE r       == req[c].route
           R       == req[c].routes
           D       == {p[i] : i \in 1..Len(p)}
           deleted == {s \in Stops : Here(s) /\ stop[s].route \in R /\ stop[s].active \in req[c].takenOff}
           rebuilt == IF p = <<>> THEN {} ELSE {r}
           kept(q) == On(q) \ deleted
           Made(s) == s - FirstFree + 1
           gone    == Cancelled(c, rebuilt)
           after(q) == IF q = r THEN Len(p) ELSE 0
           row(s)  == [stop[s] EXCEPT !.sequence = PlaceAfter(s, kept(stop[s].route), after(stop[s].route))]
           Moved(s) == s \notin deleted /\ Here(s) /\ stop[s].route \in R \ gone
<1>1. req[c] \in Reads /\ RequestHolds(req[c], stop, route) /\ req[c].op = "plan"
  BY DEF RoutesInv, RoutesTypeOK, RequestsHold, PlanCommit, Continues
<1>2. r \in Routes /\ R \in SUBSET Routes /\ req[c].orders \in SUBSET Orders
  BY <1>1 DEF Reads, RequestHolds
<1>3. /\ Cardinality(D) = Len(p)
      /\ r \in R \/ route[r] = "NONE"
      /\ p = <<>> \/ (FirstFree \in Stops /\ FirstFree + Len(p) - 1 <= MaxStops)
      /\ Len(p) + Cardinality(kept(r)) <= MaxSequence
      /\ \A d \in D : Live(d) \subseteq deleted
      /\ UNCHANGED order
  BY DEF PlanCommit
<1>4. stop' = [s \in Stops |->
           IF s \in deleted THEN Deleted(s)
           ELSE IF p # <<>> /\ Made(s) \in 1..Len(p) THEN NewStop(r, p[Made(s)], Made(s))
           ELSE IF Here(s) /\ stop[s].route \in R \ gone THEN row(s)
           ELSE stop[s]]
  BY DEF PlanCommit
<1>5. route' = [q \in Routes |-> IF q \in gone THEN "CANCELLED" ELSE IF q \in rebuilt THEN "PLANNED" ELSE route[q]]
  BY DEF PlanCommit
<1>6. req' = [req EXCEPT ![c] = Recording(R \cup rebuilt)]
  BY DEF PlanCommit
<1>7. Len(p) = k /\ \A i, j \in 1..k : p[i] = p[j] => i = j
  <2> DEFINE T == req[c].orders
  <2>1. p \in [1..k -> T] /\ Cardinality({p[i] : i \in 1..Len(p)}) = Len(p)
    BY <1>3
  <2> HIDE DEF T
  <2> QED BY <2>1, ListedOnce
<1>8. \A i \in 1..k : p[i] \in Orders /\ p[i] \in Targets /\ p[i] \in D
  BY <1>2, <1>7 DEF Targets
<1>9. p = <<>> <=> k = 0
  BY <1>7
<1>10. r \notin gone \/ k = 0
  BY <1>9 DEF Cancelled
<1>11. rebuilt \in SUBSET Routes /\ (k # 0 => r \in rebuilt)
  BY <1>2, <1>9
<1>12. \A s \in deleted : s \in Stops /\ Here(s)
  OBVIOUS
<1>13. \A q \in Routes : kept(q) \in SUBSET On(q)
  OBVIOUS
<1>14. \A s \in Stops : Here(s) /\ s \notin deleted => s \in kept(stop[s].route)
  BY DEF On
<1>15. \A s \in Stops : stop[s] \in StopRows /\ RowHolds(stop[s])
  BY DEF RoutesInv, RoutesTypeOK, RowsHold
<1>16. ASSUME NEW q \in Routes
       PROVE  /\ \A s \in kept(q) : PlaceAfter(s, kept(q), after(q)) \in 1..MaxSequence /\ PlaceAfter(s, kept(q), after(q)) > after(q)
              /\ \A s, u \in kept(q) : PlaceAfter(s, kept(q), after(q)) = PlaceAfter(u, kept(q), after(q)) => s = u
  <2>1. after(q) \in Nat /\ (after(q) = 0 \/ after(q) + Cardinality(kept(q)) <= MaxSequence)
    BY <1>3, <1>7
  <2> HIDE DEF kept, after
  <2> QED BY <1>13, <2>1, PlacesAfter
<1>17. FirstFree \in Nat \ {0} /\ \A s \in Stops : stop[s].is # "none" <=> s < FirstFree
  BY FirstFreeIsNext DEF RoutesInv
<1>18. k = 0 \/ FirstFree + k - 1 <= MaxStops
  BY <1>3, <1>7, <1>9
<1>19. k <= MaxSequence
  <2>1. kept(r) \in SUBSET Stops
    BY DEF On
  <2>2. Cardinality(kept(r)) \in Nat
    <3> HIDE DEF kept
    <3> QED BY <2>1, StopsAreFinite
  <2> QED BY <1>3, <1>7, <2>2, RoutesAssumption
<1>20. ASSUME NEW d \in D, NEW s \in Stops, Here(s), stop[s].active = d PROVE s \in deleted
  BY <1>3, <1>20 DEF Live
<1> HIDE DEF r, R, D, deleted, rebuilt, kept, gone, after
<1>21. \A s \in Stops : MadeNext(k, s) <=> Made(s) \in 1..k
  BY <1>17, RoutesAssumption DEF MadeNext, Stops
<1>22. \A s \in Stops : MadeNext(k, s) => k # 0 /\ stop[s].is = "none" /\ s \notin deleted
  BY <1>12, <1>17, RoutesAssumption DEF MadeNext, Stops, Here
<1> HIDE DEF Made
<1> DEFINE y(s) == NewStop(r, p[Made(s)], Made(s))
<1>23. \A s \in Stops : MadeNext(k, s) =>
         /\ y(s) \in StopRows /\ y(s).is = "here" /\ y(s).route = r
         /\ y(s).sequence = Made(s) /\ y(s).replaces = 0
         /\ y(s).active = p[Made(s)] /\ RowHolds(y(s))
  <2> SUFFICES ASSUME NEW s \in Stops, MadeNext(k, s)
               PROVE  /\ y(s) \in StopRows /\ y(s).is = "here" /\ y(s).route = r
                      /\ y(s).sequence = Made(s) /\ y(s).replaces = 0
                      /\ y(s).active = p[Made(s)] /\ RowHolds(y(s))
    OBVIOUS
  <2>1. Made(s) \in 1..k
    BY <1>21
  <2>2. Made(s) \in 1..MaxSequence /\ p[Made(s)] \in Orders /\ p[Made(s)] \in Targets
    BY <1>8, <1>19, <2>1, RoutesAssumption
  <2> QED BY <1>2, <2>2, NewStopIsRow
<1>24. \A s \in Stops : Moved(s) =>
         /\ stop[s].route \in Routes /\ s \in kept(stop[s].route)
         /\ row(s) \in StopRows /\ row(s).is = "here" /\ row(s).route = stop[s].route
         /\ row(s).target = stop[s].target /\ row(s).active = stop[s].active
         /\ row(s).sequence = PlaceAfter(s, kept(stop[s].route), after(stop[s].route))
         /\ row(s).superseded = stop[s].superseded /\ row(s).replaces = stop[s].replaces
         /\ Revised(stop[s], row(s))
  <2> SUFFICES ASSUME NEW s \in Stops, Moved(s)
               PROVE  /\ stop[s].route \in Routes /\ s \in kept(stop[s].route)
                      /\ row(s) \in StopRows /\ row(s).is = "here" /\ row(s).route = stop[s].route
                      /\ row(s).target = stop[s].target /\ row(s).active = stop[s].active
                      /\ row(s).sequence = PlaceAfter(s, kept(stop[s].route), after(stop[s].route))
                      /\ row(s).superseded = stop[s].superseded /\ row(s).replaces = stop[s].replaces
                      /\ Revised(stop[s], row(s))
    OBVIOUS
  <2> DEFINE m == PlaceAfter(s, kept(stop[s].route), after(stop[s].route))
  <2>1. stop[s].is = "here" /\ stop[s].route \in Routes /\ s \in kept(stop[s].route)
    BY <1>14, <1>15 DEF RowHolds, Here
  <2>2. m \in 1..MaxSequence
    BY <1>16, <2>1
  <2> HIDE DEF m
  <2>3. /\ row(s) \in StopRows /\ row(s).is = "here" /\ row(s).route = stop[s].route
        /\ row(s).target = stop[s].target /\ row(s).active = stop[s].active
        /\ row(s).sequence = m
        /\ row(s).superseded = stop[s].superseded /\ row(s).replaces = stop[s].replaces
    <3>1. row(s) = [stop[s] EXCEPT !.sequence = m]
      BY DEF m
    <3> HIDE DEF row
    <3> QED BY <1>15, <2>1, <2>2, <3>1 DEF StopRows
  <2> HIDE DEF row
  <2>4. Revised(stop[s], row(s))
    BY <1>15, <2>1, <2>3 DEF Revised, RowHolds
  <2> QED BY <2>1, <2>3, <2>4 DEF m
<1> HIDE DEF row, y
<1>25. \A s \in Stops : stop'[s] = IF s \in deleted THEN Deleted(s) ELSE IF MadeNext(k, s) THEN y(s)
                                   ELSE IF Moved(s) THEN row(s) ELSE stop[s]
  BY <1>4, <1>7, <1>9, <1>21, <1>22 DEF y
<1> HIDE DEF Moved
<1>26. \A s \in Stops : /\ stop'[s] \in StopRows
                        /\ MadeNext(k, s) => stop'[s] = y(s)
                        /\ ~ MadeNext(k, s) => Revised(stop[s], stop'[s])
                        /\ ~ MadeNext(k, s) /\ stop'[s].is = "here" =>
                             /\ s \notin deleted /\ Here(s) /\ stop'[s].route = stop[s].route
                             /\ stop'[s].active = stop[s].active
                             /\ IF Moved(s) THEN stop'[s].sequence = PlaceAfter(s, kept(stop[s].route), after(stop[s].route))
                                            ELSE stop'[s].sequence = stop[s].sequence
  <2> TAKE s \in Stops
  <2>1. CASE s \in deleted
    <3>1. stop'[s] = Deleted(s) /\ ~ MadeNext(k, s)
      BY <1>22, <1>25, <2>1
    <3> QED BY <1>12, <2>1, <3>1, DeletedIsRow
  <2>2. CASE s \notin deleted /\ MadeNext(k, s)
    BY <1>23, <1>25, <2>2
  <2>3. CASE s \notin deleted /\ ~ MadeNext(k, s) /\ Moved(s)
    BY <1>24, <1>25, <2>3 DEF Moved
  <2>4. CASE s \notin deleted /\ ~ MadeNext(k, s) /\ ~ Moved(s)
    BY <1>15, <1>25, <2>4 DEF Revised, Here
  <2> QED BY <2>1, <2>2, <2>3, <2>4
<1>27. stop' \in [Stops -> StopRows]
  <2>1. stop' = [s \in Stops |-> stop'[s]]
    BY <1>4
  <2> QED BY <1>26, <2>1
<1>28. StopsStep(k)
  BY <1>18, <1>23, <1>26, <1>27 DEF StopsStep
<1>29. RoutesStep
  BY <1>5 DEF RoutesStep, RoutesInv, RoutesTypeOK, RouteStatuses
<1>30. RequestsStep
  <2>1. R \cup rebuilt \in SUBSET Routes
    BY <1>2, <1>11
  <2>2. Recording(R \cup rebuilt) \in Reads /\ Recording(R \cup rebuilt).op = "history"
    BY <2>1, RecordingIsRead
  <2> QED BY <1>6, <2>2, RequestEnds
<1>31. \A s \in Stops : MadeNext(k, s) => route'[stop'[s].route] # "NONE" /\ stop'[s].replaces = 0
  BY <1>2, <1>5, <1>10, <1>11, <1>22, <1>23, <1>26
<1>32. ASSUME NEW s \in Stops, NEW u \in Stops, MadeNext(k, s), stop'[u].is = "here", stop'[s].active = stop'[u].active
       PROVE  s = u
  <2>1. Made(s) \in 1..k /\ stop'[s].active = p[Made(s)]
    BY <1>21, <1>23, <1>26, <1>32
  <2>2. CASE MadeNext(k, u)
    <3>1. Made(u) \in 1..k /\ stop'[u].active = p[Made(u)]
      BY <1>21, <1>23, <1>26, <2>2
    <3>2. Made(s) = Made(u)
      BY <1>7, <1>32, <2>1, <3>1
    <3> QED BY <1>17, <3>2, RoutesAssumption DEF Made, Stops
  <2>3. CASE ~ MadeNext(k, u)
    <3>1. u \notin deleted /\ Here(u) /\ stop[u].active = p[Made(s)]
      BY <1>26, <1>32, <2>1, <2>3
    <3> QED BY <1>8, <1>20, <2>1, <3>1
  <2> QED BY <2>2, <2>3
<1>33. ASSUME NEW s \in Stops, NEW u \in Stops, MadeNext(k, s), MadeNext(k, u), stop'[s].sequence = stop'[u].sequence
       PROVE  s = u
  <2>1. Made(s) = Made(u)
    BY <1>23, <1>26, <1>33
  <2> QED BY <1>17, <2>1, RoutesAssumption DEF Made, Stops
<1>34. ASSUME NEW s \in Stops, NEW u \in Stops, MadeNext(k, s), ~ MadeNext(k, u), stop'[u].is = "here",
              stop'[u].route = stop'[s].route
       PROVE  stop'[u].sequence # stop'[s].sequence
  <2>1. k # 0 /\ Made(s) \in 1..k /\ stop'[s].sequence = Made(s) /\ stop'[s].route = r
    BY <1>21, <1>22, <1>23, <1>26, <1>34
  <2>2. u \notin deleted /\ Here(u) /\ stop[u].route = r
    BY <1>26, <1>34, <2>1
  <2>3. r \in R
    BY <1>3, <2>2 DEF RoutesInv, OnRoutes
  <2>4. Moved(u)
    BY <1>10, <2>1, <2>2, <2>3 DEF Moved
  <2>5. stop'[u].sequence = PlaceAfter(u, kept(r), after(r)) /\ u \in kept(r)
    BY <1>14, <1>26, <1>34, <2>2, <2>4
  <2>6. PlaceAfter(u, kept(r), after(r)) \in 1..MaxSequence /\ PlaceAfter(u, kept(r), after(r)) > after(r) /\ after(r) = k
    BY <1>2, <1>7, <1>16, <2>5 DEF after
  <2> QED BY <2>1, <2>5, <2>6
<1>35. ASSUME NEW s \in Stops, NEW u \in Stops, ~ MadeNext(k, s), ~ MadeNext(k, u),
              stop'[s].is = "here", stop'[u].is = "here",
              stop'[s].route = stop'[u].route, stop'[s].sequence = stop'[u].sequence
       PROVE  s = u
  <2> DEFINE q == stop[s].route
  <2>1. s \notin deleted /\ Here(s) /\ u \notin deleted /\ Here(u) /\ stop[u].route = q
    BY <1>26, <1>35
  <2>2. q \in Routes /\ s \in kept(q) /\ u \in kept(q)
    BY <1>14, <1>15, <2>1 DEF RowHolds, Here
  <2>3. CASE q \in R \ gone
    <3>1. Moved(s) /\ Moved(u)
      BY <2>1, <2>3 DEF Moved
    <3>2. PlaceAfter(s, kept(q), after(q)) = PlaceAfter(u, kept(q), after(q))
      BY <1>26, <1>35, <2>1, <3>1
    <3> QED BY <1>16, <2>2, <3>2
  <2>4. CASE q \notin R \ gone
    <3>1. ~ Moved(s) /\ ~ Moved(u)
      BY <2>1, <2>4 DEF Moved
    <3>2. stop[s].sequence = stop[u].sequence
      BY <1>26, <1>35, <3>1
    <3> QED BY <2>1, <3>2 DEF RoutesInv, OneOrder
  <2> QED BY <2>3, <2>4
<1>36. OneOrder'
  <2> SUFFICES ASSUME NEW s \in Stops, NEW u \in Stops, stop'[s].is = "here", stop'[u].is = "here",
                      stop'[s].route = stop'[u].route, stop'[s].sequence = stop'[u].sequence
               PROVE  s = u
    BY DEF OneOrder, Here
  <2> QED BY <1>33, <1>34, <1>35
<1> QED BY <1>3, <1>28, <1>29, <1>30, <1>31, <1>32, <1>36, RowsMade

-----------------------------------------------------------------------------
(* Theorems *)

LEMMA RoutesInitially == RoutesInit => RoutesInv
<1> SUFFICES ASSUME RoutesInit PROVE RoutesInv
  OBVIOUS
<1>1. NoStop \in StopRows /\ NoStop.is = "none" /\ NoStop.replaces = 0 /\ NoStop.superseded = FALSE
  BY RoutesAssumption DEF NoStop, StopRows
<1>2. \A s \in Stops : stop[s] = NoStop
  BY DEF RoutesInit
<1>3. \A c \in Clients : req[c] = Idle
  BY DEF RoutesInit
<1>4. RoutesTypeOK
  BY <1>1, IdleIsRead DEF RoutesInit, RoutesTypeOK, RouteStatuses, OrderStatuses
<1>5. RowsFilled
  <2>1. 0 \in 0..MaxStops /\ \A s \in Stops : ~ (s <= 0)
    BY RoutesAssumption DEF Stops
  <2> QED BY <1>1, <1>2, <2>1 DEF RowsFilled
<1>6. RowsHold /\ OnRoutes /\ OneActive /\ OneOrder
  BY <1>1, <1>2 DEF RowsHold, RowHolds, OnRoutes, OneActive, OneOrder, Here
<1>7. Replaced /\ RescheduledOnce
  BY <1>1, <1>2 DEF Replaced, RescheduledOnce
<1>8. RequestsHold
  BY <1>3, IdleIsRead DEF RequestsHold, RequestHolds
<1> QED BY <1>4, <1>5, <1>6, <1>7, <1>8 DEF RoutesInv

LEMMA RoutesNextKeeps == RoutesInv /\ [RoutesNext]_routesVars => RoutesInv'
<1> SUFFICES ASSUME RoutesInv, [RoutesNext]_routesVars PROVE RoutesInv'
  OBVIOUS
<1>1. CASE UNCHANGED routesVars
  <2>1. RequestsStep
    BY <1>1 DEF routesVars, RoutesInv, RoutesTypeOK, RequestsStep, SameReading
  <2> QED BY <1>1, <2>1, StopsStay, RoutesStay, OrdersStay DEF routesVars
<1>2. ASSUME NEW r \in Routes, CreateRoute(r) \/ \E to \in Changes : UpdateRoute(r, to) PROVE RoutesInv'
  BY <1>2, CreateRouteKeeps, UpdateRouteKeeps
<1>3. ASSUME NEW d \in Orders, Ship(d) \/ OrderFailure(d) \/ ReturnOrder(d) \/ VoidInvoice(d) PROVE RoutesInv'
  BY <1>3, BecomesKeeps DEF Ship, OrderFailure, ReturnOrder, VoidInvoice, OrderStatuses
<1>4. ASSUME NEW s \in Stops, SiteProof(s) \/ SiteFailure(s) \/ \E x \in Sites : ChangeSite(s, x) PROVE RoutesInv'
  BY <1>4, SiteProofKeeps, SiteFailureKeeps, ChangeSiteKeeps
<1>5. ASSUME NEW c \in Clients, Bump(c) \/ Fails(c) \/ RemoveCommit(c) \/ RescheduleCommit(c) \/ OrderProofWrite(c)
                                \/ OrderRescheduleCommit(c)
      PROVE  RoutesInv'
  BY <1>5, BumpKeeps, FailsKeeps, RemoveCommitKeeps, RescheduleCommitKeeps, OrderProofWriteKeeps, OrderRescheduleCommitKeeps
<1>6. ASSUME NEW c \in Clients, \/ \E r \in Routes, x \in Targets : AddRead(c, r, x)
                                \/ \E n \in 1..MaxSequence : AddCommit(c, n)
                                \/ \E s \in Stops : RemoveRead(c, s)
                                \/ \E r \in Routes : ReorderStops(c, r) \/ OptimizeRead(c, r)
                                \/ \E f \in [Stops -> 1..MaxSequence] : OptimizeCommit(c, f)
      PROVE  RoutesInv'
  BY <1>6, AddReadKeeps, AddCommitKeeps, RemoveReadKeeps, ReorderStopsKeeps, OptimizeReadKeeps, OptimizeCommitKeeps
<1>7. ASSUME NEW c \in Clients, \/ \E s \in Stops, r \in Routes : RescheduleRead(c, s, r)
                                \/ \E d \in Orders : CancelOrder(c, d) \/ OrderProofRead(c, d)
                                \/ \E d \in Orders, r \in Routes \cup {None} : OrderRescheduleRead(c, d, r)
                                \/ \E r \in Routes, D \in SUBSET Orders : PlanRead(c, r, D)
      PROVE  RoutesInv'
  BY <1>7, RescheduleReadKeeps, CancelOrderKeeps, OrderProofReadKeeps, OrderRescheduleReadKeeps, PlanReadKeeps
<1>8. ASSUME NEW c \in Clients, \E n \in 0..Cardinality(Orders) : \E p \in [1..n -> req[c].orders] : PlanCommit(c, p)
      PROVE  RoutesInv'
  <2>1. PICK n \in 0..Cardinality(Orders) : \E p \in [1..n -> req[c].orders] : PlanCommit(c, p)
    BY <1>8
  <2>2. n \in Nat
    OBVIOUS
  <2> QED BY <2>1, <2>2, PlanCommitKeeps
<1> QED BY <1>1, <1>2, <1>3, <1>4, <1>5, <1>6, <1>7, <1>8 DEF RoutesNext

\* What the routes rest on: the types of the columns, rows that are filled in
\* order, and requests that have read what they go on to write.
THEOREM RoutesInvariant == RoutesSpec => []RoutesInv
BY RoutesInitially, RoutesNextKeeps, PTL DEF RoutesSpec

LEMMA LiveIsOne == RoutesInv => OneLiveStop
<1> SUFFICES ASSUME RoutesInv, NEW s \in Stops, Here(s), stop[s].target \in Orders
             PROVE  /\ stop[s].superseded <=> stop[s].active = None
                    /\ ~ stop[s].superseded => Live(stop[s].target) = {s}
  BY DEF OneLiveStop
<1>1. RowHolds(stop[s]) /\ stop[s].is = "here" /\ stop[s].superseded \in BOOLEAN
  BY DEF RoutesInv, RowsHold, Here, RoutesTypeOK, StopRows
<1>2. stop[s].superseded <=> stop[s].active = None
  BY <1>1 DEF RowHolds
<1>3. ASSUME ~ stop[s].superseded PROVE Live(stop[s].target) = {s}
  <2>1. stop[s].active = stop[s].target /\ stop[s].active # None
    BY <1>1, <1>2, <1>3 DEF RowHolds
  <2>2. \A u \in Stops : Here(u) /\ stop[u].active = stop[s].target <=> u = s
    BY <2>1 DEF RoutesInv, OneActive
  <2> QED BY <2>2 DEF Live
<1> QED BY <1>2, <1>3

\* The unique index and the transactions that close a stop leave an order one
\* live stop, for any number of routes, orders and clients.
THEOREM OneLiveStopHolds == RoutesSpec => []OneLiveStop
BY RoutesInvariant, LiveIsOne, PTL

\* Every renumbering gives the stops of a route different numbers.
THEOREM OneOrderHolds == RoutesSpec => []OneOrder
<1>1. RoutesInv => OneOrder
  BY DEF RoutesInv
<1> QED BY <1>1, RoutesInvariant, PTL

\* The claim of a failed visit lets one visit be made in its place.
THEOREM RescheduledOnceHolds == RoutesSpec => []RescheduledOnce
<1>1. RoutesInv => RescheduledOnce
  BY DEF RoutesInv
<1> QED BY <1>1, RoutesInvariant, PTL

-----------------------------------------------------------------------------
(* Resolved stops *)

\* What makes the row x read delivered or failed, the orders being o.
Resolved(x, o) ==
  \/ x.superseded
  \/ x.target \in Orders /\ \/ o[x.target].status \in {"FAILED", "RETURNED"}
                            \/ o[x.target].status = "SHIPPED" /\ o[x.target].signed
  \/ x.target \notin Orders /\ (x.failed \/ x.signed)

LEMMA PendingIsNotResolved ==
  /\ \A s \in Stops : Pending(s) <=> ~ Resolved(stop[s], order)
  /\ \A s \in Stops : Pending(s)' <=> ~ Resolved(stop'[s], order')
<1>1. \A s \in Stops : Pending(s) <=> ~ Resolved(stop[s], order)
  BY DEF Pending, StopStatus, OrderStopStatus, Resolved
<1>2. \A s \in Stops : Pending(s)' <=> ~ Resolved(stop'[s], order')
  BY DEF Pending, StopStatus, OrderStopStatus, Resolved
<1> QED BY <1>1, <1>2

\* The requests that a resolution in between would mislead, and what they
\* have read.
Alone == {"remove", "plan", "reschedule"}

AloneHolds(q, at, o) ==
  /\ q.op = "remove" => \A s \in q.stops : ~ Resolved(at[s], o)
  /\ q.op = "reschedule" => \A s \in Stops : at[s].is = "here" /\ at[s].active = q.target => s \in q.stops
  /\ q.op = "plan" => \A s \in Stops : at[s].is = "here" /\ at[s].route \in q.routes /\ at[s].active \in q.takenOff
                                         => ~ Resolved(at[s], o)

ReadsHold == \A c \in Clients : AloneHolds(req[c], stop, order)

\* A step of the client c, who is not disturbed, that opens none of these.
Passing(c) ==
  /\ Undisturbed(c)
  /\ req'[c].op \notin Alone
  /\ \A e \in Clients \ {c} : req'[e].op = req[e].op

LEMMA PassingKeeps ==
  ASSUME Alone \cap Overlapping = {}, NEW c \in Clients, Passing(c)
  PROVE  ReadsHold'
<1>1. \A e \in Clients : req'[e].op \notin Alone
  BY DEF Passing, Undisturbed, Alone
<1> QED BY <1>1 DEF ReadsHold, AloneHolds, Alone

LEMMA QuietKeeps ==
  ASSUME Alone \cap Overlapping = {}, Quiet, UNCHANGED req
  PROVE  ReadsHold'
<1>1. \A e \in Clients : req'[e].op \notin Alone
  BY DEF Quiet, Alone
<1> QED BY <1>1 DEF ReadsHold, AloneHolds, Alone

\* A step that reads, or ends, a request.
LEMMA ReadingKeeps ==
  ASSUME RoutesInv, ReadsHold, NEW c \in Clients, NEW q \in Reads, req' = [req EXCEPT ![c] = q],
         UNCHANGED <<stop, order>>, AloneHolds(q, stop, order)
  PROVE  ReadsHold'
<1>1. \A e \in Clients : req'[e] = IF e = c THEN q ELSE req[e]
  BY DEF RoutesInv, RoutesTypeOK
<1>2. \A e \in Clients : AloneHolds(req'[e], stop, order)
  BY <1>1 DEF ReadsHold
<1> QED BY <1>2 DEF ReadsHold

LEMMA OpensPasses ==
  ASSUME RoutesInv, NEW c \in Clients, NEW q, req' = [req EXCEPT ![c] = q],
         Undisturbed(c), q.op \notin Alone
  PROVE  Passing(c)
<1>1. \A e \in Clients : req'[e] = IF e = c THEN q ELSE req[e]
  BY DEF RoutesInv, RoutesTypeOK
<1> QED BY <1>1 DEF Passing

\* Rows that come to the same end.
SameFate(x, y) ==
  y.is = x.is /\ y.target = x.target /\ y.failed = x.failed /\ y.signed = x.signed /\ y.superseded = x.superseded

ResolvedKept ==
  \A s \in Stops : Here(s) /\ Resolved(stop[s], order) => stop'[s].is = "here" /\ Resolved(stop'[s], order')

LEMMA FatesKept ==
  ASSUME UNCHANGED order,
         \A s \in Stops : Here(s) /\ Resolved(stop[s], order) =>
           SameFate(stop[s], stop'[s]) \/ (stop'[s].is = "here" /\ stop'[s].superseded)
  PROVE  ResolvedKept
<1> SUFFICES ASSUME NEW s \in Stops, Here(s), Resolved(stop[s], order)
             PROVE  stop'[s].is = "here" /\ Resolved(stop'[s], order')
  BY DEF ResolvedKept
<1>1. CASE SameFate(stop[s], stop'[s])
  BY <1>1 DEF SameFate, Resolved, Here
<1>2. CASE stop'[s].is = "here" /\ stop'[s].superseded
  BY <1>2 DEF Resolved
<1> QED BY <1>1, <1>2

LEMMA NothingResolved ==
  ASSUME UNCHANGED <<stop, order>>
  PROVE  ResolvedKept
BY DEF ResolvedKept, Here

\* A resolved order stays resolved.
LEMMA OrderKept ==
  ASSUME UNCHANGED stop,
         \A d \in Orders : \/ order'[d] = order[d]
                           \/ order'[d].status \in {"FAILED", "RETURNED"}
                           \/ order[d].status = "PACKED"
                           \/ order'[d].status = order[d].status /\ order'[d].signed
  PROVE  ResolvedKept
<1> SUFFICES ASSUME NEW s \in Stops, Here(s), Resolved(stop[s], order)
             PROVE  stop'[s].is = "here" /\ Resolved(stop'[s], order')
  BY DEF ResolvedKept
<1>1. stop'[s] = stop[s] /\ stop[s].is = "here"
  BY DEF Here
<1>2. CASE stop[s].target \in Orders
  BY <1>1, <1>2 DEF Resolved
<1>3. CASE stop[s].target \notin Orders
  BY <1>1, <1>3 DEF Resolved
<1> QED BY <1>1, <1>2, <1>3

\* Neither the number of a row nor anything else of it that is not its fate.
LEMMA NumberIsNoFate ==
  ASSUME NEW x \in StopRows, NEW n
  PROVE  SameFate(x, [x EXCEPT !.sequence = n])
BY DEF SameFate, StopRows

\* The live stop of an order that is neither failed nor signed for is open.
LEMMA LiveIsOpen ==
  ASSUME RoutesInv, NEW s \in Stops, Here(s), stop[s].active \in Orders,
         order[stop[s].active].status = "PACKED"
           \/ (order[stop[s].active].status = "SHIPPED" /\ ~ order[stop[s].active].signed)
  PROVE  ~ Resolved(stop[s], order)
<1>1. RowHolds(stop[s]) /\ stop[s].is = "here" /\ stop[s].active # None
  BY RoutesAssumption DEF RoutesInv, RowsHold, Here, Targets
<1>2. stop[s].active = stop[s].target /\ ~ stop[s].superseded
  BY <1>1 DEF RowHolds
<1> QED BY <1>2 DEF Resolved

LEMMA RecordingPasses ==
  ASSUME RoutesInv, NEW c \in Clients, NEW R, req' = [req EXCEPT ![c] = Recording(R)], Undisturbed(c)
  PROVE  Passing(c)
<1>1. Recording(R).op \notin Alone
  BY DEF Recording, Idle, Alone
<1> QED BY <1>1, OpensPasses

LEMMA RoutesResolve ==
  ASSUME RoutesInv, Alone \cap Overlapping = {}, NEW r \in Routes,
         CreateRoute(r) \/ \E to \in Changes : UpdateRoute(r, to)
  PROVE  ReadsHold' /\ ResolvedKept
BY QuietKeeps, NothingResolved DEF CreateRoute, UpdateRoute

LEMMA OrdersResolve ==
  ASSUME RoutesInv, Alone \cap Overlapping = {}, NEW d \in Orders,
         Ship(d) \/ OrderFailure(d) \/ ReturnOrder(d) \/ VoidInvoice(d)
  PROVE  ReadsHold' /\ ResolvedKept
<1>1. order \in [Orders -> [status : OrderStatuses, signed : BOOLEAN]]
  BY DEF RoutesInv, RoutesTypeOK
<1>2. Quiet /\ UNCHANGED <<stop, req>>
  BY DEF Ship, OrderFailure, ReturnOrder, VoidInvoice, Becomes
<1>3. ASSUME NEW e \in Orders
      PROVE  order'[e] = order[e] \/ order'[e].status \in {"FAILED", "RETURNED"} \/ order[e].status = "PACKED"
  BY <1>1 DEF Ship, OrderFailure, ReturnOrder, VoidInvoice, Becomes
<1> QED BY <1>2, <1>3, QuietKeeps, OrderKept

LEMMA VisitsResolve ==
  ASSUME RoutesInv, Alone \cap Overlapping = {}, NEW s \in Stops,
         SiteProof(s) \/ SiteFailure(s) \/ \E x \in Sites : ChangeSite(s, x)
  PROVE  ReadsHold' /\ ResolvedKept
<1>1. Quiet /\ UNCHANGED <<order, req>> /\ Unresolved(s)
  BY DEF SiteProof, SiteFailure, ChangeSite
<1>2. stop \in [Stops -> StopRows]
  BY DEF RoutesInv, RoutesTypeOK
<1>3. \A u \in Stops \ {s} : stop'[u] = stop[u]
  BY <1>2 DEF SiteProof, SiteFailure, ChangeSite
<1>4. stop'[s].is = stop[s].is /\ stop'[s].superseded = stop[s].superseded
  <2>1. stop[s] \in StopRows
    BY <1>2
  <2>2. \/ stop'[s] = [stop[s] EXCEPT !.signed = TRUE]
        \/ stop'[s] = [stop[s] EXCEPT !.failed = TRUE]
        \/ \E x \in Sites : stop'[s] = [stop[s] EXCEPT !.target = x]
    BY <1>2 DEF SiteProof, SiteFailure, ChangeSite
  <2> QED BY <2>1, <2>2 DEF StopRows
<1>5. Resolved(stop[s], order) => stop[s].superseded
  BY <1>1, RoutesAssumption DEF Unresolved, Resolved
<1>6. \A u \in Stops : Here(u) /\ Resolved(stop[u], order) =>
        SameFate(stop[u], stop'[u]) \/ (stop'[u].is = "here" /\ stop'[u].superseded)
  BY <1>3, <1>4, <1>5 DEF SameFate, Here
<1> QED BY <1>1, <1>6, FatesKept, QuietKeeps

LEMMA BumpResolves ==
  ASSUME RoutesInv, Alone \cap Overlapping = {}, NEW c \in Clients, Bump(c)
  PROVE  ReadsHold' /\ ResolvedKept
<1> DEFINE q == IF req[c].route = None THEN Idle
                ELSE [Idle EXCEPT !.op = "thenAdd", !.route = req[c].route, !.target = req[c].target]
           told(e) == [req[e] EXCEPT !.stale = req[e].op = "plan" /\ (req[e].stale \/ req[e].routes \cap req[c].routes # {})]
<1>1. q.op \notin Alone
  BY DEF Idle, Alone
<1>2. \A e \in Clients : told(e).op = req[e].op
  BY DEF RoutesInv, RoutesTypeOK, Reads
<1>3. req' = [e \in Clients |-> IF e = c THEN q ELSE told(e)] /\ Undisturbed(c) /\ UNCHANGED <<stop, order>>
  BY DEF Bump, Continues
<1> HIDE DEF q, told
<1>4. Passing(c)
  BY <1>1, <1>2, <1>3 DEF Passing
<1> QED BY <1>3, <1>4, PassingKeeps, NothingResolved

LEMMA FailsResolves ==
  ASSUME RoutesInv, ReadsHold, NEW c \in Clients, Fails(c)
  PROVE  ReadsHold' /\ ResolvedKept
<1>1. AloneHolds(Idle, stop, order)
  BY IdleIsRead DEF AloneHolds
<1> QED BY <1>1, IdleIsRead, ReadingKeeps, NothingResolved DEF Fails, Ends

LEMMA AddReadResolves ==
  ASSUME RoutesInv, Alone \cap Overlapping = {}, NEW c \in Clients, NEW r \in Routes, NEW x \in Targets, AddRead(c, r, x)
  PROVE  ReadsHold' /\ ResolvedKept
<1>1. Undisturbed(c) /\ UNCHANGED <<stop, order>>
  BY DEF AddRead, Opens, Continues
<1>2. CASE Opens(c, [Idle EXCEPT !.op = "add", !.route = r, !.target = x])
  <2>1. [Idle EXCEPT !.op = "add", !.route = r, !.target = x].op \notin Alone
    BY DEF Idle, Alone
  <2> QED BY <1>1, <1>2, <2>1, OpensPasses, PassingKeeps, NothingResolved DEF Opens
<1>3. CASE req' = [req EXCEPT ![c].op = "add"]
  <2>1. req \in [Clients -> Reads]
    BY DEF RoutesInv, RoutesTypeOK
  <2>2. req'[c].op = "add" /\ \A e \in Clients \ {c} : req'[e] = req[e]
    BY <1>3, <2>1 DEF Reads
  <2>3. Passing(c)
    BY <1>1, <2>2 DEF Passing, Alone
  <2> QED BY <1>1, <2>3, PassingKeeps, NothingResolved
<1> QED BY <1>2, <1>3 DEF AddRead

LEMMA AddCommitResolves ==
  ASSUME RoutesInv, Alone \cap Overlapping = {}, NEW c \in Clients, NEW n \in 1..MaxSequence, AddCommit(c, n)
  PROVE  ReadsHold' /\ ResolvedKept
<1>1. /\ FirstFree \in Stops /\ Undisturbed(c) /\ UNCHANGED order
      /\ req' = [req EXCEPT ![c] = Recording({req[c].route})]
  BY DEF AddCommit, Continues
<1>2. Passing(c)
  BY <1>1, RecordingPasses
<1>3. stop[FirstFree].is = "none"
  BY <1>1, FirstFreeIsMade
<1>4. \A s \in Stops \ {FirstFree} : stop'[s] \in {stop[s], [stop[s] EXCEPT !.sequence = stop[s].sequence + 1]}
  BY DEF AddCommit
<1>5. \A s \in Stops \ {FirstFree} : SameFate(stop[s], stop'[s])
  <2> TAKE s \in Stops \ {FirstFree}
  <2>1. stop[s] \in StopRows
    BY DEF RoutesInv, RoutesTypeOK
  <2>2. SameFate(stop[s], [stop[s] EXCEPT !.sequence = stop[s].sequence + 1])
    BY <2>1, NumberIsNoFate
  <2> QED BY <1>4, <2>2 DEF SameFate
<1>6. ResolvedKept
  BY <1>1, <1>3, <1>5, FatesKept DEF Here
<1> QED BY <1>2, <1>6, PassingKeeps

LEMMA RemoveReadResolves ==
  ASSUME RoutesInv, ReadsHold, NEW c \in Clients, NEW s \in Stops, RemoveRead(c, s)
  PROVE  ReadsHold' /\ ResolvedKept
<1> DEFINE q == [Idle EXCEPT !.op = "remove", !.stops = {s}]
<1>1. q \in Reads /\ q.op = "remove" /\ q.stops = {s}
  BY IdleIsRead DEF Idle, Reads, Ops
<1>2. req' = [req EXCEPT ![c] = q] /\ UNCHANGED <<stop, order>> /\ Pending(s)
  BY DEF RemoveRead, Opens
<1> HIDE DEF q
<1>3. AloneHolds(q, stop, order)
  BY <1>1, <1>2, PendingIsNotResolved DEF AloneHolds
<1> QED BY <1>1, <1>2, <1>3, ReadingKeeps, NothingResolved

LEMMA RemoveCommitResolves ==
  ASSUME RoutesInv, ReadsHold, Alone \cap Overlapping = {}, NEW c \in Clients, RemoveCommit(c)
  PROVE  ReadsHold' /\ ResolvedKept
<1>1. PICK s \in req[c].stops : /\ stop' = [stop EXCEPT ![s] = Deleted(s)]
                                /\ req' = [req EXCEPT ![c] = Recording({stop[s].route})]
  BY DEF RemoveCommit
<1>2. req[c].op = "remove" /\ Undisturbed(c) /\ UNCHANGED order
  BY DEF RemoveCommit, Continues
<1>3. Passing(c)
  BY <1>1, <1>2, RecordingPasses
<1>4. ~ Resolved(stop[s], order)
  BY <1>1, <1>2 DEF ReadsHold, AloneHolds
<1>5. \A u \in Stops : u # s => stop'[u] = stop[u]
  BY <1>1 DEF RoutesInv, RoutesTypeOK
<1>6. ResolvedKept
  BY <1>2, <1>4, <1>5, FatesKept DEF SameFate
<1> QED BY <1>3, <1>6, PassingKeeps

LEMMA ReorderStopsResolves ==
  ASSUME RoutesInv, Alone \cap Overlapping = {}, NEW c \in Clients, NEW r \in Routes, ReorderStops(c, r)
  PROVE  ReadsHold' /\ ResolvedKept
<1>1. Undisturbed(c) /\ req' = [req EXCEPT ![c] = Recording({r})] /\ UNCHANGED order
  BY DEF ReorderStops, Opens
<1>2. Passing(c)
  BY <1>1, RecordingPasses
<1>3. PICK f \in [On(r) -> 1..MaxSequence] :
        stop' = [s \in Stops |-> IF s \in On(r) THEN [stop[s] EXCEPT !.sequence = f[s]] ELSE stop[s]]
  BY DEF ReorderStops
<1>4. \A s \in Stops : SameFate(stop[s], stop'[s])
  <2> TAKE s \in Stops
  <2>1. stop[s] \in StopRows
    BY DEF RoutesInv, RoutesTypeOK
  <2>2. SameFate(stop[s], [stop[s] EXCEPT !.sequence = f[s]])
    BY <2>1, NumberIsNoFate
  <2>3. SameFate(stop[s], stop[s])
    BY DEF SameFate
  <2> QED BY <1>3, <2>2, <2>3
<1>5. ResolvedKept
  BY <1>1, <1>4, FatesKept
<1> QED BY <1>2, <1>5, PassingKeeps

LEMMA ReadsResolve ==
  ASSUME RoutesInv, Alone \cap Overlapping = {}, NEW c \in Clients,
         \/ \E r \in Routes : OptimizeRead(c, r)
         \/ \E s \in Stops, r \in Routes : RescheduleRead(c, s, r)
         \/ \E d \in Orders : OrderProofRead(c, d)
  PROVE  ReadsHold' /\ ResolvedKept
<1>1. PICK q : Opens(c, q) /\ q.op \in {"optimize", "rescheduleVisit", "proof"} /\ UNCHANGED <<stop, order>>
  BY DEF OptimizeRead, RescheduleRead, OrderProofRead, Idle
<1>2. Passing(c)
  BY <1>1, OpensPasses DEF Opens, Alone
<1> QED BY <1>1, <1>2, PassingKeeps, NothingResolved

LEMMA OptimizeCommitResolves ==
  ASSUME RoutesInv, Alone \cap Overlapping = {}, NEW c \in Clients, NEW f \in [Stops -> 1..MaxSequence], OptimizeCommit(c, f)
  PROVE  ReadsHold' /\ ResolvedKept
<1>1. Undisturbed(c) /\ req' = [req EXCEPT ![c] = Recording({req[c].route})] /\ UNCHANGED order
  BY DEF OptimizeCommit, Continues
<1>2. Passing(c)
  BY <1>1, RecordingPasses
<1>3. \A s \in Stops : stop'[s] \in {stop[s], [stop[s] EXCEPT !.sequence = req[c].seen + f[s]]}
  BY DEF OptimizeCommit
<1>4. \A s \in Stops : SameFate(stop[s], stop'[s])
  <2> TAKE s \in Stops
  <2>1. stop[s] \in StopRows
    BY DEF RoutesInv, RoutesTypeOK
  <2>2. SameFate(stop[s], [stop[s] EXCEPT !.sequence = req[c].seen + f[s]])
    BY <2>1, NumberIsNoFate
  <2> QED BY <1>3, <2>2 DEF SameFate
<1>5. ResolvedKept
  BY <1>1, <1>4, FatesKept
<1> QED BY <1>2, <1>5, PassingKeeps

LEMMA RescheduleCommitResolves ==
  ASSUME RoutesInv, Alone \cap Overlapping = {}, NEW c \in Clients, RescheduleCommit(c)
  PROVE  ReadsHold' /\ ResolvedKept
<1> DEFINE r == req[c].route
           y(s) == [NewStop(r, req[c].target, HighestOf(On(r)) + 1) EXCEPT !.replaces = s]
<1>1. PICK s \in req[c].stops :
        /\ Here(s)
        /\ stop' = [stop EXCEPT ![s].superseded = TRUE, ![FirstFree] = y(s)]
        /\ req' = [req EXCEPT ![c] = Recording({stop[s].route, r})]
  BY DEF RescheduleCommit
<1>2. FirstFree \in Stops /\ Undisturbed(c) /\ UNCHANGED order
  BY DEF RescheduleCommit, Continues
<1>3. Passing(c)
  BY <1>1, <1>2, RecordingPasses
<1>4. stop[FirstFree].is = "none"
  BY <1>2, FirstFreeIsMade
<1>5. stop \in [Stops -> StopRows] /\ s \in Stops
  BY DEF RoutesInv, RoutesTypeOK, Reads
<1> HIDE DEF y, r
<1>6. \A u \in Stops : u # FirstFree /\ u # s => stop'[u] = stop[u]
  BY <1>1, <1>5
<1>7. stop'[s].is = "here" /\ stop'[s].superseded
  <2>1. s # FirstFree
    BY <1>1, <1>4 DEF Here
  <2>2. stop'[s] = [stop[s] EXCEPT !.superseded = TRUE]
    BY <1>1, <1>2, <1>5, <2>1
  <2> QED BY <1>1, <1>5, <2>2 DEF StopRows, Here
<1>8. ResolvedKept
  BY <1>2, <1>4, <1>6, <1>7, FatesKept DEF SameFate, Here
<1> QED BY <1>3, <1>8, PassingKeeps

\* An order is packed when it is cancelled, so that its live stop is open.
LEMMA CancelOrderResolves ==
  ASSUME RoutesInv, Alone \cap Overlapping = {}, NEW c \in Clients, NEW d \in Orders, CancelOrder(c, d)
  PROVE  ReadsHold' /\ ResolvedKept
<1>1. /\ Undisturbed(c) /\ req' = [req EXCEPT ![c] = Recording({stop[s].route : s \in Live(d)})]
      /\ order[d].status = "PACKED" /\ order' = [order EXCEPT ![d].status = "CANCELLED"]
  BY DEF CancelOrder, Opens
<1>2. Passing(c)
  BY <1>1, RecordingPasses
<1>3. \A s \in Stops : s \notin Live(d) => stop'[s] = stop[s]
  BY DEF CancelOrder
<1>4. \A e \in Orders : e # d => order'[e] = order[e]
  BY <1>1 DEF RoutesInv, RoutesTypeOK
<1>5. \A s \in Live(d) : ~ Resolved(stop[s], order)
  BY <1>1, LiveIsOpen DEF Live
<1>6. ResolvedKept
  <2> SUFFICES ASSUME NEW s \in Stops, Here(s), Resolved(stop[s], order)
               PROVE  stop'[s].is = "here" /\ Resolved(stop'[s], order')
    BY DEF ResolvedKept
  <2>1. stop'[s] = stop[s] /\ stop[s].is = "here"
    BY <1>3, <1>5 DEF Here
  <2> QED BY <1>1, <1>4, <2>1 DEF Resolved
<1> QED BY <1>2, <1>6, PassingKeeps

LEMMA OrderProofWriteResolves ==
  ASSUME RoutesInv, Alone \cap Overlapping = {}, NEW c \in Clients, OrderProofWrite(c)
  PROVE  ReadsHold' /\ ResolvedKept
<1>1. Undisturbed(c) /\ req' = [req EXCEPT ![c] = Idle] /\ UNCHANGED stop
  BY DEF OrderProofWrite, Continues, Ends
<1>2. Idle.op \notin Alone
  BY DEF Idle, Alone
<1>3. Passing(c)
  BY <1>1, <1>2, OpensPasses
<1>4. \A d \in Orders : order'[d] = order[d] \/ (order'[d].status = order[d].status /\ order'[d].signed)
  BY DEF OrderProofWrite, RoutesInv, RoutesTypeOK
<1> QED BY <1>1, <1>3, <1>4, PassingKeeps, OrderKept

LEMMA OrderRescheduleReadResolves ==
  ASSUME RoutesInv, ReadsHold, NEW c \in Clients, NEW d \in Orders, NEW r \in Routes \cup {None}, OrderRescheduleRead(c, d, r)
  PROVE  ReadsHold' /\ ResolvedKept
<1> DEFINE S == Live(d)
           q == [Idle EXCEPT !.op = "reschedule", !.route = r, !.target = d, !.stops = S]
<1>1. S \in SUBSET Stops /\ \A s \in Stops : stop[s].is = "here" /\ stop[s].active = d => s \in S
  BY DEF Live, Here
<1>2. req' = [req EXCEPT ![c] = q] /\ UNCHANGED <<stop, order>>
  BY DEF OrderRescheduleRead, Opens
<1> HIDE DEF S
<1>3. q \in Reads /\ q.op = "reschedule" /\ q.target = d /\ q.stops = S
  BY <1>1, IdleIsRead DEF Idle, Reads, Ops, Targets
<1> HIDE DEF q
<1>4. AloneHolds(q, stop, order)
  BY <1>1, <1>3 DEF AloneHolds
<1> QED BY <1>2, <1>3, <1>4, ReadingKeeps, NothingResolved

\* The failed order is on its way again, and every stop that failed for it is
\* closed, or was.
LEMMA OrderRescheduleCommitResolves ==
  ASSUME RoutesInv, ReadsHold, Alone \cap Overlapping = {}, NEW c \in Clients, OrderRescheduleCommit(c)
  PROVE  ReadsHold' /\ ResolvedKept
<1> DEFINE S == req[c].stops
           d == req[c].target
           row(s) == [stop[s] EXCEPT !.superseded = TRUE, !.active = None]
<1>1. req[c] \in Reads /\ RequestHolds(req[c], stop, route) /\ req[c].op = "reschedule"
  BY DEF RoutesInv, RoutesTypeOK, RequestsHold, OrderRescheduleCommit, Continues
<1>2. d \in Orders
  BY <1>1 DEF RequestHolds
<1>3. \A s \in Stops : stop[s].is = "here" /\ stop[s].active = d => s \in S
  BY <1>1 DEF ReadsHold, AloneHolds
<1>4. /\ stop' = [s \in Stops |-> IF s \in S THEN row(s) ELSE stop[s]]
      /\ order' = [order EXCEPT ![d].status = "SHIPPED"]
      /\ req' = [req EXCEPT ![c] = Following(c)] /\ Undisturbed(c)
      /\ \A s \in S : stop[s].is = "here"
  BY DEF OrderRescheduleCommit, Continues, Here
<1> HIDE DEF S, d
<1>5. Following(c).op \notin Alone
  BY DEF Following, Recording, Idle, Alone
<1>6. Passing(c)
  BY <1>4, <1>5, OpensPasses
<1>7. \A s \in Stops : stop[s] \in StopRows /\ RowHolds(stop[s])
  BY DEF RoutesInv, RoutesTypeOK, RowsHold
<1>8. \A s \in Stops : s \in S => row(s).is = "here" /\ row(s).superseded
  BY <1>4, <1>7 DEF StopRows
<1> HIDE DEF row
<1>9. \A e \in Orders : e # d => order'[e] = order[e]
  BY <1>4 DEF RoutesInv, RoutesTypeOK
<1>10. ResolvedKept
  <2> SUFFICES ASSUME NEW s \in Stops, stop[s].is = "here", Resolved(stop[s], order)
               PROVE  stop'[s].is = "here" /\ Resolved(stop'[s], order')
    BY DEF ResolvedKept, Here
  <2>1. CASE s \in S
    BY <1>4, <1>8, <2>1 DEF Resolved
  <2>2. CASE s \notin S
    <3>1. stop'[s] = stop[s]
      BY <1>4, <2>2
    <3>2. stop[s].target = d => stop[s].superseded
      BY <1>2, <1>3, <1>7, <2>2, RoutesAssumption DEF RowHolds, Targets
    <3> QED BY <1>9, <3>1, <3>2 DEF Resolved
  <2> QED BY <2>1, <2>2
<1> QED BY <1>6, <1>10, PassingKeeps

\* What a plan takes off its routes is still to be delivered.
LEMMA PlanReadResolves ==
  ASSUME RoutesInv, ReadsHold, NEW c \in Clients, NEW r \in Routes, NEW D \in SUBSET Orders, PlanRead(c, r, D)
  PROVE  ReadsHold' /\ ResolvedKept
<1> DEFINE affected == Affected(r, D)
           taken    == {s \in Stops : Here(s) /\ stop[s].active # None /\ stop[s].route \in affected
                                     /\ (stop[s].active \in D \/ stop[s].route = r)}
           off      == D \cup {stop[s].active : s \in taken}
           emptied  == {q \in affected : On(q) \subseteq taken}
           q        == [Idle EXCEPT !.op = "plan", !.route = r, !.orders = D, !.takenOff = off,
                                    !.routes = affected, !.emptied = emptied]
<1>1. affected \in SUBSET Routes
  BY DEF Affected, Live, RoutesInv, RowsHold, RowHolds, Here
<1>2. off \in SUBSET Orders
  BY DEF RoutesInv, RoutesTypeOK, StopRows
<1>3. emptied \in SUBSET Routes
  BY <1>1
<1>4. /\ req' = [req EXCEPT ![c] = q] /\ UNCHANGED <<stop, order>>
      /\ route[r] = "NONE" \/ ~ Locked(r)
      /\ \A d \in D : order[d].status \in {"PACKED", "SHIPPED"} /\ ~ order[d].signed
  BY DEF PlanRead, Opens
<1>5. ASSUME NEW s \in Stops, Here(s), stop[s].active \in D PROVE ~ Resolved(stop[s], order)
  <2>1. stop[s].active \in Orders
    BY <1>5
  <2> QED BY <1>4, <1>5, <2>1, LiveIsOpen
<1>6. ASSUME NEW s \in Stops, Here(s), stop[s].route = r PROVE ~ Resolved(stop[s], order)
  <2>1. ~ Locked(r)
    BY <1>4, <1>6 DEF RoutesInv, OnRoutes
  <2>2. Pending(s)
    BY <1>6, <2>1 DEF Locked, On
  <2> QED BY <2>2, PendingIsNotResolved
<1>7. ASSUME NEW s \in Stops, Here(s), stop[s].active \in off PROVE ~ Resolved(stop[s], order)
  <2>1. CASE stop[s].active \in D
    BY <1>5, <1>7, <2>1
  <2>2. CASE \E u \in taken : stop[s].active = stop[u].active
    <3>1. s \in taken
      BY <1>7, <2>2 DEF RoutesInv, OneActive
    <3> QED BY <1>5, <1>6, <1>7, <3>1
  <2> QED BY <1>7, <2>1, <2>2
<1> HIDE DEF affected, off, emptied
<1>8. q \in Reads /\ q.op = "plan" /\ q.takenOff = off
  BY <1>1, <1>2, <1>3, IdleIsRead DEF Idle, Reads, Ops
<1> HIDE DEF q
<1>9. AloneHolds(q, stop, order)
  BY <1>7, <1>8 DEF AloneHolds, Here
<1> QED BY <1>4, <1>8, <1>9, ReadingKeeps, NothingResolved

LEMMA PlanCommitResolves ==
  ASSUME RoutesInv, ReadsHold, Alone \cap Overlapping = {},
         NEW c \in Clients, NEW k \in Nat, NEW p \in [1..k -> req[c].orders], PlanCommit(c, p)
  PROVE  ReadsHold' /\ ResolvedKept
<1> DEFINE r       == req[c].route
           deleted == {s \in Stops : Here(s) /\ stop[s].route \in req[c].routes /\ stop[s].active \in req[c].takenOff}
           rebuilt == IF p = <<>> THEN {} ELSE {r}
           kept(q) == On(q) \ deleted
           Made(s) == s - FirstFree + 1
           m(s)    == PlaceAfter(s, kept(stop[s].route), IF stop[s].route = r THEN Len(p) ELSE 0)
<1>1. /\ req' = [req EXCEPT ![c] = Recording(req[c].routes \cup rebuilt)]
      /\ req[c].op = "plan" /\ Undisturbed(c) /\ UNCHANGED order
  BY DEF PlanCommit, Continues
<1>2. Passing(c)
  BY <1>1, RecordingPasses
<1>3. stop' = [s \in Stops |->
           IF s \in deleted THEN Deleted(s)
           ELSE IF p # <<>> /\ Made(s) \in 1..Len(p) THEN NewStop(r, p[Made(s)], Made(s))
           ELSE IF Here(s) /\ stop[s].route \in req[c].routes \ Cancelled(c, rebuilt)
                THEN [stop[s] EXCEPT !.sequence = m(s)]
           ELSE stop[s]]
  BY DEF PlanCommit
<1>4. \A s \in deleted : ~ Resolved(stop[s], order)
  BY <1>1 DEF ReadsHold, AloneHolds, Here
<1>5. Len(p) = k
  OBVIOUS
<1>6. \A s \in Stops : Here(s) => Made(s) \notin 1..Len(p)
  <2>1. FirstFree \in Nat \ {0} /\ \A s \in Stops : stop[s].is # "none" <=> s < FirstFree
    BY FirstFreeIsNext DEF RoutesInv
  <2> QED BY <1>5, <2>1, RoutesAssumption DEF Stops, Here
<1> HIDE DEF r, deleted, rebuilt, kept, Made, m
<1>7. \A s \in Stops : Here(s) /\ s \notin deleted => stop'[s] \in {stop[s], [stop[s] EXCEPT !.sequence = m(s)]}
  BY <1>3, <1>6
<1>8. \A s \in Stops : Here(s) /\ s \notin deleted => SameFate(stop[s], stop'[s])
  <2> SUFFICES ASSUME NEW s \in Stops, Here(s), s \notin deleted PROVE SameFate(stop[s], stop'[s])
    OBVIOUS
  <2>1. stop[s] \in StopRows
    BY DEF RoutesInv, RoutesTypeOK
  <2>2. SameFate(stop[s], [stop[s] EXCEPT !.sequence = m(s)])
    BY <2>1, NumberIsNoFate
  <2> QED BY <1>7, <2>2 DEF SameFate
<1>9. ResolvedKept
  BY <1>1, <1>4, <1>8, FatesKept
<1> QED BY <1>2, <1>9, PassingKeeps

LEMMA ReadsInitially == RoutesInit => ReadsHold
<1> SUFFICES ASSUME RoutesInit, NEW c \in Clients PROVE AloneHolds(req[c], stop, order)
  BY DEF ReadsHold
<1> QED BY IdleIsRead DEF RoutesInit, AloneHolds

LEMMA NextResolves ==
  ASSUME RoutesInv, ReadsHold, Alone \cap Overlapping = {}, RoutesNext
  PROVE  ReadsHold' /\ ResolvedKept
<1>1. ASSUME NEW r \in Routes, CreateRoute(r) \/ \E to \in Changes : UpdateRoute(r, to) PROVE ReadsHold' /\ ResolvedKept
  BY <1>1, RoutesResolve
<1>2. ASSUME NEW d \in Orders, Ship(d) \/ OrderFailure(d) \/ ReturnOrder(d) \/ VoidInvoice(d)
      PROVE  ReadsHold' /\ ResolvedKept
  BY <1>2, OrdersResolve
<1>3. ASSUME NEW s \in Stops, SiteProof(s) \/ SiteFailure(s) \/ \E x \in Sites : ChangeSite(s, x)
      PROVE  ReadsHold' /\ ResolvedKept
  BY <1>3, VisitsResolve
<1>4. ASSUME NEW c \in Clients, Bump(c) \/ Fails(c) \/ RemoveCommit(c) \/ RescheduleCommit(c) \/ OrderProofWrite(c)
                                \/ OrderRescheduleCommit(c)
      PROVE  ReadsHold' /\ ResolvedKept
  BY <1>4, BumpResolves, FailsResolves, RemoveCommitResolves, RescheduleCommitResolves, OrderProofWriteResolves,
     OrderRescheduleCommitResolves
<1>5. ASSUME NEW c \in Clients, \/ \E r \in Routes, x \in Targets : AddRead(c, r, x)
                                \/ \E n \in 1..MaxSequence : AddCommit(c, n)
                                \/ \E s \in Stops : RemoveRead(c, s)
                                \/ \E r \in Routes : ReorderStops(c, r) \/ OptimizeRead(c, r)
                                \/ \E f \in [Stops -> 1..MaxSequence] : OptimizeCommit(c, f)
      PROVE  ReadsHold' /\ ResolvedKept
  BY <1>5, AddReadResolves, AddCommitResolves, RemoveReadResolves, ReorderStopsResolves, ReadsResolve, OptimizeCommitResolves
<1>6. ASSUME NEW c \in Clients, \/ \E s \in Stops, r \in Routes : RescheduleRead(c, s, r)
                                \/ \E d \in Orders : CancelOrder(c, d) \/ OrderProofRead(c, d)
                                \/ \E d \in Orders, r \in Routes \cup {None} : OrderRescheduleRead(c, d, r)
                                \/ \E r \in Routes, D \in SUBSET Orders : PlanRead(c, r, D)
      PROVE  ReadsHold' /\ ResolvedKept
  BY <1>6, ReadsResolve, CancelOrderResolves, OrderRescheduleReadResolves, PlanReadResolves
<1>7. ASSUME NEW c \in Clients, \E n \in 0..Cardinality(Orders) : \E p \in [1..n -> req[c].orders] : PlanCommit(c, p)
      PROVE  ReadsHold' /\ ResolvedKept
  <2>1. PICK n \in 0..Cardinality(Orders) : \E p \in [1..n -> req[c].orders] : PlanCommit(c, p)
    BY <1>7
  <2>2. n \in Nat
    OBVIOUS
  <2> QED BY <2>1, <2>2, PlanCommitResolves
<1> QED BY <1>1, <1>2, <1>3, <1>4, <1>5, <1>6, <1>7 DEF RoutesNext

\* As long as no one comes between the two halves of a removal, a reschedule
\* or a plan, a stop that reads delivered or failed is on record for good.
THEOREM ResolvedStaysHolds ==
  ASSUME {"remove", "plan", "reschedule"} \cap Overlapping = {}
  PROVE  RoutesSpec => ResolvedStays
<1> DEFINE Kept == \A s \in Stops : Here(s) /\ ~ Pending(s) => (Here(s) /\ ~ Pending(s))'
<1>1. Alone \cap Overlapping = {}
  BY DEF Alone
<1>2. RoutesInv /\ ReadsHold /\ [RoutesNext]_routesVars => ReadsHold' /\ [Kept]_routesVars
  <2> SUFFICES ASSUME RoutesInv, ReadsHold, [RoutesNext]_routesVars PROVE ReadsHold' /\ [Kept]_routesVars
    OBVIOUS
  <2>1. CASE UNCHANGED routesVars
    BY <2>1 DEF routesVars, ReadsHold
  <2>2. CASE RoutesNext
    <3>1. ReadsHold' /\ ResolvedKept
      BY <1>1, <2>2, NextResolves
    <3>2. ASSUME NEW s \in Stops, Here(s) /\ ~ Pending(s) PROVE (Here(s) /\ ~ Pending(s))'
      <4>1. Resolved(stop[s], order)
        BY <3>2, PendingIsNotResolved
      <4>2. stop'[s].is = "here" /\ Resolved(stop'[s], order')
        BY <3>1, <3>2, <4>1 DEF ResolvedKept
      <4>3. ~ Pending(s)'
        BY <4>2, PendingIsNotResolved
      <4> QED BY <4>2, <4>3 DEF Here
    <3> QED BY <3>1, <3>2
  <2> QED BY <2>1, <2>2
<1>3. RoutesInit => ReadsHold
  BY ReadsInitially
<1> QED BY <1>2, <1>3, RoutesInvariant, PTL DEF RoutesSpec, ResolvedStays
=============================================================================
