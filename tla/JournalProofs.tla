---------------------------- MODULE JournalProofs ----------------------------
(***************************************************************************)
(* Journal for any number of transactions, periods, documents and rows:    *)
(* numbers run on, a document is posted once, voids pair, and closed       *)
(* periods take nothing from transactions that begin after the close.      *)
(*                                                                         *)
(* The argument is about views.  A transaction sees the committed rows and *)
(* its own; every view, and the committed one, satisfies what the          *)
(* properties say of the committed rows, a commit makes the view of one    *)
(* transaction the committed one, and the unique indexes and the lock on   *)
(* the document keep what one transaction commits out of the way of what   *)
(* the others have read.                                                   *)
(***************************************************************************)
EXTENDS Journal, FiniteSetTheorems, TLAPS

Views == Txs \cup {Committed}

Shows(v, i)   == IF v \in Txs THEN StatusTo(v, i) ELSE entry[i].status
Seen(v, p)    == {i \in Ids : Sees(v, i) /\ entry[i].period = p}
Working(t)    == tx[t].pc \in {"source", "count", "insert"}
Preparing(t)  == tx[t].pc \in {"count", "insert"}

\* A row that is not there belongs to nobody, one that is there to a period;
\* what a transaction is about to insert has a period, and reverses nothing
\* unless it has looked for what it reverses.
RowsHold ==
  /\ \A i \in Ids : IF Used(i) THEN entry[i].period \in Periods ELSE entry[i].by = Committed
  /\ \A t \in Txs : /\ Working(t) => tx[t].period \in Periods
                    /\ ~ Preparing(t) => tx[t].original = 0

\* No two rows share a number, none in a view is numbered higher than there
\* are rows in it, and what was counted has not become fewer.
NumbersHold ==
  /\ \A i, j \in Ids : (Used(i) /\ Used(j) /\ entry[i].period = entry[j].period
                          /\ entry[i].number = entry[j].number) => i = j
  /\ \A v \in Views, p \in Periods : \A i \in Seen(v, p) : entry[i].number <= Cardinality(Seen(v, p))
  /\ \A t \in Txs : tx[t].pc = "insert" => tx[t].count <= Cardinality(Counted(t))

\* A transaction changes the rows of its document only, which it has locked;
\* every view has at most one posted row of a document, and none for one who
\* is about to post it.
SourcesHold ==
  /\ \A t \in Txs : (Active(t) /\ tx[t].source \in Documents) => lock[tx[t].source] = t
  /\ \A i \in Ids : entry[i].by \in Txs => Active(entry[i].by) /\ entry[i].source = tx[entry[i].by].source
  /\ \A t \in Txs : \A i \in voided[t] : Active(t) /\ Sees(t, i) /\ entry[i].source = tx[t].source
  /\ \A v \in Views : \A i, j \in Ids :
       /\ Sees(v, i) /\ Sees(v, j)
       /\ Shows(v, i) = "POSTED" /\ Shows(v, j) = "POSTED"
       /\ entry[i].source = entry[j].source /\ entry[i].source \in Documents
       => i = j
  /\ \A t \in Txs : (Preparing(t) /\ tx[t].original = 0 /\ tx[t].source \in Documents)
                      => PostedFor(t, tx[t].source) = {}

\* A reversal and its original belong together, in one transaction until it
\* commits; what is void is a reversal or has one.
ReversalsHold ==
  /\ \A i, j \in Ids : (Used(i) /\ Used(j) /\ entry[i].reverses = entry[j].reverses
                          /\ entry[i].reverses # 0) => i = j
  /\ \A j \in Ids : (Used(j) /\ entry[j].reverses # 0) =>
       LET k == entry[j].reverses
       IN  /\ entry[j].status = "VOID"
           /\ Used(k) /\ entry[k].reverses = 0
           /\ entry[k].period = entry[j].period /\ entry[k].source = entry[j].source
           /\ entry[k].by \in {entry[j].by, Committed}
           /\ entry[j].by = Committed => entry[k].status = "VOID"
           /\ entry[j].by # Committed => k \in voided[entry[j].by]
  /\ \A t \in Txs : \A k \in voided[t] : \E j \in Ids : Used(j) /\ entry[j].by = t /\ entry[j].reverses = k
  /\ \A k \in Ids : (Used(k) /\ entry[k].reverses = 0 /\ entry[k].status = "VOID") =>
       /\ entry[k].by = Committed
       /\ \E j \in Ids : Used(j) /\ entry[j].by = Committed /\ entry[j].reverses = k
  /\ \A t \in Txs : tx[t].original # 0 =>
       LET k == tx[t].original
       IN  /\ Sees(t, k) /\ entry[k].reverses = 0
           /\ entry[k].period = tx[t].period /\ entry[k].source = tx[t].source

\* Whoever works in a closed period was open when it was closed.
ClosesHold ==
  /\ \A t \in Txs : Working(t) => period[tx[t].period] = "OPEN" \/ t \in closing[tx[t].period]
  /\ \A i \in Ids : entry[i].by \in Txs =>
       period[entry[i].period] = "OPEN" \/ entry[i].by \in closing[entry[i].period]

JournalInv == TypeOK /\ RowsHold /\ NumbersHold /\ SourcesHold /\ ReversalsHold /\ ClosesHold

-----------------------------------------------------------------------------
LEMMA IdsFinite == IsFiniteSet(Ids) /\ \A S \in SUBSET Ids : IsFiniteSet(S) /\ Cardinality(S) \in Nat
<1>1. IsFiniteSet(Ids)
  BY JournalAssumption, FS_Interval DEF Ids
<1> QED BY <1>1, FS_Subset, FS_CardinalityType

LEMMA SeenCard ==
  ASSUME NEW v, NEW p
  PROVE  Seen(v, p) \in SUBSET Ids /\ IsFiniteSet(Seen(v, p)) /\ Cardinality(Seen(v, p)) \in Nat
<1>1. Seen(v, p) \in SUBSET Ids
  BY DEF Seen
<1> QED BY <1>1, IdsFinite

\* A larger set of rows has no fewer.
LEMMA MoreRows ==
  ASSUME NEW S \in SUBSET Ids, NEW T \in SUBSET S
  PROVE  Cardinality(T) <= Cardinality(S) /\ Cardinality(T) \in Nat /\ Cardinality(S) \in Nat
<1>1. IsFiniteSet(S) /\ T \in SUBSET Ids
  BY IdsFinite
<1> QED BY <1>1, IdsFinite, FS_Subset

LEMMA IdleWork == Idle \in Works /\ Idle.pc = "idle" /\ Idle.original = 0
BY JournalAssumption DEF Idle, Works, Sources

LEMMA NoRowIs == NoRow \in Rows /\ NoRow.status = "none" /\ NoRow.by = Committed
BY JournalAssumption DEF NoRow, Rows, Sources

\* The initial state satisfies the invariant.
LEMMA JournalInit == Init => JournalInv
<1> SUFFICES ASSUME Init PROVE JournalInv
  OBVIOUS
<1>1. TypeOK
  BY IdleWork, NoRowIs DEF Init, TypeOK
<1>2. \A i \in Ids : ~ Used(i) /\ entry[i].by = Committed
  BY NoRowIs DEF Init, Used
<1>3. \A t \in Txs : tx[t].pc = "idle" /\ tx[t].original = 0 /\ voided[t] = {}
  BY IdleWork DEF Init
<1>4. RowsHold
  BY <1>2, <1>3 DEF RowsHold, Working, Preparing
<1>5. NumbersHold
  BY <1>2, <1>3 DEF NumbersHold, Seen, Sees
<1>6. SourcesHold
  BY <1>2, <1>3, JournalAssumption DEF SourcesHold, Sees, Active, Preparing
<1>7. ReversalsHold
  BY <1>2, <1>3 DEF ReversalsHold
<1>8. ClosesHold
  BY <1>2, <1>3, JournalAssumption DEF ClosesHold, Working
<1> QED BY <1>1, <1>4, <1>5, <1>6, <1>7, <1>8 DEF JournalInv

-----------------------------------------------------------------------------
(* Steps that change no row *)

\* What one transaction does leaves what the others remember.
LEMMA WorkType ==
  ASSUME TypeOK, NEW t \in Txs, NEW w \in Works, Moves(t, w)
  PROVE  /\ tx' \in [Txs -> Works] /\ tx'[t] = w
         /\ \A u \in Txs \ {t} : tx'[u] = tx[u]
BY DEF TypeOK, Moves

LEMMA WorkWith ==
  ASSUME NEW r \in Works
  PROVE  /\ \A x \in {"idle", "ready", "source", "count", "insert"} : [r EXCEPT !.pc = x] \in Works
         /\ \A x \in Sources : [r EXCEPT !.source = x] \in Works
         /\ \A x \in Periods \cup {NoPeriod} : [r EXCEPT !.period = x] \in Works
         /\ \A x \in 0..MaxEntries : [r EXCEPT !.original = x] \in Works /\ [r EXCEPT !.count = x] \in Works
         /\ \A x \in 0..MaxSteps : [r EXCEPT !.left = x] \in Works
BY DEF Works

LEMMA SameViews ==
  ASSUME UNCHANGED <<entry, voided>>
  PROVE  /\ \A i : Used(i)' = Used(i)
         /\ \A v, i : Sees(v, i)' = Sees(v, i) /\ StatusTo(v, i)' = StatusTo(v, i) /\ Shows(v, i)' = Shows(v, i)
         /\ \A v, p : Seen(v, p)' = Seen(v, p)
         /\ \A v, d : PostedFor(v, d)' = PostedFor(v, d)
BY DEF Used, Sees, StatusTo, Shows, Seen, PostedFor

\* A transaction that reads, or begins, changes what it remembers alone.
LEMMA ReadKeeps ==
  ASSUME JournalInv, NEW t \in Txs, NEW w \in Works, Moves(t, w),
         UNCHANGED <<period, entry, voided, closing>>,
         w.pc # "idle",
         w.pc \in {"source", "count", "insert"} => w.period \in Periods,
         w.pc \in {"ready", "source"} => w.original = 0,
         w.pc \in {"source", "count", "insert"} => period[w.period] = "OPEN" \/ t \in closing[w.period],
         w.pc = "insert" => w.count <= Cardinality(Seen(t, w.period)),
         lock' \in [Documents -> Txs \cup {Committed}],
         \A d \in Documents : lock'[d] = lock[d] \/ lock[d] = Committed,
         w.source \in Documents => lock'[w.source] = t,
         Active(t) => w.source = tx[t].source,
         (w.pc \in {"count", "insert"} /\ w.original = 0 /\ w.source \in Documents)
           => PostedFor(t, w.source) = {},
         w.original # 0 => /\ Sees(t, w.original) /\ entry[w.original].reverses = 0
                           /\ entry[w.original].period = w.period
                           /\ entry[w.original].source = w.source
  PROVE  JournalInv'
<1>0. /\ TypeOK /\ RowsHold /\ NumbersHold /\ SourcesHold /\ ReversalsHold /\ ClosesHold
  BY DEF JournalInv
<1>1. /\ tx' \in [Txs -> Works] /\ tx'[t] = w
      /\ \A u \in Txs \ {t} : tx'[u] = tx[u]
  BY <1>0, WorkType
<1>2. TypeOK'
  BY <1>0, <1>1 DEF TypeOK
<1>3. RowsHold'
  BY <1>0, <1>1, SameViews DEF RowsHold, Working, Preparing, Works
<1>4. NumbersHold'
  <2>1. \A u \in Txs : Counted(u)' = Seen(u, tx'[u].period) /\ Counted(u) = Seen(u, tx[u].period)
    BY SameViews DEF Counted, Seen
  <2>2. \A u \in Txs : tx'[u].pc = "insert" => tx'[u].count <= Cardinality(Counted(u)')
    <3> SUFFICES ASSUME NEW u \in Txs, tx'[u].pc = "insert" PROVE tx'[u].count <= Cardinality(Counted(u)')
      OBVIOUS
    <3>1. CASE u = t
      BY <1>1, <2>1, <3>1
    <3>2. CASE u # t
      BY <1>0, <1>1, <2>1, <3>2 DEF NumbersHold
    <3> QED BY <3>1, <3>2
  <2> QED BY <1>0, <2>2, SameViews DEF NumbersHold
<1>5. SourcesHold'
  <2>1. \A u \in Txs : (Active(u)' /\ tx'[u].source \in Documents) => lock'[tx'[u].source] = u
    <3> SUFFICES ASSUME NEW u \in Txs, Active(u)', tx'[u].source \in Documents PROVE lock'[tx'[u].source] = u
      OBVIOUS
    <3>1. CASE u = t
      BY <1>1, <3>1
    <3>2. CASE u # t
      <4>1. Active(u) /\ tx[u].source \in Documents /\ tx'[u].source = tx[u].source
        BY <1>1, <3>2 DEF Active
      <4>2. lock[tx[u].source] = u
        BY <1>0, <4>1 DEF SourcesHold
      <4> QED BY <4>1, <4>2, JournalAssumption
    <3> QED BY <3>1, <3>2
  <2>2. \A u \in Txs : Active(u) => Active(u)' /\ tx'[u].source = tx[u].source
    BY <1>1 DEF Active
  <2>3. ASSUME NEW i \in Ids, NEW u \in Txs, entry[i].by = u
        PROVE  Active(u)' /\ entry[i].source = tx'[u].source
    <3>1. Active(u) /\ entry[i].source = tx[u].source
      BY <1>0, <2>3 DEF SourcesHold
    <3> QED BY <2>2, <3>1
  <2>4. ASSUME NEW u \in Txs, NEW i \in voided[u]
        PROVE  Active(u)' /\ Sees(u, i)' /\ entry[i].source = tx'[u].source
    <3>1. Active(u) /\ Sees(u, i) /\ entry[i].source = tx[u].source
      BY <1>0 DEF SourcesHold
    <3> QED BY <2>2, <3>1, SameViews
  <2>5. ASSUME NEW u \in Txs, Preparing(u)', tx'[u].original = 0, tx'[u].source \in Documents
        PROVE  (PostedFor(u, tx[u].source) = {})'
    <3>1. CASE u = t
      BY <1>1, <2>5, <3>1, SameViews DEF Preparing
    <3>2. CASE u # t
      BY <1>0, <1>1, <2>5, <3>2, SameViews DEF SourcesHold, Preparing
    <3> QED BY <3>1, <3>2
  <2>6. \A v \in Views : \A i, j \in Ids :
          /\ Sees(v, i)' /\ Sees(v, j)'
          /\ Shows(v, i)' = "POSTED" /\ Shows(v, j)' = "POSTED"
          /\ entry'[i].source = entry'[j].source /\ entry'[i].source \in Documents
          => i = j
    BY <1>0, SameViews DEF SourcesHold
  <2> QED BY <2>1, <2>3, <2>4, <2>5, <2>6 DEF SourcesHold
<1>6. ReversalsHold'
  BY <1>0, <1>1, SameViews DEF ReversalsHold
<1>7. ClosesHold'
  BY <1>0, <1>1 DEF ClosesHold, Working
<1> QED BY <1>2, <1>3, <1>4, <1>5, <1>6, <1>7 DEF JournalInv

LEMMA BeginKeeps ==
  ASSUME JournalInv, NEW t \in Txs, NEW s \in Sources, Begin(t, s)
  PROVE  JournalInv'
<1> DEFINE w == [Idle EXCEPT !.pc = "ready", !.source = s, !.left = MaxSteps]
<1>0. TypeOK
  BY DEF JournalInv
<1>1. w \in Works /\ w.pc = "ready" /\ w.original = 0 /\ w.source = s
  <2> DEFINE a == [Idle EXCEPT !.pc = "ready"]
             b == [a EXCEPT !.source = s]
             c == [b EXCEPT !.left = MaxSteps]
  <2>1. a \in Works
    BY IdleWork, WorkWith
  <2>2. b \in Works
    BY <2>1, WorkWith
  <2>3. MaxSteps \in 0..MaxSteps
    BY JournalAssumption
  <2>6. c \in Works
    BY <2>2, <2>3, WorkWith
  <2>4. w = c
    OBVIOUS
  <2>5. w.pc = "ready" /\ w.original = 0 /\ w.source = s
    BY DEF Idle
  <2> QED BY <2>4, <2>5, <2>6
<1>2. Moves(t, w) /\ UNCHANGED <<period, entry, voided, closing>> /\ ~ Active(t)
  BY DEF Begin, At, Active
<1>3. /\ lock' \in [Documents -> Txs \cup {Committed}]
      /\ \A d \in Documents : lock'[d] = lock[d] \/ lock[d] = Committed
      /\ s \in Documents => lock'[s] = t
  <2>1. CASE s = Manual /\ UNCHANGED lock
    BY <1>0, <2>1, JournalAssumption DEF TypeOK
  <2>2. CASE s \in Documents /\ lock[s] = Committed /\ lock' = [lock EXCEPT ![s] = t]
    BY <1>0, <2>2 DEF TypeOK
  <2> QED BY <2>1, <2>2 DEF Begin
<1> HIDE DEF w
<1> QED BY <1>1, <1>2, <1>3, ReadKeeps

LEMMA StartKeeps ==
  ASSUME JournalInv, NEW t \in Txs,
         \/ \E p \in Periods : StartPost(t, p)
         \/ \E i \in Ids : StartVoid(t, i)
         \/ FindDuplicate(t) \/ Count(t)
  PROVE  JournalInv'
<1>0. /\ TypeOK /\ RowsHold /\ NumbersHold /\ SourcesHold /\ ReversalsHold /\ ClosesHold /\ tx[t] \in Works
  BY DEF JournalInv, TypeOK
<1>1. /\ UNCHANGED <<period, entry, voided, lock, closing>> /\ Active(t)
      /\ lock' \in [Documents -> Txs \cup {Committed}]
      /\ tx[t].source \in Documents => lock'[tx[t].source] = t
  BY <1>0 DEF StartPost, StartVoid, FindDuplicate, Count, At, Active, TypeOK, SourcesHold
<1>2. ASSUME NEW p \in Periods, StartPost(t, p) PROVE JournalInv'
  <2> DEFINE w == [tx[t] EXCEPT !.pc = "source", !.period = p, !.left = @ - 1]
  <2>1. w \in Works /\ w.pc = "source" /\ w.period = p /\ w.original = 0 /\ w.source = tx[t].source
    <3> DEFINE a == [tx[t] EXCEPT !.pc = "source"]
               b == [a EXCEPT !.period = p]
               c == [b EXCEPT !.left = @ - 1]
    <3>1. a \in Works /\ a.left = tx[t].left
      BY <1>0, WorkWith DEF Works
    <3>2. b \in Works /\ b.left = tx[t].left
      BY <3>1, WorkWith DEF Works
    <3>8. tx[t].left > 0 /\ tx[t].left \in 0..MaxSteps
      BY <1>0, <1>2 DEF StartPost, Works
    <3>3. tx[t].left - 1 \in 0..MaxSteps
      BY <3>8, JournalAssumption
    <3>7. tx[t].original = 0
      BY <1>0, <1>2 DEF StartPost, At, RowsHold, Preparing
    <3>4. c \in Works
      BY <3>2, <3>3, WorkWith
    <3>5. w = c
      OBVIOUS
    <3>6. w.pc = "source" /\ w.period = p /\ w.original = tx[t].original /\ w.source = tx[t].source
      BY <1>0 DEF Works
    <3> QED BY <3>4, <3>5, <3>6, <3>7
  <2>2. Moves(t, w) /\ period[p] = "OPEN"
    BY <1>2 DEF StartPost
  <2> HIDE DEF w
  <2> QED BY <1>1, <2>1, <2>2, ReadKeeps
<1>3. ASSUME NEW i \in Ids, StartVoid(t, i) PROVE JournalInv'
  <2> DEFINE w == [tx[t] EXCEPT !.pc = "count", !.period = entry[i].period, !.original = i, !.left = @ - 1]
  <2>1. /\ Sees(t, i) /\ Used(i) /\ entry[i].source = tx[t].source /\ StatusTo(t, i) = "POSTED"
        /\ period[entry[i].period] = "OPEN" /\ Moves(t, w) /\ tx[t].left > 0
    BY <1>3 DEF StartVoid, PostedFor, Sees
  <2>2. entry[i].period \in Periods
    BY <1>0, <2>1 DEF RowsHold
  <2>3. entry[i].reverses = 0
    BY <1>0, <2>1 DEF ReversalsHold, StatusTo
  <2>4. i # 0 /\ i \in 0..MaxEntries
    BY JournalAssumption DEF Ids
  <2>5. w \in Works /\ w.pc = "count" /\ w.period = entry[i].period /\ w.original = i /\ w.source = tx[t].source
    <3> DEFINE a == [tx[t] EXCEPT !.pc = "count"]
               b == [a EXCEPT !.period = entry[i].period]
               c == [b EXCEPT !.original = i]
               d == [c EXCEPT !.left = @ - 1]
    <3>1. a \in Works /\ a.left = tx[t].left
      BY <1>0, WorkWith DEF Works
    <3>2. b \in Works /\ b.left = tx[t].left
      BY <2>2, <3>1, WorkWith DEF Works
    <3>3. c \in Works /\ c.left = tx[t].left
      BY <2>4, <3>2, WorkWith DEF Works
    <3>4. tx[t].left - 1 \in 0..MaxSteps
      BY <1>0, <2>1, JournalAssumption DEF Works
    <3>5. d \in Works
      BY <3>3, <3>4, WorkWith
    <3>6. w = d
      OBVIOUS
    <3>7. w.pc = "count" /\ w.period = entry[i].period /\ w.original = i /\ w.source = tx[t].source
      BY <1>0 DEF Works
    <3> QED BY <3>5, <3>6, <3>7
  <2> HIDE DEF w
  <2> QED BY <1>1, <2>1, <2>2, <2>3, <2>4, <2>5, ReadKeeps
<1>4. CASE FindDuplicate(t)
  <2> DEFINE w == [tx[t] EXCEPT !.pc = "count"]
  <2>1. /\ w \in Works /\ w.pc = "count" /\ w.period = tx[t].period /\ w.original = 0
        /\ w.source = tx[t].source /\ Moves(t, w)
    BY <1>0, <1>4 DEF FindDuplicate, At, Works, RowsHold, Preparing
  <2>2. w.period \in Periods /\ (period[w.period] = "OPEN" \/ t \in closing[w.period])
    BY <1>0, <1>4, <2>1 DEF FindDuplicate, At, RowsHold, ClosesHold, Working
  <2>3. w.source \in Documents => PostedFor(t, w.source) = {}
    BY <1>4, <2>1, JournalAssumption DEF FindDuplicate
  <2> HIDE DEF w
  <2> QED BY <1>1, <2>1, <2>2, <2>3, ReadKeeps
<1>5. CASE Count(t)
  <2> DEFINE w == [tx[t] EXCEPT !.pc = "insert", !.count = Cardinality(Counted(t))]
  <2>1. Counted(t) = Seen(t, tx[t].period)
    BY DEF Counted, Seen
  <2>2. Cardinality(Counted(t)) \in 0..MaxEntries
    <3>1. Cardinality(Ids) = MaxEntries
      BY JournalAssumption, FS_Interval DEF Ids
    <3>2. Counted(t) \in SUBSET Ids
      BY DEF Counted
    <3> QED BY <3>1, <3>2, MoreRows, JournalAssumption
  <2>3. /\ w \in Works /\ w.pc = "insert" /\ w.period = tx[t].period /\ w.original = tx[t].original
        /\ w.source = tx[t].source /\ w.count = Cardinality(Counted(t)) /\ Moves(t, w)
    BY <1>0, <1>5, <2>2 DEF Count, At, Works
  <2>4. tx[t].pc = "count" /\ Working(t) /\ Preparing(t)
    BY <1>5 DEF Count, At, Working, Preparing
  <2>5. w.period \in Periods /\ (period[w.period] = "OPEN" \/ t \in closing[w.period])
    BY <1>0, <2>3, <2>4 DEF RowsHold, ClosesHold
  <2>6. (w.original = 0 /\ w.source \in Documents) => PostedFor(t, w.source) = {}
    BY <1>0, <2>3, <2>4 DEF SourcesHold
  <2>7. w.original # 0 => /\ Sees(t, w.original) /\ entry[w.original].reverses = 0
                          /\ entry[w.original].period = w.period
                          /\ entry[w.original].source = w.source
    BY <1>0, <2>3 DEF ReversalsHold
  <2>8. w.count <= Cardinality(Seen(t, w.period))
    BY <2>1, <2>2, <2>3
  <2> HIDE DEF w
  <2> QED BY <1>1, <2>3, <2>5, <2>6, <2>7, <2>8, ReadKeeps
<1> QED BY <1>2, <1>3, <1>4, <1>5

\* Closing notes who is open; reopening lets everyone in.
LEMMA PeriodsKeep ==
  ASSUME JournalInv, NEW p \in Periods, ClosePeriod(p) \/ ReopenPeriod(p)
  PROVE  JournalInv'
<1>0. /\ TypeOK /\ RowsHold /\ NumbersHold /\ SourcesHold /\ ReversalsHold /\ ClosesHold
  BY DEF JournalInv
<1>1. UNCHANGED <<entry, voided, lock, tx>>
  BY DEF ClosePeriod, ReopenPeriod
<1>2. TypeOK'
  BY <1>0 DEF TypeOK, ClosePeriod, ReopenPeriod
<1>3. RowsHold' /\ ReversalsHold'
  BY <1>0, <1>1, SameViews DEF RowsHold, ReversalsHold, Working, Preparing
<1>4. NumbersHold'
  <2>1. \A u \in Txs : Counted(u)' = Counted(u)
    BY <1>1, SameViews DEF Counted
  <2> QED BY <1>0, <1>1, <2>1, SameViews DEF NumbersHold
<1>5. SourcesHold'
  BY <1>0, <1>1, SameViews DEF SourcesHold, Active, Preparing
<1>6. ClosesHold'
  <2>1. ASSUME NEW t \in Txs, Active(t), NEW q \in Periods, period[q] = "OPEN" \/ t \in closing[q]
        PROVE  period'[q] = "OPEN" \/ t \in closing'[q]
    BY <1>0, <2>1 DEF ClosePeriod, ReopenPeriod, TypeOK
  <2>2. \A t \in Txs : Working(t) => Active(t) /\ tx[t].period \in Periods
    BY <1>0 DEF Working, Active, RowsHold
  <2>3. \A i \in Ids : entry[i].by \in Txs => Active(entry[i].by) /\ entry[i].period \in Periods
    BY <1>0, JournalAssumption DEF SourcesHold, RowsHold
  <2> QED BY <1>0, <1>1, <2>1, <2>2, <2>3 DEF ClosesHold, Working
<1> QED BY <1>2, <1>3, <1>4, <1>5, <1>6 DEF JournalInv
-----------------------------------------------------------------------------
(* The insert *)

\* What an insert does to the rows, and to what is seen of them.
LEMMA InsertRow ==
  ASSUME JournalInv, NEW t \in Txs, Insert(t)
  PROVE  \E i \in Ids :
           /\ ~ Used(i) /\ entry[i].by = Committed
           /\ entry' \in [Ids -> Rows]
           /\ \A j \in Ids \ {i} : entry'[j] = entry[j]
           /\ entry'[i].status = (IF tx[t].original = 0 THEN "POSTED" ELSE "VOID")
           /\ entry'[i].period = tx[t].period /\ entry'[i].source = tx[t].source
           /\ entry'[i].number = tx[t].count + 1 /\ entry'[i].reverses = tx[t].original
           /\ entry'[i].by = t
<1>0. TypeOK /\ RowsHold
  BY DEF JournalInv
<1> DEFINE r == [status |-> IF tx[t].original = 0 THEN "POSTED" ELSE "VOID",
                 period |-> tx[t].period, source |-> tx[t].source, number |-> NumberAfter(tx[t].count),
                 reverses |-> tx[t].original, by |-> t]
<1>1. PICK i \in Ids : ~ Used(i) /\ entry' = [entry EXCEPT ![i] = r]
  BY DEF Insert
<1>2. tx[t] \in Works
  BY <1>0 DEF TypeOK
<1>3. NumberAfter(tx[t].count) \in Nat \ {0} /\ NumberAfter(tx[t].count) = tx[t].count + 1
  BY <1>2, JournalAssumption DEF NumberAfter, Works
<1>4. r \in Rows
  BY <1>2, <1>3 DEF Works, Rows
<1>5. entry' \in [Ids -> Rows] /\ entry'[i] = r /\ \A j \in Ids \ {i} : entry'[j] = entry[j]
  BY <1>0, <1>1, <1>4 DEF TypeOK
<1>6. entry[i].by = Committed
  BY <1>0, <1>1 DEF RowsHold
<1> QED BY <1>1, <1>3, <1>5, <1>6

LEMMA InsertKeeps ==
  ASSUME JournalInv, NEW t \in Txs, Insert(t)
  PROVE  JournalInv'
<1>0. /\ TypeOK /\ RowsHold /\ NumbersHold /\ SourcesHold /\ ReversalsHold /\ ClosesHold /\ tx[t] \in Works
  BY DEF JournalInv, TypeOK
<1>1. PICK i \in Ids :
           /\ ~ Used(i) /\ entry[i].by = Committed
           /\ entry' \in [Ids -> Rows]
           /\ \A j \in Ids \ {i} : entry'[j] = entry[j]
           /\ entry'[i].status = (IF tx[t].original = 0 THEN "POSTED" ELSE "VOID")
           /\ entry'[i].period = tx[t].period /\ entry'[i].source = tx[t].source
           /\ entry'[i].number = tx[t].count + 1 /\ entry'[i].reverses = tx[t].original
           /\ entry'[i].by = t
  BY InsertRow
<1>2. /\ tx[t].pc = "insert" /\ Conflicts(t) = {} /\ UNCHANGED <<period, lock, closing>>
      /\ voided' = [voided EXCEPT ![t] = @ \cup ({tx[t].original} \ {0})]
      /\ t # Committed
  BY JournalAssumption DEF Insert, At
<1> DEFINE w == [tx[t] EXCEPT !.pc = "ready", !.period = NoPeriod, !.original = 0, !.count = 0]
<1>3. w \in Works /\ w.pc = "ready" /\ w.original = 0 /\ w.source = tx[t].source
  <2> DEFINE a == [tx[t] EXCEPT !.pc = "ready"]
             b == [a EXCEPT !.period = NoPeriod]
             c == [b EXCEPT !.original = 0]
             d == [c EXCEPT !.count = 0]
  <2>0. 0 \in 0..MaxEntries
    BY JournalAssumption
  <2>1. a \in Works
    BY <1>0, WorkWith
  <2>2. b \in Works
    BY <2>1, WorkWith
  <2>3. c \in Works
    BY <2>0, <2>2, WorkWith
  <2>4. d \in Works
    BY <2>0, <2>3, WorkWith
  <2>5. w = d
    OBVIOUS
  <2>6. w.pc = "ready" /\ w.original = 0 /\ w.source = tx[t].source
    BY <1>0 DEF Works
  <2> QED BY <2>4, <2>5, <2>6
<1>4. Moves(t, w)
  BY DEF Insert
<1> HIDE DEF w
<1>5. /\ tx' \in [Txs -> Works] /\ tx'[t] = w
      /\ \A u \in Txs \ {t} : tx'[u] = tx[u]
  BY <1>0, <1>3, <1>4, WorkType
<1>6. /\ voided' \in [Txs -> SUBSET Ids]
      /\ \A u \in Txs \ {t} : voided'[u] = voided[u]
      /\ voided'[t] = voided[t] \cup ({tx[t].original} \ {0})
  <2>1. ({tx[t].original} \ {0}) \subseteq Ids
    BY <1>0, JournalAssumption DEF Works, Ids
  <2> QED BY <1>0, <1>2, <2>1 DEF TypeOK
<1>7. TypeOK'
  BY <1>0, <1>1, <1>2, <1>5, <1>6 DEF TypeOK
<1>8. Working(t) /\ Preparing(t) /\ tx[t].period \in Periods /\ Active(t)
  BY <1>0, <1>2 DEF Working, Preparing, RowsHold, Active
\* The new row is seen by its transaction alone.
<1>9. /\ \A j \in Ids : Used(j)' <=> Used(j) \/ j = i
      /\ \A v \in Views, j \in Ids : Sees(v, j)' <=> Sees(v, j) \/ (v = t /\ j = i)
      /\ \A v \in Views, j \in Ids : Sees(v, j) => j # i
  BY <1>1, <1>2 DEF Used, Sees, Views
<1>10. \A v \in Views, j \in Ids \ {i} :
         Shows(v, j)' = IF v = t /\ tx[t].original # 0 /\ j = tx[t].original THEN "VOID" ELSE Shows(v, j)
  BY <1>1, <1>2, <1>6 DEF Shows, StatusTo, Views
<1>11. \A u \in Txs, j \in Ids \ {i} :
         StatusTo(u, j)' = IF u = t /\ tx[t].original # 0 /\ j = tx[t].original THEN "VOID" ELSE StatusTo(u, j)
  BY <1>1, <1>2, <1>6 DEF StatusTo
<1>12. RowsHold'
  <2>1. ASSUME NEW j \in Ids PROVE (IF Used(j) THEN entry[j].period \in Periods ELSE entry[j].by = Committed)'
    BY <1>0, <1>1, <1>8, <1>9 DEF RowsHold
  <2>2. ASSUME NEW u \in Txs PROVE (/\ Working(u) => tx[u].period \in Periods
                                    /\ ~ Preparing(u) => tx[u].original = 0)'
    BY <1>0, <1>3, <1>5 DEF RowsHold, Working, Preparing
  <2> QED BY <2>1, <2>2 DEF RowsHold
<1>13. NumbersHold'
  <2>1. ASSUME NEW j \in Ids, NEW k \in Ids, (Used(j) /\ Used(k) /\ entry[j].period = entry[k].period
                                                /\ entry[j].number = entry[k].number)'
        PROVE  j = k
    <3>1. \A l \in Ids : Used(l) /\ entry[l].period = tx[t].period => entry[l].number # tx[t].count + 1
      BY <1>2 DEF Conflicts, SameNumber, NumberAfter
    <3>2. CASE j # i /\ k # i
      BY <1>0, <1>1, <1>9, <2>1, <3>2 DEF NumbersHold
    <3>3. CASE j = i \/ k = i
      BY <1>1, <1>9, <2>1, <3>1, <3>3
    <3> QED BY <3>2, <3>3
  <2>2. /\ \A v \in Views, p \in Periods :
             Seen(v, p)' = IF v = t /\ p = tx[t].period THEN Seen(v, p) \cup {i} ELSE Seen(v, p)
        /\ \A v \in Views, p \in Periods : i \notin Seen(v, p)
    BY <1>1, <1>9 DEF Seen
  <2>3. \A v \in Views, p \in Periods :
          /\ Cardinality(Seen(v, p)) \in Nat
          /\ Seen(v, p)' = Seen(v, p) \/ Cardinality(Seen(v, p)') = Cardinality(Seen(v, p)) + 1
          /\ Cardinality(Seen(v, p)) <= Cardinality(Seen(v, p)')
    BY <2>2, SeenCard, FS_AddElement
  <2>4. tx[t].count <= Cardinality(Seen(t, tx[t].period)) /\ tx[t].count \in Nat
    BY <1>0, <1>2, JournalAssumption DEF NumbersHold, Counted, Seen, Works
  <2>5. ASSUME NEW v \in Views, NEW p \in Periods, NEW j \in Seen(v, p)'
        PROVE  entry'[j].number <= Cardinality(Seen(v, p)')
    <3>1. CASE j # i
      <4>1. j \in Seen(v, p) /\ j \in Ids
        BY <2>2, <3>1, SeenCard
      <4>2. entry'[j].number <= Cardinality(Seen(v, p)) /\ entry'[j].number \in Nat
        BY <1>0, <1>1, <3>1, <4>1 DEF NumbersHold, TypeOK, Rows
      <4>3. Cardinality(Seen(v, p)) <= Cardinality(Seen(v, p)') /\ Cardinality(Seen(v, p)) \in Nat
        BY <2>3
      <4>4. Cardinality(Seen(v, p)') \in Nat
        BY <2>3, <4>3
      <4> QED BY <4>2, <4>3, <4>4
    <3>2. CASE j = i
      <4>1. v = t /\ p = tx[t].period /\ Seen(v, p)' # Seen(v, p)
        BY <2>2, <3>2
      <4>2. Cardinality(Seen(v, p)') = Cardinality(Seen(t, tx[t].period)) + 1
        BY <2>3, <4>1
      <4> QED BY <1>1, <2>3, <2>4, <3>2, <4>1, <4>2
    <3> QED BY <3>1, <3>2
  <2>6. ASSUME NEW u \in Txs, tx'[u].pc = "insert" PROVE (tx[u].count <= Cardinality(Counted(u)))'
    <3>1. u # t /\ tx[u].pc = "insert" /\ tx'[u] = tx[u]
      BY <1>3, <1>5, <2>6
    <3>2. Counted(u)' = Counted(u)
      BY <1>1, <1>9, <3>1 DEF Counted, Views
    <3> QED BY <1>0, <3>1, <3>2 DEF NumbersHold
  <2> QED BY <2>1, <2>5, <2>6 DEF NumbersHold
<1>14. SourcesHold'
  <2>1. ASSUME NEW u \in Txs, Active(u)', tx'[u].source \in Documents PROVE (lock[tx[u].source] = u)'
    BY <1>0, <1>2, <1>3, <1>5, <1>8, <2>1 DEF SourcesHold, Active
  <2>2. \A u \in Txs : Active(u) => Active(u)' /\ tx'[u].source = tx[u].source
    BY <1>3, <1>5 DEF Active
  <2>3. ASSUME NEW j \in Ids, NEW u \in Txs, entry'[j].by = u
        PROVE  Active(u)' /\ entry'[j].source = tx'[u].source
    BY <1>0, <1>1, <1>8, <2>2, <2>3 DEF SourcesHold
  <2>4. ASSUME NEW u \in Txs, NEW j \in voided'[u]
        PROVE  Active(u)' /\ Sees(u, j)' /\ entry'[j].source = tx'[u].source
    <3>1. CASE j \in voided[u]
      BY <1>0, <1>1, <1>9, <2>2, <3>1 DEF SourcesHold, TypeOK, Views
    <3>2. CASE j \notin voided[u]
      <4>1. u = t /\ j = tx[t].original /\ j # 0
        BY <1>6, <2>4, <3>2
      <4>2. Active(u) /\ Sees(u, j) /\ entry[j].source = tx[u].source /\ j \in Ids
        BY <1>0, <1>8, <4>1, JournalAssumption DEF ReversalsHold, Works, Ids
      <4> QED BY <1>1, <1>9, <2>2, <4>2 DEF Views
    <3> QED BY <3>1, <3>2
  <2>5. ASSUME NEW v \in Views, NEW j \in Ids, NEW k \in Ids,
               (/\ Sees(v, j) /\ Sees(v, k)
                /\ Shows(v, j) = "POSTED" /\ Shows(v, k) = "POSTED"
                /\ entry[j].source = entry[k].source /\ entry[j].source \in Documents)'
        PROVE  j = k
    <3>1. ASSUME NEW l \in Ids, l # i, Sees(v, l)', Shows(v, l)' = "POSTED"
          PROVE  Sees(v, l) /\ Shows(v, l) = "POSTED" /\ entry'[l] = entry[l]
      BY <1>1, <1>9, <1>10, <3>1
    <3>2. CASE j # i /\ k # i
      BY <1>0, <2>5, <3>1, <3>2 DEF SourcesHold
    <3>3. ASSUME NEW l \in Ids, l # i, v = t, Sees(t, l), Shows(t, l) = "POSTED",
                 entry[l].source = tx[t].source, tx[t].source \in Documents, tx[t].original = 0
          PROVE  FALSE
      BY <1>0, <1>8, <3>3 DEF SourcesHold, PostedFor, Shows
    <3>4. (j = i \/ k = i) => v = t /\ tx[t].original = 0
      BY <1>1, <1>2, <1>6, <1>9, <2>5 DEF Shows, StatusTo
    <3> QED BY <1>1, <2>5, <3>1, <3>2, <3>3, <3>4
  <2>6. ASSUME NEW u \in Txs, Preparing(u)', tx'[u].original = 0, tx'[u].source \in Documents
        PROVE  (PostedFor(u, tx[u].source) = {})'
    <3>1. u # t /\ tx'[u] = tx[u] /\ PostedFor(u, tx[u].source) = {}
      BY <1>0, <1>3, <1>5, <2>6 DEF SourcesHold, Preparing
    <3>2. \A j \in Ids : Sees(u, j)' => Sees(u, j) /\ j # i
      BY <1>9, <3>1 DEF Views
    <3> QED BY <1>1, <1>11, <3>1, <3>2 DEF PostedFor
  <2> QED BY <2>1, <2>3, <2>4, <2>5, <2>6 DEF SourcesHold
<1>15. ReversalsHold'
  <2>0. tx[t].original # 0 =>
          /\ tx[t].original \in Ids /\ Sees(t, tx[t].original) /\ entry[tx[t].original].reverses = 0
          /\ entry[tx[t].original].period = tx[t].period /\ entry[tx[t].original].source = tx[t].source
    BY <1>0, JournalAssumption DEF ReversalsHold, Works, Ids
  <2>1. ASSUME NEW j \in Ids, NEW k \in Ids, (Used(j) /\ Used(k) /\ entry[j].reverses = entry[k].reverses
                                                /\ entry[j].reverses # 0)'
        PROVE  j = k
    <3>1. \A l \in Ids : Used(l) /\ tx[t].original # 0 => entry[l].reverses # tx[t].original
      BY <1>2 DEF Conflicts, SameReversal
    <3>2. CASE j # i /\ k # i
      BY <1>0, <1>1, <1>9, <2>1, <3>2 DEF ReversalsHold
    <3>3. CASE j = i \/ k = i
      BY <1>1, <1>9, <2>1, <3>1, <3>3
    <3> QED BY <3>2, <3>3
  <2>2. ASSUME NEW j \in Ids, (Used(j) /\ entry[j].reverses # 0)', NEW k, k = entry'[j].reverses
        PROVE  (/\ entry[j].status = "VOID"
                /\ Used(k) /\ entry[k].reverses = 0
                /\ entry[k].period = entry[j].period /\ entry[k].source = entry[j].source
                /\ entry[k].by \in {entry[j].by, Committed}
                /\ entry[j].by = Committed => entry[k].status = "VOID"
                /\ entry[j].by # Committed => k \in voided[entry[j].by])'
    <3>0. k \in Ids
      BY <1>1, <2>2, JournalAssumption DEF Rows, Ids
    <3>1. CASE j = i
      <4>1. k = tx[t].original /\ k # 0 /\ k # i /\ entry'[k] = entry[k] /\ Used(k)
        BY <1>1, <1>9, <2>0, <2>2, <3>0, <3>1 DEF Sees
      <4>2. k \in voided'[t] /\ entry'[j].by = t
        BY <1>1, <1>6, <3>1, <4>1
      <4> QED BY <1>1, <1>2, <1>9, <2>0, <3>0, <3>1, <4>1, <4>2 DEF Sees
    <3>2. CASE j # i
      <4>1. entry'[j] = entry[j] /\ Used(j) /\ entry[j].reverses = k /\ k # 0
        BY <1>1, <1>9, <2>2, <3>2
      <4>2. /\ entry[j].status = "VOID"
            /\ Used(k) /\ entry[k].reverses = 0
            /\ entry[k].period = entry[j].period /\ entry[k].source = entry[j].source
            /\ entry[k].by \in {entry[j].by, Committed}
            /\ entry[j].by = Committed => entry[k].status = "VOID"
            /\ entry[j].by # Committed => k \in voided[entry[j].by]
        BY <1>0, <4>1 DEF ReversalsHold
      <4>3. entry'[k] = entry[k] /\ Used(k)'
        BY <1>1, <1>9, <3>0, <4>2
      <4>4. entry[j].by \in Txs \cup {Committed}
        BY <1>0 DEF TypeOK, Rows
      <4>5. entry[j].by # Committed => k \in voided'[entry[j].by]
        BY <1>6, <4>2, <4>4
      <4> QED BY <4>1, <4>2, <4>3, <4>5
    <3> QED BY <3>1, <3>2
  <2>3. ASSUME NEW u \in Txs, NEW k \in voided'[u]
        PROVE  (\E j \in Ids : Used(j) /\ entry[j].by = u /\ entry[j].reverses = k)'
    <3>1. CASE k \in voided[u]
      <4>1. PICK j \in Ids : Used(j) /\ entry[j].by = u /\ entry[j].reverses = k
        BY <1>0, <3>1 DEF ReversalsHold
      <4> QED BY <1>1, <1>9, <4>1
    <3>2. CASE k \notin voided[u]
      <4>1. u = t /\ k = tx[t].original
        BY <1>6, <3>2, <2>3
      <4> QED BY <1>1, <1>9, <4>1
    <3> QED BY <3>1, <3>2
  <2>4. ASSUME NEW k \in Ids, (Used(k) /\ entry[k].reverses = 0 /\ entry[k].status = "VOID")'
        PROVE  (/\ entry[k].by = Committed
                /\ \E j \in Ids : Used(j) /\ entry[j].by = Committed /\ entry[j].reverses = k)'
    <3>1. k # i /\ entry'[k] = entry[k] /\ Used(k)
      BY <1>1, <1>9, <2>4
    <3>2. PICK j \in Ids : Used(j) /\ entry[j].by = Committed /\ entry[j].reverses = k /\ entry[k].by = Committed
      BY <1>0, <2>4, <3>1 DEF ReversalsHold
    <3> QED BY <1>1, <1>9, <3>1, <3>2
  <2>5. ASSUME NEW u \in Txs, tx'[u].original # 0, NEW k, k = tx'[u].original
        PROVE  (/\ Sees(u, k) /\ entry[k].reverses = 0
                /\ entry[k].period = tx[u].period /\ entry[k].source = tx[u].source)'
    <3>1. u # t /\ tx'[u] = tx[u] /\ k \in Ids
      BY <1>0, <1>3, <1>5, <2>5, JournalAssumption DEF TypeOK, Works, Ids
    <3>2. /\ Sees(u, k) /\ entry[k].reverses = 0
          /\ entry[k].period = tx[u].period /\ entry[k].source = tx[u].source
      BY <1>0, <2>5, <3>1 DEF ReversalsHold
    <3>3. Sees(u, k)' /\ entry'[k] = entry[k]
      BY <1>1, <1>9, <3>1, <3>2 DEF Views
    <3> QED BY <3>1, <3>2, <3>3
  <2> QED BY <2>1, <2>2, <2>3, <2>4, <2>5 DEF ReversalsHold
<1>16. ClosesHold'
  <2>1. ASSUME NEW u \in Txs, Working(u)'
        PROVE  (period[tx[u].period] = "OPEN" \/ u \in closing[tx[u].period])'
    BY <1>0, <1>2, <1>3, <1>5, <2>1 DEF ClosesHold, Working
  <2>2. ASSUME NEW j \in Ids, NEW u \in Txs, entry'[j].by = u
        PROVE  (period[entry[j].period] = "OPEN" \/ u \in closing[entry[j].period])'
    BY <1>0, <1>1, <1>2, <1>8, <2>2 DEF ClosesHold
  <2> QED BY <2>1, <2>2 DEF ClosesHold
<1> QED BY <1>7, <1>12, <1>13, <1>14, <1>15, <1>16 DEF JournalInv
-----------------------------------------------------------------------------
(* The end of a transaction *)

\* A transaction that ends forgets everything, and is nobody's any longer.
LEMMA EndsAll ==
  ASSUME JournalInv, NEW t \in Txs, Ends(t)
  PROVE  /\ voided' \in [Txs -> SUBSET Ids] /\ voided'[t] = {}
         /\ \A u \in Txs \ {t} : voided'[u] = voided[u]
         /\ lock' \in [Documents -> Txs \cup {Committed}]
         /\ \A d \in Documents : lock[d] # t => lock'[d] = lock[d]
         /\ tx' \in [Txs -> Works] /\ tx'[t] = Idle /\ tx'[t].pc = "idle" /\ tx'[t].original = 0
         /\ \A u \in Txs \ {t} : tx'[u] = tx[u]
         /\ closing' \in [Periods -> SUBSET Txs]
         /\ \A p \in Periods, u \in Txs \ {t} : u \in closing[p] => u \in closing'[p]
         /\ period' = period /\ t # Committed
<1>1. TypeOK
  BY DEF JournalInv
<1>2. tx' \in [Txs -> Works] /\ tx'[t] = Idle /\ \A u \in Txs \ {t} : tx'[u] = tx[u]
  BY <1>1, IdleWork, WorkType DEF Ends
<1>3. /\ voided' \in [Txs -> SUBSET Ids] /\ voided'[t] = {}
      /\ \A u \in Txs \ {t} : voided'[u] = voided[u]
  BY <1>1 DEF Ends, TypeOK
<1>4. /\ lock' \in [Documents -> Txs \cup {Committed}]
      /\ \A d \in Documents : lock[d] # t => lock'[d] = lock[d]
  BY <1>1 DEF Ends, TypeOK
<1>5. /\ closing' \in [Periods -> SUBSET Txs]
      /\ \A p \in Periods, u \in Txs \ {t} : u \in closing[p] => u \in closing'[p]
  BY <1>1 DEF Ends, TypeOK
<1> QED BY <1>2, <1>3, <1>4, <1>5, IdleWork, JournalAssumption DEF Ends

\* What a step of t leaves to the transactions that go on, in whatever way t
\* ended: what they work on, lock and have read is as it was.
LEMMA OthersGoOn ==
  ASSUME JournalInv, NEW t \in Txs, Ends(t)
  PROVE  /\ \A u \in Txs : Active(u)' => u # t /\ Active(u) /\ tx'[u] = tx[u]
         /\ \A u \in Txs : (Working(u)' \/ Preparing(u)' \/ tx'[u].original # 0 \/ tx'[u].pc = "insert")
              => u # t /\ tx'[u] = tx[u] /\ voided'[u] = voided[u]
         /\ \A u \in Txs : (Active(u)' /\ tx'[u].source \in Documents) => lock'[tx'[u].source] = u
         /\ \A u \in Txs \ {t} : Active(u) => Active(u)' /\ tx'[u] = tx[u]
         /\ \A u \in Txs : (Active(u) /\ tx[u].source \in Documents /\ Active(t)) =>
              (tx[u].source = tx[t].source => u = t)
<1>1. /\ tx'[t].pc = "idle" /\ tx'[t].original = 0
      /\ \A u \in Txs \ {t} : tx'[u] = tx[u] /\ voided'[u] = voided[u]
      /\ \A d \in Documents : lock[d] # t => lock'[d] = lock[d]
  BY EndsAll
<1>2. SourcesHold
  BY DEF JournalInv
<1>3. \A u \in Txs : (Active(u) /\ tx[u].source \in Documents) => lock[tx[u].source] = u
  BY <1>2 DEF SourcesHold
<1>4. \A u \in Txs : Active(u)' => u # t /\ Active(u) /\ tx'[u] = tx[u]
  BY <1>1 DEF Active
<1>5. \A u \in Txs : (Active(u)' /\ tx'[u].source \in Documents) => lock'[tx'[u].source] = u
  BY <1>1, <1>3, <1>4
<1>6. \A u \in Txs : (Working(u)' \/ Preparing(u)' \/ tx'[u].original # 0 \/ tx'[u].pc = "insert")
              => u # t /\ tx'[u] = tx[u] /\ voided'[u] = voided[u]
  BY <1>1 DEF Working, Preparing
<1>7. \A u \in Txs \ {t} : Active(u) => Active(u)' /\ tx'[u] = tx[u]
  BY <1>1 DEF Active
<1>8. \A u \in Txs : (Active(u) /\ tx[u].source \in Documents /\ Active(t)) =>
              (tx[u].source = tx[t].source => u = t)
  BY <1>3
<1> QED BY <1>4, <1>5, <1>6, <1>7, <1>8

LEMMA RollbackKeeps ==
  ASSUME JournalInv, NEW t \in Txs, Rollback(t)
  PROVE  JournalInv'
<1>0. /\ TypeOK /\ RowsHold /\ NumbersHold /\ SourcesHold /\ ReversalsHold /\ ClosesHold /\ Ends(t)
      /\ t # Committed
  BY JournalAssumption DEF JournalInv, Rollback
<1>1. /\ entry' \in [Ids -> Rows]
      /\ \A i \in Ids : entry'[i] = IF entry[i].by = t THEN NoRow ELSE entry[i]
  BY <1>0, NoRowIs DEF Rollback, TypeOK
<1>2. TypeOK'
  BY <1>0, <1>1, EndsAll DEF TypeOK
<1>3. \A i \in Ids : /\ Used(i)' <=> Used(i) /\ entry[i].by # t
                     /\ Used(i)' => entry'[i] = entry[i]
                     /\ ~ Used(i)' => entry'[i].by = Committed
  BY <1>0, <1>1, NoRowIs DEF Used, RowsHold
<1>4. /\ \A u \in Views \ {t}, i \in Ids : Sees(u, i)' <=> Sees(u, i)
      /\ \A i \in Ids : Sees(t, i)' <=> Sees(Committed, i)
      /\ \A u \in Views, i \in Ids : Sees(u, i)' => entry'[i] = entry[i]
  BY <1>0, <1>3 DEF Sees, Views
<1>5. /\ \A u \in Views \ {t}, i \in Ids : Sees(u, i)' => Shows(u, i)' = Shows(u, i)
      /\ \A i \in Ids : Sees(t, i)' => Shows(t, i)' = Shows(Committed, i)
  <2>1. /\ voided'[t] = {} /\ Committed \notin Txs
        /\ \A u \in Txs \ {t} : voided'[u] = voided[u]
    BY <1>0, EndsAll, JournalAssumption
  <2>2. ASSUME NEW i \in Ids, NEW u \in Views \ {t}, Sees(u, i)' PROVE Shows(u, i)' = Shows(u, i)
    <3>1. entry'[i] = entry[i]
      BY <1>4, <2>2
    <3> QED BY <2>1, <3>1 DEF Shows, StatusTo, Views
  <2>3. ASSUME NEW i \in Ids, Sees(t, i)' PROVE Shows(t, i)' = Shows(Committed, i)
    <3>1. entry'[i] = entry[i]
      BY <1>4, <2>3 DEF Views
    <3> QED BY <2>1, <3>1 DEF Shows, StatusTo, Views
  <2> QED BY <2>2, <2>3
<1>6. RowsHold'
  <2>1. ASSUME NEW i \in Ids PROVE (IF Used(i) THEN entry[i].period \in Periods ELSE entry[i].by = Committed)'
    BY <1>0, <1>3 DEF RowsHold
  <2>2. ASSUME NEW u \in Txs PROVE (/\ Working(u) => tx[u].period \in Periods
                                    /\ ~ Preparing(u) => tx[u].original = 0)'
    BY <1>0, OthersGoOn DEF RowsHold, Working, Preparing
  <2> QED BY <2>1, <2>2 DEF RowsHold
<1>7. NumbersHold'
  <2>1. \A v \in Views \ {t}, p \in Periods : Seen(v, p)' = Seen(v, p)
    BY <1>4 DEF Seen
  <2>2. \A p : Seen(t, p)' = Seen(Committed, p)
    BY <1>4 DEF Seen, Views
  <2>3. ASSUME NEW v \in Views, NEW p \in Periods, NEW i \in Seen(v, p)'
        PROVE  entry'[i].number <= Cardinality(Seen(v, p)')
    <3>1. PICK x \in Views : Seen(v, p)' = Seen(x, p)
      BY <2>1, <2>2 DEF Views
    <3>2. entry'[i] = entry[i]
      BY <1>4, <2>3 DEF Seen
    <3>3. \A j \in Seen(x, p) : entry[j].number <= Cardinality(Seen(x, p))
      BY <1>0 DEF NumbersHold
    <3> QED BY <2>3, <3>1, <3>2, <3>3
  <2>4. ASSUME NEW u \in Txs, tx'[u].pc = "insert" PROVE (tx[u].count <= Cardinality(Counted(u)))'
    <3>1. u # t /\ tx'[u] = tx[u]
      BY <1>0, <2>4, OthersGoOn
    <3>2. Counted(u)' = Counted(u)
      BY <1>4, <3>1 DEF Counted, Views
    <3> QED BY <1>0, <2>4, <3>1, <3>2 DEF NumbersHold
  <2>5. ASSUME NEW i \in Ids, NEW j \in Ids, (Used(i) /\ Used(j) /\ entry[i].period = entry[j].period
                                                /\ entry[i].number = entry[j].number)'
        PROVE  i = j
    BY <1>0, <1>3, <2>5 DEF NumbersHold
  <2> QED BY <2>3, <2>4, <2>5 DEF NumbersHold
<1>8. SourcesHold'
  <2>1. ASSUME NEW i \in Ids, NEW u \in Txs, entry'[i].by = u
        PROVE  Active(u)' /\ entry'[i].source = tx'[u].source
    <3>1. Used(i)' /\ entry'[i] = entry[i] /\ u # t
      BY <1>3, <2>1, JournalAssumption
    <3> QED BY <1>0, <2>1, <3>1, OthersGoOn DEF SourcesHold
  <2>2. ASSUME NEW u \in Txs, NEW i \in voided'[u]
        PROVE  Active(u)' /\ Sees(u, i)' /\ entry'[i].source = tx'[u].source
    <3>1. u # t /\ i \in voided[u] /\ i \in Ids
      BY <1>0, <2>2, EndsAll
    <3>2. Active(u) /\ Sees(u, i) /\ entry[i].source = tx[u].source
      BY <1>0, <3>1 DEF SourcesHold
    <3> QED BY <1>0, <1>4, <3>1, <3>2, OthersGoOn DEF Views
  <2>3. ASSUME NEW v \in Views, NEW j \in Ids, NEW k \in Ids,
               (/\ Sees(v, j) /\ Sees(v, k)
                /\ Shows(v, j) = "POSTED" /\ Shows(v, k) = "POSTED"
                /\ entry[j].source = entry[k].source /\ entry[j].source \in Documents)'
        PROVE  j = k
    <3>1. \E x \in Views : /\ Sees(x, j) /\ Sees(x, k)
                           /\ Shows(x, j) = "POSTED" /\ Shows(x, k) = "POSTED"
      <4>1. CASE v = t
        BY <1>4, <1>5, <2>3, <4>1 DEF Views
      <4>2. CASE v # t
        BY <1>4, <1>5, <2>3, <4>2
      <4> QED BY <4>1, <4>2
    <3>2. entry'[j] = entry[j] /\ entry'[k] = entry[k]
      BY <1>4, <2>3
    <3> QED BY <1>0, <2>3, <3>1, <3>2 DEF SourcesHold
  <2>4. ASSUME NEW u \in Txs, Preparing(u)', tx'[u].original = 0, tx'[u].source \in Documents
        PROVE  (PostedFor(u, tx[u].source) = {})'
    <3>1. u # t /\ tx'[u] = tx[u] /\ voided'[u] = voided[u]
      BY <1>0, <2>4, OthersGoOn
    <3>2. PostedFor(u, tx[u].source) = {}
      BY <1>0, <2>4, <3>1 DEF SourcesHold, Preparing
    <3> QED BY <1>4, <3>1, <3>2 DEF PostedFor, StatusTo, Views
  <2>5. \A u \in Txs : (Active(u)' /\ tx'[u].source \in Documents) => lock'[tx'[u].source] = u
    BY <1>0, OthersGoOn
  <2> QED BY <2>1, <2>2, <2>3, <2>4, <2>5 DEF SourcesHold
<1>9. ReversalsHold'
  <2>1. ASSUME NEW j \in Ids, NEW k \in Ids, (Used(j) /\ Used(k) /\ entry[j].reverses = entry[k].reverses
                                                /\ entry[j].reverses # 0)'
        PROVE  j = k
    BY <1>0, <1>3, <2>1 DEF ReversalsHold
  <2>2. ASSUME NEW j \in Ids, (Used(j) /\ entry[j].reverses # 0)', NEW k, k = entry'[j].reverses
        PROVE  (/\ entry[j].status = "VOID"
                /\ Used(k) /\ entry[k].reverses = 0
                /\ entry[k].period = entry[j].period /\ entry[k].source = entry[j].source
                /\ entry[k].by \in {entry[j].by, Committed}
                /\ entry[j].by = Committed => entry[k].status = "VOID"
                /\ entry[j].by # Committed => k \in voided[entry[j].by])'
    <3>1. /\ entry'[j] = entry[j] /\ Used(j) /\ entry[j].by # t /\ k \in Ids
          /\ entry[j].by \in Txs \cup {Committed}
      BY <1>0, <1>3, <2>2, JournalAssumption DEF TypeOK, Rows, Ids
    <3>2. /\ entry[j].status = "VOID"
          /\ Used(k) /\ entry[k].reverses = 0
          /\ entry[k].period = entry[j].period /\ entry[k].source = entry[j].source
          /\ entry[k].by \in {entry[j].by, Committed}
          /\ entry[j].by = Committed => entry[k].status = "VOID"
          /\ entry[j].by # Committed => k \in voided[entry[j].by]
      BY <1>0, <2>2, <3>1 DEF ReversalsHold
    <3>3. entry'[k] = entry[k] /\ Used(k)'
      BY <1>0, <1>3, <3>1, <3>2
    <3>4. entry[j].by # Committed => k \in voided'[entry[j].by]
      BY <1>0, <3>1, <3>2, EndsAll
    <3> QED BY <3>1, <3>2, <3>3, <3>4
  <2>3. ASSUME NEW u \in Txs, NEW k \in voided'[u]
        PROVE  (\E j \in Ids : Used(j) /\ entry[j].by = u /\ entry[j].reverses = k)'
    <3>1. u # t /\ k \in voided[u]
      BY <1>0, <2>3, EndsAll
    <3>2. PICK j \in Ids : Used(j) /\ entry[j].by = u /\ entry[j].reverses = k
      BY <1>0, <3>1 DEF ReversalsHold
    <3> QED BY <1>3, <3>1, <3>2
  <2>4. ASSUME NEW k \in Ids, (Used(k) /\ entry[k].reverses = 0 /\ entry[k].status = "VOID")'
        PROVE  (/\ entry[k].by = Committed
                /\ \E j \in Ids : Used(j) /\ entry[j].by = Committed /\ entry[j].reverses = k)'
    <3>1. entry'[k] = entry[k] /\ Used(k)
      BY <1>3, <2>4
    <3>2. PICK j \in Ids : Used(j) /\ entry[j].by = Committed /\ entry[j].reverses = k /\ entry[k].by = Committed
      BY <1>0, <2>4, <3>1 DEF ReversalsHold
    <3> QED BY <1>0, <1>3, <3>1, <3>2
  <2>5. ASSUME NEW u \in Txs, tx'[u].original # 0, NEW k, k = tx'[u].original
        PROVE  (/\ Sees(u, k) /\ entry[k].reverses = 0
                /\ entry[k].period = tx[u].period /\ entry[k].source = tx[u].source)'
    <3>1. u # t /\ tx'[u] = tx[u]
      BY <1>0, <2>5, OthersGoOn
    <3>2. /\ Sees(u, k) /\ entry[k].reverses = 0 /\ k \in Ids
          /\ entry[k].period = tx[u].period /\ entry[k].source = tx[u].source
      BY <1>0, <2>5, <3>1, JournalAssumption DEF ReversalsHold, TypeOK, Works, Ids
    <3> QED BY <1>4, <3>1, <3>2 DEF Views
  <2> QED BY <2>1, <2>2, <2>3, <2>4, <2>5 DEF ReversalsHold
<1>10. ClosesHold'
  <2>1. ASSUME NEW u \in Txs, Working(u)'
        PROVE  (period[tx[u].period] = "OPEN" \/ u \in closing[tx[u].period])'
    <3>1. u # t /\ tx'[u] = tx[u] /\ Working(u)
      BY <1>0, <2>1, OthersGoOn DEF Working
    <3> QED BY <1>0, <3>1, EndsAll DEF ClosesHold, RowsHold
  <2>2. ASSUME NEW i \in Ids, NEW u \in Txs, entry'[i].by = u
        PROVE  (period[entry[i].period] = "OPEN" \/ u \in closing[entry[i].period])'
    <3>1. Used(i) /\ entry'[i] = entry[i] /\ u # t /\ entry[i].period \in Periods
      BY <1>0, <1>3, <2>2, JournalAssumption DEF RowsHold
    <3> QED BY <1>0, <2>2, <3>1, EndsAll DEF ClosesHold
  <2> QED BY <2>1, <2>2 DEF ClosesHold
<1> QED BY <1>2, <1>6, <1>7, <1>8, <1>9, <1>10 DEF JournalInv
LEMMA CommitKeeps ==
  ASSUME JournalInv, NEW t \in Txs, Commit(t)
  PROVE  JournalInv'
<1>0. /\ TypeOK /\ RowsHold /\ NumbersHold /\ SourcesHold /\ ReversalsHold /\ ClosesHold /\ Ends(t)
      /\ t # Committed
  BY JournalAssumption DEF JournalInv, Commit
<1> DEFINE b(i) == IF entry[i].by = t THEN Committed ELSE entry[i].by
<1>1. /\ entry' \in [Ids -> Rows]
      /\ \A i \in Ids : /\ entry'[i].status = StatusTo(t, i) /\ entry'[i].by = b(i)
                        /\ entry'[i].period = entry[i].period /\ entry'[i].source = entry[i].source
                        /\ entry'[i].number = entry[i].number /\ entry'[i].reverses = entry[i].reverses
  <2>1. ASSUME NEW i \in Ids
        PROVE  LET r == [entry[i] EXCEPT !.status = StatusTo(t, i), !.by = b(i)]
               IN  /\ r \in Rows /\ r.status = StatusTo(t, i) /\ r.by = b(i)
                   /\ r.period = entry[i].period /\ r.source = entry[i].source
                   /\ r.number = entry[i].number /\ r.reverses = entry[i].reverses
    <3>1. entry[i] \in Rows
      BY <1>0 DEF TypeOK
    <3>2. StatusTo(t, i) \in {"none", "POSTED", "VOID"} /\ b(i) \in Txs \cup {Committed}
      BY <3>1 DEF StatusTo, Rows
    <3> HIDE DEF b
    <3> QED BY <3>1, <3>2 DEF Rows
  <2> QED BY <2>1 DEF Commit
<1>2. TypeOK'
  BY <1>0, <1>1, EndsAll DEF TypeOK
<1>3. \A i \in voided[t] : i \in Ids /\ Sees(t, i) /\ entry[i].source = tx[t].source
  BY <1>0 DEF TypeOK, SourcesHold
<1>4. \A i \in Ids : Used(i)' <=> Used(i)
  BY <1>1, <1>3 DEF Used, StatusTo, Sees
\* Everyone sees what t saw, and shows it as t did.
<1>5. \A v \in Views, i \in Ids : Sees(v, i)' <=> Sees(v, i) \/ Sees(t, i)
  BY <1>0, <1>1, <1>4 DEF Sees, Views
<1>6. /\ \A i \in Ids : Sees(Committed, i) => Sees(t, i)
      /\ \A v \in Views, i \in Ids : (Sees(v, i) /\ ~ Sees(t, i)) => entry[i].by = v /\ v \in Txs \ {t}
      /\ \A v \in Views, i \in Ids : (Sees(t, i) /\ ~ Sees(v, i)) => entry[i].by = t
  BY <1>0 DEF Sees, Views
<1>7. \A v \in Views, i \in Ids : Shows(v, i)' = "POSTED" =>
        /\ Shows(t, i) = "POSTED" /\ Shows(v, i) = "POSTED"
        /\ v \in Txs \ {t} => StatusTo(v, i) = "POSTED"
  <2> SUFFICES ASSUME NEW v \in Views, NEW i \in Ids, Shows(v, i)' = "POSTED"
               PROVE  /\ Shows(t, i) = "POSTED" /\ Shows(v, i) = "POSTED"
                      /\ v \in Txs \ {t} => StatusTo(v, i) = "POSTED"
    OBVIOUS
  <2>1. entry'[i].status = StatusTo(t, i)
    BY <1>1
  <2>2. StatusTo(t, i) = "POSTED" /\ (v \in Txs => i \notin voided'[v])
    BY <2>1 DEF Shows, StatusTo
  <2>3. entry[i].status = "POSTED" /\ i \notin voided[t]
    BY <2>2 DEF StatusTo
  <2>4. v \in Txs => i \notin voided[v]
    BY <1>0, <2>2, <2>3, EndsAll
  <2> QED BY <2>2, <2>3, <2>4 DEF Shows, StatusTo
<1>8. RowsHold'
  <2>1. ASSUME NEW i \in Ids PROVE (IF Used(i) THEN entry[i].period \in Periods ELSE entry[i].by = Committed)'
    BY <1>0, <1>1, <1>4 DEF RowsHold
  <2>2. ASSUME NEW u \in Txs PROVE (/\ Working(u) => tx[u].period \in Periods
                                    /\ ~ Preparing(u) => tx[u].original = 0)'
    BY <1>0, OthersGoOn DEF RowsHold, Working, Preparing
  <2> QED BY <2>1, <2>2 DEF RowsHold
<1>9. NumbersHold'
  <2>1. \A v \in Views, p \in Periods : Seen(v, p)' = Seen(v, p) \cup Seen(t, p)
    BY <1>1, <1>5 DEF Seen
  <2>2. \A v \in Views, p \in Periods, x \in Views :
          (x = v \/ x = t) => /\ Cardinality(Seen(x, p)) <= Cardinality(Seen(v, p)')
                              /\ Cardinality(Seen(x, p)) \in Nat /\ Cardinality(Seen(v, p)') \in Nat
    <3> SUFFICES ASSUME NEW v \in Views, NEW p \in Periods, NEW x \in Views, x = v \/ x = t
                 PROVE  /\ Cardinality(Seen(x, p)) <= Cardinality(Seen(v, p)')
                        /\ Cardinality(Seen(x, p)) \in Nat /\ Cardinality(Seen(v, p)') \in Nat
      OBVIOUS
    <3>1. Seen(v, p)' \in SUBSET Ids /\ Seen(x, p) \in SUBSET Seen(v, p)'
      BY <2>1, SeenCard
    <3> QED BY <3>1, MoreRows
  <2>3. ASSUME NEW v \in Views, NEW p \in Periods, NEW i \in Seen(v, p)'
        PROVE  entry'[i].number <= Cardinality(Seen(v, p)')
    <3>1. PICK x \in Views : i \in Seen(x, p) /\ (x = v \/ x = t)
      BY <2>1, <2>3 DEF Views
    <3>2. i \in Ids /\ entry[i].number \in Nat /\ entry'[i].number = entry[i].number
      BY <1>0, <1>1, <3>1, SeenCard DEF TypeOK, Rows
    <3>3. entry[i].number <= Cardinality(Seen(x, p))
      BY <1>0, <3>1 DEF NumbersHold
    <3>4. /\ Cardinality(Seen(x, p)) <= Cardinality(Seen(v, p)')
          /\ Cardinality(Seen(x, p)) \in Nat /\ Cardinality(Seen(v, p)') \in Nat
      BY <2>2, <3>1
    <3> QED BY <3>2, <3>3, <3>4
  <2>4. ASSUME NEW u \in Txs, tx'[u].pc = "insert" PROVE (tx[u].count <= Cardinality(Counted(u)))'
    <3>1. u # t /\ tx'[u] = tx[u] /\ tx[u] \in Works /\ tx[u].period \in Periods
      BY <1>0, <2>4, OthersGoOn DEF TypeOK, RowsHold, Working
    <3>2. Counted(u)' = Seen(u, tx[u].period)' /\ Counted(u) = Seen(u, tx[u].period)
      BY <3>1 DEF Counted, Seen
    <3>3. tx[u].count <= Cardinality(Seen(u, tx[u].period)) /\ tx[u].count \in Nat
      BY <1>0, <2>4, <3>1, <3>2, JournalAssumption DEF NumbersHold, Works
    <3>4. /\ Cardinality(Seen(u, tx[u].period)) <= Cardinality(Seen(u, tx[u].period)')
          /\ Cardinality(Seen(u, tx[u].period)) \in Nat /\ Cardinality(Seen(u, tx[u].period)') \in Nat
      BY <2>2, <3>1 DEF Views
    <3>5. tx[u].count <= Cardinality(Seen(u, tx[u].period)')
      BY <3>3, <3>4
    <3> QED BY <3>1, <3>2, <3>5
  <2>5. ASSUME NEW i \in Ids, NEW j \in Ids, (Used(i) /\ Used(j) /\ entry[i].period = entry[j].period
                                                /\ entry[i].number = entry[j].number)'
        PROVE  i = j
    BY <1>0, <1>1, <1>4, <2>5 DEF NumbersHold
  <2> QED BY <2>3, <2>4, <2>5 DEF NumbersHold
<1>10. SourcesHold'
  <2>1. ASSUME NEW i \in Ids, NEW u \in Txs, entry'[i].by = u
        PROVE  Active(u)' /\ entry'[i].source = tx'[u].source
    <3>1. entry[i].by = u /\ u # t
      BY <1>1, <2>1, JournalAssumption
    <3> QED BY <1>0, <1>1, <3>1, OthersGoOn DEF SourcesHold
  <2>2. ASSUME NEW u \in Txs, NEW i \in voided'[u]
        PROVE  Active(u)' /\ Sees(u, i)' /\ entry'[i].source = tx'[u].source
    <3>1. u # t /\ i \in voided[u] /\ i \in Ids
      BY <1>0, <2>2, EndsAll
    <3>2. Active(u) /\ Sees(u, i) /\ entry[i].source = tx[u].source
      BY <1>0, <3>1 DEF SourcesHold
    <3> QED BY <1>0, <1>1, <1>5, <3>1, <3>2, OthersGoOn DEF Views
\* What only t saw is of t's document, and what only u sees of u's.
  <2>3. \A u \in Txs \ {t}, i \in Ids :
          /\ entry[i].by = t => Active(t) /\ entry[i].source = tx[t].source
          /\ entry[i].by = u => Active(u) /\ entry[i].source = tx[u].source
    BY <1>0 DEF SourcesHold
  <2>4. \A u \in Txs \ {t} : (Active(u) /\ Active(t) /\ tx[u].source \in Documents) => tx[u].source # tx[t].source
    BY <1>0, OthersGoOn
  <2>5. ASSUME NEW v \in Views, NEW j \in Ids, NEW k \in Ids,
               (/\ Sees(v, j) /\ Sees(v, k)
                /\ Shows(v, j) = "POSTED" /\ Shows(v, k) = "POSTED"
                /\ entry[j].source = entry[k].source /\ entry[j].source \in Documents)'
        PROVE  j = k
    <3>1. /\ Sees(v, j) \/ Sees(t, j)
          /\ Sees(v, k) \/ Sees(t, k)
          /\ entry[j].source = entry[k].source /\ entry[j].source \in Documents
          /\ Shows(v, j) = "POSTED" /\ Shows(v, k) = "POSTED"
          /\ Shows(t, j) = "POSTED" /\ Shows(t, k) = "POSTED"
      BY <1>1, <1>5, <1>7, <2>5
    <3>2. CASE Sees(v, j) /\ Sees(v, k)
      BY <1>0, <3>1, <3>2 DEF SourcesHold
    <3>3. CASE Sees(t, j) /\ Sees(t, k)
      BY <1>0, <3>1, <3>3 DEF SourcesHold, Views
    <3>4. CASE Sees(v, j) /\ ~ Sees(t, j) /\ Sees(t, k) /\ ~ Sees(v, k)
      <4>1. v \in Txs \ {t} /\ entry[j].by = v /\ entry[k].by = t
        BY <1>6, <3>4
      <4> QED BY <2>3, <2>4, <3>1, <4>1
    <3>5. CASE Sees(v, k) /\ ~ Sees(t, k) /\ Sees(t, j) /\ ~ Sees(v, j)
      <4>1. v \in Txs \ {t} /\ entry[k].by = v /\ entry[j].by = t
        BY <1>6, <3>5
      <4> QED BY <2>3, <2>4, <3>1, <4>1
    <3> QED BY <3>1, <3>2, <3>3, <3>4, <3>5
  <2>6. ASSUME NEW u \in Txs, Preparing(u)', tx'[u].original = 0, tx'[u].source \in Documents
        PROVE  (PostedFor(u, tx[u].source) = {})'
    <3>1. u # t /\ tx'[u] = tx[u] /\ voided'[u] = voided[u] /\ Preparing(u) /\ Active(u)
      BY <1>0, <2>6, OthersGoOn DEF Preparing, Active
    <3>2. PostedFor(u, tx[u].source) = {}
      BY <1>0, <2>6, <3>1 DEF SourcesHold
    <3>3. ASSUME NEW i \in Ids, Sees(u, i)', entry'[i].source = tx[u].source, StatusTo(u, i)' = "POSTED"
          PROVE  FALSE
      <4>1. Shows(u, i)' = "POSTED" /\ entry[i].source = tx[u].source
        BY <1>1, <3>3 DEF Shows
      <4>2. StatusTo(u, i) = "POSTED"
        BY <1>7, <3>1, <4>1 DEF Views
      <4>3. ~ Sees(u, i)
        BY <3>2, <4>1, <4>2 DEF PostedFor
      <4>4. entry[i].by = t
        BY <1>5, <1>6, <3>3, <4>3 DEF Views
      <4> QED BY <2>3, <2>4, <2>6, <3>1, <4>1, <4>4
    <3> QED BY <3>1, <3>3 DEF PostedFor
  <2>7. \A u \in Txs : (Active(u)' /\ tx'[u].source \in Documents) => lock'[tx'[u].source] = u
    BY <1>0, OthersGoOn
  <2> QED BY <2>1, <2>2, <2>5, <2>6, <2>7 DEF SourcesHold
<1>11. ReversalsHold'
  <2>1. ASSUME NEW j \in Ids, NEW k \in Ids, (Used(j) /\ Used(k) /\ entry[j].reverses = entry[k].reverses
                                                /\ entry[j].reverses # 0)'
        PROVE  j = k
    BY <1>0, <1>1, <1>4, <2>1 DEF ReversalsHold
  <2>2. ASSUME NEW j \in Ids, (Used(j) /\ entry[j].reverses # 0)', NEW k, k = entry'[j].reverses
        PROVE  (/\ entry[j].status = "VOID"
                /\ Used(k) /\ entry[k].reverses = 0
                /\ entry[k].period = entry[j].period /\ entry[k].source = entry[j].source
                /\ entry[k].by \in {entry[j].by, Committed}
                /\ entry[j].by = Committed => entry[k].status = "VOID"
                /\ entry[j].by # Committed => k \in voided[entry[j].by])'
    <3>1. /\ Used(j) /\ entry[j].reverses = k /\ k # 0 /\ k \in Ids
          /\ entry[j].by \in Txs \cup {Committed}
      BY <1>0, <1>1, <1>4, <2>2, JournalAssumption DEF TypeOK, Rows, Ids
    <3>2. /\ entry[j].status = "VOID"
          /\ Used(k) /\ entry[k].reverses = 0
          /\ entry[k].period = entry[j].period /\ entry[k].source = entry[j].source
          /\ entry[k].by \in {entry[j].by, Committed}
          /\ entry[j].by = Committed => entry[k].status = "VOID"
          /\ entry[j].by # Committed => k \in voided[entry[j].by]
      BY <1>0, <3>1 DEF ReversalsHold
    <3>3. entry'[j].status = "VOID"
      BY <1>1, <3>2 DEF StatusTo
    <3>4. /\ Used(k)' /\ entry'[k].reverses = 0
          /\ entry'[k].period = entry'[j].period /\ entry'[k].source = entry'[j].source
      BY <1>1, <1>4, <3>1, <3>2
    <3>5. entry'[k].by \in {entry'[j].by, Committed}
      BY <1>1, <3>1, <3>2
    <3>6. entry'[j].by = Committed => entry'[k].status = "VOID"
      BY <1>1, <3>1, <3>2 DEF StatusTo
    <3>7. entry'[j].by # Committed => k \in voided'[entry'[j].by]
      BY <1>0, <1>1, <3>1, <3>2, EndsAll
    <3> QED BY <3>3, <3>4, <3>5, <3>6, <3>7
  <2>3. ASSUME NEW u \in Txs, NEW k \in voided'[u]
        PROVE  (\E j \in Ids : Used(j) /\ entry[j].by = u /\ entry[j].reverses = k)'
    <3>1. u # t /\ k \in voided[u]
      BY <1>0, <2>3, EndsAll
    <3>2. PICK j \in Ids : Used(j) /\ entry[j].by = u /\ entry[j].reverses = k
      BY <1>0, <3>1 DEF ReversalsHold
    <3> QED BY <1>1, <1>4, <3>1, <3>2
  <2>4. ASSUME NEW k \in Ids, (Used(k) /\ entry[k].reverses = 0 /\ entry[k].status = "VOID")'
        PROVE  (/\ entry[k].by = Committed
                /\ \E j \in Ids : Used(j) /\ entry[j].by = Committed /\ entry[j].reverses = k)'
    <3>1. Used(k) /\ entry[k].reverses = 0 /\ StatusTo(t, k) = "VOID"
      BY <1>1, <1>4, <2>4
    <3>2. CASE k \in voided[t]
      <4>1. PICK j \in Ids : Used(j) /\ entry[j].by = t /\ entry[j].reverses = k
        BY <1>0, <3>2 DEF ReversalsHold
      <4>2. entry[k].by \in {t, Committed}
        BY <1>3, <3>2 DEF Sees
      <4>3. entry'[k].by = Committed
        BY <1>1, <4>2
      <4>4. Used(j)' /\ entry'[j].by = Committed /\ entry'[j].reverses = k
        BY <1>1, <1>4, <4>1
      <4> QED BY <4>3, <4>4
    <3>3. CASE k \notin voided[t]
      <4>1. entry[k].status = "VOID"
        BY <3>1, <3>3 DEF StatusTo
      <4>2. PICK j \in Ids : Used(j) /\ entry[j].by = Committed /\ entry[j].reverses = k /\ entry[k].by = Committed
        BY <1>0, <3>1, <4>1 DEF ReversalsHold
      <4>3. entry'[k].by = Committed
        BY <1>0, <1>1, <4>2
      <4>4. Used(j)' /\ entry'[j].by = Committed /\ entry'[j].reverses = k
        BY <1>0, <1>1, <1>4, <4>2
      <4> QED BY <4>3, <4>4
    <3> QED BY <3>2, <3>3
  <2>5. ASSUME NEW u \in Txs, tx'[u].original # 0, NEW k, k = tx'[u].original
        PROVE  (/\ Sees(u, k) /\ entry[k].reverses = 0
                /\ entry[k].period = tx[u].period /\ entry[k].source = tx[u].source)'
    <3>1. u # t /\ tx'[u] = tx[u]
      BY <1>0, <2>5, OthersGoOn
    <3>2. /\ Sees(u, k) /\ entry[k].reverses = 0 /\ k \in Ids
          /\ entry[k].period = tx[u].period /\ entry[k].source = tx[u].source
      BY <1>0, <2>5, <3>1, JournalAssumption DEF ReversalsHold, TypeOK, Works, Ids
    <3> QED BY <1>1, <1>5, <3>1, <3>2 DEF Views
  <2> QED BY <2>1, <2>2, <2>3, <2>4, <2>5 DEF ReversalsHold
<1>12. ClosesHold'
  <2>1. ASSUME NEW u \in Txs, Working(u)'
        PROVE  (period[tx[u].period] = "OPEN" \/ u \in closing[tx[u].period])'
    <3>1. u # t /\ tx'[u] = tx[u] /\ Working(u)
      BY <1>0, <2>1, OthersGoOn DEF Working
    <3> QED BY <1>0, <3>1, EndsAll DEF ClosesHold, RowsHold
  <2>2. ASSUME NEW i \in Ids, NEW u \in Txs, entry'[i].by = u
        PROVE  (period[entry[i].period] = "OPEN" \/ u \in closing[entry[i].period])'
    <3>1. entry[i].by = u /\ u # t
      BY <1>1, <2>2, JournalAssumption
    <3>2. Used(i) /\ entry[i].period \in Periods
      BY <1>0, <3>1, JournalAssumption DEF RowsHold
    <3> QED BY <1>0, <1>1, <3>1, <3>2, EndsAll DEF ClosesHold
  <2> QED BY <2>1, <2>2 DEF ClosesHold
<1> QED BY <1>2, <1>8, <1>9, <1>10, <1>11, <1>12 DEF JournalInv
-----------------------------------------------------------------------------
(* The theorems *)

LEMMA JournalStep == JournalInv /\ [Next]_vars => JournalInv'
<1> SUFFICES ASSUME JournalInv, [Next]_vars PROVE JournalInv'
  OBVIOUS
<1>1. ASSUME NEW t \in Txs, Step(t) PROVE JournalInv'
  BY <1>1, BeginKeeps, StartKeeps, InsertKeeps, CommitKeeps, RollbackKeeps DEF Step
<1>2. ASSUME NEW p \in Periods, ClosePeriod(p) \/ ReopenPeriod(p) PROVE JournalInv'
  BY <1>2, PeriodsKeep
<1>3. CASE UNCHANGED vars
  <2>1. UNCHANGED <<period, entry, voided, lock, tx, closing>>
    BY <1>3 DEF vars
  <2>2. \A t \in Txs : Counted(t)' = Counted(t)
    BY <2>1, SameViews DEF Counted
  <2>3. TypeOK' /\ RowsHold' /\ NumbersHold' /\ ClosesHold'
    BY <2>1, <2>2, SameViews DEF JournalInv, TypeOK, RowsHold, NumbersHold, ClosesHold, Working, Preparing
  <2>4. SourcesHold'
    BY <2>1, SameViews DEF JournalInv, SourcesHold, Active, Preparing
  <2>5. ReversalsHold'
    BY <2>1, SameViews DEF JournalInv, ReversalsHold
  <2> QED BY <2>3, <2>4, <2>5 DEF JournalInv
<1> QED BY <1>1, <1>2, <1>3 DEF Next

\* The inductive invariant of the journal: what holds of the committed rows
\* holds of what every open transaction sees.
THEOREM JournalInvariant == Spec => []JournalInv
<1> QED BY JournalInit, JournalStep, PTL DEF Spec

\* The state keeps its types: an entry's number is one more than a count.
THEOREM JournalTypeCorrect == Spec => []TypeOK
<1>1. JournalInv => TypeOK
  BY DEF JournalInv
<1> QED BY <1>1, JournalInvariant, PTL

\* As many different numbers as rows, none higher than there are rows.
LEMMA NumbersFill == JournalInv => NumbersRunOn
<1> SUFFICES ASSUME JournalInv, NEW p \in Periods
             PROVE  {entry[i].number : i \in InPeriod(p)} = 1..Cardinality(InPeriod(p))
  BY DEF NumbersRunOn
<1> DEFINE S == InPeriod(p)
           n == Cardinality(S)
           T == {entry[i].number : i \in S}
           f == [i \in S |-> entry[i].number]
<1>1. S = Seen(Committed, p)
  BY DEF InPeriod, Seen, Sees
<1>2. S \in SUBSET Ids /\ IsFiniteSet(S) /\ n \in Nat
  BY <1>1, SeenCard
<1>3. \A i \in S : entry[i].number \in 1..n
  <2> SUFFICES ASSUME NEW i \in S PROVE entry[i].number \in 1..n
    OBVIOUS
  <2>1. entry[i].number \in Nat \ {0}
    BY <1>2 DEF JournalInv, TypeOK, Rows
  <2>2. entry[i].number <= Cardinality(Seen(Committed, p))
    BY <1>1 DEF JournalInv, NumbersHold, Views
  <2> HIDE DEF S
  <2> QED BY <1>1, <1>2, <2>1, <2>2
<1>4. \A i, j \in S : entry[i].number = entry[j].number => i = j
  BY <1>2 DEF JournalInv, NumbersHold, InPeriod
<1>5. IsFiniteSet(1..n) /\ Cardinality(1..n) = n
  BY <1>2, FS_Interval
<1>6. f \in Injection(S, 1..n)
  <2>1. f \in [S -> 1..n]
    BY <1>3
  <2>2. \A i, j \in S : f[i] = f[j] => i = j
    BY <1>4
  <2> QED BY <2>1, <2>2 DEF Injection, IsInjective
<1>7. f \in Surjection(S, 1..n)
  BY <1>5, <1>6, FS_Injection
<1>8. \A x \in 1..n : \E i \in S : f[i] = x
  BY <1>7 DEF Surjection
<1> QED BY <1>3, <1>8

\* The numbers of a period run from 1 without a gap, for any number of
\* transactions that count and insert at the same time.
THEOREM NumbersAlwaysRunOn == Spec => []NumbersRunOn
<1> QED BY NumbersFill, JournalInvariant, PTL

\* A document has one posted entry at most.
THEOREM DocumentsPostOnce == Spec => []PostedOnce
<1>1. JournalInv => PostedOnce
  <2> SUFFICES ASSUME JournalInv, NEW i \in Ids, NEW j \in Ids,
                      entry[i].by = Committed, entry[j].by = Committed,
                      entry[i].status = "POSTED", entry[j].status = "POSTED",
                      entry[i].source = entry[j].source, entry[i].source # Manual
               PROVE  i = j
    BY DEF PostedOnce
  <2>1. entry[i].source \in Documents
    BY DEF JournalInv, TypeOK, Rows, Sources
  <2>2. Sees(Committed, i) /\ Sees(Committed, j)
    BY DEF Sees, Used
  <2>3. Shows(Committed, i) = "POSTED" /\ Shows(Committed, j) = "POSTED"
    BY JournalAssumption DEF Shows
  <2> QED BY <2>1, <2>2, <2>3 DEF JournalInv, SourcesHold, Views
<1> QED BY <1>1, JournalInvariant, PTL

\* An entry leaves the books with exactly one reversal, and never otherwise.
THEOREM VoidsAlwaysPair == Spec => []VoidsPair
<1>1. JournalInv => VoidsPair
  <2> SUFFICES ASSUME JournalInv, NEW i \in Ids, Used(i), entry[i].by = Committed
               PROVE  IF entry[i].reverses = 0
                      THEN /\ entry[i].status = "VOID" <=> Reversals(i) # {}
                           /\ \A j, k \in Reversals(i) : j = k
                           /\ \A j \in Reversals(i) : /\ entry[j].period = entry[i].period
                                                     /\ entry[j].source = entry[i].source
                      ELSE /\ entry[i].status = "VOID" /\ Reversals(i) = {}
                           /\ LET k == entry[i].reverses IN Used(k) /\ entry[k].by = Committed
    BY DEF VoidsPair
  <2>1. ReversalsHold /\ i # 0
    BY JournalAssumption DEF JournalInv, Ids
  <2>2. \A j \in Reversals(i) :
          /\ entry[j].reverses # 0 /\ entry[i].reverses = 0 /\ entry[i].status = "VOID"
          /\ entry[j].period = entry[i].period /\ entry[j].source = entry[i].source
    BY <2>1 DEF ReversalsHold, Reversals
  <2>3. \A j, k \in Reversals(i) : j = k
    BY <2>1 DEF ReversalsHold, Reversals
  <2>4. CASE entry[i].reverses = 0
    <3>1. entry[i].status = "VOID" => Reversals(i) # {}
      BY <2>1, <2>4 DEF ReversalsHold, Reversals
    <3> QED BY <2>2, <2>3, <2>4, <3>1
  <2>5. CASE entry[i].reverses # 0
    <3>1. /\ entry[i].status = "VOID" /\ Used(entry[i].reverses)
          /\ entry[entry[i].reverses].by = Committed
      BY <2>1, <2>5 DEF ReversalsHold
    <3> QED BY <2>2, <2>5, <3>1
  <2> QED BY <2>4, <2>5
<1> QED BY <1>1, JournalInvariant, PTL

\* A closed period takes entries and reversals only from transactions that
\* were open when it was closed.
THEOREM ClosedPeriodsKeepOut == Spec => ClosedToNewcomers
<1>1. JournalInv => [\A t \in Txs, i \in Ids :
         (entry[i].by = t /\ entry'[i].by = Committed /\ entry'[i].status # "none") =>
           period[entry[i].period] = "OPEN" \/ t \in closing[entry[i].period]]_vars
  BY DEF JournalInv, ClosesHold
<1> QED BY <1>1, JournalInvariant, PTL DEF ClosedToNewcomers
=============================================================================
