------------------------------ MODULE Journal ------------------------------
(***************************************************************************)
(* The journal under transactions that overlap.  Postings and reversals    *)
(* are made inside the transactions of the documents they belong to, at    *)
(* READ COMMITTED: the fiscal period, a posted entry of the same source    *)
(* and the number of entries in the period are read by one statement each, *)
(* and the entry is inserted by a further one, so that other transactions  *)
(* may commit between any two.  What holds them together are the lock on   *)
(* the document and two unique indexes, (organizationId, entryNumber) and  *)
(* reversalOfId: an insert that meets a row of the same key aborts its     *)
(* transaction if the row is committed, and waits if it is not.            *)
(*                                                                         *)
(* Amounts, accounts and dates other than the fiscal period are left out;  *)
(* a posting's lines are taken to balance (validateLines()).               *)
(***************************************************************************)
EXTENDS Integers, FiniteSets

CONSTANTS
  Txs,         \* database transactions that may be open at the same time
  Periods,     \* fiscal periods
  Documents,   \* documents that post under a lock on their own row
  Manual,      \* the source of entries made by hand, which have no document
  MaxEntries,  \* bound: rows of the journal
  MaxSteps,    \* bound: postings and reversals of one transaction
  Committed    \* instead of a transaction: the row is committed

Ids     == 1..MaxEntries
Sources == Documents \cup {Manual}

ASSUME JournalAssumption ==
  /\ MaxEntries \in Nat
  /\ MaxSteps \in Nat
  /\ Committed \notin Txs
  /\ Manual \notin Documents

VARIABLES
  period,   \* FiscalPeriod.status of each period
  entry,    \* the rows of JournalEntry, in the order of their ids
  voided,   \* the rows each transaction has set to VOID and not committed
  lock,     \* the transaction that holds each document's row, or Committed
  tx,       \* what each transaction is doing and has read
  closing   \* the transactions that were open when a closed period was closed

vars == <<period, entry, voided, lock, tx, closing>>

NoPeriod == "none"

\* reverses: the id of the entry that a reversal reverses, 0 for an original;
\* by: the transaction that inserted the row, until it commits.
Rows == [status : {"none", "POSTED", "VOID"}, source : Sources, period : Periods \cup {NoPeriod},
         number : Nat \ {0}, reverses : 0..MaxEntries, by : Txs \cup {Committed}]

\* original: what is to be reversed, 0 for a posting; count: the entries of
\* the period when they were counted; left: steps it may still make.
Works == [pc : {"idle", "ready", "source", "count", "insert"}, source : Sources,
          period : Periods \cup {NoPeriod}, original : 0..MaxEntries, count : 0..MaxEntries, left : 0..MaxSteps]

Idle == [pc |-> "idle", source |-> Manual, period |-> NoPeriod, original |-> 0, count |-> 0, left |-> 0]

TypeOK ==
  /\ period \in [Periods -> {"OPEN", "CLOSED"}]
  /\ entry \in [Ids -> Rows]
  /\ voided \in [Txs -> SUBSET Ids]
  /\ lock \in [Documents -> Txs \cup {Committed}]
  /\ tx \in [Txs -> Works]
  /\ closing \in [Periods -> SUBSET Txs]

NoRow == [status |-> "none", period |-> NoPeriod, source |-> Manual,
          number |-> 1, reverses |-> 0, by |-> Committed]

Init ==
  /\ period = [p \in Periods |-> "OPEN"]
  /\ entry = [i \in Ids |-> NoRow]
  /\ voided = [t \in Txs |-> {}]
  /\ lock = [d \in Documents |-> Committed]
  /\ tx = [t \in Txs |-> Idle]
  /\ closing = [p \in Periods |-> {}]

-----------------------------------------------------------------------------
(* What a transaction sees *)

Used(i)    == entry[i].status # "none"
Sees(t, i) == Used(i) /\ entry[i].by \in {t, Committed}

StatusTo(t, i) == IF i \in voided[t] THEN "VOID" ELSE entry[i].status

Active(t) == tx[t].pc # "idle"

\* Mutant of Counted: the entries of all periods.
CountedInAll(t) == {i \in Ids : Sees(t, i)}

Counted(t) == {i \in Ids : Sees(t, i) /\ entry[i].period = tx[t].period}

\* buildEntryNumber()
NumberAfter(n) == n + 1

\* The rows that the row to be inserted may not share a key with.
SameNumber(t) ==
  {i \in Ids : Used(i) /\ entry[i].period = tx[t].period /\ entry[i].number = NumberAfter(tx[t].count)}

\* Mutant of SameReversal: reversalOfId is not unique.
SameReversalNone(t) == {i \in {} : tx[t].original # 0}

SameReversal(t) ==
  {i \in Ids : Used(i) /\ tx[t].original # 0 /\ entry[i].reverses = tx[t].original}

Conflicts(t) == SameNumber(t) \cup SameReversal(t)

-----------------------------------------------------------------------------
(* Transactions *)

At(t, pc) == tx[t].pc = pc

Moves(t, w) == tx' = [tx EXCEPT ![t] = w]

\* Mutant of Begin: the document is not locked.
BeginUnlocked(t, s) ==
  /\ At(t, "idle")
  /\ Moves(t, [Idle EXCEPT !.pc = "ready", !.source = s, !.left = MaxSteps])
  /\ UNCHANGED <<period, entry, voided, lock, closing>>

\* A document's transaction claims or locks its row before anything else;
\* another that wants the same document waits.
Begin(t, s) ==
  /\ At(t, "idle")
  /\ \/ s = Manual /\ UNCHANGED lock
     \/ /\ s \in Documents
        /\ lock[s] = Committed
        /\ lock' = [lock EXCEPT ![s] = t]
  /\ Moves(t, [Idle EXCEPT !.pc = "ready", !.source = s, !.left = MaxSteps])
  /\ UNCHANGED <<period, entry, voided, closing>>

Ends(t) ==
  /\ voided' = [voided EXCEPT ![t] = {}]
  /\ lock' = [d \in Documents |-> IF lock[d] = t THEN Committed ELSE lock[d]]
  /\ Moves(t, Idle)
  /\ closing' = [p \in Periods |-> closing[p] \ {t}]
  /\ UNCHANGED period

Commit(t) ==
  /\ At(t, "ready")
  /\ entry' = [i \in Ids |->
                 [entry[i] EXCEPT !.status = StatusTo(t, i),
                                  !.by = IF entry[i].by = t THEN Committed ELSE entry[i].by]]
  /\ Ends(t)

\* Whatever fails in the document's transaction, its postings go with it: a
\* refused posting, a conflict, a deadlock's victim, a lost connection.
Rollback(t) ==
  /\ Active(t)
  /\ entry' = [i \in Ids |-> IF entry[i].by = t THEN NoRow ELSE entry[i]]
  /\ Ends(t)

-----------------------------------------------------------------------------
(* Posting: postEntryInner() *)

\* getOrCreateOpenFiscalPeriod(); if it is not open, only Rollback is left.
StartPost(t, p) ==
  /\ At(t, "ready")
  /\ tx[t].left > 0
  /\ period[p] = "OPEN"
  /\ Moves(t, [tx[t] EXCEPT !.pc = "source", !.period = p, !.left = @ - 1])
  /\ UNCHANGED <<period, entry, voided, lock, closing>>

PostedFor(t, s) == {i \in Ids : Sees(t, i) /\ entry[i].source = s /\ StatusTo(t, i) = "POSTED"}

FindDuplicate(t) ==
  /\ At(t, "source")
  /\ tx[t].source = Manual \/ PostedFor(t, tx[t].source) = {}
  /\ Moves(t, [tx[t] EXCEPT !.pc = "count"])
  /\ UNCHANGED <<period, entry, voided, lock, closing>>

Count(t) ==
  /\ At(t, "count")
  /\ Moves(t, [tx[t] EXCEPT !.pc = "insert", !.count = Cardinality(Counted(t))])
  /\ UNCHANGED <<period, entry, voided, lock, closing>>

\* The insert of a posting, or of a reversal with the update of its original.
Insert(t) ==
  /\ At(t, "insert")
  /\ Conflicts(t) = {}
  /\ \E i \in Ids :
       /\ ~ Used(i)
       /\ \A j \in 1..(i - 1) : Used(j)
       /\ entry' = [entry EXCEPT ![i] =
            [status |-> IF tx[t].original = 0 THEN "POSTED" ELSE "VOID",
             period |-> tx[t].period, source |-> tx[t].source, number |-> NumberAfter(tx[t].count),
             reverses |-> tx[t].original, by |-> t]]
  /\ voided' = [voided EXCEPT ![t] = @ \cup ({tx[t].original} \ {0})]
  /\ Moves(t, [tx[t] EXCEPT !.pc = "ready", !.period = NoPeriod, !.original = 0, !.count = 0])
  /\ UNCHANGED <<period, lock, closing>>

-----------------------------------------------------------------------------
(* Reversing: voidEntryInner(), voidAllForSource() *)

\* Mutant of StartVoid: the original's period is not looked at.
StartVoidAnyPeriod(t, i) ==
  /\ At(t, "ready")
  /\ tx[t].left > 0
  /\ i \in PostedFor(t, tx[t].source)
  /\ Moves(t, [tx[t] EXCEPT !.pc = "count", !.period = entry[i].period, !.original = i, !.left = @ - 1])
  /\ UNCHANGED <<period, entry, voided, lock, closing>>

\* A document's reversal finds the entry by its source, one made by hand is
\* named; the reversal is filed in the period of its original.
StartVoid(t, i) ==
  /\ At(t, "ready")
  /\ tx[t].left > 0
  /\ i \in PostedFor(t, tx[t].source)
  /\ period[entry[i].period] = "OPEN"
  /\ Moves(t, [tx[t] EXCEPT !.pc = "count", !.period = entry[i].period, !.original = i, !.left = @ - 1])
  /\ UNCHANGED <<period, entry, voided, lock, closing>>

-----------------------------------------------------------------------------
(* Fiscal periods *)

ClosePeriod(p) ==
  /\ period[p] = "OPEN"
  /\ period' = [period EXCEPT ![p] = "CLOSED"]
  /\ closing' = [closing EXCEPT ![p] = {t \in Txs : Active(t)}]
  /\ UNCHANGED <<entry, voided, lock, tx>>

ReopenPeriod(p) ==
  /\ period[p] = "CLOSED"
  /\ period' = [period EXCEPT ![p] = "OPEN"]
  /\ closing' = [closing EXCEPT ![p] = {}]
  /\ UNCHANGED <<entry, voided, lock, tx>>

-----------------------------------------------------------------------------
Step(t) ==
  \/ \E s \in Sources : Begin(t, s)
  \/ \E p \in Periods : StartPost(t, p)
  \/ \E i \in Ids : StartVoid(t, i)
  \/ FindDuplicate(t) \/ Count(t) \/ Insert(t)
  \/ Commit(t) \/ Rollback(t)

Next ==
  \/ \E t \in Txs : Step(t)
  \/ \E p \in Periods : ClosePeriod(p) \/ ReopenPeriod(p)

Spec == Init /\ [][Next]_vars

-----------------------------------------------------------------------------
(* Properties *)

InPeriod(p) == {i \in Ids : Used(i) /\ entry[i].by = Committed /\ entry[i].period = p}

\* The numbers of a period's entries run from 1 without a gap or a repeat,
\* although each is one more than a count that others may have made stale.
NumbersRunOn ==
  \A p \in Periods : {entry[i].number : i \in InPeriod(p)} = 1..Cardinality(InPeriod(p))

\* A document has at most one posted entry, however its postings, reversals
\* and repostings overlap with others.
PostedOnce ==
  \A i, j \in Ids :
    /\ entry[i].by = Committed /\ entry[j].by = Committed
    /\ entry[i].status = "POSTED" /\ entry[j].status = "POSTED"
    /\ entry[i].source = entry[j].source /\ entry[i].source # Manual
    => i = j

Reversals(i) == {j \in Ids : Used(j) /\ entry[j].by = Committed /\ entry[j].reverses = i}

\* An entry leaves the books together with exactly one reversal of the same
\* source and period, and one that has none stays posted; a reversal is
\* never itself reversed.
VoidsPair ==
  \A i \in Ids : (Used(i) /\ entry[i].by = Committed) =>
    IF entry[i].reverses = 0
    THEN /\ entry[i].status = "VOID" <=> Reversals(i) # {}
         /\ \A j, k \in Reversals(i) : j = k
         /\ \A j \in Reversals(i) : /\ entry[j].period = entry[i].period
                                   /\ entry[j].source = entry[i].source
    ELSE /\ entry[i].status = "VOID" /\ Reversals(i) = {}
         /\ LET k == entry[i].reverses IN Used(k) /\ entry[k].by = Committed

\* Only a transaction that was already open when a period was closed can
\* still bring an entry or a reversal into it.
ClosedToNewcomers ==
  [][\A t \in Txs, i \in Ids :
       (entry[i].by = t /\ entry'[i].by = Committed /\ entry'[i].status # "none") =>
         period[entry[i].period] = "OPEN" \/ t \in closing[entry[i].period]]_vars
=============================================================================
