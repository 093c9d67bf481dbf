-------------------------- MODULE CustomerPayments --------------------------
(***************************************************************************)
(* The money side of one customer's issued invoices: PaymentService        *)
(* (payments, refunds, credits moved between invoices, and voiding any of  *)
(* them), next to the requests that change what is owed - issuing,         *)
(* editing and voiding an invoice, and returns scanned against it.         *)
(*                                                                         *)
(* PaymentService and the return scan run Serializable and start over when *)
(* an invoice row they write has changed since they read it; they are two  *)
(* actions each, what the request reads and checks, and its commit.  The   *)
(* others lock the invoice row before they read it.                        *)
(*                                                                         *)
(* Money is in whole units.  Invoices are numbered in the order in which   *)
(* they are issued; party Cash stands for the till and the banks.          *)
(***************************************************************************)
EXTENDS Totals

CONSTANTS
  MaxInvoices,   \* bound: invoices ever issued
  MaxDocs,       \* bound: payments, refunds and credit applications ever made
  MaxAmount,     \* bound: amount of one request
  Amounts,       \* totals an invoice may have
  Txs            \* requests that may be open at the same time

ASSUME PaymentsAssumption ==
  /\ MaxInvoices \in Nat
  /\ MaxDocs \in Nat
  /\ MaxAmount \in Nat
  /\ Amounts \subseteq Nat

Invs    == 1..MaxInvoices
Cash    == MaxInvoices + 1
Parties == 1..Cash
Docs    == 1..MaxDocs

VARIABLES
  status,          \* Invoice.status, "NONE" before it is issued
  total,           \* Invoice.total
  credited,        \* Invoice.creditedAmount
  amountPaid,      \* Invoice.amountPaid
  paymentStatus,   \* Invoice.paymentStatus
  posted,          \* receivable in the invoice's standing revenue entry
  receivable,      \* balance of the Accounts Receivable account
  payee,           \* the party a document pays: an invoice, or Cash
  moved,           \* what it takes from each party
  outRows,         \* parties whose Payment row on the giving side is live
  inRows,          \* parties whose Payment row on the receiving side is live
  req,             \* the request each transaction has read for
  seen             \* Invoice.amountPaid as it has read it

invoiceVars == <<status, total, credited, amountPaid, paymentStatus>>
ledgerVars  == <<posted, receivable>>
docVars     == <<payee, moved, outRows, inRows>>
reqVars     == <<req, seen>>
vars        == <<invoiceVars, ledgerVars, docVars, reqVars>>

Nothing == [p \in Parties |-> 0]
Unread  == [i \in Invs |-> 0]
NoRequest == [op |-> "NONE", to |-> Cash, take |-> Nothing, doc |-> 0]

Taken(take) == SumTo(take, Cash)

\* Documents are made in order.
Unused(k) == \A d \in Docs : payee[d] = 0 <=> d >= k

-----------------------------------------------------------------------------
(* What an invoice owes *)

Balance(i) == total[i] - credited[i] - amountPaid[i]
Credit(i)  == IF Balance(i) < 0 THEN - Balance(i) ELSE 0

DeriveStatus(paid, owed) ==
  IF owed <= 0 THEN "PAID"
  ELSE IF paid <= 0 THEN "UNPAID"
  ELSE IF paid >= owed THEN "PAID"
  ELSE "PARTIAL"

\* applyToInvoice(): amountPaid is written as given, and the status follows.
WritePaid(paid) ==
  /\ amountPaid' = paid
  /\ paymentStatus' = [i \in Invs |-> IF paid[i] # amountPaid[i] THEN DeriveStatus(paid[i], total[i] - credited[i])
                                      ELSE paymentStatus[i]]

-----------------------------------------------------------------------------
(* Transactions *)

\* The invoice rows a request writes.
Touched(r) ==
  CASE r.op = "MOVE"   -> ({r.to} \cup {p \in Parties : r.take[p] > 0}) \ {Cash}
    [] r.op = "VOID"   -> {r.to, payee[r.doc]} \ {Cash}
    [] r.op = "RETURN" -> {r.to}
    [] OTHER -> {}

\* Mutant of Interrupted: the requests run without runSerializable().
InterruptedNone(W) == {}

\* The open requests that can no longer commit once the rows of W are
\* written: PostgreSQL refuses, and runSerializable() starts them over.
Interrupted(W) == {u \in Txs : Touched(req[u]) \cap W # {}}

\* The rows of W are written by transaction t (or by none of them).
Written(W, t) ==
  /\ req'  = [u \in Txs |-> IF u = t \/ u \in Interrupted(W) THEN NoRequest ELSE req[u]]
  /\ seen' = [u \in Txs |-> IF u = t \/ u \in Interrupted(W) THEN Unread ELSE seen[u]]

Read(t, r) ==
  /\ req[t] = NoRequest
  /\ req' = [req EXCEPT ![t] = r]
  /\ seen' = [seen EXCEPT ![t] = [i \in Invs |-> IF i \in Touched(r) THEN amountPaid[i] ELSE 0]]
  /\ UNCHANGED <<invoiceVars, ledgerVars, docVars>>

-----------------------------------------------------------------------------
(* What the requests read and check *)

\* Mutant of Refund: what was paid is refunded, returned or not.
RefundPaid(t, i, amount) ==
  /\ status[i] = "ISSUED"
  /\ amount <= amountPaid[i]
  /\ Read(t, [op |-> "MOVE", to |-> Cash, take |-> [Nothing EXCEPT ![i] = amount], doc |-> 0])

RecordPayment(t, i, amount) ==
  /\ status[i] = "ISSUED"
  /\ amount <= Balance(i)
  /\ Read(t, [op |-> "MOVE", to |-> i, take |-> [Nothing EXCEPT ![Cash] = amount], doc |-> 0])

Refund(t, i, amount) ==
  /\ status[i] = "ISSUED"
  /\ amount <= Credit(i)
  /\ Read(t, [op |-> "MOVE", to |-> Cash, take |-> [Nothing EXCEPT ![i] = amount], doc |-> 0])

\* The credit the given sources hold, by source, and what is taken of it:
\* the oldest invoice gives first.
Offered(sources) == [p \in Parties |-> IF p \in sources /\ status[p] = "ISSUED" THEN Credit(p) ELSE 0]

\* Mutant of OldestFirst: the loop goes on when nothing remains.
OldestFirstOnward(offered, amount) ==
  [p \in Parties |->
     LET left == amount - SumTo(offered, p - 1)
     IN  IF left <= offered[p] THEN left ELSE offered[p]]

OldestFirst(offered, amount) ==
  [p \in Parties |->
     LET left == amount - SumTo(offered, p - 1)
     IN  IF left <= 0 THEN 0 ELSE IF left <= offered[p] THEN left ELSE offered[p]]

ApplyCredit(t, i, sources, amount) ==
  /\ status[i] = "ISSUED"
  /\ amount <= Balance(i)
  /\ amount <= Taken(Offered(sources))
  /\ Read(t, [op |-> "MOVE", to |-> i, take |-> OldestFirst(Offered(sources), amount), doc |-> 0])

\* voidPayment() of a row that document k has taken from party p: it goes
\* with the row it is linked to, and only while the invoice that received
\* the money still has it.
VoidPayment(t, k, p) ==
  /\ p \in outRows[k] \cup inRows[k]
  /\ p \in inRows[k] => amountPaid[payee[k]] >= moved[k][p]
  /\ Read(t, [op |-> "VOID", to |-> p, take |-> Nothing, doc |-> k])

\* A scan in a returns session, worth amount: at most what was sold.
ReturnScan(t, i, amount) ==
  /\ status[i] = "ISSUED"
  /\ credited[i] + amount <= total[i]
  /\ Read(t, [op |-> "RETURN", to |-> i, take |-> [Nothing EXCEPT ![i] = amount], doc |-> 0])

-----------------------------------------------------------------------------
(* What they write *)

\* recordPayment(), refund() and applyCredit() write one row on each side,
\* and the till's side is the journal's.
CommitMove(t, k) ==
  LET r == req[t]
  IN
  /\ r.op = "MOVE"
  /\ Unused(k)
  /\ payee' = [payee EXCEPT ![k] = r.to]
  /\ moved' = [moved EXCEPT ![k] = r.take]
  /\ outRows' = [outRows EXCEPT ![k] = {p \in Parties : r.take[p] > 0} \ {Cash}]
  /\ inRows' = [inRows EXCEPT ![k] = IF r.to = Cash THEN {} ELSE {p \in Parties : r.take[p] > 0}]
  /\ WritePaid([i \in Invs |-> IF i = r.to THEN seen[t][i] + Taken(r.take)
                               ELSE IF r.take[i] > 0 THEN seen[t][i] - r.take[i]
                               ELSE amountPaid[i]])
  /\ receivable' = receivable - r.take[Cash] + (IF r.to = Cash THEN Taken(r.take) ELSE 0)
  /\ Written(Touched(r), t)
  /\ UNCHANGED <<status, total, credited, posted>>

\* Mutant of CommitVoidPayment: the linked row of a credit is left alone.
CommitVoidOneRow(t) ==
  LET r == req[t]
      k == r.doc
      p == r.to
      x == moved[k][p]
  IN
  /\ r.op = "VOID"
  /\ outRows' = [outRows EXCEPT ![k] = IF p \in inRows[k] THEN @ ELSE @ \ {p}]
  /\ inRows' = [inRows EXCEPT ![k] = @ \ {p}]
  /\ WritePaid([i \in Invs |-> IF i = payee[k] /\ p \in inRows[k] THEN seen[t][i] - x
                               ELSE IF i = p /\ p \notin inRows[k] THEN seen[t][i] + x
                               ELSE amountPaid[i]])
  /\ receivable' = receivable + (IF p = Cash THEN x ELSE 0) - (IF payee[k] = Cash THEN x ELSE 0)
  /\ Written(Touched(r), t)
  /\ UNCHANGED <<status, total, credited, posted, payee, moved>>

CommitVoidPayment(t) ==
  LET r == req[t]
      k == r.doc
      p == r.to
      x == moved[k][p]
  IN
  /\ r.op = "VOID"
  /\ outRows' = [outRows EXCEPT ![k] = @ \ {p}]
  /\ inRows' = [inRows EXCEPT ![k] = @ \ {p}]
  /\ WritePaid([i \in Invs |-> IF i = payee[k] THEN seen[t][i] - x
                               ELSE IF i = p THEN seen[t][i] + x
                               ELSE amountPaid[i]])
  /\ receivable' = receivable + (IF p = Cash THEN x ELSE 0) - (IF payee[k] = Cash THEN x ELSE 0)
  /\ Written(Touched(r), t)
  /\ UNCHANGED <<status, total, credited, posted, payee, moved>>

\* Mutant of CommitReturn: a return does not settle the invoice.
CommitReturnUnsettled(t) ==
  LET r == req[t]
      i == r.to
  IN
  /\ r.op = "RETURN"
  /\ credited' = [credited EXCEPT ![i] = @ + r.take[i]]
  /\ receivable' = receivable - r.take[i]
  /\ Written({i}, t)
  /\ UNCHANGED <<status, total, amountPaid, paymentStatus, posted, docVars>>

\* postSalesReturn(): credits the invoice, which may settle it.
CommitReturn(t) ==
  LET r == req[t]
      i == r.to
  IN
  /\ r.op = "RETURN"
  /\ credited' = [credited EXCEPT ![i] = @ + r.take[i]]
  /\ paymentStatus' = [paymentStatus EXCEPT ![i] = DeriveStatus(amountPaid[i], total[i] - credited'[i])]
  /\ receivable' = receivable - r.take[i]
  /\ Written({i}, t)
  /\ UNCHANGED <<status, total, amountPaid, posted, docVars>>

-----------------------------------------------------------------------------
(* The invoice itself *)

\* issue() posts the receivable, unless there is nothing to post.
Issue(i, amount) ==
  /\ \A j \in Invs : status[j] = "NONE" <=> j >= i
  /\ status' = [status EXCEPT ![i] = "ISSUED"]
  /\ total' = [total EXCEPT ![i] = amount]
  /\ paymentStatus' = [paymentStatus EXCEPT ![i] = DeriveStatus(0, amount)]
  /\ posted' = [posted EXCEPT ![i] = amount]
  /\ receivable' = receivable + amount
  /\ UNCHANGED <<credited, amountPaid, docVars, reqVars>>

\* editIssuedInvoice(): the receivable is posted again if there was one; the
\* payment status stays as it is.
EditIssued(i, amount) ==
  /\ status[i] = "ISSUED"
  /\ amountPaid[i] <= 0
  /\ credited[i] = 0
  /\ total' = [total EXCEPT ![i] = amount]
  /\ posted' = [posted EXCEPT ![i] = IF @ > 0 THEN amount ELSE @]
  /\ receivable' = receivable + (IF posted[i] > 0 THEN amount - posted[i] ELSE 0)
  /\ Written({i}, 0)
  /\ UNCHANGED <<status, credited, amountPaid, paymentStatus, docVars>>

\* voidInvoice() voids the invoice's own entries.
VoidInvoice(i) ==
  /\ status[i] = "ISSUED"
  /\ amountPaid[i] <= 0
  /\ credited[i] = 0
  /\ status' = [status EXCEPT ![i] = "VOID"]
  /\ posted' = [posted EXCEPT ![i] = 0]
  /\ receivable' = receivable - posted[i]
  /\ Written({i}, 0)
  /\ UNCHANGED <<total, credited, amountPaid, paymentStatus, docVars>>

-----------------------------------------------------------------------------
Init ==
  /\ status = [i \in Invs |-> "NONE"]
  /\ total = [i \in Invs |-> 0]
  /\ credited = [i \in Invs |-> 0]
  /\ amountPaid = [i \in Invs |-> 0]
  /\ paymentStatus = [i \in Invs |-> "UNPAID"]
  /\ posted = [i \in Invs |-> 0]
  /\ receivable = 0
  /\ payee = [k \in Docs |-> 0]
  /\ moved = [k \in Docs |-> Nothing]
  /\ outRows = [k \in Docs |-> {}]
  /\ inRows = [k \in Docs |-> {}]
  /\ req = [t \in Txs |-> NoRequest]
  /\ seen = [t \in Txs |-> Unread]

\* applyCredit() takes from the invoice it is given, or from all the others.
Sources(i) == {Invs \ {i}} \cup {{j} : j \in Invs \ {i}}

Reads(t) ==
  \/ \E i \in Invs, amount \in 1..MaxAmount :
       \/ RecordPayment(t, i, amount)
       \/ Refund(t, i, amount)
       \/ ReturnScan(t, i, amount)
       \/ \E sources \in Sources(i) : ApplyCredit(t, i, sources, amount)
  \/ \E k \in Docs, p \in Parties : VoidPayment(t, k, p)

Commits(t) ==
  \/ \E k \in Docs : CommitMove(t, k)
  \/ CommitVoidPayment(t)
  \/ CommitReturn(t)

Invoicing ==
  \/ \E i \in Invs, amount \in Amounts : Issue(i, amount) \/ EditIssued(i, amount)
  \/ \E i \in Invs : VoidInvoice(i)

Next == Invoicing \/ \E t \in Txs : Reads(t) \/ Commits(t)

Spec == Init /\ [][Next]_vars

-----------------------------------------------------------------------------
(* Properties *)

Requests == [op : {"NONE", "MOVE", "VOID", "RETURN"}, to : Parties, take : [Parties -> 0..MaxAmount], doc : 0..MaxDocs]

\* The ranges of the state; amountPaid and the receivable may be any integer.
TypeOK ==
  /\ status \in [Invs -> {"NONE", "ISSUED", "VOID"}]
  /\ total \in [Invs -> Nat]
  /\ credited \in [Invs -> Nat]
  /\ amountPaid \in [Invs -> Int]
  /\ paymentStatus \in [Invs -> {"UNPAID", "PARTIAL", "PAID"}]
  /\ posted \in [Invs -> Nat]
  /\ receivable \in Int
  /\ payee \in [Docs -> 0..Cash]
  /\ moved \in [Docs -> [Parties -> 0..MaxAmount]]
  /\ outRows \in [Docs -> SUBSET Parties]
  /\ inRows \in [Docs -> SUBSET Parties]
  /\ req \in [Txs -> Requests]
  /\ seen \in [Txs -> [Invs -> Int]]

\* What the live rows of document k bring to invoice i, and take from it.
InOf(k, i)  == IF payee[k] = i THEN SumTo([p \in Parties |-> IF p \in inRows[k] THEN moved[k][p] ELSE 0], Cash) ELSE 0
OutOf(k, i) == IF i \in outRows[k] THEN moved[k][i] ELSE 0

MoneyIn(i)  == SumTo([k \in Docs |-> InOf(k, i)], MaxDocs)
MoneyOut(i) == SumTo([k \in Docs |-> OutOf(k, i)], MaxDocs)

\* Invoice.amountPaid, which every balance, credit and reminder is computed
\* from, is what the invoice's live Payment rows add up to, whatever
\* requests overlap (applyToInvoice writes a total computed from a read).
PaidIsSumOfRows == \A i \in Invs : amountPaid[i] = MoneyIn(i) - MoneyOut(i)

\* No invoice is paid more than its total, no more leaves it - refunded or
\* applied elsewhere - than returns have credited, and an invoice that was
\* voided holds no live payment: voidInvoice() checks amountPaid, not rows.
MoneyBounded ==
  \A i \in Invs :
    /\ MoneyIn(i) <= total[i]
    /\ MoneyOut(i) <= credited[i]
    /\ MoneyOut(i) <= MoneyIn(i)
    /\ status[i] # "ISSUED" => MoneyIn(i) = 0

\* The Accounts Receivable account is what the issued invoices are still
\* owed, less the credits customers hold: payments, refunds, returns, edits
\* and voids post to it one by one, and applied credits not at all.
LedgerFollowsInvoices ==
  receivable = SumTo([i \in Invs |-> IF status[i] = "ISSUED" THEN Balance(i) ELSE 0], MaxInvoices)

\* The stored payment status is the one that the balance gives, so that a
\* settled invoice is not chased and an unsettled one is: returns, edits and
\* payments each maintain it on their own.
StatusFollowsBalance ==
  \A i \in Invs : status[i] = "ISSUED" => paymentStatus[i] = DeriveStatus(amountPaid[i], total[i] - credited[i])
=============================================================================
