----------------------- MODULE CustomerPaymentsProofs -----------------------
(***************************************************************************)
(* What PaymentService guarantees for any number of invoices, documents    *)
(* and overlapping requests: amountPaid is what the live rows add up to,   *)
(* and the money on an invoice stays within what was invoiced and          *)
(* credited.                                                               *)
(*                                                                         *)
(* The argument: whatever a request has read and checked still holds when  *)
(* it commits, because a transaction that writes one of its rows sends it  *)
(* back to start over (RequestsHold); so each commit moves the total that  *)
(* is stored and the total of the rows by the same amount.                 *)
(***************************************************************************)
EXTENDS CustomerPayments, TotalsProofs

\* What a request has checked still holds.
Checked(r) ==
  /\ r.op = "MOVE" =>
       /\ r.to # Cash => status[r.to] = "ISSUED" /\ Taken(r.take) <= Balance(r.to)
       /\ r.take[r.to] = 0
       /\ \A i \in Invs : r.take[i] > 0 => status[i] = "ISSUED" /\ r.take[i] <= - Balance(i)
  /\ r.op = "VOID" =>
       /\ r.doc \in Docs
       /\ r.to \in outRows[r.doc] \cup inRows[r.doc]
       /\ r.to \in inRows[r.doc] => amountPaid[payee[r.doc]] >= moved[r.doc][r.to]
  /\ r.op = "RETURN" =>
       /\ r.to \in Invs
       /\ status[r.to] = "ISSUED"
       /\ credited[r.to] + r.take[r.to] <= total[r.to]

\* And so does what it has read.
RequestHolds(t) ==
  /\ Checked(req[t])
  /\ \A i \in Touched(req[t]) : seen[t][i] = amountPaid[i]

RequestsHold == \A t \in Txs : RequestHolds(t)

\* The rows of a document: the giving side is invoices, the receiving side
\* one invoice or the till, and a credit has both or neither.
DocumentShape ==
  \A k \in Docs :
    /\ outRows[k] \subseteq Invs
    /\ payee[k] \notin outRows[k] \cup inRows[k]
    /\ payee[k] \notin Invs => inRows[k] = {}
    /\ payee[k] \in Invs => inRows[k] \ {Cash} = outRows[k]
    /\ payee[k] = 0 => outRows[k] = {}

\* Returns credit no more than was invoiced, and nothing is owed on an
\* invoice that was not issued yet.
CreditBounded ==
  \A i \in Invs : /\ credited[i] <= total[i]
                  /\ status[i] = "NONE" => total[i] = 0

PaymentsInv == TypeOK /\ RequestsHold /\ DocumentShape /\ CreditBounded /\ PaidIsSumOfRows /\ MoneyBounded

-----------------------------------------------------------------------------
(* Types *)

\* The parties are the invoices and the till.
LEMMA PartiesAre ==
  /\ Cash \in Parties /\ Cash \notin Invs /\ Cash \in Nat /\ Cash # 0
  /\ \A p : p \in Invs <=> p \in Parties /\ p # Cash
  /\ 0 \notin Parties /\ Parties = 1..Cash /\ 0 \in 0..MaxAmount
BY PaymentsAssumption DEF Parties, Invs, Cash

\* How applyCredit() splits an amount over the sources: no source gives
\* more than it holds, and together they give the amount or all they hold.
LEMMA OldestFirstSplits ==
  ASSUME NEW offered \in [Parties -> Nat], NEW amount \in Nat
  PROVE  /\ OldestFirst(offered, amount) \in [Parties -> 0..amount]
         /\ \A p \in Parties : OldestFirst(offered, amount)[p] <= offered[p]
         /\ Taken(OldestFirst(offered, amount)) <= amount
         /\ amount <= Taken(offered) => Taken(OldestFirst(offered, amount)) = amount
<1> DEFINE take == OldestFirst(offered, amount)
<1>0. Cash \in Nat /\ Parties = 1..Cash
  BY PartiesAre
<1>1. offered \in [1..Cash -> Nat] /\ offered \in [1..Cash -> Int]
  BY <1>0
<1>2. PICK s : IsRunningTotal(s, offered, Cash) /\ SumTo(offered, Cash) = s[Cash]
  BY <1>0, <1>1, SumToIsRunningTotal
<1>3. ASSUME NEW p \in 1..Cash
      PROVE  /\ take[p] = LET left == amount - s[p - 1]
                          IN  IF left <= 0 THEN 0 ELSE IF left <= offered[p] THEN left ELSE offered[p]
             /\ p \in 0..Cash /\ p - 1 \in 0..Cash /\ offered[p] \in Nat
             /\ s[p - 1] \in Int /\ s[p] = s[p - 1] + offered[p]
  <2>1. p \in 0..Cash /\ p - 1 \in 0..Cash /\ p \in Parties
    BY <1>0
  <2>2. SumTo(offered, p - 1) = s[p - 1]
    BY <1>0, <1>1, <1>2, <2>1, SumToPrefix
  <2> QED BY <1>0, <1>1, <1>2, <2>1, <2>2 DEF OldestFirst, IsRunningTotal
<1>4. \A k \in 0..Cash : s[k] >= 0
  <2>1. \A k \in 0..Cash : SumTo(offered, k) = s[k]
    BY <1>0, <1>1, <1>2, SumToPrefix
  <2> SUFFICES ASSUME NEW k \in 0..Cash PROVE s[k] >= 0
    OBVIOUS
  <2>2. k \in Nat
    BY <1>0
  <2> DEFINE g == [i \in 1..k |-> offered[i]]
  <2>3. g \in [1..k -> Nat] /\ \A i \in 1..k : offered[i] = g[i]
    BY <1>0, <1>1
  <2> HIDE DEF g
  <2>4. SumTo(g, k) \in Nat
    BY <2>2, <2>3, SumToNat
  <2>5. SumTo(offered, k) = SumTo(g, k)
    BY <2>2, <2>3, SumToCongruent
  <2> QED BY <2>1, <2>4, <2>5
<1>5. take \in [1..Cash -> 0..amount] /\ \A p \in 1..Cash : take[p] <= offered[p]
  <2>1. ASSUME NEW p \in 1..Cash PROVE take[p] \in 0..amount /\ take[p] <= offered[p]
    <3>1. s[p - 1] >= 0
      BY <1>3, <1>4
    <3> HIDE DEF take
    <3> QED BY <3>1, <1>3
  <2>2. take = [p \in 1..Cash |-> take[p]]
    BY <1>0 DEF OldestFirst
  <2> HIDE DEF take
  <2> QED BY <2>1, <2>2
<1> DEFINE q == [k \in 0..Cash |-> IF s[k] <= amount THEN s[k] ELSE amount]
<1>6. IsRunningTotal(q, take, Cash)
  <2>1. s \in [0..Cash -> Int] /\ s[0] = 0
    BY <1>2 DEF IsRunningTotal
  <2>2. q \in [0..Cash -> Int] /\ q[0] = 0
    BY <1>0, <2>1
  <2>3. ASSUME NEW p \in 1..Cash PROVE q[p] = q[p - 1] + take[p]
    <3> HIDE DEF take
    <3>1. p \in 0..Cash /\ p - 1 \in 0..Cash
      BY <1>3
    <3>2. /\ q[p] = IF s[p] <= amount THEN s[p] ELSE amount
          /\ q[p - 1] = IF s[p - 1] <= amount THEN s[p - 1] ELSE amount
      BY <3>1
    <3> HIDE DEF q
    <3> QED BY <1>3, <3>2
  <2> HIDE DEF q, take
  <2> QED BY <2>2, <2>3 DEF IsRunningTotal
<1>7. SumTo(take, Cash) = q[Cash]
  <2>1. take \in [1..Cash -> Int]
    <3> HIDE DEF take
    <3> QED BY <1>5
  <2>2. PICK r : IsRunningTotal(r, take, Cash) /\ SumTo(take, Cash) = r[Cash]
    <3> HIDE DEF take
    <3> QED BY <1>0, <2>1, SumToIsRunningTotal
  <2> HIDE DEF q, take
  <2> QED BY <1>0, <1>6, <2>2, RunningTotalUnique
<1>8. q[Cash] = (IF s[Cash] <= amount THEN s[Cash] ELSE amount) /\ s[Cash] \in Int
  BY <1>0, <1>2 DEF IsRunningTotal
<1> HIDE DEF q, take
<1>9. /\ take \in [Parties -> 0..amount]
      /\ \A p \in Parties : take[p] <= offered[p]
      /\ Taken(take) <= amount
      /\ amount <= Taken(offered) => Taken(take) = amount
  BY <1>0, <1>2, <1>5, <1>7, <1>8 DEF Taken
<1> QED BY <1>9 DEF take

\* The credit offered is a natural for every party.
LEMMA OfferedType ==
  ASSUME TypeOK, NEW i \in Invs, NEW sources \in Sources(i)
  PROVE  /\ Offered(sources) \in [Parties -> Nat]
         /\ Offered(sources)[i] = 0
         /\ \A p \in Invs : Offered(sources)[p] > 0 => status[p] = "ISSUED" /\ Offered(sources)[p] = - Balance(p)
<1>1. sources \subseteq Invs /\ i \notin sources
  BY DEF Sources
<1>2. \A p \in Invs : Balance(p) \in Int /\ Credit(p) \in Nat /\ (Credit(p) > 0 => Credit(p) = - Balance(p))
  BY DEF TypeOK, Balance, Credit
<1>3. Offered(sources) \in [Parties -> Nat]
  BY <1>1, <1>2 DEF Offered
<1>4. \A p \in Parties : Offered(sources)[p] = IF p \in sources /\ status[p] = "ISSUED" THEN Credit(p) ELSE 0
  BY DEF Offered
<1> QED BY <1>1, <1>2, <1>3, <1>4, PartiesAre

\* The invoice rows a request writes are invoices.
LEMMA TouchedInvs ==
  ASSUME TypeOK, DocumentShape, NEW r \in Requests, Checked(r)
  PROVE  Touched(r) \subseteq Invs
<1>1. CASE r.op = "MOVE"
  <2>1. Touched(r) = ({r.to} \cup {p \in Parties : r.take[p] > 0}) \ {Cash}
    BY <1>1 DEF Touched
  <2> QED BY <2>1, PartiesAre DEF Requests
<1>2. CASE r.op = "VOID"
  <2>1. Touched(r) = {r.to, payee[r.doc]} \ {Cash} /\ r.doc \in Docs
    BY <1>2 DEF Touched, Checked
  <2>2. r.to \in Parties /\ payee[r.doc] \in 0..Cash /\ payee[r.doc] # 0
    BY <1>2, <2>1, PartiesAre DEF Requests, TypeOK, Checked, DocumentShape
  <2>3. payee[r.doc] \in Parties
    BY <2>2, PartiesAre
  <2> QED BY <2>1, <2>2, <2>3, PartiesAre
<1>3. CASE r.op = "RETURN"
  BY <1>3 DEF Touched, Checked
<1>4. CASE r.op = "NONE"
  BY <1>4 DEF Touched
<1> QED BY <1>1, <1>2, <1>3, <1>4 DEF Requests

\* The conversions of what requests read and write keep their ranges.
LEMMA RequestTypes ==
  /\ Nothing \in [Parties -> 0..MaxAmount]
  /\ Unread \in [Invs -> Int]
  /\ NoRequest \in Requests
<1>1. Nothing \in [Parties -> 0..MaxAmount] /\ Unread \in [Invs -> Int]
  BY PartiesAre DEF Nothing, Unread
<1>2. 0 \in 0..MaxDocs
  BY PaymentsAssumption
<1> QED BY <1>1, <1>2, PartiesAre DEF NoRequest, Requests

\* A request that is read keeps the types.
LEMMA ReadTypes ==
  ASSUME TypeOK, NEW t \in Txs, NEW r \in Requests, Read(t, r)
  PROVE  TypeOK'
<1>1. req' \in [Txs -> Requests]
  BY DEF Read, TypeOK
<1>2. seen' \in [Txs -> [Invs -> Int]]
  <2>1. [i \in Invs |-> IF i \in Touched(r) THEN amountPaid[i] ELSE 0] \in [Invs -> Int]
    BY DEF TypeOK
  <2> DEFINE new == [i \in Invs |-> IF i \in Touched(r) THEN amountPaid[i] ELSE 0]
  <2>2. seen' = [seen EXCEPT ![t] = new]
    BY DEF Read
  <2> HIDE DEF new
  <2>3. new \in [Invs -> Int]
    BY <2>1 DEF new
  <2> QED BY <2>2, <2>3 DEF TypeOK
<1> QED BY <1>1, <1>2 DEF Read, TypeOK, invoiceVars, ledgerVars, docVars

\* So does starting requests over.
LEMMA WrittenTypes ==
  ASSUME TypeOK, NEW W, NEW t, Written(W, t)
  PROVE  /\ req' \in [Txs -> Requests]
         /\ seen' \in [Txs -> [Invs -> Int]]
BY RequestTypes DEF Written, TypeOK

\* deriveStatus() returns one of the three payment statuses.
LEMMA StatusTypes ==
  ASSUME NEW paid, NEW owed
  PROVE  DeriveStatus(paid, owed) \in {"UNPAID", "PARTIAL", "PAID"}
BY DEF DeriveStatus

\* applyToInvoice() keeps the types.
LEMMA WritePaidTypes ==
  ASSUME TypeOK, NEW paid \in [Invs -> Int], WritePaid(paid)
  PROVE  /\ amountPaid' \in [Invs -> Int]
         /\ paymentStatus' \in [Invs -> {"UNPAID", "PARTIAL", "PAID"}]
BY StatusTypes DEF WritePaid, TypeOK

\* A step of any kind keeps the types.
LEMMA ReadsTypes ==
  ASSUME TypeOK, NEW t \in Txs, Reads(t)
  PROVE  TypeOK'
<1>0. 0 \in 0..MaxDocs /\ Cash \in Parties /\ Invs \subseteq Parties /\ 1..MaxAmount \subseteq 0..MaxAmount
  BY PaymentsAssumption, PartiesAre
<1>1. ASSUME NEW i \in Invs, NEW amount \in 1..MaxAmount, RecordPayment(t, i, amount)
      PROVE  TypeOK'
  <2>1. [op |-> "MOVE", to |-> i, take |-> [Nothing EXCEPT ![Cash] = amount], doc |-> 0] \in Requests
    BY <1>0, RequestTypes DEF Requests
  <2> QED BY <1>1, <2>1, ReadTypes DEF RecordPayment
<1>2. ASSUME NEW i \in Invs, NEW amount \in 1..MaxAmount, Refund(t, i, amount)
      PROVE  TypeOK'
  <2>1. [op |-> "MOVE", to |-> Cash, take |-> [Nothing EXCEPT ![i] = amount], doc |-> 0] \in Requests
    BY <1>0, RequestTypes DEF Requests
  <2> QED BY <1>2, <2>1, ReadTypes DEF Refund
<1>3. ASSUME NEW i \in Invs, NEW amount \in 1..MaxAmount, ReturnScan(t, i, amount)
      PROVE  TypeOK'
  <2>1. [op |-> "RETURN", to |-> i, take |-> [Nothing EXCEPT ![i] = amount], doc |-> 0] \in Requests
    BY <1>0, RequestTypes DEF Requests
  <2> QED BY <1>3, <2>1, ReadTypes DEF ReturnScan
<1>4. ASSUME NEW i \in Invs, NEW amount \in 1..MaxAmount, NEW sources \in Sources(i),
             ApplyCredit(t, i, sources, amount)
      PROVE  TypeOK'
  <2>1. OldestFirst(Offered(sources), amount) \in [Parties -> 0..amount]
    BY OfferedType, OldestFirstSplits, <1>0
  <2>2. OldestFirst(Offered(sources), amount) \in [Parties -> 0..MaxAmount]
    <3>1. 0..amount \subseteq 0..MaxAmount
      BY PaymentsAssumption
    <3> QED BY <2>1, <3>1
  <2>3. [op |-> "MOVE", to |-> i, take |-> OldestFirst(Offered(sources), amount), doc |-> 0] \in Requests
    BY <1>0, <2>2 DEF Requests
  <2> QED BY <1>4, <2>3, ReadTypes DEF ApplyCredit
<1>5. ASSUME NEW k \in Docs, NEW p \in Parties, VoidPayment(t, k, p)
      PROVE  TypeOK'
  <2>1. k \in 0..MaxDocs
    BY PaymentsAssumption DEF Docs
  <2>2. [op |-> "VOID", to |-> p, take |-> Nothing, doc |-> k] \in Requests
    BY <2>1, RequestTypes DEF Requests
  <2> QED BY <1>5, <2>2, ReadTypes DEF VoidPayment
<1> QED BY <1>1, <1>2, <1>3, <1>4, <1>5 DEF Reads

\* A commit keeps the types.
LEMMA CommitsTypes ==
  ASSUME TypeOK, RequestsHold, NEW t \in Txs, Commits(t)
  PROVE  TypeOK'
<1>0. req[t] \in Requests /\ seen[t] \in [Invs -> Int] /\ RequestHolds(t)
  BY DEF TypeOK, RequestsHold
<1>1. ASSUME NEW k \in Docs, CommitMove(t, k)
      PROVE  TypeOK'
  <2> DEFINE r == req[t]
  <2>1. /\ r.take \in [Parties -> 0..MaxAmount] /\ r.to \in Parties
        /\ r.take \in [1..Cash -> Int] /\ Cash \in Nat
    BY <1>0, PartiesAre, PaymentsAssumption DEF Requests
  <2>2. Taken(r.take) \in Int /\ r.take[Cash] \in Int
    BY <2>1, SumToInt, PartiesAre DEF Taken
  <2> DEFINE paid == [i \in Invs |-> IF i = r.to THEN seen[t][i] + Taken(r.take)
                                     ELSE IF r.take[i] > 0 THEN seen[t][i] - r.take[i]
                                     ELSE amountPaid[i]]
  <2>3. paid \in [Invs -> Int]
    <3>1. \A i \in Invs : seen[t][i] \in Int /\ r.take[i] \in Int /\ amountPaid[i] \in Int
      BY <1>0, <2>1, PartiesAre DEF TypeOK
    <3> HIDE DEF r
    <3> QED BY <3>1, <2>2
  <2>4. WritePaid(paid)
    BY <1>1 DEF CommitMove
  <2>5. /\ amountPaid' \in [Invs -> Int]
        /\ paymentStatus' \in [Invs -> {"UNPAID", "PARTIAL", "PAID"}]
    <3> HIDE DEF paid
    <3> QED BY <2>3, <2>4, WritePaidTypes
  <2>6. req' \in [Txs -> Requests] /\ seen' \in [Txs -> [Invs -> Int]]
    <3>1. Written(Touched(r), t)
      BY <1>1 DEF CommitMove
    <3> QED BY <3>1, WrittenTypes
  <2>7. receivable' \in Int
    <3>1. receivable' = receivable - r.take[Cash] + (IF r.to = Cash THEN Taken(r.take) ELSE 0)
      BY <1>1 DEF CommitMove
    <3>2. receivable \in Int
      BY DEF TypeOK
    <3> HIDE DEF r
    <3> QED BY <3>1, <3>2, <2>2
  <2>8. /\ payee' \in [Docs -> 0..Cash]
        /\ moved' \in [Docs -> [Parties -> 0..MaxAmount]]
        /\ outRows' \in [Docs -> SUBSET Parties]
        /\ inRows' \in [Docs -> SUBSET Parties]
    <3>1. /\ payee' = [payee EXCEPT ![k] = r.to]
          /\ moved' = [moved EXCEPT ![k] = r.take]
          /\ outRows' = [outRows EXCEPT ![k] = {p \in Parties : r.take[p] > 0} \ {Cash}]
          /\ inRows' = [inRows EXCEPT ![k] = IF r.to = Cash THEN {} ELSE {p \in Parties : r.take[p] > 0}]
      BY <1>1 DEF CommitMove
    <3>2. r.to \in 0..Cash
      BY <2>1, PartiesAre
    <3> HIDE DEF r
    <3> QED BY <3>1, <3>2, <2>1 DEF TypeOK
  <2>9. UNCHANGED <<status, total, credited, posted>>
    BY <1>1 DEF CommitMove
  <2> QED BY <2>5, <2>6, <2>7, <2>8, <2>9 DEF TypeOK
<1>2. CASE CommitVoidPayment(t)
  <2> DEFINE r == req[t]
             k == r.doc
             p == r.to
             x == moved[k][p]
  <2>1. r.op = "VOID" /\ k \in Docs /\ p \in Parties
    BY <1>0, <1>2 DEF CommitVoidPayment, RequestHolds, Checked, Requests
  <2>2. x \in 0..MaxAmount /\ x \in Int
    BY <2>1, PaymentsAssumption DEF TypeOK
  <2> DEFINE paid == [i \in Invs |-> IF i = payee[k] THEN seen[t][i] - x
                                     ELSE IF i = p THEN seen[t][i] + x
                                     ELSE amountPaid[i]]
  <2>3. paid \in [Invs -> Int]
    <3>1. \A i \in Invs : seen[t][i] \in Int /\ amountPaid[i] \in Int
      BY <1>0 DEF TypeOK
    <3> HIDE DEF x
    <3> QED BY <3>1, <2>2
  <2>4. WritePaid(paid)
    BY <1>2 DEF CommitVoidPayment
  <2>5. /\ amountPaid' \in [Invs -> Int]
        /\ paymentStatus' \in [Invs -> {"UNPAID", "PARTIAL", "PAID"}]
    <3> HIDE DEF paid
    <3> QED BY <2>3, <2>4, WritePaidTypes
  <2>6. req' \in [Txs -> Requests] /\ seen' \in [Txs -> [Invs -> Int]]
    <3>1. Written(Touched(r), t)
      BY <1>2 DEF CommitVoidPayment
    <3> QED BY <3>1, WrittenTypes
  <2>7. receivable' \in Int
    <3>1. receivable' = receivable + (IF p = Cash THEN x ELSE 0) - (IF payee[k] = Cash THEN x ELSE 0)
      BY <1>2 DEF CommitVoidPayment
    <3>2. receivable \in Int
      BY DEF TypeOK
    <3> HIDE DEF x
    <3> QED BY <3>1, <3>2, <2>2
  <2>8. outRows' \in [Docs -> SUBSET Parties] /\ inRows' \in [Docs -> SUBSET Parties]
    BY <1>2, <2>1 DEF CommitVoidPayment, TypeOK
  <2>9. UNCHANGED <<status, total, credited, posted, payee, moved>>
    BY <1>2 DEF CommitVoidPayment
  <2> QED BY <2>5, <2>6, <2>7, <2>8, <2>9 DEF TypeOK
<1>3. CASE CommitReturn(t)
  <2> DEFINE i == req[t].to
             x == req[t].take[i]
  <2>1. req[t].op = "RETURN" /\ i \in Invs /\ i \in Parties
    BY <1>0, <1>3 DEF CommitReturn, RequestHolds, Checked, Requests
  <2>2. x \in 0..MaxAmount
    BY <1>0, <2>1 DEF Requests
  <2>3. x \in Nat
    BY <2>2, PaymentsAssumption
  <2>4. credited' = [credited EXCEPT ![i] = @ + x]
    BY <1>3 DEF CommitReturn
  <2>5. credited' \in [Invs -> Nat]
    <3> HIDE DEF x, i
    <3> QED BY <2>1, <2>3, <2>4 DEF TypeOK
  <2>6. paymentStatus' \in [Invs -> {"UNPAID", "PARTIAL", "PAID"}]
    BY <1>3, StatusTypes DEF CommitReturn, TypeOK
  <2>7. req' \in [Txs -> Requests] /\ seen' \in [Txs -> [Invs -> Int]]
    <3>1. Written({i}, t)
      BY <1>3 DEF CommitReturn
    <3> QED BY <3>1, WrittenTypes
  <2>8. receivable' = receivable - x
    BY <1>3 DEF CommitReturn
  <2>9. receivable' \in Int
    <3> HIDE DEF x
    <3> QED BY <2>3, <2>8 DEF TypeOK
  <2>10. UNCHANGED <<status, total, amountPaid, posted, docVars>>
    BY <1>3 DEF CommitReturn
  <2> QED BY <2>5, <2>6, <2>7, <2>9, <2>10 DEF TypeOK, docVars
<1> QED BY <1>1, <1>2, <1>3 DEF Commits

\* Issuing, editing and voiding keep the types.
LEMMA InvoicingTypes ==
  ASSUME TypeOK, Invoicing
  PROVE  TypeOK'
<1>1. ASSUME NEW i \in Invs, NEW amount \in Amounts, Issue(i, amount)
      PROVE  TypeOK'
  <2>1. amount \in Nat
    BY PaymentsAssumption
  <2> QED BY <1>1, <2>1, StatusTypes DEF Issue, TypeOK, docVars, reqVars
<1>2. ASSUME NEW i \in Invs, NEW amount \in Amounts, EditIssued(i, amount)
      PROVE  TypeOK'
  <2>1. amount \in Nat /\ posted[i] \in Nat
    BY PaymentsAssumption DEF TypeOK
  <2>2. req' \in [Txs -> Requests] /\ seen' \in [Txs -> [Invs -> Int]]
    BY <1>2, WrittenTypes DEF EditIssued
  <2> QED BY <1>2, <2>1, <2>2 DEF EditIssued, TypeOK, docVars
<1>3. ASSUME NEW i \in Invs, VoidInvoice(i)
      PROVE  TypeOK'
  <2>1. req' \in [Txs -> Requests] /\ seen' \in [Txs -> [Invs -> Int]]
    BY <1>3, WrittenTypes DEF VoidInvoice
  <2> QED BY <1>3, <2>1 DEF VoidInvoice, TypeOK, docVars
<1> QED BY <1>1, <1>2, <1>3 DEF Invoicing

\* Every step keeps the types.
LEMMA TypesKept ==
  ASSUME TypeOK, RequestsHold, [Next]_vars
  PROVE  TypeOK'
<1>1. CASE UNCHANGED vars
  BY <1>1 DEF vars, invoiceVars, ledgerVars, docVars, reqVars, TypeOK
<1>2. CASE Next
  BY <1>2, ReadsTypes, CommitsTypes, InvoicingTypes DEF Next
<1> QED BY <1>1, <1>2

-----------------------------------------------------------------------------
(* Requests stay committable *)

\* A request is not disturbed by a step that leaves its invoices and the
\* rows it voids alone.
LEMMA CheckedKept ==
  ASSUME TypeOK, DocumentShape, NEW r \in Requests, Checked(r),
         \A i \in Touched(r) : /\ status'[i] = status[i] /\ total'[i] = total[i]
                               /\ credited'[i] = credited[i] /\ amountPaid'[i] = amountPaid[i],
         r.op = "VOID" => /\ payee'[r.doc] = payee[r.doc] /\ moved'[r.doc] = moved[r.doc]
                          /\ r.to \in outRows'[r.doc] <=> r.to \in outRows[r.doc]
                          /\ r.to \in inRows'[r.doc] <=> r.to \in inRows[r.doc]
  PROVE  Checked(r)' /\ Touched(r)' = Touched(r)
<1>1. CASE r.op = "MOVE"
  <2>1. Touched(r) = ({r.to} \cup {p \in Parties : r.take[p] > 0}) \ {Cash} /\ Touched(r)' = Touched(r)
    BY <1>1 DEF Touched
  <2>2. \A i \in Touched(r) : status'[i] = status[i] /\ Balance(i)' = Balance(i)
    BY DEF Balance
  <2>3. r.to # Cash => status'[r.to] = "ISSUED" /\ Taken(r.take) <= Balance(r.to)'
    BY <1>1, <2>1, <2>2 DEF Checked
  <2>4. ASSUME NEW i \in Invs, r.take[i] > 0
        PROVE  status'[i] = "ISSUED" /\ r.take[i] <= - Balance(i)'
    <3>1. i \in Touched(r)
      BY <2>1, <2>4, PartiesAre
    <3> QED BY <1>1, <2>2, <2>4, <3>1 DEF Checked
  <2> QED BY <1>1, <2>1, <2>3, <2>4 DEF Checked
<1>2. CASE r.op = "VOID"
  <2>1. Touched(r) = {r.to, payee[r.doc]} \ {Cash} /\ Touched(r)' = Touched(r)
    BY <1>2 DEF Touched
  <2>2. r.to \in inRows[r.doc] => payee[r.doc] \in Touched(r)
    BY <1>2, <2>1, PartiesAre DEF Checked, DocumentShape
  <2> QED BY <1>2, <2>1, <2>2 DEF Checked
<1>3. CASE r.op = "RETURN"
  BY <1>3 DEF Touched, Checked
<1>4. CASE r.op = "NONE"
  BY <1>4 DEF Touched, Checked
<1> QED BY <1>1, <1>2, <1>3, <1>4 DEF Requests

\* A request that is read holds, and the others are left alone.
LEMMA ReadHolds ==
  ASSUME TypeOK, DocumentShape, RequestsHold,
         NEW t \in Txs, NEW r \in Requests, Checked(r), Read(t, r)
  PROVE  RequestsHold'
<1>1. UNCHANGED <<status, total, credited, amountPaid, payee, moved, outRows, inRows>>
  BY DEF Read, invoiceVars, docVars
<1>2. ASSUME NEW q \in Requests, Checked(q)
      PROVE  Checked(q)' /\ Touched(q)' = Touched(q)
  BY <1>1, <1>2, CheckedKept
<1> SUFFICES ASSUME NEW u \in Txs PROVE RequestHolds(u)'
  BY DEF RequestsHold
<1>3. CASE u = t
  <2>1. req'[t] = r /\ seen'[t] = [i \in Invs |-> IF i \in Touched(r) THEN amountPaid[i] ELSE 0]
    BY DEF Read, TypeOK
  <2>2. Checked(r)' /\ Touched(r)' = Touched(r) /\ Touched(r) \subseteq Invs
    BY <1>2, TouchedInvs
  <2>3. \A i \in Touched(r)' : seen'[t][i] = amountPaid'[i]
    BY <1>1, <2>1, <2>2
  <2> QED BY <1>3, <2>1, <2>2, <2>3 DEF RequestHolds
<1>4. CASE u # t
  <2>1. req'[u] = req[u] /\ seen'[u] = seen[u] /\ req[u] \in Requests /\ RequestHolds(u)
    BY <1>4 DEF Read, TypeOK, RequestsHold
  <2>2. Checked(req[u])' /\ Touched(req[u])' = Touched(req[u])
    <3>1. PICK q \in Requests : q = req[u] /\ q = req'[u]
      BY <2>1
    <3>2. Checked(q)
      BY <2>1, <3>1 DEF RequestHolds
    <3>3. Checked(q)' /\ Touched(q)' = Touched(q)
      BY <1>2, <3>2
    <3> QED BY <3>1, <3>3
  <2> QED BY <1>1, <2>1, <2>2 DEF RequestHolds
<1> QED BY <1>3, <1>4

\* A transaction that writes the rows of W either leaves another request
\* alone or sends it back to start over.
LEMMA WrittenHolds ==
  ASSUME TypeOK, DocumentShape, RequestsHold, NEW W, NEW t, Written(W, t),
         \A i \in Invs \ W : /\ status'[i] = status[i] /\ total'[i] = total[i]
                             /\ credited'[i] = credited[i] /\ amountPaid'[i] = amountPaid[i],
         \A u \in Txs : Touched(req[u]) \cap W = {} /\ req[u].op = "VOID" =>
           /\ payee'[req[u].doc] = payee[req[u].doc] /\ moved'[req[u].doc] = moved[req[u].doc]
           /\ req[u].to \in outRows'[req[u].doc] <=> req[u].to \in outRows[req[u].doc]
           /\ req[u].to \in inRows'[req[u].doc] <=> req[u].to \in inRows[req[u].doc]
  PROVE  RequestsHold'
<1> SUFFICES ASSUME NEW u \in Txs PROVE RequestHolds(u)'
  BY DEF RequestsHold
<1>1. CASE req'[u] = NoRequest
  <2>1. PICK q : q = NoRequest /\ q = req'[u] /\ q.op = "NONE"
    BY <1>1 DEF NoRequest
  <2>2. Checked(q)'
    BY <2>1 DEF Checked
  <2>3. Touched(q)' = {}
    BY <2>1 DEF Touched
  <2> QED BY <2>1, <2>2, <2>3 DEF RequestHolds
<1>2. CASE req'[u] # NoRequest
  <2>1. /\ req'[u] = req[u] /\ seen'[u] = seen[u] /\ u \notin Interrupted(W)
    BY <1>2 DEF Written
  <2>2. Touched(req[u]) \cap W = {} /\ req[u] \in Requests /\ RequestHolds(u)
    BY <2>1 DEF Interrupted, TypeOK, RequestsHold
  <2>3. PICK q \in Requests : q = req[u] /\ q = req'[u]
    BY <2>1, <2>2
  <2>4. Checked(q) /\ Touched(q) \cap W = {} /\ \A i \in Touched(q) : seen[u][i] = amountPaid[i]
    BY <2>2, <2>3 DEF RequestHolds
  <2>5. Touched(q) \subseteq Invs \ W
    BY <2>4, TouchedInvs
  <2>6. q.op = "VOID" => /\ payee'[q.doc] = payee[q.doc] /\ moved'[q.doc] = moved[q.doc]
                         /\ q.to \in outRows'[q.doc] <=> q.to \in outRows[q.doc]
                         /\ q.to \in inRows'[q.doc] <=> q.to \in inRows[q.doc]
    <3>1. req[u].op = "VOID" =>
            /\ payee'[req[u].doc] = payee[req[u].doc] /\ moved'[req[u].doc] = moved[req[u].doc]
            /\ req[u].to \in outRows'[req[u].doc] <=> req[u].to \in outRows[req[u].doc]
            /\ req[u].to \in inRows'[req[u].doc] <=> req[u].to \in inRows[req[u].doc]
      BY <2>2, Zenon
    <3> QED BY <2>3, <3>1, Zenon
  <2>7. Checked(q)' /\ Touched(q)' = Touched(q)
    BY <2>4, <2>5, <2>6, CheckedKept
  <2>8. \A i \in Touched(q)' : seen'[u][i] = amountPaid'[i]
    BY <2>1, <2>4, <2>5, <2>7
  <2> QED BY <2>3, <2>7, <2>8 DEF RequestHolds
<1> QED BY <1>1, <1>2

\* Issuing an invoice disturbs no request: none is open for it yet.
LEMMA IssueHolds ==
  ASSUME TypeOK, DocumentShape, RequestsHold, CreditBounded, MoneyBounded,
         NEW i \in Invs, NEW amount \in Amounts, Issue(i, amount)
  PROVE  RequestsHold'
<1> SUFFICES ASSUME NEW u \in Txs PROVE RequestHolds(u)'
  BY DEF RequestsHold
<1>1. /\ UNCHANGED <<credited, amountPaid, payee, moved, outRows, inRows, req, seen>>
      /\ status[i] = "NONE"
      /\ \A j \in Invs : j # i => status'[j] = status[j] /\ total'[j] = total[j]
  BY DEF Issue, docVars, reqVars, TypeOK, Invs
<1>2. req[u] \in Requests /\ RequestHolds(u)
  BY DEF TypeOK, RequestsHold
<1>3. PICK q \in Requests : q = req[u] /\ q = req'[u]
  BY <1>1, <1>2
<1>4. Checked(q) /\ \A j \in Touched(q) : seen[u][j] = amountPaid[j]
  BY <1>2, <1>3 DEF RequestHolds
<1>5. CASE q.op = "VOID"
  <2>1. Checked(q)' /\ Touched(q)' = Touched(q)
    BY <1>1, <1>4, <1>5 DEF Checked, Touched
  <2> QED BY <1>1, <1>3, <1>4, <2>1 DEF RequestHolds
<1>6. CASE q.op # "VOID"
  <2>1. Touched(q) \subseteq Invs
    BY <1>4, TouchedInvs
  <2>2. i \notin Touched(q)
    <3>1. CASE q.op = "MOVE"
      BY <1>1, <1>4, <3>1, PartiesAre DEF Touched, Checked
    <3>2. CASE q.op = "RETURN"
      BY <1>1, <1>4, <3>2 DEF Touched, Checked
    <3>3. CASE q.op = "NONE"
      BY <3>3 DEF Touched
    <3> QED BY <1>6, <3>1, <3>2, <3>3 DEF Requests
  <2>3. Checked(q)' /\ Touched(q)' = Touched(q)
    BY <1>1, <1>4, <1>6, <2>1, <2>2, CheckedKept
  <2> QED BY <1>1, <1>3, <1>4, <2>3 DEF RequestHolds
<1> QED BY <1>5, <1>6

\* Issuing, editing and voiding an invoice leave requests committable.
LEMMA InvoicingHolds ==
  ASSUME TypeOK, DocumentShape, RequestsHold, CreditBounded, MoneyBounded, Invoicing
  PROVE  RequestsHold'
<1>1. ASSUME NEW i \in Invs, NEW amount \in Amounts, EditIssued(i, amount)
      PROVE  RequestsHold'
  <2>1. /\ Written({i}, 0)
        /\ UNCHANGED <<status, credited, amountPaid, payee, moved, outRows, inRows>>
        /\ \A j \in Invs \ {i} : total'[j] = total[j]
    BY <1>1 DEF EditIssued, docVars, TypeOK
  <2> QED BY <2>1, WrittenHolds
<1>2. ASSUME NEW i \in Invs, VoidInvoice(i)
      PROVE  RequestsHold'
  <2>1. /\ Written({i}, 0)
        /\ UNCHANGED <<total, credited, amountPaid, payee, moved, outRows, inRows>>
        /\ \A j \in Invs \ {i} : status'[j] = status[j]
    BY <1>2 DEF VoidInvoice, docVars, TypeOK
  <2> QED BY <2>1, WrittenHolds
<1> QED BY <1>1, <1>2, IssueHolds DEF Invoicing

\* A document that takes from one party takes that much in all.
LEMMA TakenOne ==
  ASSUME NEW p \in Parties, NEW x \in Nat
  PROVE  Taken([Nothing EXCEPT ![p] = x]) = x
<1> DEFINE g == [Nothing EXCEPT ![p] = x]
<1>1. /\ Nothing \in [1..Cash -> Int] /\ g \in [1..Cash -> Int] /\ Cash \in Nat
      /\ p \in 1..Cash /\ Nothing[p] = 0 /\ g[p] = x
      /\ \A i \in 1..Cash : i # p => g[i] = Nothing[i]
  BY PartiesAre DEF Nothing
<1>2. SumTo(Nothing, Cash) = 0
  BY SumToZero, PartiesAre DEF Nothing
<1>3. PICK f : f = Nothing
  OBVIOUS
<1> HIDE DEF g
<1>4. /\ f \in [1..Cash -> Int] /\ g \in [1..Cash -> Int] /\ Cash \in Nat /\ p \in 1..Cash
      /\ \A i \in 1..Cash : i # p => g[i] = f[i]
  BY <1>1, <1>3
<1>5. SumTo(g, Cash) = SumTo(f, Cash) - f[p] + g[p]
  BY <1>4, SumToChange, Zenon
<1>6. SumTo(g, Cash) = x
  BY <1>1, <1>2, <1>3, <1>5
<1> QED BY <1>6 DEF Taken, g

\* Each request, once read, can be committed.
LEMMA ReadsHolds ==
  ASSUME TypeOK, DocumentShape, RequestsHold, NEW t \in Txs, Reads(t)
  PROVE  RequestsHold'
<1>0. /\ 0 \in 0..MaxDocs /\ Cash \in Parties /\ Invs \subseteq Parties /\ 1..MaxAmount \subseteq 0..MaxAmount
      /\ 1..MaxAmount \subseteq Nat
  BY PaymentsAssumption, PartiesAre
<1>1. ASSUME NEW i \in Invs, NEW amount \in 1..MaxAmount, RecordPayment(t, i, amount)
      PROVE  RequestsHold'
  <2> DEFINE take == [Nothing EXCEPT ![Cash] = amount]
  <2>1. take \in [Parties -> 0..MaxAmount] /\ Taken(take) = amount /\ \A j \in Invs : take[j] = 0
    BY <1>0, RequestTypes, TakenOne, PartiesAre DEF Nothing
  <2> HIDE DEF take
  <2>2. PICK r \in Requests : r = [op |-> "MOVE", to |-> i, take |-> take, doc |-> 0]
    BY <1>0, <2>1 DEF Requests
  <2>3. Read(t, r) /\ status[i] = "ISSUED" /\ amount <= Balance(i)
    BY <1>1, <2>2 DEF RecordPayment, take
  <2>4. Checked(r)
    BY <2>1, <2>2, <2>3 DEF Checked
  <2> QED BY <2>3, <2>4, ReadHolds
<1>2. ASSUME NEW i \in Invs, NEW amount \in 1..MaxAmount, Refund(t, i, amount)
      PROVE  RequestsHold'
  <2> DEFINE take == [Nothing EXCEPT ![i] = amount]
  <2>1. /\ take \in [Parties -> 0..MaxAmount] /\ take[Cash] = 0 /\ take[i] = amount
        /\ \A j \in Invs : j # i => take[j] = 0
    BY <1>0, RequestTypes, PartiesAre DEF Nothing
  <2> HIDE DEF take
  <2>2. PICK r \in Requests : r = [op |-> "MOVE", to |-> Cash, take |-> take, doc |-> 0]
    BY <1>0, <2>1 DEF Requests
  <2>3. Read(t, r) /\ status[i] = "ISSUED" /\ amount <= Credit(i)
    BY <1>2, <2>2 DEF Refund, take
  <2>4. amount <= - Balance(i)
    BY <2>3 DEF Credit, Balance, TypeOK
  <2>5. Checked(r)
    BY <2>1, <2>2, <2>3, <2>4 DEF Checked
  <2> QED BY <2>3, <2>5, ReadHolds
<1>3. ASSUME NEW i \in Invs, NEW amount \in 1..MaxAmount, ReturnScan(t, i, amount)
      PROVE  RequestsHold'
  <2> DEFINE take == [Nothing EXCEPT ![i] = amount]
  <2>1. take \in [Parties -> 0..MaxAmount] /\ take[i] = amount
    BY <1>0, RequestTypes DEF Nothing
  <2> HIDE DEF take
  <2>2. PICK r \in Requests : r = [op |-> "RETURN", to |-> i, take |-> take, doc |-> 0]
    BY <1>0, <2>1 DEF Requests
  <2>3. Read(t, r) /\ status[i] = "ISSUED" /\ credited[i] + amount <= total[i]
    BY <1>3, <2>2 DEF ReturnScan, take
  <2>4. Checked(r)
    BY <2>1, <2>2, <2>3 DEF Checked
  <2> QED BY <2>3, <2>4, ReadHolds
<1>4. ASSUME NEW i \in Invs, NEW amount \in 1..MaxAmount, NEW sources \in Sources(i),
             ApplyCredit(t, i, sources, amount)
      PROVE  RequestsHold'
  <2> DEFINE offered == Offered(sources)
             take == OldestFirst(offered, amount)
  <2>1. /\ offered \in [Parties -> Nat] /\ offered[i] = 0
        /\ \A j \in Invs : offered[j] > 0 => status[j] = "ISSUED" /\ offered[j] = - Balance(j)
    BY OfferedType
  <2> HIDE DEF offered
  <2>2. /\ take \in [Parties -> 0..amount] /\ Taken(take) <= amount
        /\ \A p \in Parties : take[p] <= offered[p]
    BY <1>0, <2>1, OldestFirstSplits
  <2> HIDE DEF take
  <2>3. take \in [Parties -> 0..MaxAmount]
    <3>1. 0..amount \subseteq 0..MaxAmount
      BY PaymentsAssumption
    <3> QED BY <2>2, <3>1
  <2>4. PICK r \in Requests : r = [op |-> "MOVE", to |-> i, take |-> take, doc |-> 0]
    BY <1>0, <2>3 DEF Requests
  <2>5. Read(t, r) /\ status[i] = "ISSUED" /\ amount <= Balance(i)
    BY <1>4, <2>4 DEF ApplyCredit, take, offered
  <2>6. take[i] = 0 /\ Taken(take) <= Balance(i)
    <3>1. Taken(take) \in Int
      BY <2>3, SumToInt, PartiesAre, PaymentsAssumption DEF Taken
    <3>2. Balance(i) \in Int /\ take[i] \in 0..amount /\ take[i] <= offered[i]
      BY <1>0, <2>2 DEF Balance, TypeOK
    <3> QED BY <2>1, <2>2, <2>5, <3>1, <3>2
  <2>7. ASSUME NEW j \in Invs, take[j] > 0
        PROVE  status[j] = "ISSUED" /\ take[j] <= - Balance(j)
    <3>1. take[j] \in 0..amount /\ take[j] <= offered[j] /\ offered[j] \in Nat
      BY <1>0, <2>1, <2>2
    <3> QED BY <2>1, <2>7, <3>1
  <2>8. Checked(r)
    BY <2>4, <2>5, <2>6, <2>7 DEF Checked
  <2> QED BY <2>5, <2>8, ReadHolds
<1>5. ASSUME NEW k \in Docs, NEW p \in Parties, VoidPayment(t, k, p)
      PROVE  RequestsHold'
  <2>1. k \in 0..MaxDocs
    BY PaymentsAssumption DEF Docs
  <2>2. PICK r \in Requests : r = [op |-> "VOID", to |-> p, take |-> Nothing, doc |-> k]
    BY <2>1, RequestTypes DEF Requests
  <2>3. Checked(r) /\ Read(t, r)
    BY <1>5, <2>2 DEF VoidPayment, Checked
  <2> QED BY <2>3, ReadHolds
<1> QED BY <1>1, <1>2, <1>3, <1>4, <1>5 DEF Reads

\* A commit leaves the other requests committable.
LEMMA CommitsHold ==
  ASSUME TypeOK, DocumentShape, RequestsHold, NEW t \in Txs, Commits(t)
  PROVE  RequestsHold'
<1>0. req[t] \in Requests /\ Checked(req[t])
  BY DEF TypeOK, RequestsHold, RequestHolds
<1> DEFINE r == req[t]
           W == Touched(r)
<1>1. ASSUME NEW k \in Docs, CommitMove(t, k)
      PROVE  RequestsHold'
  <2>1. /\ Written(W, t) /\ r.op = "MOVE" /\ payee[k] = 0
        /\ UNCHANGED <<status, total, credited>>
    <3>1. k >= k
      BY DEF Docs
    <3>2. \A d \in Docs : payee[d] = 0 <=> d >= k
      BY <1>1 DEF CommitMove, Unused
    <3> QED BY <1>1, <3>1, <3>2 DEF CommitMove
  <2>2. W = ({r.to} \cup {p \in Parties : r.take[p] > 0}) \ {Cash}
    BY <2>1 DEF Touched
  <2>3. \A i \in Invs \ W : amountPaid'[i] = amountPaid[i]
    <3> SUFFICES ASSUME NEW i \in Invs, i \notin W PROVE amountPaid'[i] = amountPaid[i]
      OBVIOUS
    <3>1. i # r.to /\ ~(r.take[i] > 0)
      BY <2>2, PartiesAre
    <3> QED BY <1>1, <3>1 DEF CommitMove, WritePaid
  <2>4. ASSUME NEW u \in Txs, req[u].op = "VOID"
        PROVE  /\ payee'[req[u].doc] = payee[req[u].doc] /\ moved'[req[u].doc] = moved[req[u].doc]
               /\ outRows'[req[u].doc] = outRows[req[u].doc] /\ inRows'[req[u].doc] = inRows[req[u].doc]
    <3>1. req[u].doc \in Docs /\ req[u].to \in outRows[req[u].doc] \cup inRows[req[u].doc]
      BY <2>4 DEF RequestsHold, RequestHolds, Checked
    <3>2. outRows[k] = {} /\ inRows[k] = {}
      BY <2>1, PartiesAre DEF DocumentShape
    <3>3. req[u].doc # k
      BY <3>1, <3>2
    <3> QED BY <1>1, <3>1, <3>3 DEF CommitMove, TypeOK
  <2> HIDE DEF W
  <2> QED BY <2>1, <2>3, <2>4, WrittenHolds
<1>2. CASE CommitVoidPayment(t)
  <2>1. /\ Written(W, t) /\ r.op = "VOID" /\ r.doc \in Docs
        /\ r.to \in outRows[r.doc] \cup inRows[r.doc]
        /\ UNCHANGED <<status, total, credited, payee, moved>>
    BY <1>0, <1>2 DEF CommitVoidPayment, Checked
  <2>2. W = {r.to, payee[r.doc]} \ {Cash}
    BY <2>1 DEF Touched
  <2>3. \A i \in Invs \ W : amountPaid'[i] = amountPaid[i]
    <3> SUFFICES ASSUME NEW i \in Invs, i \notin W PROVE amountPaid'[i] = amountPaid[i]
      OBVIOUS
    <3>1. i # r.to /\ i # payee[r.doc]
      BY <2>2, PartiesAre
    <3> QED BY <1>2, <3>1 DEF CommitVoidPayment, WritePaid
  <2>4. W # {}
    <3>1. CASE r.to \in outRows[r.doc]
      BY <2>1, <2>2, <3>1, PartiesAre DEF DocumentShape
    <3>2. CASE r.to \in inRows[r.doc]
      BY <2>1, <2>2, <3>2, PartiesAre DEF DocumentShape
    <3> QED BY <2>1, <3>1, <3>2
  <2>5. ASSUME NEW u \in Txs, req[u].op = "VOID", Touched(req[u]) \cap W = {}
        PROVE  /\ req[u].to \in outRows'[req[u].doc] <=> req[u].to \in outRows[req[u].doc]
               /\ req[u].to \in inRows'[req[u].doc] <=> req[u].to \in inRows[req[u].doc]
    <3>1. req[u].doc \in Docs
      BY <2>5 DEF RequestsHold, RequestHolds, Checked
    <3>2. Touched(req[u]) = {req[u].to, payee[req[u].doc]} \ {Cash}
      BY <2>5 DEF Touched
    <3>3. req[u].doc # r.doc \/ req[u].to # r.to
      BY <2>2, <2>4, <2>5, <3>2
    <3>4. /\ outRows' = [outRows EXCEPT ![r.doc] = @ \ {r.to}]
          /\ inRows' = [inRows EXCEPT ![r.doc] = @ \ {r.to}]
      BY <1>2 DEF CommitVoidPayment
    <3> HIDE DEF r
    <3> QED BY <3>1, <3>3, <3>4 DEF TypeOK
  <2> HIDE DEF W
  <2> QED BY <2>1, <2>3, <2>5, WrittenHolds
<1>3. CASE CommitReturn(t)
  <2>1. /\ Written({r.to}, t)
        /\ UNCHANGED <<status, total, amountPaid, payee, moved, outRows, inRows>>
        /\ \A i \in Invs \ {r.to} : credited'[i] = credited[i]
    BY <1>3 DEF CommitReturn, docVars, TypeOK
  <2> HIDE DEF r
  <2> QED BY <2>1, WrittenHolds
<1> QED BY <1>1, <1>2, <1>3 DEF Commits

-----------------------------------------------------------------------------
(* The rows of documents *)

\* Documents stay well formed.
LEMMA DocumentsKept ==
  ASSUME TypeOK, DocumentShape, RequestsHold, [Next]_vars
  PROVE  DocumentShape'
<1>1. ASSUME NEW t \in Txs, NEW k \in Docs, CommitMove(t, k)
      PROVE  DocumentShape'
  <2>1. PICK r \in Requests : r = req[t]
    BY DEF TypeOK
  <2>2. r.op = "MOVE" /\ r.take[r.to] = 0 /\ r.to \in Parties
    BY <1>1, <2>1 DEF CommitMove, RequestsHold, RequestHolds, Checked, Requests
  <2> DEFINE S == {p \in Parties : r.take[p] > 0}
  <2>3. /\ payee' = [payee EXCEPT ![k] = r.to]
        /\ outRows' = [outRows EXCEPT ![k] = S \ {Cash}]
        /\ inRows' = [inRows EXCEPT ![k] = IF r.to = Cash THEN {} ELSE S]
    BY <1>1, <2>1 DEF CommitMove
  <2>4. S \subseteq Parties /\ r.to \notin S
    BY <2>2
  <2> HIDE DEF S
  <2>5. ASSUME NEW d \in Docs
        PROVE  /\ outRows'[d] \subseteq Invs
               /\ payee'[d] \notin outRows'[d] \cup inRows'[d]
               /\ payee'[d] \notin Invs => inRows'[d] = {}
               /\ payee'[d] \in Invs => inRows'[d] \ {Cash} = outRows'[d]
               /\ payee'[d] = 0 => outRows'[d] = {}
    <3>1. CASE d = k
      <4>1. payee'[d] = r.to /\ outRows'[d] = S \ {Cash} /\ inRows'[d] = IF r.to = Cash THEN {} ELSE S
        BY <2>3, <3>1 DEF TypeOK
      <4> QED BY <2>2, <2>4, <4>1, PartiesAre
    <3>2. CASE d # k
      <4>1. payee'[d] = payee[d] /\ outRows'[d] = outRows[d] /\ inRows'[d] = inRows[d]
        BY <2>3, <3>2 DEF TypeOK
      <4> QED BY <4>1 DEF DocumentShape
    <3> QED BY <3>1, <3>2
  <2> QED BY <2>5 DEF DocumentShape
<1>2. ASSUME NEW t \in Txs, CommitVoidPayment(t)
      PROVE  DocumentShape'
  <2>1. PICK k \in Docs, p \in Parties : k = req[t].doc /\ p = req[t].to
    BY <1>2 DEF CommitVoidPayment, RequestsHold, RequestHolds, Checked, TypeOK, Requests
  <2>2. /\ payee' = payee
        /\ outRows' = [outRows EXCEPT ![k] = @ \ {p}]
        /\ inRows' = [inRows EXCEPT ![k] = @ \ {p}]
    BY <1>2, <2>1 DEF CommitVoidPayment
  <2>3. ASSUME NEW d \in Docs
        PROVE  /\ outRows'[d] \subseteq Invs
               /\ payee'[d] \notin outRows'[d] \cup inRows'[d]
               /\ payee'[d] \notin Invs => inRows'[d] = {}
               /\ payee'[d] \in Invs => inRows'[d] \ {Cash} = outRows'[d]
               /\ payee'[d] = 0 => outRows'[d] = {}
    <3>1. \/ outRows'[d] = outRows[d] /\ inRows'[d] = inRows[d]
          \/ outRows'[d] = outRows[d] \ {p} /\ inRows'[d] = inRows[d] \ {p}
      BY <2>2 DEF TypeOK
    <3> QED BY <2>2, <3>1 DEF DocumentShape
  <2> QED BY <2>3 DEF DocumentShape
<1>3. CASE UNCHANGED docVars
  BY <1>3 DEF docVars, DocumentShape
<1>4. ASSUME NEW t \in Txs, Reads(t)
      PROVE  UNCHANGED docVars
  BY <1>4 DEF Reads, RecordPayment, Refund, ReturnScan, ApplyCredit, VoidPayment, Read
<1>5. ASSUME NEW t \in Txs, CommitReturn(t)
      PROVE  UNCHANGED docVars
  BY <1>5 DEF CommitReturn
<1>6. ASSUME Invoicing
      PROVE  UNCHANGED docVars
  BY <1>6 DEF Invoicing, Issue, EditIssued, VoidInvoice
<1>7. CASE UNCHANGED vars
  BY <1>3, <1>7 DEF vars
<1> QED BY <1>1, <1>2, <1>3, <1>4, <1>5, <1>6, <1>7 DEF Next, Commits

\* Returns never credit more than was invoiced.
LEMMA CreditKept ==
  ASSUME TypeOK, RequestsHold, CreditBounded, [Next]_vars
  PROVE  CreditBounded'
<1>1. ASSUME NEW i \in Invs, NEW amount \in Amounts, Issue(i, amount)
      PROVE  CreditBounded'
  <2>1. amount \in Nat /\ status[i] = "NONE"
    BY <1>1, PaymentsAssumption DEF Issue, Invs
  <2>2. credited[i] = 0
    BY <2>1 DEF CreditBounded, TypeOK
  <2> QED BY <1>1, <2>1, <2>2 DEF Issue, CreditBounded, TypeOK
<1>2. ASSUME NEW i \in Invs, NEW amount \in Amounts, EditIssued(i, amount)
      PROVE  CreditBounded'
  <2>1. amount \in Nat
    BY PaymentsAssumption
  <2> QED BY <1>2, <2>1 DEF EditIssued, CreditBounded, TypeOK
<1>3. ASSUME NEW i \in Invs, VoidInvoice(i)
      PROVE  CreditBounded'
  BY <1>3 DEF VoidInvoice, CreditBounded, TypeOK
<1>4. ASSUME NEW t \in Txs, CommitReturn(t)
      PROVE  CreditBounded'
  <2>1. PICK i \in Invs : i = req[t].to
    BY <1>4 DEF CommitReturn, RequestsHold, RequestHolds, Checked
  <2>2. status[i] = "ISSUED" /\ credited[i] + req[t].take[i] <= total[i]
    BY <1>4, <2>1 DEF CommitReturn, RequestsHold, RequestHolds, Checked
  <2>3. UNCHANGED <<status, total>> /\ credited' = [credited EXCEPT ![i] = @ + req[t].take[i]]
    BY <1>4, <2>1 DEF CommitReturn
  <2> QED BY <2>2, <2>3 DEF CreditBounded, TypeOK
<1>5. CASE UNCHANGED <<status, total, credited>>
  BY <1>5 DEF CreditBounded
<1>6. ASSUME NEW t \in Txs, NEW k \in Docs, CommitMove(t, k)
      PROVE  UNCHANGED <<status, total, credited>>
  BY <1>6 DEF CommitMove
<1>7. ASSUME NEW t \in Txs, CommitVoidPayment(t)
      PROVE  UNCHANGED <<status, total, credited>>
  BY <1>7 DEF CommitVoidPayment
<1>8. ASSUME NEW t \in Txs, Reads(t)
      PROVE  UNCHANGED <<status, total, credited>>
  BY <1>8 DEF Reads, RecordPayment, Refund, ReturnScan, ApplyCredit, VoidPayment, Read, invoiceVars
<1>9. CASE UNCHANGED vars
  BY <1>5, <1>9 DEF vars, invoiceVars
<1> QED BY <1>1, <1>2, <1>3, <1>4, <1>5, <1>6, <1>7, <1>8, <1>9 DEF Next, Commits, Invoicing

-----------------------------------------------------------------------------
(* The money on an invoice *)

\* What the rows of a document amount to.
RowTerms(rows, m) == [p \in Parties |-> IF p \in rows THEN m[p] ELSE 0]
RowsTotal(rows, m) == SumTo(RowTerms(rows, m), Cash)

\* Both are numbers when the document's amounts are.
LEMMA RowsAmount ==
  ASSUME NEW rows, NEW m \in [Parties -> 0..MaxAmount]
  PROVE  RowTerms(rows, m) \in [1..Cash -> Int] /\ RowsTotal(rows, m) \in Nat
<1> DEFINE f == RowTerms(rows, m)
<1>1. f \in [1..Cash -> Nat] /\ Cash \in Nat
  BY PaymentsAssumption, PartiesAre DEF RowTerms
<1>2. f \in [1..Cash -> Int]
  BY <1>1
<1> HIDE DEF f
<1>3. SumTo(f, Cash) \in Nat
  BY <1>1, SumToNat
<1> QED BY <1>2, <1>3 DEF f, RowsTotal

\* What document k brings to invoice i is the total of its rows.
LEMMA InOfIs ==
  ASSUME NEW i \in Invs, NEW k \in Docs
  PROVE  /\ InOf(k, i) = IF payee[k] = i THEN RowsTotal(inRows[k], moved[k]) ELSE 0
         /\ InOf(k, i)' = IF payee'[k] = i THEN RowsTotal(inRows'[k], moved'[k]) ELSE 0
BY DEF InOf, RowsTotal, RowTerms

\* What a document brings or takes is a natural, before and after a step.
LEMMA TermTypes ==
  ASSUME NEW i \in Invs, NEW k \in Docs
  PROVE  /\ TypeOK => InOf(k, i) \in Nat /\ OutOf(k, i) \in Nat
         /\ TypeOK' => InOf(k, i)' \in Nat /\ OutOf(k, i)' \in Nat
<1>1. 0..MaxAmount \subseteq Nat /\ i \in Parties
  BY PaymentsAssumption, PartiesAre
<1>2. ASSUME TypeOK PROVE InOf(k, i) \in Nat /\ OutOf(k, i) \in Nat
  <2>1. moved[k] \in [Parties -> 0..MaxAmount]
    BY <1>2 DEF TypeOK
  <2>2. RowsTotal(inRows[k], moved[k]) \in Nat
    BY <2>1, RowsAmount
  <2> QED BY <1>1, <2>1, <2>2, InOfIs DEF OutOf
<1>3. ASSUME TypeOK' PROVE InOf(k, i)' \in Nat /\ OutOf(k, i)' \in Nat
  <2>1. moved'[k] \in [Parties -> 0..MaxAmount]
    BY <1>3 DEF TypeOK
  <2>2. RowsTotal(inRows'[k], moved'[k]) \in Nat
    BY <2>1, RowsAmount
  <2> QED BY <1>1, <2>1, <2>2, InOfIs DEF OutOf
<1> QED BY <1>2, <1>3

\* And so is what all of them bring or take.
LEMMA MoneyTypes ==
  ASSUME TypeOK, NEW i \in Invs
  PROVE  MoneyIn(i) \in Nat /\ MoneyOut(i) \in Nat
<1>1. /\ [k \in Docs |-> InOf(k, i)] \in [1..MaxDocs -> Nat]
      /\ [k \in Docs |-> OutOf(k, i)] \in [1..MaxDocs -> Nat]
  BY TermTypes DEF Docs
<1> QED BY <1>1, SumToNat, PaymentsAssumption DEF MoneyIn, MoneyOut

\* The same after a step.
LEMMA MoneyPrimed ==
  ASSUME TypeOK', NEW i \in Invs
  PROVE  MoneyIn(i)' \in Nat /\ MoneyOut(i)' \in Nat
<1>1. PICK f, g : f = [k \in Docs |-> InOf(k, i)'] /\ g = [k \in Docs |-> OutOf(k, i)']
  OBVIOUS
<1>2. f \in [1..MaxDocs -> Nat] /\ g \in [1..MaxDocs -> Nat]
  BY <1>1, TermTypes DEF Docs
<1>3. SumTo(f, MaxDocs) \in Nat /\ SumTo(g, MaxDocs) \in Nat
  BY <1>2, SumToNat, PaymentsAssumption
<1>4. MoneyIn(i)' = SumTo(f, MaxDocs) /\ MoneyOut(i)' = SumTo(g, MaxDocs)
  BY <1>1 DEF MoneyIn, MoneyOut
<1> QED BY <1>3, <1>4

\* A step that changes one document changes the money by what that
\* document changes.
LEMMA MoneyStep ==
  ASSUME TypeOK, TypeOK', NEW i \in Invs, NEW k \in Docs,
         \A d \in Docs : d # k => InOf(d, i)' = InOf(d, i) /\ OutOf(d, i)' = OutOf(d, i)
  PROVE  /\ MoneyIn(i)' = MoneyIn(i) - InOf(k, i) + InOf(k, i)'
         /\ MoneyOut(i)' = MoneyOut(i) - OutOf(k, i) + OutOf(k, i)'
<1> DEFINE fi == [d \in Docs |-> InOf(d, i)]
           gi == [d \in Docs |-> InOf(d, i)']
           fo == [d \in Docs |-> OutOf(d, i)]
           go == [d \in Docs |-> OutOf(d, i)']
<1>1. \A d \in Docs : /\ InOf(d, i) \in Int /\ OutOf(d, i) \in Int
                      /\ InOf(d, i)' \in Int /\ OutOf(d, i)' \in Int
  <2> TAKE d \in Docs
  <2>1. InOf(d, i) \in Nat /\ OutOf(d, i) \in Nat
    BY TermTypes
  <2>2. InOf(d, i)' \in Nat /\ OutOf(d, i)' \in Nat
    BY TermTypes
  <2> QED BY <2>1, <2>2
<1>2. /\ fi \in [1..MaxDocs -> Int] /\ gi \in [1..MaxDocs -> Int]
      /\ fo \in [1..MaxDocs -> Int] /\ go \in [1..MaxDocs -> Int]
  BY <1>1 DEF Docs
<1>3. /\ \A d \in 1..MaxDocs : d # k => gi[d] = fi[d] /\ go[d] = fo[d]
      /\ k \in 1..MaxDocs /\ MaxDocs \in Nat
      /\ fi[k] = InOf(k, i) /\ gi[k] = InOf(k, i)' /\ fo[k] = OutOf(k, i) /\ go[k] = OutOf(k, i)'
  BY PaymentsAssumption DEF Docs
<1>4. /\ MoneyIn(i) = SumTo(fi, MaxDocs) /\ MoneyIn(i)' = SumTo(gi, MaxDocs)
      /\ MoneyOut(i) = SumTo(fo, MaxDocs) /\ MoneyOut(i)' = SumTo(go, MaxDocs)
  BY DEF MoneyIn, MoneyOut
<1> HIDE DEF fi, gi, fo, go
<1>5. SumTo(gi, MaxDocs) = SumTo(fi, MaxDocs) - fi[k] + gi[k]
  BY <1>2, <1>3, SumToChange
<1>6. SumTo(go, MaxDocs) = SumTo(fo, MaxDocs) - fo[k] + go[k]
  BY <1>2, <1>3, SumToChange
<1> QED BY <1>3, <1>4, <1>5, <1>6

\* Voiding a row takes its amount away.
LEMMA RowsWithout ==
  ASSUME NEW rows, NEW m \in [Parties -> 0..MaxAmount], NEW p \in rows, p \in Parties
  PROVE  RowsTotal(rows \ {p}, m) = RowsTotal(rows, m) - m[p]
<1>1. PICK f, g : f = RowTerms(rows, m) /\ g = RowTerms(rows \ {p}, m)
  OBVIOUS
<1>2. /\ f \in [1..Cash -> Int] /\ g \in [1..Cash -> Int] /\ Cash \in Nat /\ p \in 1..Cash
      /\ \A i \in 1..Cash : i # p => g[i] = f[i]
  <2>1. f \in [1..Cash -> Int] /\ g \in [1..Cash -> Int]
    BY <1>1, RowsAmount
  <2> QED BY <1>1, <2>1, PartiesAre DEF RowTerms
<1>3. f[p] = m[p] /\ g[p] = 0 /\ m[p] \in Int
  BY <1>1, PaymentsAssumption DEF RowTerms
<1>4. SumTo(g, Cash) = SumTo(f, Cash) - f[p] + g[p]
  BY <1>2, SumToChange, Zenon
<1>5. SumTo(f, Cash) \in Int
  BY <1>2, SumToInt
<1> QED BY <1>1, <1>3, <1>4, <1>5 DEF RowsTotal

\* What a payment, refund or applied credit does to the money on an invoice.
LEMMA MoveMoney ==
  ASSUME TypeOK, TypeOK', DocumentShape, RequestsHold,
         NEW t \in Txs, NEW k \in Docs, CommitMove(t, k), NEW i \in Invs
  PROVE  /\ MoneyIn(i)' = MoneyIn(i) + (IF i = req[t].to THEN Taken(req[t].take) ELSE 0)
         /\ MoneyOut(i)' = MoneyOut(i) + req[t].take[i]
         /\ amountPaid'[i] = amountPaid[i] + (IF i = req[t].to THEN Taken(req[t].take) ELSE 0) - req[t].take[i]
         /\ req[t].take[i] \in Nat /\ Taken(req[t].take) \in Nat
<1>1. PICK r \in Requests : r = req[t]
  BY DEF TypeOK
<1>2. /\ r.op = "MOVE" /\ r.take[r.to] = 0 /\ Checked(r)
      /\ \A j \in Touched(r) : seen[t][j] = amountPaid[j]
  BY <1>1 DEF CommitMove, RequestsHold, RequestHolds, Checked
<1>3. r.take \in [Parties -> 0..MaxAmount] /\ r.to \in Parties /\ i \in Parties /\ i # Cash
  BY PartiesAre DEF Requests
<1>4. r.take[i] \in Nat /\ \A p \in Parties : r.take[p] \in Nat
  BY <1>3, PaymentsAssumption
<1>5. Taken(r.take) \in Nat
  <2>1. r.take \in [1..Cash -> Nat] /\ Cash \in Nat
    BY <1>3, <1>4, PartiesAre
  <2> QED BY <2>1, SumToNat DEF Taken
<1> DEFINE S == {p \in Parties : r.take[p] > 0}
<1>6. /\ payee' = [payee EXCEPT ![k] = r.to]
      /\ moved' = [moved EXCEPT ![k] = r.take]
      /\ outRows' = [outRows EXCEPT ![k] = S \ {Cash}]
      /\ inRows' = [inRows EXCEPT ![k] = IF r.to = Cash THEN {} ELSE S]
  BY <1>1 DEF CommitMove
<1>7. payee[k] = 0 /\ InOf(k, i) = 0 /\ OutOf(k, i) = 0
  <2>1. k >= k /\ i # 0
    BY DEF Docs, Invs
  <2>2. \A d \in Docs : payee[d] = 0 <=> d >= k
    BY DEF CommitMove, Unused
  <2>3. payee[k] = 0
    BY <2>1, <2>2
  <2> QED BY <2>1, <2>3, InOfIs DEF OutOf, DocumentShape
<1>8. InOf(k, i)' = IF i = r.to THEN Taken(r.take) ELSE 0
  <2>1. payee'[k] = r.to /\ moved'[k] = r.take /\ inRows'[k] = IF r.to = Cash THEN {} ELSE S
    BY <1>6 DEF TypeOK
  <2>2. RowTerms(S, r.take) = r.take
    <3>1. \A p \in Parties : (IF p \in S THEN r.take[p] ELSE 0) = r.take[p]
      BY <1>4
    <3>2. r.take = [p \in Parties |-> r.take[p]]
      BY <1>3
    <3> HIDE DEF S
    <3> QED BY <3>1, <3>2 DEF RowTerms
  <2> HIDE DEF S
  <2>3. RowsTotal(S, r.take) = Taken(r.take)
    BY <2>2 DEF RowsTotal, Taken
  <2> QED BY <1>3, <2>1, <2>3, InOfIs
<1>9. OutOf(k, i)' = r.take[i]
  <2>1. moved'[k] = r.take /\ outRows'[k] = S \ {Cash}
    BY <1>6 DEF TypeOK
  <2>2. i \in S <=> r.take[i] > 0
    BY <1>3
  <2> HIDE DEF S
  <2> QED BY <1>3, <1>4, <2>1, <2>2 DEF OutOf
<1>10. \A d \in Docs : d # k => InOf(d, i)' = InOf(d, i) /\ OutOf(d, i)' = OutOf(d, i)
  <2> TAKE d \in Docs
  <2> HAVE d # k
  <2>1. payee'[d] = payee[d] /\ moved'[d] = moved[d] /\ outRows'[d] = outRows[d] /\ inRows'[d] = inRows[d]
    <3> HIDE DEF S
    <3> QED BY <1>6 DEF TypeOK
  <2> QED BY <2>1, InOfIs DEF OutOf
<1>11. /\ MoneyIn(i)' = MoneyIn(i) + (IF i = r.to THEN Taken(r.take) ELSE 0)
       /\ MoneyOut(i)' = MoneyOut(i) + r.take[i]
  <2>1. MoneyIn(i) \in Nat /\ MoneyOut(i) \in Nat
    BY MoneyTypes
  <2>2. /\ MoneyIn(i)' = MoneyIn(i) - InOf(k, i) + InOf(k, i)'
        /\ MoneyOut(i)' = MoneyOut(i) - OutOf(k, i) + OutOf(k, i)'
    BY <1>10, MoneyStep
  <2> QED BY <1>4, <1>5, <1>7, <1>8, <1>9, <2>1, <2>2
<1>12. amountPaid'[i] = amountPaid[i] + (IF i = r.to THEN Taken(r.take) ELSE 0) - r.take[i]
  <2>1. amountPaid'[i] = IF i = r.to THEN seen[t][i] + Taken(r.take)
                         ELSE IF r.take[i] > 0 THEN seen[t][i] - r.take[i]
                         ELSE amountPaid[i]
    BY <1>1 DEF CommitMove, WritePaid
  <2>2. i = r.to \/ r.take[i] > 0 => seen[t][i] = amountPaid[i]
    BY <1>2, <1>3 DEF Touched
  <2>3. amountPaid[i] \in Int
    BY DEF TypeOK
  <2> QED BY <1>2, <1>4, <1>5, <2>1, <2>2, <2>3
<1> QED BY <1>1, <1>4, <1>5, <1>11, <1>12

\* What voiding does to it.
LEMMA VoidMoney ==
  ASSUME TypeOK, TypeOK', DocumentShape, RequestsHold,
         NEW t \in Txs, CommitVoidPayment(t), NEW i \in Invs
  PROVE  \E k \in Docs, p \in Parties, x \in Nat :
           /\ k = req[t].doc /\ p = req[t].to /\ x = moved[k][p] /\ payee[k] # p
           /\ MoneyIn(i)' = MoneyIn(i) - (IF i = payee[k] THEN x ELSE 0)
           /\ MoneyOut(i)' = MoneyOut(i) - (IF i = p THEN x ELSE 0)
           /\ amountPaid'[i] = amountPaid[i] - (IF i = payee[k] THEN x ELSE 0) + (IF i = p THEN x ELSE 0)
           /\ i = payee[k] => amountPaid[i] >= x
<1>1. PICK r \in Requests : r = req[t]
  BY DEF TypeOK
<1>2. /\ r.op = "VOID" /\ Checked(r)
      /\ \A j \in Touched(r) : seen[t][j] = amountPaid[j]
  BY <1>1 DEF CommitVoidPayment, RequestsHold, RequestHolds
<1>3. PICK k \in Docs, p \in Parties : k = r.doc /\ p = r.to
  BY <1>2 DEF Checked, Requests
<1>4. PICK x \in Nat : x = moved[k][p]
  BY PaymentsAssumption DEF TypeOK
<1>5. moved[k] \in [Parties -> 0..MaxAmount]
  BY DEF TypeOK
<1>6. /\ p \in outRows[k] \cup inRows[k] /\ payee[k] # p
      /\ p \in inRows[k] => amountPaid[payee[k]] >= x
      /\ payee[k] \in Invs => p \in inRows[k]
      /\ p \in Invs => p \in outRows[k]
      /\ payee[k] \notin Invs => inRows[k] = {}
  BY <1>2, <1>3, <1>4, PartiesAre DEF Checked, DocumentShape
<1>7. /\ payee' = payee /\ moved' = moved
      /\ outRows' = [outRows EXCEPT ![k] = @ \ {p}]
      /\ inRows' = [inRows EXCEPT ![k] = @ \ {p}]
  BY <1>1, <1>3 DEF CommitVoidPayment
<1>8. InOf(k, i)' = InOf(k, i) - (IF i = payee[k] THEN x ELSE 0)
  <2>1. inRows'[k] = inRows[k] \ {p}
    BY <1>7 DEF TypeOK
  <2>2. CASE i = payee[k]
    <3>1. RowsTotal(inRows[k] \ {p}, moved[k]) = RowsTotal(inRows[k], moved[k]) - x
      BY <1>4, <1>5, <1>6, <2>2, RowsWithout
    <3> QED BY <1>7, <2>1, <2>2, <3>1, InOfIs
  <2>3. CASE i # payee[k]
    BY <1>7, <2>3, InOfIs
  <2> QED BY <2>2, <2>3
<1>9. OutOf(k, i)' = OutOf(k, i) - (IF i = p THEN x ELSE 0)
  <2>1. outRows'[k] = outRows[k] \ {p}
    BY <1>7 DEF TypeOK
  <2>2. moved[k][i] \in Int
    BY <1>5, PartiesAre, PaymentsAssumption
  <2> QED BY <1>4, <1>6, <1>7, <2>1, <2>2 DEF OutOf
<1>10. \A d \in Docs : d # k => InOf(d, i)' = InOf(d, i) /\ OutOf(d, i)' = OutOf(d, i)
  <2> TAKE d \in Docs
  <2> HAVE d # k
  <2>1. outRows'[d] = outRows[d] /\ inRows'[d] = inRows[d]
    BY <1>7 DEF TypeOK
  <2> QED BY <1>7, <2>1, InOfIs DEF OutOf
<1>11. /\ MoneyIn(i)' = MoneyIn(i) - (IF i = payee[k] THEN x ELSE 0)
       /\ MoneyOut(i)' = MoneyOut(i) - (IF i = p THEN x ELSE 0)
  <2>1. MoneyIn(i) \in Nat /\ MoneyOut(i) \in Nat /\ InOf(k, i) \in Nat /\ OutOf(k, i) \in Nat
    BY MoneyTypes, TermTypes
  <2>2. /\ MoneyIn(i)' = MoneyIn(i) - InOf(k, i) + InOf(k, i)'
        /\ MoneyOut(i)' = MoneyOut(i) - OutOf(k, i) + OutOf(k, i)'
    BY <1>10, MoneyStep
  <2> QED BY <1>8, <1>9, <2>1, <2>2
<1>12. amountPaid'[i] = amountPaid[i] - (IF i = payee[k] THEN x ELSE 0) + (IF i = p THEN x ELSE 0)
  <2>1. amountPaid'[i] = IF i = payee[k] THEN seen[t][i] - x
                         ELSE IF i = p THEN seen[t][i] + x
                         ELSE amountPaid[i]
    BY <1>1, <1>3, <1>4 DEF CommitVoidPayment, WritePaid
  <2>2. i = payee[k] \/ i = p => seen[t][i] = amountPaid[i]
    BY <1>2, <1>3, PartiesAre DEF Touched
  <2>3. amountPaid[i] \in Int
    BY DEF TypeOK
  <2> QED BY <1>6, <2>1, <2>2, <2>3
<1>13. i = payee[k] => amountPaid[i] >= x
  BY <1>6
<1> QED BY <1>1, <1>3, <1>4, <1>6, <1>11, <1>12, <1>13

\* The steps that leave documents alone leave the money alone.
LEMMA MoneyKept ==
  ASSUME UNCHANGED docVars, NEW i \in Invs
  PROVE  MoneyIn(i)' = MoneyIn(i) /\ MoneyOut(i)' = MoneyOut(i)
BY DEF docVars, MoneyIn, MoneyOut, InOf, OutOf

\* Which steps those are.
LEMMA OtherSteps ==
  ASSUME [Next]_vars
  PROVE  \/ \E t \in Txs, k \in Docs : CommitMove(t, k)
         \/ \E t \in Txs : CommitVoidPayment(t)
         \/ UNCHANGED <<docVars, amountPaid>>
<1>1. ASSUME NEW t \in Txs, Reads(t)
      PROVE  UNCHANGED <<docVars, amountPaid>>
  BY <1>1 DEF Reads, RecordPayment, Refund, ReturnScan, ApplyCredit, VoidPayment, Read, invoiceVars
<1>2. ASSUME NEW t \in Txs, CommitReturn(t)
      PROVE  UNCHANGED <<docVars, amountPaid>>
  BY <1>2 DEF CommitReturn
<1>3. ASSUME Invoicing
      PROVE  UNCHANGED <<docVars, amountPaid>>
  BY <1>3 DEF Invoicing, Issue, EditIssued, VoidInvoice
<1>4. CASE UNCHANGED vars
  BY <1>4 DEF vars, invoiceVars
<1> QED BY <1>1, <1>2, <1>3, <1>4 DEF Next, Commits

\* Every step moves amountPaid and the rows by the same amount.
LEMMA PaidKept ==
  ASSUME TypeOK, TypeOK', DocumentShape, RequestsHold, PaidIsSumOfRows, [Next]_vars
  PROVE  PaidIsSumOfRows'
<1> SUFFICES ASSUME NEW i \in Invs
             PROVE  amountPaid'[i] = MoneyIn(i)' - MoneyOut(i)'
  BY DEF PaidIsSumOfRows
<1>0. amountPaid[i] = MoneyIn(i) - MoneyOut(i) /\ MoneyIn(i) \in Nat /\ MoneyOut(i) \in Nat
  BY MoneyTypes DEF PaidIsSumOfRows
<1>1. ASSUME NEW t \in Txs, NEW k \in Docs, CommitMove(t, k)
      PROVE  amountPaid'[i] = MoneyIn(i)' - MoneyOut(i)'
  BY <1>0, <1>1, MoveMoney
<1>2. ASSUME NEW t \in Txs, CommitVoidPayment(t)
      PROVE  amountPaid'[i] = MoneyIn(i)' - MoneyOut(i)'
  <2>1. PICK k \in Docs, p \in Parties, x \in Nat :
           /\ MoneyIn(i)' = MoneyIn(i) - (IF i = payee[k] THEN x ELSE 0)
           /\ MoneyOut(i)' = MoneyOut(i) - (IF i = p THEN x ELSE 0)
           /\ amountPaid'[i] = amountPaid[i] - (IF i = payee[k] THEN x ELSE 0) + (IF i = p THEN x ELSE 0)
    BY <1>2, VoidMoney
  <2> QED BY <1>0, <2>1
<1>3. CASE UNCHANGED <<docVars, amountPaid>>
  BY <1>0, <1>3, MoneyKept
<1> QED BY <1>1, <1>2, <1>3, OtherSteps

\* What MoneyBounded says of one invoice.
LEMMA BoundedAt ==
  ASSUME TypeOK, CreditBounded, PaidIsSumOfRows, MoneyBounded, NEW i \in Invs
  PROVE  /\ MoneyIn(i) \in Nat /\ MoneyOut(i) \in Nat /\ total[i] \in Nat /\ credited[i] \in Nat
         /\ MoneyIn(i) <= total[i] /\ MoneyOut(i) <= credited[i] /\ MoneyOut(i) <= MoneyIn(i)
         /\ credited[i] <= total[i] /\ amountPaid[i] = MoneyIn(i) - MoneyOut(i)
         /\ status[i] # "ISSUED" => MoneyIn(i) = 0
         /\ amountPaid[i] = 0 /\ credited[i] = 0 => MoneyIn(i) = 0
         /\ amountPaid[i] >= 0
<1>1. MoneyIn(i) \in Nat /\ MoneyOut(i) \in Nat /\ total[i] \in Nat /\ credited[i] \in Nat
  BY MoneyTypes DEF TypeOK
<1>2. /\ MoneyIn(i) <= total[i] /\ MoneyOut(i) <= credited[i] /\ MoneyOut(i) <= MoneyIn(i)
      /\ credited[i] <= total[i] /\ amountPaid[i] = MoneyIn(i) - MoneyOut(i)
      /\ status[i] # "ISSUED" => MoneyIn(i) = 0
  BY DEF CreditBounded, PaidIsSumOfRows, MoneyBounded
<1> QED BY <1>1, <1>2

\* The bounds on an invoice's money are kept.
LEMMA BoundedKept ==
  ASSUME PaymentsInv, TypeOK', [Next]_vars
  PROVE  MoneyBounded'
<1> USE DEF PaymentsInv
<1> SUFFICES ASSUME NEW i \in Invs
             PROVE  /\ MoneyIn(i)' <= total'[i]
                    /\ MoneyOut(i)' <= credited'[i]
                    /\ MoneyOut(i)' <= MoneyIn(i)'
                    /\ status'[i] # "ISSUED" => MoneyIn(i)' = 0
  BY DEF MoneyBounded
<1> DEFINE Bounded == /\ MoneyIn(i)' <= total'[i]
                      /\ MoneyOut(i)' <= credited'[i]
                      /\ MoneyOut(i)' <= MoneyIn(i)'
                      /\ status'[i] # "ISSUED" => MoneyIn(i)' = 0
<1>0. /\ MoneyIn(i) \in Nat /\ MoneyOut(i) \in Nat /\ total[i] \in Nat /\ credited[i] \in Nat
      /\ MoneyIn(i) <= total[i] /\ MoneyOut(i) <= credited[i] /\ MoneyOut(i) <= MoneyIn(i)
      /\ credited[i] <= total[i] /\ amountPaid[i] = MoneyIn(i) - MoneyOut(i)
      /\ status[i] # "ISSUED" => MoneyIn(i) = 0
      /\ amountPaid[i] = 0 /\ credited[i] = 0 => MoneyIn(i) = 0
      /\ amountPaid[i] >= 0
  BY BoundedAt
<1>1. ASSUME NEW t \in Txs, NEW k \in Docs, CommitMove(t, k)
      PROVE  Bounded
  <2>1. UNCHANGED <<status, total, credited>> /\ Checked(req[t]) /\ req[t].op = "MOVE"
    BY <1>1 DEF CommitMove, RequestsHold, RequestHolds
  <2>2. PICK x, y, w \in Nat :
          /\ x = (IF i = req[t].to THEN w ELSE 0) /\ w = Taken(req[t].take) /\ y = req[t].take[i]
          /\ MoneyIn(i)' = MoneyIn(i) + x /\ MoneyOut(i)' = MoneyOut(i) + y
    BY <1>1, MoveMoney
  <2>3. /\ x > 0 => status[i] = "ISSUED" /\ x <= total[i] - credited[i] - amountPaid[i] /\ y = 0
        /\ y > 0 => status[i] = "ISSUED" /\ y <= - (total[i] - credited[i] - amountPaid[i]) /\ x = 0
    BY <2>1, <2>2, PartiesAre DEF Checked, Balance
  <2>4. status'[i] = status[i] /\ total'[i] = total[i] /\ credited'[i] = credited[i]
    BY <2>1
  <2>5. PICK in, out : in = MoneyIn(i)' /\ out = MoneyOut(i)' /\ in = MoneyIn(i) + x /\ out = MoneyOut(i) + y
    BY <2>2
  <2>6. in <= total[i] /\ out <= credited[i] /\ out <= in /\ (status[i] # "ISSUED" => in = 0)
    <3>1. PICK mi, mo, to, cr \in Nat : /\ mi = MoneyIn(i) /\ mo = MoneyOut(i)
                                        /\ to = total[i] /\ cr = credited[i]
      BY <1>0
    <3>2. mi <= to /\ mo <= cr /\ mo <= mi /\ cr <= to /\ in = mi + x /\ out = mo + y
      BY <1>0, <2>5, <3>1
    <3>3. CASE x > 0
      <4>1. x <= to - cr - (mi - mo) /\ y = 0
        BY <1>0, <2>3, <3>1, <3>3
      <4>2. in <= to /\ out <= cr /\ out <= in
        BY <3>2, <4>1
      <4> QED BY <2>3, <3>1, <3>3, <4>2
    <3>4. CASE y > 0
      <4>1. y <= - (to - cr - (mi - mo)) /\ x = 0
        BY <1>0, <2>3, <3>1, <3>4
      <4>2. in <= to /\ out <= cr /\ out <= in
        BY <3>2, <4>1
      <4> QED BY <2>3, <3>1, <3>4, <4>2
    <3>5. CASE x = 0 /\ y = 0
      BY <1>0, <3>1, <3>2, <3>5
    <3> QED BY <3>3, <3>4, <3>5
  <2> QED BY <2>4, <2>5, <2>6
<1>2. ASSUME NEW t \in Txs, CommitVoidPayment(t)
      PROVE  Bounded
  <2>1. UNCHANGED <<status, total, credited>>
    BY <1>2 DEF CommitVoidPayment
  <2>2. PICK k \in Docs, p \in Parties, x \in Nat :
           /\ payee[k] # p
           /\ MoneyIn(i)' = MoneyIn(i) - (IF i = payee[k] THEN x ELSE 0)
           /\ MoneyOut(i)' = MoneyOut(i) - (IF i = p THEN x ELSE 0)
           /\ i = payee[k] => amountPaid[i] >= x
    BY <1>2, VoidMoney
  <2> QED BY <1>0, <2>1, <2>2
<1>3. CASE UNCHANGED <<docVars, amountPaid>>
  <2>1. MoneyIn(i)' = MoneyIn(i) /\ MoneyOut(i)' = MoneyOut(i)
    BY <1>3, MoneyKept
  <2>2. ASSUME NEW j \in Invs, NEW amount \in Amounts, Issue(j, amount)
        PROVE  Bounded
    <3>1. amount \in Nat /\ status[j] = "NONE" /\ credited' = credited
      BY <2>2, PaymentsAssumption DEF Issue, Invs
    <3>2. status'[i] # "ISSUED" => status[i] # "ISSUED" /\ total'[i] = total[i]
      BY <2>2 DEF Issue, TypeOK
    <3>3. total'[i] = total[i] \/ (i = j /\ total'[i] = amount)
      BY <2>2 DEF Issue, TypeOK
    <3> QED BY <1>0, <2>1, <3>1, <3>2, <3>3
  <2>3. ASSUME NEW j \in Invs, NEW amount \in Amounts, EditIssued(j, amount)
        PROVE  Bounded
    <3>1. amount \in Nat /\ amountPaid[j] = 0 /\ credited[j] = 0 /\ UNCHANGED <<status, credited>>
      BY <2>3, BoundedAt, PaymentsAssumption DEF EditIssued
    <3>2. total'[i] = total[i] \/ (i = j /\ total'[i] = amount)
      BY <2>3 DEF EditIssued, TypeOK
    <3> QED BY <1>0, <2>1, <3>1, <3>2
  <2>4. ASSUME NEW j \in Invs, VoidInvoice(j)
        PROVE  Bounded
    <3>1. amountPaid[j] = 0 /\ credited[j] = 0 /\ UNCHANGED <<total, credited>>
      BY <2>4, BoundedAt DEF VoidInvoice
    <3>2. status'[i] = status[i] \/ i = j
      BY <2>4 DEF VoidInvoice, TypeOK
    <3> QED BY <1>0, <2>1, <3>1, <3>2
  <2>5. ASSUME NEW t \in Txs, CommitReturn(t)
        PROVE  Bounded
    <3>1. PICK j \in Invs, x \in Nat : j = req[t].to /\ x = req[t].take[j]
      <4>1. req[t].to \in Invs /\ req[t].take \in [Parties -> 0..MaxAmount]
        BY <2>5 DEF CommitReturn, RequestsHold, RequestHolds, Checked, TypeOK, Requests
      <4> QED BY <4>1, PaymentsAssumption, PartiesAre
    <3>2. UNCHANGED <<status, total>> /\ credited' = [credited EXCEPT ![j] = @ + x]
      BY <2>5, <3>1 DEF CommitReturn
    <3>3. credited'[i] \in Nat /\ credited'[i] >= credited[i]
      BY <1>0, <3>2 DEF TypeOK
    <3> QED BY <1>0, <2>1, <3>2, <3>3
  <2>6. ASSUME NEW t \in Txs, Reads(t)
        PROVE  UNCHANGED <<status, total, credited>>
    BY <2>6 DEF Reads, RecordPayment, Refund, ReturnScan, ApplyCredit, VoidPayment, Read, invoiceVars
  <2>7. CASE UNCHANGED <<status, total, credited>>
    BY <1>0, <2>1, <2>7
  <2>8. CASE UNCHANGED vars
    BY <2>7, <2>8 DEF vars, invoiceVars
  <2> QED BY <1>1, <1>2, <2>2, <2>3, <2>4, <2>5, <2>6, <2>7, <2>8 DEF Next, Commits, Invoicing
<1> QED BY <1>1, <1>2, <1>3, OtherSteps

-----------------------------------------------------------------------------
(* The theorems *)

\* The invariant holds initially.
LEMMA PaymentsInit ==
  ASSUME Init
  PROVE  PaymentsInv
<1>1. TypeOK
  <2>1. Cash \in Parties /\ 0 \in 0..Cash
    BY PartiesAre
  <2> QED BY <2>1, RequestTypes DEF Init, TypeOK
<1>2. RequestsHold
  BY DEF Init, RequestsHold, RequestHolds, Checked, Touched, NoRequest
<1>3. DocumentShape
  BY PartiesAre DEF Init, DocumentShape
<1>4. CreditBounded
  BY DEF Init, CreditBounded
<1>5. \A i \in Invs : MoneyIn(i) = 0 /\ MoneyOut(i) = 0
  <2> TAKE i \in Invs
  <2>1. \A k \in Docs : InOf(k, i) = 0 /\ OutOf(k, i) = 0
    BY DEF Init, InOf, OutOf, Invs
  <2>2. SumTo([k \in 1..MaxDocs |-> 0], MaxDocs) = 0
    BY SumToZero, PaymentsAssumption
  <2> QED BY <2>1, <2>2 DEF MoneyIn, MoneyOut, Docs
<1>6. PaidIsSumOfRows
  BY <1>5 DEF Init, PaidIsSumOfRows
<1>7. MoneyBounded
  BY <1>5 DEF Init, MoneyBounded
<1> QED BY <1>1, <1>2, <1>3, <1>4, <1>6, <1>7 DEF PaymentsInv

\* Every step keeps the invariant.
LEMMA PaymentsNext ==
  ASSUME PaymentsInv, [Next]_vars
  PROVE  PaymentsInv'
<1> USE DEF PaymentsInv
<1>1. TypeOK'
  BY TypesKept
<1>2. ASSUME NEW t \in Txs, Reads(t) PROVE RequestsHold'
  BY <1>2, ReadsHolds
<1>3. ASSUME NEW t \in Txs, Commits(t) PROVE RequestsHold'
  BY <1>3, CommitsHold
<1>4. ASSUME UNCHANGED vars PROVE RequestsHold'
  BY <1>4 DEF vars, invoiceVars, ledgerVars, docVars, reqVars, RequestsHold, RequestHolds, Checked, Touched, Balance
<1>5. RequestsHold'
  BY <1>2, <1>3, <1>4, InvoicingHolds DEF Next
<1>6. DocumentShape' /\ CreditBounded'
  BY DocumentsKept, CreditKept
<1>7. PaidIsSumOfRows'
  BY <1>1, PaidKept
<1>8. MoneyBounded'
  BY <1>1, BoundedKept
<1> QED BY <1>1, <1>5, <1>6, <1>7, <1>8

\* The inductive invariant: requests in flight are committable, documents
\* are well formed, and totals and rows agree within their bounds.
THEOREM PaymentsInvariant == Spec => []PaymentsInv
<1>1. Init => PaymentsInv
  BY PaymentsInit
<1>2. PaymentsInv /\ [Next]_vars => PaymentsInv'
  BY PaymentsNext
<1> QED BY <1>1, <1>2, PTL DEF Spec

\* For any number of invoices, documents and overlapping requests the state
\* keeps its types.
THEOREM PaymentsTypeCorrect == Spec => []TypeOK
<1>1. PaymentsInv => TypeOK
  BY DEF PaymentsInv
<1> QED BY <1>1, PaymentsInvariant, PTL

\* No payment, refund, applied credit or void is lost, whatever overlaps:
\* Invoice.amountPaid is always what the live Payment rows add up to.
THEOREM NoMoneyLost == Spec => []PaidIsSumOfRows
<1>1. PaymentsInv => PaidIsSumOfRows
  BY DEF PaymentsInv
<1> QED BY <1>1, PaymentsInvariant, PTL

\* No invoice is overpaid, no more is given back than was returned, and a
\* voided invoice holds no money.
THEOREM MoneyStaysBounded == Spec => []MoneyBounded
<1>1. PaymentsInv => MoneyBounded
  BY DEF PaymentsInv
<1> QED BY <1>1, PaymentsInvariant, PTL

-----------------------------------------------------------------------------
(* The ledger, and the payment status                                      *)
(*                                                                         *)
(* Both hold when no invoice has a total of 0: an edit from 0 posts no     *)
(* receivable and leaves the status PAID (see the README).                 *)

PositiveTotals == 0 \notin Amounts

\* The standing revenue entry of an issued invoice carries its total.
PostedTotals ==
  \A i \in Invs : IF status[i] = "ISSUED" THEN posted[i] = total[i] /\ total[i] > 0
                  ELSE posted[i] = 0

LedgerInv == PostedTotals /\ LedgerFollowsInvoices /\ StatusFollowsBalance

Due(i) == IF status[i] = "ISSUED" THEN Balance(i) ELSE 0
Dues   == SumTo([i \in Invs |-> Due(i)], MaxInvoices)

\* An amount that one party alone gains.
At(a, x) == [i \in Invs |-> IF i = a THEN x ELSE 0]

\* Its total.
LEMMA SumAt ==
  ASSUME NEW a, NEW x \in Int
  PROVE  /\ At(a, x) \in [1..MaxInvoices -> Int]
         /\ SumTo(At(a, x), MaxInvoices) = IF a \in Invs THEN x ELSE 0
<1>0. MaxInvoices \in Nat /\ Invs = 1..MaxInvoices
  BY PaymentsAssumption DEF Invs
<1>1. At(a, x) \in [1..MaxInvoices -> Int]
  BY <1>0 DEF At
<1>2. PICK f, g : f = [i \in 1..MaxInvoices |-> 0] /\ g = At(a, x)
  OBVIOUS
<1>3. SumTo(f, MaxInvoices) = 0
  BY <1>0, <1>2, SumToZero
<1>4. CASE a \in Invs
  <2>1. /\ f \in [1..MaxInvoices -> Int] /\ g \in [1..MaxInvoices -> Int] /\ a \in 1..MaxInvoices
        /\ \A i \in 1..MaxInvoices : i # a => g[i] = f[i]
    BY <1>0, <1>1, <1>2, <1>4 DEF At
  <2>2. f[a] = 0 /\ g[a] = x
    BY <1>0, <1>2, <1>4 DEF At
  <2>3. SumTo(g, MaxInvoices) = SumTo(f, MaxInvoices) - f[a] + g[a]
    BY <1>0, <2>1, SumToChange, Zenon
  <2> QED BY <1>1, <1>2, <1>3, <1>4, <2>2, <2>3
<1>5. CASE a \notin Invs
  <2>1. g = f
    BY <1>0, <1>2, <1>5 DEF At
  <2> QED BY <1>1, <1>2, <1>3, <1>5, <2>1
<1> QED BY <1>4, <1>5

\* The dues move by what the invoices gain.
LEMMA DuesStep ==
  ASSUME TypeOK, NEW h \in [1..MaxInvoices -> Int], \A i \in Invs : Due(i)' = Due(i) + h[i]
  PROVE  Dues' = Dues + SumTo(h, MaxInvoices)
<1>0. MaxInvoices \in Nat /\ Invs = 1..MaxInvoices
  BY PaymentsAssumption DEF Invs
<1>1. \A i \in Invs : Due(i) \in Int
  BY DEF Due, Balance, TypeOK
<1>2. PICK f : f = [i \in Invs |-> Due(i)]
  OBVIOUS
<1>3. f \in [1..MaxInvoices -> Int] /\ Dues = SumTo(f, MaxInvoices)
  BY <1>0, <1>1, <1>2 DEF Dues
<1>4. [i \in Invs |-> Due(i)'] = [i \in 1..MaxInvoices |-> f[i] + h[i]]
  BY <1>0, <1>2
<1>5. Dues' = SumTo([i \in 1..MaxInvoices |-> f[i] + h[i]], MaxInvoices)
  BY <1>4 DEF Dues
<1> QED BY <1>0, <1>3, <1>5, SumToPlus

\* One invoice gains.
LEMMA DuesOne ==
  ASSUME TypeOK, NEW a, NEW x \in Int,
         \A i \in Invs : Due(i)' = Due(i) + (IF i = a THEN x ELSE 0)
  PROVE  Dues' = Dues + (IF a \in Invs THEN x ELSE 0)
<1>1. PICK h : h = At(a, x)
  OBVIOUS
<1>2. \A i \in Invs : Due(i)' = Due(i) + h[i]
  BY <1>1 DEF At
<1>3. h \in [1..MaxInvoices -> Int] /\ SumTo(h, MaxInvoices) = IF a \in Invs THEN x ELSE 0
  BY <1>1, SumAt
<1>4. Dues' = Dues + SumTo(h, MaxInvoices)
  BY <1>2, <1>3, DuesStep
<1> QED BY <1>3, <1>4

\* What a document takes from invoices and the till.
LEMMA TakenParts ==
  ASSUME NEW take \in [Parties -> Nat]
  PROVE  /\ [i \in Invs |-> take[i]] \in [1..MaxInvoices -> Int]
         /\ SumTo([i \in Invs |-> take[i]], MaxInvoices) = Taken(take) - take[Cash]
         /\ Taken(take) \in Nat /\ take[Cash] \in Nat
<1>0. /\ MaxInvoices \in Nat /\ Invs = 1..MaxInvoices /\ Cash = MaxInvoices + 1
      /\ take \in [1..(MaxInvoices + 1) -> Int] /\ take \in [1..Cash -> Nat] /\ Cash \in Nat
      /\ Invs \subseteq Parties /\ Cash \in Parties
  BY PaymentsAssumption, PartiesAre DEF Invs, Cash
<1>1. PICK f : f = [i \in Invs |-> take[i]]
  OBVIOUS
<1>2. f \in [1..MaxInvoices -> Int] /\ \A i \in 1..MaxInvoices : f[i] = take[i]
  BY <1>0, <1>1
<1>3. SumTo(f, MaxInvoices) = SumTo(take, MaxInvoices) /\ SumTo(f, MaxInvoices) \in Int
  BY <1>0, <1>2, SumToCongruent, SumToInt
<1>4. SumTo(take, MaxInvoices + 1) = SumTo(take, MaxInvoices) + take[MaxInvoices + 1]
  BY <1>0, SumToNext
<1>5. Taken(take) \in Nat
  BY <1>0, SumToNat DEF Taken
<1> QED BY <1>0, <1>1, <1>2, <1>3, <1>4, <1>5 DEF Taken

\* Payments and refunds post what they change in the dues; applied credits
\* change none.
LEMMA MoveLedger ==
  ASSUME PaymentsInv, TypeOK', NEW t \in Txs, NEW k \in Docs, CommitMove(t, k), receivable = Dues
  PROVE  receivable' = Dues'
<1> USE DEF PaymentsInv
<1>1. PICK r \in Requests : r = req[t]
  BY DEF TypeOK
<1>2. /\ r.op = "MOVE" /\ Checked(r) /\ r.to \in Parties
      /\ UNCHANGED <<status, total, credited>>
      /\ receivable' = receivable - r.take[Cash] + (IF r.to = Cash THEN Taken(r.take) ELSE 0)
  BY <1>1 DEF CommitMove, RequestsHold, RequestHolds, Requests
<1>3. r.take \in [Parties -> Nat]
  BY PaymentsAssumption DEF Requests
<1>4. Taken(r.take) \in Nat /\ r.take[Cash] \in Nat
  BY <1>3, TakenParts
<1> DEFINE f == [i \in Invs |-> r.take[i]]
           g == At(r.to, 0 - Taken(r.take))
           h == [i \in 1..MaxInvoices |-> f[i] + g[i]]
<1>5. /\ f \in [1..MaxInvoices -> Int] /\ SumTo(f, MaxInvoices) = Taken(r.take) - r.take[Cash]
      /\ g \in [1..MaxInvoices -> Int]
      /\ SumTo(g, MaxInvoices) = IF r.to \in Invs THEN 0 - Taken(r.take) ELSE 0
  BY <1>3, <1>4, TakenParts, SumAt
<1>6. ASSUME NEW i \in Invs
      PROVE  Due(i)' = Due(i) + h[i]
  <2>1. /\ amountPaid'[i] = amountPaid[i] + (IF i = r.to THEN Taken(r.take) ELSE 0) - r.take[i]
        /\ r.take[i] \in Nat
    BY <1>1, MoveMoney
  <2>2. h[i] = r.take[i] + (IF i = r.to THEN 0 - Taken(r.take) ELSE 0)
    BY DEF At, Invs
  <2>3. status[i] = "ISSUED" \/ (i # r.to /\ ~(r.take[i] > 0))
    BY <1>2, PartiesAre DEF Checked
  <2>4. amountPaid[i] \in Int /\ total[i] \in Int /\ credited[i] \in Int
    BY DEF TypeOK
  <2> HIDE DEF h
  <2> QED BY <1>2, <1>4, <2>1, <2>2, <2>3, <2>4 DEF Due, Balance
<1>7. h \in [1..MaxInvoices -> Int]
  <2> HIDE DEF f, g
  <2> QED BY <1>5
<1>8. SumTo(h, MaxInvoices) = SumTo(f, MaxInvoices) + SumTo(g, MaxInvoices)
  <2> HIDE DEF f, g
  <2> QED BY <1>5, SumToPlus, PaymentsAssumption
<1> HIDE DEF f, g, h
<1>9. Dues' = Dues + SumTo(h, MaxInvoices)
  BY <1>6, <1>7, DuesStep
<1>10. receivable \in Int /\ (r.to \in Invs <=> r.to # Cash)
  BY <1>2, PartiesAre DEF TypeOK
<1> QED BY <1>2, <1>4, <1>5, <1>8, <1>9, <1>10

\* Voiding reverses what was posted.
LEMMA VoidLedger ==
  ASSUME PaymentsInv, TypeOK', NEW t \in Txs, CommitVoidPayment(t), receivable = Dues
  PROVE  receivable' = Dues'
<1> USE DEF PaymentsInv
<1>1. req[t].doc \in Docs /\ req[t].to \in Parties /\ payee[req[t].doc] \in Parties
  <2>1. req[t].doc \in Docs /\ req[t].to \in outRows[req[t].doc] \cup inRows[req[t].doc] /\ req[t].to \in Parties
    BY DEF CommitVoidPayment, RequestsHold, RequestHolds, Checked, TypeOK, Requests
  <2>2. PICK k \in Docs : k = req[t].doc /\ (outRows[k] # {} \/ inRows[k] # {})
    BY <2>1
  <2>3. payee[k] # 0
    BY <2>2, PartiesAre DEF DocumentShape
  <2>4. payee[k] \in 0..Cash
    BY DEF TypeOK
  <2> QED BY <2>1, <2>2, <2>3, <2>4, PartiesAre
<1>2. PICK k \in Docs, p \in Parties, q \in Parties, x \in Nat :
        k = req[t].doc /\ p = req[t].to /\ q = payee[k] /\ x = moved[k][p]
  BY <1>1, PaymentsAssumption DEF TypeOK
<1>3. /\ receivable' = receivable + (IF p = Cash THEN x ELSE 0) - (IF q = Cash THEN x ELSE 0)
      /\ UNCHANGED <<status, total, credited>>
  BY <1>2 DEF CommitVoidPayment
<1> DEFINE f == At(q, x)
           g == At(p, 0 - x)
           h == [i \in 1..MaxInvoices |-> f[i] + g[i]]
<1>4. /\ f \in [1..MaxInvoices -> Int] /\ SumTo(f, MaxInvoices) = IF q \in Invs THEN x ELSE 0
      /\ g \in [1..MaxInvoices -> Int] /\ SumTo(g, MaxInvoices) = IF p \in Invs THEN 0 - x ELSE 0
  BY SumAt
<1>5. ASSUME NEW i \in Invs
      PROVE  Due(i)' = Due(i) + h[i]
  <2>1. /\ MoneyIn(i)' = MoneyIn(i) - (IF i = q THEN x ELSE 0)
        /\ MoneyOut(i)' = MoneyOut(i) - (IF i = p THEN x ELSE 0)
        /\ amountPaid'[i] = amountPaid[i] - (IF i = q THEN x ELSE 0) + (IF i = p THEN x ELSE 0)
    BY <1>2, VoidMoney
  <2>2. h[i] = (IF i = q THEN x ELSE 0) + (IF i = p THEN 0 - x ELSE 0)
    BY DEF At, Invs
  <2>3. status[i] = "ISSUED" \/ ((IF i = q THEN x ELSE 0) = 0 /\ (IF i = p THEN x ELSE 0) = 0)
    <3>1. /\ MoneyIn(i) \in Nat /\ MoneyOut(i) \in Nat /\ MoneyOut(i) <= MoneyIn(i)
          /\ status[i] # "ISSUED" => MoneyIn(i) = 0
      BY BoundedAt
    <3>2. MoneyIn(i)' \in Nat /\ MoneyOut(i)' \in Nat
      BY MoneyPrimed
    <3> QED BY <2>1, <3>1, <3>2
  <2>4. amountPaid[i] \in Int /\ total[i] \in Int /\ credited[i] \in Int
    BY DEF TypeOK
  <2> HIDE DEF h
  <2> QED BY <1>3, <2>1, <2>2, <2>3, <2>4 DEF Due, Balance
<1>6. h \in [1..MaxInvoices -> Int]
  <2> HIDE DEF f, g
  <2> QED BY <1>4
<1>7. SumTo(h, MaxInvoices) = SumTo(f, MaxInvoices) + SumTo(g, MaxInvoices)
  <2> HIDE DEF f, g
  <2> QED BY <1>4, SumToPlus, PaymentsAssumption
<1> HIDE DEF f, g, h
<1>8. Dues' = Dues + SumTo(h, MaxInvoices)
  BY <1>5, <1>6, DuesStep
<1>9. receivable \in Int /\ (p \in Invs <=> p # Cash) /\ (q \in Invs <=> q # Cash)
  BY PartiesAre DEF TypeOK
<1> QED BY <1>3, <1>4, <1>7, <1>8, <1>9

\* Nothing is due on an invoice before it is issued, and all of it right
\* after; an edit or a void needs an invoice without payments or returns.
LEMMA InvoicingLedger ==
  ASSUME PaymentsInv, PostedTotals, PositiveTotals, receivable = Dues, Invoicing
  PROVE  receivable' = Dues' /\ PostedTotals'
<1> USE DEF PaymentsInv
<1>0. receivable \in Int
  BY DEF TypeOK
<1>1. ASSUME NEW i \in Invs, NEW amount \in Amounts, Issue(i, amount)
      PROVE  receivable' = Dues' /\ PostedTotals'
  <2>1. amount \in Nat /\ amount > 0 /\ status[i] = "NONE"
    BY <1>1, PaymentsAssumption DEF Issue, Invs, PositiveTotals
  <2>2. credited[i] = 0 /\ amountPaid[i] = 0
    <3>1. total[i] = 0
      BY <2>1 DEF CreditBounded
    <3> QED BY <2>1, <3>1, BoundedAt
  <2>3. \A j \in Invs : Due(j)' = Due(j) + (IF j = i THEN amount ELSE 0)
    BY <1>1, <2>1, <2>2 DEF Issue, Due, Balance, TypeOK
  <2>4. Dues' = Dues + amount
    BY <2>1, <2>3, DuesOne
  <2>5. PostedTotals'
    BY <1>1, <2>1 DEF Issue, PostedTotals, TypeOK
  <2> QED BY <1>1, <2>4, <2>5 DEF Issue
<1>2. ASSUME NEW i \in Invs, NEW amount \in Amounts, EditIssued(i, amount)
      PROVE  receivable' = Dues' /\ PostedTotals'
  <2>1. /\ amount \in Nat /\ amount > 0 /\ total[i] \in Nat
        /\ status[i] = "ISSUED" /\ posted[i] = total[i] /\ total[i] > 0
        /\ amountPaid[i] = 0 /\ credited[i] = 0
    BY <1>2, BoundedAt, PaymentsAssumption DEF EditIssued, PositiveTotals, PostedTotals, TypeOK
  <2>2. /\ receivable' = receivable + (amount - total[i])
        /\ posted' = [posted EXCEPT ![i] = amount]
        /\ total' = [total EXCEPT ![i] = amount]
        /\ UNCHANGED <<status, credited, amountPaid>>
    BY <1>2, <2>1 DEF EditIssued
  <2>3. \A j \in Invs : Due(j)' = Due(j) + (IF j = i THEN amount - total[i] ELSE 0)
    BY <2>1, <2>2 DEF Due, Balance, TypeOK
  <2>4. Dues' = Dues + (amount - total[i])
    <3>1. amount - total[i] \in Int
      BY <2>1
    <3> QED BY <2>3, <3>1, DuesOne
  <2>5. PostedTotals'
    BY <2>1, <2>2 DEF PostedTotals, TypeOK
  <2> QED BY <2>2, <2>4, <2>5
<1>3. ASSUME NEW i \in Invs, VoidInvoice(i)
      PROVE  receivable' = Dues' /\ PostedTotals'
  <2>1. /\ total[i] \in Nat /\ status[i] = "ISSUED" /\ posted[i] = total[i]
        /\ amountPaid[i] = 0 /\ credited[i] = 0
    BY <1>3, BoundedAt DEF VoidInvoice, PostedTotals, TypeOK
  <2>2. /\ receivable' = receivable - total[i]
        /\ posted' = [posted EXCEPT ![i] = 0]
        /\ status' = [status EXCEPT ![i] = "VOID"]
        /\ UNCHANGED <<total, credited, amountPaid>>
    BY <1>3, <2>1 DEF VoidInvoice
  <2>3. \A j \in Invs : Due(j)' = Due(j) + (IF j = i THEN 0 - total[i] ELSE 0)
    BY <2>1, <2>2 DEF Due, Balance, TypeOK
  <2>4. Dues' = Dues + (0 - total[i])
    <3>1. 0 - total[i] \in Int
      BY <2>1
    <3> QED BY <2>3, <3>1, DuesOne
  <2>5. PostedTotals'
    BY <2>2 DEF PostedTotals, TypeOK
  <2>6. Dues \in Int
    BY <1>0
  <2> QED BY <2>1, <2>2, <2>4, <2>5, <2>6
<1> QED BY <1>1, <1>2, <1>3 DEF Invoicing

\* A return posts what it credits.
LEMMA ReturnLedger ==
  ASSUME PaymentsInv, NEW t \in Txs, CommitReturn(t), receivable = Dues
  PROVE  receivable' = Dues'
<1> USE DEF PaymentsInv
<1>1. req[t].to \in Invs /\ req[t].take \in [Parties -> 0..MaxAmount] /\ status[req[t].to] = "ISSUED"
  BY DEF CommitReturn, RequestsHold, RequestHolds, Checked, TypeOK, Requests
<1>2. PICK i \in Invs, x \in Nat : i = req[t].to /\ x = req[t].take[i] /\ status[i] = "ISSUED"
  BY <1>1, PaymentsAssumption, PartiesAre
<1>3. /\ receivable' = receivable - x
      /\ credited' = [credited EXCEPT ![i] = @ + x]
      /\ UNCHANGED <<status, total, amountPaid>>
  BY <1>2 DEF CommitReturn
<1>4. \A j \in Invs : Due(j)' = Due(j) + (IF j = i THEN 0 - x ELSE 0)
  BY <1>2, <1>3 DEF Due, Balance, TypeOK
<1>5. 0 - x \in Int /\ receivable \in Int
  BY DEF TypeOK
<1>6. Dues' = Dues + (0 - x)
  BY <1>4, <1>5, DuesOne
<1> QED BY <1>2, <1>3, <1>5, <1>6

\* Every step keeps the stored payment status in line with the balance.
LEMMA StatusKept ==
  ASSUME PaymentsInv, PostedTotals, PositiveTotals, StatusFollowsBalance, [Next]_vars
  PROVE  StatusFollowsBalance'
<1> USE DEF PaymentsInv
<1> SUFFICES ASSUME NEW i \in Invs, status'[i] = "ISSUED"
             PROVE  paymentStatus'[i] = DeriveStatus(amountPaid'[i], total'[i] - credited'[i])
  BY DEF StatusFollowsBalance
<1>1. ASSUME NEW paid, WritePaid(paid), UNCHANGED <<status, total, credited>>
      PROVE  paymentStatus'[i] = DeriveStatus(amountPaid'[i], total'[i] - credited'[i])
  BY <1>1 DEF WritePaid, StatusFollowsBalance
<1>2. ASSUME NEW t \in Txs, NEW k \in Docs, CommitMove(t, k)
      PROVE  paymentStatus'[i] = DeriveStatus(amountPaid'[i], total'[i] - credited'[i])
  BY <1>1, <1>2 DEF CommitMove
<1>3. ASSUME NEW t \in Txs, CommitVoidPayment(t)
      PROVE  paymentStatus'[i] = DeriveStatus(amountPaid'[i], total'[i] - credited'[i])
  BY <1>1, <1>3 DEF CommitVoidPayment
<1>4. ASSUME NEW t \in Txs, CommitReturn(t)
      PROVE  paymentStatus'[i] = DeriveStatus(amountPaid'[i], total'[i] - credited'[i])
  <2>1. PICK j \in Invs, x \in 0..MaxAmount : j = req[t].to /\ x = req[t].take[j]
    BY <1>4, PartiesAre DEF CommitReturn, RequestsHold, RequestHolds, Checked, TypeOK, Requests
  <2>2. /\ UNCHANGED <<status, total, amountPaid>>
        /\ credited' = [credited EXCEPT ![j] = @ + x]
        /\ paymentStatus' = [paymentStatus EXCEPT ![j] = DeriveStatus(amountPaid[j], total[j] - credited'[j])]
    BY <1>4, <2>1 DEF CommitReturn
  <2> QED BY <2>2 DEF StatusFollowsBalance, TypeOK
<1>5. ASSUME NEW j \in Invs, NEW amount \in Amounts, Issue(j, amount)
      PROVE  paymentStatus'[i] = DeriveStatus(amountPaid'[i], total'[i] - credited'[i])
  <2>1. amount \in Nat /\ status[j] = "NONE"
    BY <1>5, PaymentsAssumption DEF Issue, Invs
  <2>2. credited[j] = 0 /\ amountPaid[j] = 0
    <3>1. total[j] = 0
      BY <2>1 DEF CreditBounded
    <3> QED BY <2>1, <3>1, BoundedAt
  <2>3. amount - 0 = amount
    BY <2>1
  <2> QED BY <1>5, <2>2, <2>3 DEF Issue, StatusFollowsBalance, TypeOK
<1>6. ASSUME NEW j \in Invs, NEW amount \in Amounts, EditIssued(j, amount)
      PROVE  paymentStatus'[i] = DeriveStatus(amountPaid'[i], total'[i] - credited'[i])
  <2>1. /\ amount \in Nat /\ amount > 0 /\ total[j] \in Nat /\ total[j] > 0
        /\ amountPaid[j] = 0 /\ credited[j] = 0 /\ status[j] = "ISSUED"
    BY <1>6, BoundedAt, PaymentsAssumption DEF EditIssued, PositiveTotals, PostedTotals, TypeOK
  <2>2. total' = [total EXCEPT ![j] = amount] /\ UNCHANGED <<status, credited, amountPaid, paymentStatus>>
    BY <1>6 DEF EditIssued
  <2>3. DeriveStatus(0, total[j] - 0) = "UNPAID" /\ DeriveStatus(0, amount - 0) = "UNPAID"
    BY <2>1 DEF DeriveStatus
  <2>4. CASE i = j
    BY <2>1, <2>2, <2>3, <2>4 DEF StatusFollowsBalance, TypeOK
  <2>5. CASE i # j
    BY <2>2, <2>5 DEF StatusFollowsBalance, TypeOK
  <2> QED BY <2>4, <2>5
<1>7. ASSUME NEW j \in Invs, VoidInvoice(j)
      PROVE  paymentStatus'[i] = DeriveStatus(amountPaid'[i], total'[i] - credited'[i])
  <2>1. UNCHANGED <<total, credited, amountPaid, paymentStatus>> /\ status[i] = "ISSUED"
    BY <1>7 DEF VoidInvoice, TypeOK
  <2> QED BY <2>1 DEF StatusFollowsBalance
<1>8. CASE UNCHANGED invoiceVars
  BY <1>8 DEF invoiceVars, StatusFollowsBalance
<1>9. ASSUME NEW t \in Txs, Reads(t)
      PROVE  UNCHANGED invoiceVars
  BY <1>9 DEF Reads, RecordPayment, Refund, ReturnScan, ApplyCredit, VoidPayment, Read
<1>10. CASE UNCHANGED vars
  BY <1>8, <1>10 DEF vars
<1> QED BY <1>2, <1>3, <1>4, <1>5, <1>6, <1>7, <1>8, <1>9, <1>10 DEF Next, Commits, Invoicing

\* Every step keeps the ledger in line with the invoices.
LEMMA LedgerNext ==
  ASSUME PaymentsInv, PaymentsInv', LedgerInv, PositiveTotals, [Next]_vars
  PROVE  LedgerInv'
<1>0. TypeOK' /\ receivable = Dues /\ PostedTotals
  BY DEF PaymentsInv, LedgerInv, LedgerFollowsInvoices, Dues, Due
<1>1. StatusFollowsBalance'
  BY StatusKept DEF LedgerInv
<1>2. ASSUME Invoicing
      PROVE  receivable' = Dues' /\ PostedTotals'
  BY <1>0, <1>2, InvoicingLedger
<1>3. ASSUME UNCHANGED <<status, total, posted>>
      PROVE  PostedTotals'
  BY <1>0, <1>3 DEF PostedTotals
<1>4. ASSUME NEW t \in Txs, NEW k \in Docs, CommitMove(t, k)
      PROVE  receivable' = Dues' /\ PostedTotals'
  <2>1. UNCHANGED <<status, total, posted>>
    BY <1>4 DEF CommitMove
  <2> QED BY <1>0, <1>3, <1>4, <2>1, MoveLedger
<1>5. ASSUME NEW t \in Txs, CommitVoidPayment(t)
      PROVE  receivable' = Dues' /\ PostedTotals'
  <2>1. UNCHANGED <<status, total, posted>>
    BY <1>5 DEF CommitVoidPayment
  <2> QED BY <1>0, <1>3, <1>5, <2>1, VoidLedger
<1>6. ASSUME NEW t \in Txs, CommitReturn(t)
      PROVE  receivable' = Dues' /\ PostedTotals'
  <2>1. UNCHANGED <<status, total, posted>>
    BY <1>6 DEF CommitReturn
  <2> QED BY <1>0, <1>3, <1>6, <2>1, ReturnLedger
<1>7. ASSUME UNCHANGED <<invoiceVars, ledgerVars>>
      PROVE  receivable' = Dues' /\ PostedTotals'
  <2>1. UNCHANGED <<status, total, posted, credited, amountPaid, receivable>>
    BY <1>7 DEF invoiceVars, ledgerVars
  <2>2. Dues' = Dues
    BY <2>1 DEF Dues, Due, Balance
  <2> QED BY <1>0, <1>3, <2>1, <2>2
<1>8. ASSUME NEW t \in Txs, Reads(t)
      PROVE  UNCHANGED <<invoiceVars, ledgerVars>>
  BY <1>8 DEF Reads, RecordPayment, Refund, ReturnScan, ApplyCredit, VoidPayment, Read
<1>9. ASSUME UNCHANGED vars
      PROVE  receivable' = Dues' /\ PostedTotals'
  BY <1>7, <1>9 DEF vars
<1>10. receivable' = Dues' /\ PostedTotals'
  BY <1>2, <1>4, <1>5, <1>6, <1>7, <1>8, <1>9 DEF Next, Commits
<1> QED BY <1>1, <1>10 DEF LedgerInv, LedgerFollowsInvoices, Dues, Due

\* The books start empty.
LEMMA LedgerInit ==
  ASSUME Init
  PROVE  LedgerInv
<1>1. SumTo([i \in 1..MaxInvoices |-> 0], MaxInvoices) = 0
  BY SumToZero, PaymentsAssumption
<1>2. [i \in Invs |-> IF status[i] = "ISSUED" THEN Balance(i) ELSE 0] = [i \in 1..MaxInvoices |-> 0]
  BY DEF Init, Invs
<1>3. LedgerFollowsInvoices
  BY <1>1, <1>2 DEF Init, LedgerFollowsInvoices
<1> QED BY <1>3 DEF Init, LedgerInv, PostedTotals, StatusFollowsBalance

\* The invariant behind the two theorems below.
LEMMA LedgerInvariant ==
  ASSUME PositiveTotals
  PROVE  Spec => [](PaymentsInv /\ LedgerInv)
<1>1. Init => PaymentsInv /\ LedgerInv
  BY PaymentsInit, LedgerInit
<1>2. PaymentsInv /\ LedgerInv /\ [Next]_vars => PaymentsInv' /\ LedgerInv'
  BY PaymentsNext, LedgerNext
<1> QED BY <1>1, <1>2, PTL DEF Spec

\* Without invoices of 0, Accounts Receivable is at all times the sum of
\* what the issued invoices are owed.
THEOREM LedgerAgrees ==
  ASSUME PositiveTotals
  PROVE  Spec => []LedgerFollowsInvoices
<1>1. PaymentsInv /\ LedgerInv => LedgerFollowsInvoices
  BY DEF LedgerInv
<1> QED BY <1>1, LedgerInvariant, PTL

\* Without invoices of 0, the stored payment status is at all times the one
\* that the balance gives.
THEOREM StatusAgrees ==
  ASSUME PositiveTotals
  PROVE  Spec => []StatusFollowsBalance
<1>1. PaymentsInv /\ LedgerInv => StatusFollowsBalance
  BY DEF LedgerInv
<1> QED BY <1>1, LedgerInvariant, PTL
=============================================================================
