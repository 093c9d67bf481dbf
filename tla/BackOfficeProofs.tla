-------------------------- MODULE BackOfficeProofs --------------------------
(***************************************************************************)
(* Expenses, fixed assets and payrolls: a period has one live run and the  *)
(* runs are on the ledger as their status says, an asset is charged for    *)
(* its age, and the books show what is owed on the documents there are.    *)
(***************************************************************************)
EXTENDS BackOffice, TotalsProofs

Live  == {"DRAFT", "POSTED", "PAID"}
Sheet == [status : Live \cup {"NONE", "VOID", "DELETED"}, active : BOOLEAN, pay : Payslips \cup {None}]

\* What requests carry about runs.
RequestsHold ==
  /\ at = [c \in Clients |-> [op |-> at[c].op, doc |-> at[c].doc, amount |-> at[c].amount, due |-> at[c].due]]
  /\ \A c \in Clients : at[c].op \in {"createRun", "removeRun"} => at[c].doc \in Runs
  /\ \A c \in Clients : at[c].op = "createRun" => at[c].due \subseteq Payslips

\* A run holds the slot of its period while it is live, and one run does.
SlotHolds ==
  /\ \A r \in Runs : payroll[r].active <=> payroll[r].status \in Live
  /\ \A r, s \in Runs : payroll[r].active /\ payroll[s].active => r = s

RunsInv == payroll \in [Runs -> Sheet] /\ RequestsHold /\ SlotHolds

PayrollSources == {<<"payroll", r>> : r \in Runs} \cup {<<"payrollPaid", r>> : r \in Runs}

-----------------------------------------------------------------------------
(* What the steps of other documents do *)

\* A step that leaves the runs, their sources and the requests about them.
Elsewhere ==
  /\ payroll' = payroll
  /\ \A s \in PayrollSources : s \in DOMAIN posted' <=> s \in DOMAIN posted
  /\ \/ at' = at
     \/ \E c \in Clients : \E op, doc, amount, due :
          /\ op \notin {"createRun", "removeRun"}
          /\ at' = [at EXCEPT ![c] = [op |-> op, doc |-> doc, amount |-> amount, due |-> due]]

LEMMA ElsewhereKeeps ==
  ASSUME RunsInv, Elsewhere
  PROVE  RunsInv' /\ (PayrollMatchesLedger => PayrollMatchesLedger')
<1>1. RequestsHold'
  <2>1. CASE at' = at
    BY <2>1 DEF RunsInv, Elsewhere, RequestsHold
  <2>2. ASSUME NEW c \in Clients, NEW op, NEW doc, NEW amount, NEW due,
               op \notin {"createRun", "removeRun"},
               at' = [at EXCEPT ![c] = [op |-> op, doc |-> doc, amount |-> amount, due |-> due]]
        PROVE  RequestsHold'
    BY <2>2 DEF RunsInv, RequestsHold
  <2> QED BY <2>1, <2>2 DEF Elsewhere
<1>2. RunsInv'
  BY <1>1 DEF RunsInv, Elsewhere, SlotHolds
<1>3. PayrollMatchesLedger => PayrollMatchesLedger'
  BY DEF PayrollMatchesLedger, Elsewhere, PayrollSources
<1> QED BY <1>2, <1>3

LEMMA PostElsewhere ==
  ASSUME NEW source, NEW lines, Post(source, lines), source \notin PayrollSources
  PROVE  \A s \in PayrollSources : s \in DOMAIN posted' <=> s \in DOMAIN posted
BY DEF Post

LEMMA VoidElsewhere ==
  ASSUME NEW S, VoidAll(S), S \cap PayrollSources = {}
  PROVE  \A s \in PayrollSources : s \in DOMAIN posted' <=> s \in DOMAIN posted
BY DEF VoidAll

\* A request that has read, about anything but a run, or that is done.
LEMMA RequestElsewhere ==
  ASSUME NEW c \in Clients, payroll' = payroll,
         \A s \in PayrollSources : s \in DOMAIN posted' <=> s \in DOMAIN posted,
         \/ Done(c)
         \/ \E op, doc, amount, due : op \notin {"createRun", "removeRun"} /\ Reads(c, op, doc, amount, due)
  PROVE  Elsewhere
<1>1. CASE Done(c)
  BY <1>1 DEF Done, Idle, Elsewhere
<1>2. CASE \E op, doc, amount, due : op \notin {"createRun", "removeRun"} /\ Reads(c, op, doc, amount, due)
  BY <1>2 DEF Reads, Elsewhere
<1> QED BY <1>1, <1>2

LEMMA ExpensesElsewhere ==
  ASSUME ExpensesNext, payroll' = payroll
  PROVE  Elsewhere
<1>1. ASSUME NEW e \in ExpenseIds, CreateExpense(e) PROVE Elsewhere
  <2>1. <<"expense", e>> \notin PayrollSources
    BY DEF PayrollSources
  <2> QED BY <1>1, <2>1, PostElsewhere DEF CreateExpense, AtOnce, Elsewhere
<1>2. ASSUME NEW e, NEW amount, PaysExpense(e, amount)
      PROVE  \A s \in PayrollSources : s \in DOMAIN posted' <=> s \in DOMAIN posted
  <2>1. <<"expensePayment", e, expense[e].payments + 1>> \notin PayrollSources
    BY DEF PayrollSources
  <2> QED BY <1>2, <2>1, PostElsewhere DEF PaysExpense
<1>3. ASSUME NEW e \in ExpenseIds, NEW amount \in Instalments, RecordExpensePayment(e, amount) PROVE Elsewhere
  BY <1>2, <1>3 DEF RecordExpensePayment, AtOnce, Elsewhere
<1>4. ASSUME NEW e \in ExpenseIds, NEW c \in Clients, ReadToMarkPaid(c, e) \/ ReadToVoidExpense(c, e)
      PROVE  Elsewhere
  <2>1. \E op, doc, amount, due : op \notin {"createRun", "removeRun"} /\ Reads(c, op, doc, amount, due)
    BY <1>4 DEF ReadToMarkPaid, ReadToVoidExpense
  <2> QED BY <1>4, <2>1, RequestElsewhere DEF ReadToMarkPaid, ReadToVoidExpense
<1>5. ASSUME NEW c \in Clients, MarkExpensePaid(c) PROVE Elsewhere
  BY <1>2, <1>5, RequestElsewhere DEF MarkExpensePaid
<1>6. ASSUME NEW c \in Clients, VoidExpense(c) PROVE Elsewhere
  <2>1. {<<"expense", at[c].doc>>} \cap PayrollSources = {}
    BY DEF PayrollSources
  <2> QED BY <1>6, <2>1, VoidElsewhere, RequestElsewhere DEF VoidExpense
<1> QED BY <1>1, <1>3, <1>4, <1>5, <1>6 DEF ExpensesNext

LEMMA AssetsElsewhere ==
  ASSUME RunsInv, FixedAssetsNext, payroll' = payroll
  PROVE  Elsewhere
<1>1. ASSUME NEW a \in Assets, CreateAsset(a) PROVE Elsewhere
  <2>1. <<"acquired", a>> \notin PayrollSources
    BY DEF PayrollSources
  <2> QED BY <1>1, <2>1, PostElsewhere DEF CreateAsset, AtOnce, Elsewhere
<1>2. ASSUME NEW a \in Assets, NEW amount \in Instalments, RecordAssetPayment(a, amount) PROVE Elsewhere
  <2>1. <<"assetPayment", a, asset[a].payments + 1>> \notin PayrollSources
    BY DEF PayrollSources
  <2> QED BY <1>2, <2>1, PostElsewhere DEF RecordAssetPayment, AtOnce, Elsewhere
<1>3. ASSUME NEW a \in Assets, NEW proceeds \in Proceeds, DisposeAsset(a, proceeds) PROVE Elsewhere
  <2>1. <<"disposal", a>> \notin PayrollSources
    BY DEF PayrollSources
  <2> QED BY <1>3, <2>1, PostElsewhere DEF DisposeAsset, AtOnce, Elsewhere
<1>4. ASSUME NEW c \in Clients,
             (\E a \in Assets : ReadToVoidAsset(c, a)) \/ (\E date \in ThroughDates : ReadToDepreciate(c, date))
      PROVE  Elsewhere
  <2>1. /\ \E op, doc, amount, due : op \notin {"createRun", "removeRun"} /\ Reads(c, op, doc, amount, due)
        /\ posted' = posted
    BY <1>4 DEF ReadToVoidAsset, ReadToDepreciate
  <2> QED BY <2>1, RequestElsewhere
<1>5. ASSUME NEW c \in Clients, Depreciate(c) PROVE Elsewhere
  <2>1. PICK d \in at[c].due :
          /\ \/ Post(<<"depreciation", d.asset, d.through>>, DepreciationEntry(d.amount))
             \/ posted' = posted
          /\ \/ at[c].due = {d} /\ Done(c)
             \/ at[c].due # {d} /\ at' = [at EXCEPT ![c].due = @ \ {d}]
    BY <1>5 DEF Depreciate
  <2>2. <<"depreciation", d.asset, d.through>> \notin PayrollSources
    BY DEF PayrollSources
  <2>3. \A s \in PayrollSources : s \in DOMAIN posted' <=> s \in DOMAIN posted
    BY <2>1, <2>2, PostElsewhere
  <2>4. CASE Done(c)
    BY <2>3, <2>4, RequestElsewhere
  <2>5. CASE at' = [at EXCEPT ![c].due = @ \ {d}]
    <3> DEFINE new == [op |-> "depreciate", doc |-> at[c].doc, amount |-> at[c].amount, due |-> at[c].due \ {d}]
    <3>1. at[c] = [op |-> "depreciate", doc |-> at[c].doc, amount |-> at[c].amount, due |-> at[c].due]
      <4>1. at[c].op = "depreciate"
        BY <1>5 DEF Depreciate, Writing
      <4> QED BY <4>1 DEF RunsInv, RequestsHold
    <3>2. at' = [at EXCEPT ![c] = new]
      <4>1. at' = [at EXCEPT ![c] = [at[c] EXCEPT !.due = at[c].due \ {d}]]
        BY <2>5
      <4>2. [at[c] EXCEPT !.due = at[c].due \ {d}] = new
        BY <3>1
      <4> QED BY <4>1, <4>2
    <3> QED BY <2>3, <3>2 DEF Elsewhere
  <2> QED BY <2>1, <2>4, <2>5
<1>6. ASSUME NEW c \in Clients, EndDepreciation(c) PROVE Elsewhere
  BY <1>6, RequestElsewhere DEF EndDepreciation
<1>7. ASSUME NEW c \in Clients, VoidAsset(c) PROVE Elsewhere
  <2>1. {<<"acquired", at[c].doc>>} \cap PayrollSources = {}
    BY DEF PayrollSources
  <2> QED BY <1>7, <2>1, VoidElsewhere, RequestElsewhere DEF VoidAsset
<1> QED BY <1>1, <1>2, <1>3, <1>4, <1>5, <1>6, <1>7 DEF FixedAssetsNext

-----------------------------------------------------------------------------
(* What the steps of payroll do to its runs *)

LEMMA BecomesKeeps ==
  ASSUME RunsInv, NEW r \in Runs, NEW row \in Sheet,
         row.active <=> row.status \in Live,
         row.active => payroll[r].active \/ SlotFree,
         payroll' = [payroll EXCEPT ![r] = row]
  PROVE  payroll' \in [Runs -> Sheet] /\ SlotHolds'
<1>1. payroll' \in [Runs -> Sheet]
  BY DEF RunsInv
<1>2. \A s \in Runs : payroll'[s] = IF s = r THEN row ELSE payroll[s]
  BY DEF RunsInv
<1>3. \A s \in Runs : payroll'[s].active <=> payroll'[s].status \in Live
  BY <1>2 DEF RunsInv, SlotHolds
<1>4. ASSUME NEW s \in Runs, NEW u \in Runs, payroll'[s].active, payroll'[u].active
      PROVE  s = u
  BY <1>2, <1>4 DEF RunsInv, SlotHolds, SlotFree
<1> QED BY <1>1, <1>3, <1>4 DEF SlotHolds

\* A request about runs that has read, or is done.
LEMMA RequestsKeep ==
  ASSUME RequestsHold, NEW c \in Clients,
         \/ at' = at
         \/ Done(c)
         \/ \E r \in Runs : Reads(c, "removeRun", r, 0, {})
         \/ \E r \in Runs, pay \in Payslips : Reads(c, "createRun", r, 0, {pay})
  PROVE  RequestsHold'
<1>1. CASE at' = at
  BY <1>1 DEF RequestsHold
<1>2. CASE Done(c)
  BY <1>2 DEF RequestsHold, Done, Idle
<1>3. ASSUME NEW r \in Runs, NEW op \in {"removeRun", "createRun"}, NEW due \in SUBSET Payslips, Reads(c, op, r, 0, due)
      PROVE  RequestsHold'
  <2>1. \A e \in Clients : at'[e] = IF e = c THEN [op |-> op, doc |-> r, amount |-> 0, due |-> due] ELSE at[e]
    BY <1>3 DEF RequestsHold, Reads
  <2>2. at' = [e \in Clients |-> at'[e]]
    BY <1>3 DEF RequestsHold, Reads
  <2> QED BY <2>1, <2>2 DEF RequestsHold
<1>4. CASE \/ \E r \in Runs : Reads(c, "removeRun", r, 0, {})
           \/ \E r \in Runs, pay \in Payslips : Reads(c, "createRun", r, 0, {pay})
  <2>1. {} \in SUBSET Payslips /\ \A pay \in Payslips : {pay} \in SUBSET Payslips
    OBVIOUS
  <2> QED BY <1>3, <1>4, <2>1
<1> QED BY <1>1, <1>2, <1>4

\* The new row of a run whose status changes.
LEMMA RowWith ==
  ASSUME NEW row \in Sheet, NEW status \in Live \cup {"VOID"}
  PROVE  /\ [row EXCEPT !.status = status] \in Sheet
         /\ [row EXCEPT !.status = status].status = status
         /\ [row EXCEPT !.status = status].active = row.active
         /\ [row EXCEPT !.status = "VOID", !.active = FALSE] \in Sheet
         /\ [row EXCEPT !.status = "VOID", !.active = FALSE].status = "VOID"
         /\ [row EXCEPT !.status = "VOID", !.active = FALSE].active = FALSE
BY DEF Sheet

LEMMA PayrollKeepsRuns ==
  ASSUME RunsInv, PayrollNext
  PROVE  RunsInv'
<1>1. ASSUME NEW r \in Runs, PostRun(r) \/ PayRun(r) PROVE RunsInv'
  <2>1. PICK status \in {"POSTED", "PAID"} : payroll' = [payroll EXCEPT ![r] = [payroll[r] EXCEPT !.status = status]]
    BY <1>1 DEF PostRun, PayRun
  <2>2. payroll[r] \in Sheet /\ payroll[r].active /\ payroll[r].status \in Live /\ status \in Live
    BY <1>1 DEF PostRun, PayRun, RunsInv, SlotHolds, Live
  <2> DEFINE row == [payroll[r] EXCEPT !.status = status]
  <2>3. row \in Sheet /\ row.status = status /\ row.active = payroll[r].active
    <3>1. status \in Live \cup {"VOID"}
      BY <2>2
    <3>2. payroll[r] \in Sheet
      BY <2>2
    <3> QED BY <3>1, <3>2, RowWith
  <2> HIDE DEF row
  <2>6. payroll' \in [Runs -> Sheet] /\ SlotHolds'
    <3>1. payroll' = [payroll EXCEPT ![r] = row]
      BY <2>1 DEF row
    <3> QED BY <2>2, <2>3, <3>1, BecomesKeeps
  <2>4. at' = at
    BY <1>1 DEF PostRun, PayRun, AtOnce
  <2>5. RequestsHold'
    BY <2>4 DEF RunsInv, RequestsHold
  <2> QED BY <2>6, <2>5 DEF RunsInv
<1>2. ASSUME NEW r \in Runs, VoidRun(r) PROVE RunsInv'
  <2>1. payroll' = [payroll EXCEPT ![r] = [payroll[r] EXCEPT !.status = "VOID", !.active = FALSE]]
    BY <1>2 DEF VoidRun
  <2>2. payroll[r] \in Sheet /\ "VOID" \notin Live
    BY DEF RunsInv, Live
  <2>3. payroll' \in [Runs -> Sheet] /\ SlotHolds'
    BY <2>1, <2>2, RowWith, BecomesKeeps
  <2>4. at' = at
    BY <1>2 DEF VoidRun, AtOnce
  <2>5. RequestsHold'
    BY <2>4 DEF RunsInv, RequestsHold
  <2> QED BY <2>3, <2>5 DEF RunsInv
<1>3. ASSUME NEW c \in Clients, NEW r \in Runs,
             ReadToRemoveRun(c, r) \/ \E pay \in Payslips : ReadToCreateRun(c, r, pay)
      PROVE  RunsInv'
  <2>1. payroll' = payroll
    BY <1>3 DEF ReadToRemoveRun, ReadToCreateRun
  <2>2. \/ Reads(c, "removeRun", r, 0, {})
        \/ \E pay \in Payslips : Reads(c, "createRun", r, 0, {pay})
    BY <1>3 DEF ReadToRemoveRun, ReadToCreateRun
  <2>3. RequestsHold'
    BY <2>2, RequestsKeep DEF RunsInv
  <2> QED BY <2>1, <2>3 DEF RunsInv, SlotHolds
<1>4. ASSUME NEW c \in Clients, CreateRun(c) PROVE RunsInv'
  <2>1. RequestsHold' /\ at[c].op = "createRun" /\ at[c].doc \in Runs /\ at[c].due \subseteq Payslips
    BY <1>4, RequestsKeep DEF CreateRun, Writing, RunsInv, RequestsHold
  <2>2. CASE payroll' = payroll
    BY <2>1, <2>2 DEF RunsInv, SlotHolds
  <2>3. CASE SlotFree /\ \E pay \in at[c].due :
               payroll' = [payroll EXCEPT ![at[c].doc] = [status |-> "DRAFT", active |-> TRUE, pay |-> pay]]
    <3>1. PICK pay \in at[c].due :
            payroll' = [payroll EXCEPT ![at[c].doc] = [status |-> "DRAFT", active |-> TRUE, pay |-> pay]]
      BY <2>3
    <3>2. [status |-> "DRAFT", active |-> TRUE, pay |-> pay] \in Sheet
      BY <2>1 DEF Sheet, Live
    <3> QED BY <2>1, <2>3, <3>1, <3>2, BecomesKeeps DEF RunsInv, Live
  <2> QED BY <1>4, <2>2, <2>3 DEF CreateRun
<1>5. ASSUME NEW c \in Clients, RemoveRun(c) PROVE RunsInv'
  <2>1. RequestsHold' /\ at[c].doc \in Runs
    BY <1>5, RequestsKeep DEF RemoveRun, Writing, RunsInv, RequestsHold
  <2>2. CASE payroll' = payroll
    BY <2>1, <2>2 DEF RunsInv, SlotHolds
  <2>3. CASE payroll' = [payroll EXCEPT ![at[c].doc] = [status |-> "DELETED", active |-> FALSE, pay |-> None]]
    <3>1. [status |-> "DELETED", active |-> FALSE, pay |-> None] \in Sheet
      BY DEF Sheet
    <3> QED BY <2>1, <2>3, <3>1, BecomesKeeps DEF RunsInv, Live
  <2> QED BY <1>5, <2>2, <2>3 DEF RemoveRun
<1> QED BY <1>1, <1>2, <1>3, <1>4, <1>5 DEF PayrollNext

-----------------------------------------------------------------------------
(* What the steps of payroll do to the ledger *)

\* Each request leaves the runs that exist and their entries in step.
LEMMA PayrollKeepsLedger ==
  ASSUME RunsInv, PayrollMatchesLedger, PayrollNext
  PROVE  PayrollMatchesLedger'
<1>1. ASSUME NEW r \in Runs, PostRun(r) PROVE PayrollMatchesLedger'
  <2>1. DOMAIN posted' = DOMAIN posted \cup {<<"payroll", r>>}
    BY <1>1 DEF PostRun, Post
  <2>2. \A s \in Runs : payroll'[s].status = IF s = r THEN "POSTED" ELSE payroll[s].status
    BY <1>1 DEF PostRun, RunsInv, Sheet
  <2>3. ASSUME NEW s \in Runs
        PROVE  /\ <<"payroll", s>> \in DOMAIN posted' <=> s = r \/ <<"payroll", s>> \in DOMAIN posted
               /\ <<"payrollPaid", s>> \in DOMAIN posted' <=> <<"payrollPaid", s>> \in DOMAIN posted
    BY <2>1
  <2>4. payroll[r].status = "DRAFT"
    BY <1>1 DEF PostRun
  <2> QED BY <2>2, <2>3, <2>4 DEF PayrollMatchesLedger
<1>2. ASSUME NEW r \in Runs, PayRun(r) PROVE PayrollMatchesLedger'
  <2>1. DOMAIN posted' = DOMAIN posted \cup {<<"payrollPaid", r>>}
    BY <1>2 DEF PayRun, Post
  <2>2. \A s \in Runs : payroll'[s].status = IF s = r THEN "PAID" ELSE payroll[s].status
    BY <1>2 DEF PayRun, RunsInv, Sheet
  <2> QED BY <1>2, <2>1, <2>2 DEF PayRun, PayrollMatchesLedger
<1>3. ASSUME NEW r \in Runs, VoidRun(r) PROVE PayrollMatchesLedger'
  <2>1. DOMAIN posted' = DOMAIN posted \ {<<"payroll", r>>, <<"payrollPaid", r>>}
    BY <1>3 DEF VoidRun, VoidAll, SourcesOfRun
  <2>2. \A s \in Runs : payroll'[s].status = IF s = r THEN "VOID" ELSE payroll[s].status
    BY <1>3 DEF VoidRun, RunsInv, Sheet
  <2>3. ASSUME NEW s \in Runs
        PROVE  /\ <<"payroll", s>> \in DOMAIN posted' <=> s # r /\ <<"payroll", s>> \in DOMAIN posted
               /\ <<"payrollPaid", s>> \in DOMAIN posted' <=> s # r /\ <<"payrollPaid", s>> \in DOMAIN posted
    BY <2>1
  <2> QED BY <2>2, <2>3 DEF PayrollMatchesLedger
<1>4. ASSUME NEW c \in Clients, NEW r \in Runs,
             ReadToRemoveRun(c, r) \/ \E pay \in Payslips : ReadToCreateRun(c, r, pay)
      PROVE  PayrollMatchesLedger'
  BY <1>4 DEF ReadToRemoveRun, ReadToCreateRun, PayrollMatchesLedger
<1>5. ASSUME NEW c \in Clients, CreateRun(c) PROVE PayrollMatchesLedger'
  <2>1. posted' = posted /\ at[c].doc \in Runs
    BY <1>5 DEF CreateRun, Writing, RunsInv, RequestsHold
  <2>2. \A s \in Runs : \/ payroll'[s].status = payroll[s].status
                        \/ payroll[s].status = "NONE" /\ payroll'[s].status = "DRAFT"
    <3>1. CASE payroll' = payroll
      BY <3>1
    <3>2. CASE /\ payroll[at[c].doc].status = "NONE"
               /\ \E pay \in at[c].due :
                    payroll' = [payroll EXCEPT ![at[c].doc] = [status |-> "DRAFT", active |-> TRUE, pay |-> pay]]
      BY <2>1, <3>2 DEF RunsInv
    <3> QED BY <1>5, <3>1, <3>2 DEF CreateRun
  <2> QED BY <2>1, <2>2 DEF PayrollMatchesLedger
<1>6. ASSUME NEW c \in Clients, RemoveRun(c) PROVE PayrollMatchesLedger'
  <2>1. posted' = posted /\ at[c].doc \in Runs
    BY <1>6 DEF RemoveRun, Writing, RunsInv, RequestsHold
  \* A run is left as it is or deleted, and a deleted one owes no entries.
  <2>2. \A s \in Runs : payroll'[s].status = payroll[s].status \/ payroll'[s].status = "DELETED"
    <3>1. CASE payroll' = payroll
      BY <3>1
    <3>2. CASE payroll' = [payroll EXCEPT ![at[c].doc] = [status |-> "DELETED", active |-> FALSE, pay |-> None]]
      BY <2>1, <3>2 DEF RunsInv
    <3> QED BY <1>6, <3>1, <3>2 DEF RemoveRun
  <2> QED BY <2>1, <2>2 DEF PayrollMatchesLedger
<1> QED BY <1>1, <1>2, <1>3, <1>4, <1>5, <1>6 DEF PayrollNext

-----------------------------------------------------------------------------
(* Depreciation: amounts *)

\* round2() is half a cent off at the most.
LEMMA RoundedToNearest ==
  ASSUME NEW n \in Int, NEW d \in Nat \ {0}
  PROVE  /\ Rounded(n, d) \in Int
         /\ 2 * (Rounded(n, d) * d - n) <= d
         /\ 2 * (n - Rounded(n, d) * d) <= d
<1> DEFINE q == Rounded(n, d)
<1>1. q \in Int /\ (2 * d) * q <= 2 * n + d /\ 2 * n + d < (2 * d) * q + 2 * d
  BY DEF Rounded
<1>2. (2 * d) * q = 2 * (q * d)
  BY <1>1
<1> HIDE DEF q
<1>3. 2 * (q * d - n) <= d /\ 2 * (n - q * d) <= d
  BY <1>1, <1>2
<1> QED BY <1>1, <1>3 DEF q

\* What was charged is that of an age, but for half a cent for each charge.
KeepsPace(base, life, acc, age, charges) ==
  LET off == acc * life - base * Smaller(life, age)
  IN  acc <= base /\ 2 * Larger(off, -off) <= life * charges

\* Charging so many months' worth, or what remains, keeps pace.
LEMMA ChargeKeepsPace ==
  ASSUME NEW base \in Nat, NEW life \in Nat \ {0}, NEW acc \in Nat, NEW age \in Nat,
         NEW n \in Nat \ {0}, NEW charges \in Nat, KeepsPace(base, life, acc, age, charges),
         NEW amount, amount = Smaller(Rounded(base * n, life), base - acc), amount > 0
  PROVE  amount \in Nat /\ KeepsPace(base, life, acc + amount, age + n, charges + 1)
<1> DEFINE off == acc * life - base * Smaller(life, age)
           new == (acc + amount) * life - base * Smaller(life, age + n)
<1>a. acc <= base /\ 2 * Larger(off, -off) <= life * charges
  BY DEF KeepsPace
<1> SUFFICES amount \in Nat /\ acc + amount <= base /\ 2 * Larger(new, -new) <= life * (charges + 1)
  BY DEF KeepsPace
<1>0. base * n \in Int /\ life * charges \in Int /\ life * (charges + 1) = life * charges + life
  OBVIOUS
<1> DEFINE r == Rounded(base * n, life)
           bn == base * n
           rl == r * life
<1>1. r \in Int /\ rl \in Int /\ 2 * (rl - bn) <= life /\ 2 * (bn - rl) <= life
  BY <1>0, RoundedToNearest
<1>2. amount \in Nat /\ acc + amount <= base /\ amount <= r /\ (amount = r \/ acc + amount = base)
  BY <1>1, <1>a DEF Smaller
<1> HIDE DEF r
<1> DEFINE al == acc * life
           ml == amount * life
           bl == base * life
           ba == base * age
<1>3. al \in Int /\ ml \in Int /\ bl \in Int /\ ba \in Int /\ bn \in Int
  BY <1>2
<1>4. (acc + amount) * life = al + ml /\ base * (age + n) = ba + bn
  BY <1>2
<1>5. ml <= rl /\ (amount = r => ml = rl)
  BY <1>1, <1>2
<1>6. al + ml <= bl /\ (acc + amount = base => al + ml = bl) /\ al <= bl /\ 0 <= ml
  BY <1>a, <1>2, <1>4
<1>7. (age <= life => ba <= bl) /\ (life <= age => bl <= ba)
      /\ (age + n <= life => ba + bn <= bl) /\ (life <= age + n => bl <= ba + bn)
  BY <1>4
<1>8. off = al - (IF life < age THEN bl ELSE ba) /\ new = al + ml - (IF life < age + n THEN bl ELSE ba + bn)
  <2>1. off = al - (IF life < age THEN bl ELSE ba)
    <3>1. CASE life < age
      BY <3>1 DEF Smaller
    <3>2. CASE ~ (life < age)
      BY <3>2 DEF Smaller
    <3> QED BY <3>1, <3>2
  <2>2. new = al + ml - (IF life < age + n THEN bl ELSE ba + bn)
    <3>1. CASE life < age + n
      <4>1. new = (acc + amount) * life - bl
        BY <3>1 DEF Smaller
      <4> HIDE DEF al, ml, bl, ba, bn
      <4> QED BY <3>1, <4>1, <1>2, <1>3, <1>4
    <3>2. CASE ~ (life < age + n)
      <4>1. new = (acc + amount) * life - base * (age + n)
        BY <3>2 DEF Smaller
      <4> HIDE DEF al, ml, bl, ba, bn
      <4> QED BY <3>2, <4>1, <1>2, <1>3, <1>4
    <3> QED BY <3>1, <3>2
  <2> QED BY <2>1, <2>2
<1> DEFINE lc == life * charges
<1>9. -lc <= 2 * off /\ 2 * off <= lc /\ lc \in Int
  BY <1>a, <1>8, <1>3 DEF Larger
<1>10. life < age => life < age + n
  OBVIOUS
<1> HIDE DEF al, ml, bl, ba, bn, rl, lc, off, new
<1>11. -(lc + life) <= 2 * new /\ 2 * new <= lc + life
  <2>1. CASE ml = rl
    BY <2>1, <1>1, <1>3, <1>6, <1>7, <1>8, <1>9, <1>10
  <2>2. CASE al + ml = bl
    BY <2>2, <1>1, <1>3, <1>5, <1>6, <1>7, <1>8, <1>9, <1>10
  <2> QED BY <2>1, <2>2, <1>2, <1>5, <1>6
<1>12. 2 * Larger(new, -new) <= lc + life
  BY <1>3, <1>8, <1>9, <1>11 DEF Larger
<1> QED BY <1>0, <1>2, <1>12 DEF lc

-----------------------------------------------------------------------------
(* Depreciation: dates *)

\* The whole months of an asset's age.
Age(a, date) == WholeMonthsBetween(Terms[a].acquired, date)

\* A date that depreciation has come to: the day of the month on which the
\* asset was acquired, or one of the days that ran over a shorter month.
OnSchedule(a, date) ==
  /\ date \in Nat \X Nat
  /\ \/ date[2] = Terms[a].acquired[2] /\ Terms[a].acquired[1] <= date[1]
     \/ /\ 1 <= date[2] /\ date[2] < Terms[a].acquired[2] /\ Terms[a].acquired[1] < date[1]
        /\ \A m \in Months : date[2] <= DaysIn[m]

\* On schedule, the age is a difference of months.
LEMMA AgeOnSchedule ==
  ASSUME NEW a \in Assets, NEW date, OnSchedule(a, date)
  PROVE  /\ Age(a, date) \in Nat
         /\ Age(a, date) = date[1] - Terms[a].acquired[1] - (IF date[2] < Terms[a].acquired[2] THEN 1 ELSE 0)
<1>1. Terms[a].acquired[1] \in Nat /\ Terms[a].acquired[2] \in Nat
  BY AssetsAssumption, CalendarAssumption DEF Dates, Months
<1> QED BY <1>1 DEF OnSchedule, Age, WholeMonthsBetween, Before, Larger

\* What addMonths() adds, wholeMonthsBetween() counts, and the next date is on
\* schedule again.
LEMMA AddMonthsKeepsSchedule ==
  ASSUME NEW a \in Assets, NEW from, OnSchedule(a, from), NEW date \in Dates,
         NEW n, n = WholeMonthsBetween(from, date), n > 0
  PROVE  /\ n \in Nat
         /\ OnSchedule(a, AddMonths(from, n))
         /\ Age(a, AddMonths(from, n)) = Age(a, from) + n
<1> DEFINE acquired == Terms[a].acquired
<1>1. /\ acquired[1] \in Months /\ acquired[2] \in Nat /\ acquired[2] <= DaysIn[acquired[1]]
      /\ date[1] \in Months /\ date[2] \in Nat
  BY AssetsAssumption DEF Dates
<1>2. Months = 1..Len(DaysIn) /\ Len(DaysIn) \in Nat /\ \A k \in Months : DaysIn[k] \in Nat \ {0}
  BY CalendarAssumption DEF Months
<1>3. from[1] \in Nat /\ from[2] \in Nat /\ acquired[1] \in Nat /\ date[1] \in Nat
  BY <1>1, <1>2 DEF OnSchedule
<1>9. Age(a, from) = from[1] - acquired[1] - (IF from[2] < acquired[2] THEN 1 ELSE 0)
  BY AgeOnSchedule
<1> DEFINE m == from[1] + n
<1>4. n \in Nat /\ m <= date[1] /\ m \in Months
  <2>1. n \in Nat /\ n <= date[1] - from[1]
    BY <1>1, <1>2, <1>3 DEF WholeMonthsBetween, Before, Larger
  <2>2. acquired[1] <= from[1]
    BY <1>1, <1>2, <1>3 DEF OnSchedule
  <2> QED BY <2>1, <2>2, <1>1, <1>2, <1>3
<1>5. DaysIn[m] \in Nat \ {0}
  BY <1>2, <1>4
<1> DEFINE next == AddMonths(from, n)
<1>6. CASE from[2] <= DaysIn[m]
  <2>1. next = <<m, from[2]>>
    BY <1>6 DEF AddMonths
  <2>2. next \in Nat \X Nat /\ next[1] = from[1] + n /\ next[2] = from[2]
    BY <2>1, <1>3, <1>4
  <2> HIDE DEF next
  <2>3. OnSchedule(a, next)
    BY <2>2, <1>1, <1>2, <1>3, <1>4 DEF OnSchedule
  <2>4. Age(a, next) = Age(a, from) + n
    <3>1. Age(a, next) = next[1] - acquired[1] - (IF next[2] < acquired[2] THEN 1 ELSE 0)
      BY <2>3, AgeOnSchedule
    <3> HIDE DEF acquired
    <3> QED BY <2>2, <3>1, <1>1, <1>3, <1>4, <1>9
  <2> QED BY <1>4, <2>3, <2>4 DEF next
<1>7. CASE DaysIn[m] < from[2]
  <2>1. next = <<m + 1, from[2] - DaysIn[m]>>
    BY <1>7, <1>3, <1>5 DEF AddMonths
  <2>2. from[2] = acquired[2] /\ acquired[1] <= from[1]
    BY <1>3, <1>4, <1>5, <1>7 DEF OnSchedule
  <2>3. next \in Nat \X Nat /\ next[1] = from[1] + n + 1 /\ next[2] = acquired[2] - DaysIn[m]
    BY <2>1, <2>2, <1>3, <1>4, <1>5, <1>7
  <2>4. 1 <= next[2] /\ next[2] < acquired[2] /\ acquired[1] < next[1]
    <3> HIDE DEF acquired, next
    <3> QED BY <2>2, <2>3, <1>1, <1>3, <1>4, <1>5, <1>7
  <2>5. ASSUME NEW k \in Months PROVE next[2] <= DaysIn[k]
    <3>1. DaysIn[acquired[1]] - DaysIn[m] <= DaysIn[k]
      BY <1>1, <1>4, CalendarAssumption
    <3>2. DaysIn[k] \in Nat /\ DaysIn[acquired[1]] \in Nat
      BY <1>1, <1>2
    <3> HIDE DEF acquired, next
    <3> QED BY <3>1, <3>2, <2>3, <1>1, <1>5
  <2> HIDE DEF next
  <2>6. OnSchedule(a, next)
    BY <2>3, <2>4, <2>5 DEF OnSchedule
  <2>7. Age(a, next) = Age(a, from) + n
    <3>1. Age(a, next) = next[1] - acquired[1] - 1
      <4>1. Age(a, next) = next[1] - acquired[1] - (IF next[2] < acquired[2] THEN 1 ELSE 0)
        BY <2>6, AgeOnSchedule
      <4> HIDE DEF acquired
      <4> QED BY <2>4, <4>1
    <3> HIDE DEF acquired
    <3> QED BY <3>1, <2>2, <2>3, <1>1, <1>3, <1>4, <1>9
  <2> QED BY <1>4, <2>6, <2>7 DEF next
<1> QED BY <1>3, <1>5, <1>6, <1>7

-----------------------------------------------------------------------------
(* All steps, for the runs *)

\* What holds of the runs holds at first ...
LEMMA BackOfficeInit == Init => RunsInv /\ PayrollMatchesLedger
<1> SUFFICES ASSUME Init PROVE RunsInv /\ PayrollMatchesLedger
  OBVIOUS
<1>1. payroll \in [Runs -> Sheet] /\ \A r \in Runs : ~ payroll[r].active /\ payroll[r].status = "NONE"
  BY DEF Init, PayrollInit, Sheet
<1>2. DOMAIN posted = {}
  BY DEF Init, LedgerInit
<1>3. RequestsHold /\ \A c \in Clients : at[c].op = "idle"
  BY DEF Init, LedgerInit, RequestsHold, Idle
<1> QED BY <1>1, <1>2, <1>3 DEF RunsInv, SlotHolds, PayrollMatchesLedger, Live

\* ... and is kept by every step.
LEMMA BackOfficeStep ==
  ASSUME RunsInv, [Next]_vars
  PROVE  RunsInv' /\ (PayrollMatchesLedger => PayrollMatchesLedger')
<1>1. CASE ExpensesNext /\ UNCHANGED <<asset, payroll>>
  BY <1>1, ExpensesElsewhere, ElsewhereKeeps
<1>2. CASE FixedAssetsNext /\ UNCHANGED <<expense, payroll>>
  BY <1>2, AssetsElsewhere, ElsewhereKeeps
<1>3. CASE PayrollNext
  BY <1>3, PayrollKeepsRuns, PayrollKeepsLedger
<1>4. CASE UNCHANGED vars
  <2>1. Elsewhere
    BY <1>4 DEF vars, Elsewhere
  <2> QED BY <2>1, ElsewhereKeeps
<1> QED BY <1>1, <1>2, <1>3, <1>4 DEF Next

-----------------------------------------------------------------------------
(* The documents, and what requests have read of them *)

ExpenseRow == [is : {"none", "here", "deleted"}, paid : Nat, payments : Nat]
AssetRow   == [status : {"NONE", "ACTIVE", "DISPOSED", "DELETED"}, paid : Nat, payments : Nat,
               accumulated : Nat, through : Nat \X Nat]

\* What a request carries about expenses and assets.
GoodRequest(request) ==
  /\ request.op \in {"markPaid", "voidExpense"} => request.doc \in ExpenseIds /\ request.amount \in Nat
  /\ request.op = "voidAsset" => request.doc \in Assets

DocumentsHold ==
  /\ expense \in [ExpenseIds -> ExpenseRow]
  /\ asset \in [Assets -> AssetRow]
  /\ \A c \in Clients : GoodRequest(at[c])

\* A charge that is due was computed from a date that depreciation has come
\* to.  If it has not gone further since, it is what is due now: so many
\* months' worth, or what remains.
DueHolds(d) ==
  /\ d.asset \in Assets
  /\ OnSchedule(d.asset, d.from) /\ Age(d.asset, d.from) <= Age(d.asset, asset[d.asset].through)
  /\ d.from = asset[d.asset].through =>
       \E n \in Nat \ {0} :
         /\ OnSchedule(d.asset, d.through) /\ Age(d.asset, d.through) = Age(d.asset, d.from) + n
         /\ d.amount > 0
         /\ d.amount = Smaller(Rounded(Base(d.asset) * n, Terms[d.asset].life),
                               Base(d.asset) - asset[d.asset].accumulated)

ChargesHold ==
  /\ \A a \in Assets : OnSchedule(a, asset[a].through) /\ IsFiniteSet(ChargesOf(a))
  /\ \A c \in Clients : at[c].op = "depreciate" => \A d \in at[c].due : DueHolds(d)
  /\ DepreciationFollowsAge

DocumentsInv == RunsInv /\ DocumentsHold /\ ChargesHold

\* What a request does to those of the others: nothing.
LEMMA RequestReads ==
  ASSUME RequestsHold, NEW c \in Clients, NEW op, NEW doc, NEW amount, NEW due, Reads(c, op, doc, amount, due)
  PROVE  \A e \in Clients : at'[e] = IF e = c THEN [op |-> op, doc |-> doc, amount |-> amount, due |-> due] ELSE at[e]
BY DEF RequestsHold, Reads

LEMMA RequestDone ==
  ASSUME RequestsHold, NEW c \in Clients, Done(c)
  PROVE  \A e \in Clients : at'[e] = IF e = c THEN Idle ELSE at[e]
BY DEF RequestsHold, Done

\* Requests other than to depreciate come with no charges.
LEMMA RequestsGood ==
  ASSUME RunsInv, DocumentsHold, NEW c \in Clients,
         \/ at' = at
         \/ Done(c)
         \/ \E op, doc, amount, due :
              /\ Reads(c, op, doc, amount, due)
              /\ op # "depreciate" /\ GoodRequest([op |-> op, doc |-> doc, amount |-> amount, due |-> due])
  PROVE  /\ \A e \in Clients : GoodRequest(at'[e])
         /\ \A e \in Clients : at'[e].op = "depreciate" => at'[e] = at[e]
<1>1. CASE at' = at
  BY <1>1 DEF DocumentsHold
<1>2. CASE Done(c)
  BY <1>2, RequestDone DEF RunsInv, DocumentsHold, GoodRequest, Idle
<1>3. ASSUME NEW op, NEW doc, NEW amount, NEW due, Reads(c, op, doc, amount, due),
             op # "depreciate", GoodRequest([op |-> op, doc |-> doc, amount |-> amount, due |-> due])
      PROVE  /\ \A e \in Clients : GoodRequest(at'[e])
             /\ \A e \in Clients : at'[e].op = "depreciate" => at'[e] = at[e]
  BY <1>3, RequestReads DEF RunsInv, DocumentsHold
<1> QED BY <1>1, <1>2, <1>3

\* A step that charges nothing.
ChargesNothing ==
  /\ \A a \in Assets : /\ asset'[a].accumulated = asset[a].accumulated
                       /\ asset'[a].through = asset[a].through
                       /\ ChargesOf(a)' = ChargesOf(a)
  /\ \A c \in Clients : at'[c].op = "depreciate" => at[c].op = "depreciate" /\ at'[c].due \subseteq at[c].due

\* Where nothing is charged, what is due and what was charged stay right.
LEMMA ChargesNothingKeeps ==
  ASSUME ChargesHold, ChargesNothing
  PROVE  ChargesHold'
<1>1. ASSUME NEW d, DueHolds(d) PROVE DueHolds(d)'
  BY <1>1 DEF DueHolds, ChargesNothing
<1>2. \A c \in Clients : at'[c].op = "depreciate" => \A d \in at'[c].due : DueHolds(d)'
  BY <1>1 DEF ChargesHold, ChargesNothing
<1>3. DepreciationFollowsAge'
  BY DEF ChargesHold, ChargesNothing, DepreciationFollowsAge
<1>4. \A a \in Assets : OnSchedule(a, asset'[a].through) /\ IsFiniteSet(ChargesOf(a)')
  BY DEF ChargesHold, ChargesNothing
<1> QED BY <1>2, <1>3, <1>4 DEF ChargesHold

\* An entry of another kind is no charge, posted or voided.
LEMMA PostsNoCharge ==
  ASSUME NEW source, NEW lines, Post(source, lines), source[1] # "depreciation"
  PROVE  \A a \in Assets : ChargesOf(a)' = ChargesOf(a)
BY DEF Post, ChargesOf

LEMMA VoidsNoCharge ==
  ASSUME NEW S, VoidAll(S), \A s \in S : s[1] # "depreciation"
  PROVE  \A a \in Assets : ChargesOf(a)' = ChargesOf(a)
BY DEF VoidAll, ChargesOf

\* Expenses and payroll keep the rows, and charge nothing ...
LEMMA ExpensesKeepDocuments ==
  ASSUME DocumentsInv, ExpensesNext, asset' = asset
  PROVE  DocumentsHold' /\ ChargesNothing
<1>0. /\ RunsInv /\ DocumentsHold /\ expense \in [ExpenseIds -> ExpenseRow]
      /\ \A e \in ExpenseIds : expense[e] \in ExpenseRow /\ ExpenseOf[e] \in Nat
  BY ExpensesAssumption DEF DocumentsInv, DocumentsHold
<1>1. ASSUME NEW e \in ExpenseIds, NEW amount \in Nat, PaysExpense(e, amount)
      PROVE  expense' \in [ExpenseIds -> ExpenseRow] /\ \A a \in Assets : ChargesOf(a)' = ChargesOf(a)
  <2>1. Post(<<"expensePayment", e, expense[e].payments + 1>>, ExpensePaymentEntry(amount))
    BY <1>1 DEF PaysExpense
  <2>2. \A a \in Assets : ChargesOf(a)' = ChargesOf(a)
    BY <2>1, PostsNoCharge
  <2>3. expense' = [expense EXCEPT ![e] = [is |-> expense[e].is, paid |-> expense[e].paid + amount,
                                           payments |-> expense[e].payments + 1]]
    BY <1>0, <1>1 DEF PaysExpense, ExpenseRow
  <2>4. [is |-> expense[e].is, paid |-> expense[e].paid + amount, payments |-> expense[e].payments + 1] \in ExpenseRow
    BY <1>0 DEF ExpenseRow
  <2> QED BY <1>0, <2>2, <2>3, <2>4
<1>2. ASSUME NEW c \in Clients,
             expense' \in [ExpenseIds -> ExpenseRow], \A a \in Assets : ChargesOf(a)' = ChargesOf(a),
             \/ at' = at
             \/ Done(c)
             \/ \E op, doc, amount, due :
                  /\ Reads(c, op, doc, amount, due)
                  /\ op # "depreciate" /\ GoodRequest([op |-> op, doc |-> doc, amount |-> amount, due |-> due])
      PROVE  DocumentsHold' /\ ChargesNothing
  BY <1>0, <1>2, RequestsGood DEF DocumentsHold, ChargesNothing
<1>3. ASSUME expense' \in [ExpenseIds -> ExpenseRow], \A a \in Assets : ChargesOf(a)' = ChargesOf(a), at' = at
      PROVE  DocumentsHold' /\ ChargesNothing
  BY <1>0, <1>3 DEF DocumentsHold, ChargesNothing
<1>4. ASSUME NEW e \in ExpenseIds, CreateExpense(e) PROVE DocumentsHold' /\ ChargesNothing
  <2>1. Post(<<"expense", e>>, ExpenseEntry(e))
    BY <1>4 DEF CreateExpense
  <2>2. expense' \in [ExpenseIds -> ExpenseRow]
    BY <1>0, <1>4 DEF CreateExpense, ExpenseRow
  <2> QED BY <1>3, <1>4, <2>1, <2>2, PostsNoCharge DEF CreateExpense, AtOnce
<1>5. ASSUME NEW e \in ExpenseIds, NEW amount \in Instalments, RecordExpensePayment(e, amount)
      PROVE  DocumentsHold' /\ ChargesNothing
  <2>1. amount \in Nat
    BY InstalmentsAssumption
  <2> QED BY <1>1, <1>3, <1>5, <2>1 DEF RecordExpensePayment, AtOnce
<1>6. ASSUME NEW e \in ExpenseIds, NEW c \in Clients, ReadToMarkPaid(c, e) \/ ReadToVoidExpense(c, e)
      PROVE  DocumentsHold' /\ ChargesNothing
  <2>1. /\ expense' = expense /\ posted' = posted
        /\ \E op \in {"markPaid", "voidExpense"}, amount \in Nat : Reads(c, op, e, amount, {})
    <3>1. ReadToMarkPaid(c, e) => Owed(e) \in Nat
      BY <1>0 DEF ReadToMarkPaid, Owed, ExpenseRow
    <3> QED BY <1>6, <3>1 DEF ReadToMarkPaid, ReadToVoidExpense
  <2>2. \A op, amount : amount \in Nat => GoodRequest([op |-> op, doc |-> e, amount |-> amount, due |-> {}])
                                          \/ op = "voidAsset"
    BY DEF GoodRequest
  <2>3. \A a \in Assets : ChargesOf(a)' = ChargesOf(a)
    BY <2>1 DEF ChargesOf
  <2>4. \E op, doc, amount, due :
          /\ Reads(c, op, doc, amount, due)
          /\ op # "depreciate" /\ GoodRequest([op |-> op, doc |-> doc, amount |-> amount, due |-> due])
    BY <2>1, <2>2
  <2> QED BY <1>0, <1>2, <2>1, <2>3, <2>4
<1>7. ASSUME NEW c \in Clients, MarkExpensePaid(c) PROVE DocumentsHold' /\ ChargesNothing
  <2>1. at[c].doc \in ExpenseIds /\ at[c].amount \in Nat
    BY <1>0, <1>7 DEF MarkExpensePaid, Writing, DocumentsHold, GoodRequest
  <2>2. expense' \in [ExpenseIds -> ExpenseRow] /\ \A a \in Assets : ChargesOf(a)' = ChargesOf(a)
    <3>1. CASE UNCHANGED <<posted, expense>>
      BY <1>0, <3>1 DEF ChargesOf
    <3> QED BY <1>1, <1>7, <2>1, <3>1 DEF MarkExpensePaid
  <2> QED BY <1>2, <1>7, <2>2 DEF MarkExpensePaid
<1>8. ASSUME NEW c \in Clients, VoidExpense(c) PROVE DocumentsHold' /\ ChargesNothing
  <2>1. at[c].doc \in ExpenseIds
    BY <1>0, <1>8 DEF VoidExpense, Writing, DocumentsHold, GoodRequest
  <2>2. expense' \in [ExpenseIds -> ExpenseRow] /\ \A a \in Assets : ChargesOf(a)' = ChargesOf(a)
    <3>1. CASE UNCHANGED <<posted, expense>>
      BY <1>0, <3>1 DEF ChargesOf
    <3>2. CASE /\ expense' = [expense EXCEPT ![at[c].doc].is = "deleted"]
               /\ VoidAll({<<"expense", at[c].doc>>})
      <4>1. expense' \in [ExpenseIds -> ExpenseRow]
        BY <1>0, <2>1, <3>2 DEF ExpenseRow
      <4> QED BY <3>2, <4>1, VoidsNoCharge
    <3> QED BY <1>8, <3>1, <3>2 DEF VoidExpense
  <2> QED BY <1>2, <1>8, <2>2 DEF VoidExpense
<1> QED BY <1>4, <1>5, <1>6, <1>7, <1>8 DEF ExpensesNext

LEMMA PayrollKeepsDocuments ==
  ASSUME DocumentsInv, PayrollNext, UNCHANGED <<expense, asset>>
  PROVE  DocumentsHold' /\ ChargesNothing
<1>0. RunsInv /\ DocumentsHold
  BY DEF DocumentsInv
<1>1. ASSUME NEW c \in Clients, \A a \in Assets : ChargesOf(a)' = ChargesOf(a),
             \/ at' = at
             \/ Done(c)
             \/ \E op, doc, amount, due :
                  /\ Reads(c, op, doc, amount, due)
                  /\ op # "depreciate" /\ GoodRequest([op |-> op, doc |-> doc, amount |-> amount, due |-> due])
      PROVE  DocumentsHold' /\ ChargesNothing
  BY <1>0, <1>1, RequestsGood DEF DocumentsHold, ChargesNothing
<1>2. ASSUME NEW r \in Runs, PostRun(r) \/ PayRun(r) \/ VoidRun(r) PROVE DocumentsHold' /\ ChargesNothing
  <2>1. at' = at
    BY <1>2 DEF PostRun, PayRun, VoidRun, AtOnce
  <2>2. \A a \in Assets : ChargesOf(a)' = ChargesOf(a)
    <3>1. CASE PostRun(r)
      BY <3>1, PostsNoCharge DEF PostRun
    <3>2. CASE PayRun(r)
      BY <3>2, PostsNoCharge DEF PayRun
    <3>3. CASE VoidRun(r)
      <4>1. \A s \in SourcesOfRun(r) : s[1] # "depreciation"
        BY DEF SourcesOfRun
      <4> QED BY <3>3, <4>1, VoidsNoCharge DEF VoidRun
    <3> QED BY <1>2, <3>1, <3>2, <3>3
  <2> QED BY <1>0, <2>1, <2>2 DEF DocumentsHold, ChargesNothing
<1>3. ASSUME posted' = posted PROVE \A a \in Assets : ChargesOf(a)' = ChargesOf(a)
  BY <1>3 DEF ChargesOf
<1>4. ASSUME NEW c \in Clients, NEW r \in Runs,
             ReadToRemoveRun(c, r) \/ \E pay \in Payslips : ReadToCreateRun(c, r, pay)
      PROVE  DocumentsHold' /\ ChargesNothing
  <2>1. /\ posted' = posted
        /\ \E op \in {"createRun", "removeRun"} : \E due : Reads(c, op, r, 0, due)
    BY <1>4 DEF ReadToRemoveRun, ReadToCreateRun
  <2>2. \A op \in {"createRun", "removeRun"} : \A due : GoodRequest([op |-> op, doc |-> r, amount |-> 0, due |-> due])
    BY DEF GoodRequest
  <2>3. \E op, doc, amount, due :
          /\ Reads(c, op, doc, amount, due)
          /\ op # "depreciate" /\ GoodRequest([op |-> op, doc |-> doc, amount |-> amount, due |-> due])
    BY <2>1, <2>2
  <2> QED BY <1>1, <1>3, <2>1, <2>3
<1>5. ASSUME NEW c \in Clients, CreateRun(c) \/ RemoveRun(c) PROVE DocumentsHold' /\ ChargesNothing
  BY <1>1, <1>3, <1>5 DEF CreateRun, RemoveRun
<1> QED BY <1>2, <1>4, <1>5 DEF PayrollNext

\* Steps of fixed assets but those of runDepreciation().
LEMMA AssetsKeepDocuments ==
  ASSUME DocumentsInv, expense' = expense,
         \/ \E a \in Assets :
              \/ CreateAsset(a)
              \/ \E amount \in Instalments : RecordAssetPayment(a, amount)
              \/ \E proceeds \in Proceeds : DisposeAsset(a, proceeds)
              \/ \E c \in Clients : ReadToVoidAsset(c, a)
         \/ \E c \in Clients : EndDepreciation(c) \/ VoidAsset(c)
  PROVE  DocumentsHold' /\ ChargesNothing
<1>0. /\ RunsInv /\ DocumentsHold /\ asset \in [Assets -> AssetRow]
      /\ \A a \in Assets : asset[a] \in AssetRow
  BY DEF DocumentsInv, DocumentsHold
<1> DEFINE RowsStay == \A a \in Assets : /\ asset'[a].accumulated = asset[a].accumulated
                                         /\ asset'[a].through = asset[a].through
<1>1. ASSUME asset' \in [Assets -> AssetRow], RowsStay, \A a \in Assets : ChargesOf(a)' = ChargesOf(a), at' = at
      PROVE  DocumentsHold' /\ ChargesNothing
  BY <1>0, <1>1 DEF DocumentsHold, ChargesNothing
<1>2. ASSUME NEW c \in Clients,
             asset' \in [Assets -> AssetRow], RowsStay, \A a \in Assets : ChargesOf(a)' = ChargesOf(a),
             \/ Done(c)
             \/ \E op, doc, amount, due :
                  /\ Reads(c, op, doc, amount, due)
                  /\ op # "depreciate" /\ GoodRequest([op |-> op, doc |-> doc, amount |-> amount, due |-> due])
      PROVE  DocumentsHold' /\ ChargesNothing
  BY <1>0, <1>2, RequestsGood DEF DocumentsHold, ChargesNothing
<1>3. ASSUME NEW a \in Assets, NEW status \in {"ACTIVE", "DISPOSED", "DELETED"},
             asset' = [asset EXCEPT ![a].status = status]
      PROVE  asset' \in [Assets -> AssetRow] /\ RowsStay
  <2> DEFINE new == [asset[a] EXCEPT !.status = status]
  <2>1. new \in AssetRow /\ new.accumulated = asset[a].accumulated /\ new.through = asset[a].through
    BY <1>0 DEF AssetRow
  <2>2. asset' = [asset EXCEPT ![a] = new]
    BY <1>3
  <2> HIDE DEF new
  <2> QED BY <1>0, <2>1, <2>2
<1>4. ASSUME NEW a \in Assets, CreateAsset(a) PROVE DocumentsHold' /\ ChargesNothing
  <2>1. Post(<<"acquired", a>>, AcquisitionEntry(a)) /\ asset' = [asset EXCEPT ![a].status = "ACTIVE"] /\ at' = at
    BY <1>4 DEF CreateAsset, AtOnce
  <2> QED BY <1>1, <1>3, <2>1, PostsNoCharge
<1>5. ASSUME NEW a \in Assets, NEW proceeds \in Proceeds, DisposeAsset(a, proceeds)
      PROVE  DocumentsHold' /\ ChargesNothing
  <2>1. /\ Post(<<"disposal", a>>, DisposalEntry(a, proceeds))
        /\ asset' = [asset EXCEPT ![a].status = "DISPOSED"] /\ at' = at
    BY <1>5 DEF DisposeAsset, AtOnce
  <2> QED BY <1>1, <1>3, <2>1, PostsNoCharge
<1>6. ASSUME NEW a \in Assets, NEW amount \in Instalments, RecordAssetPayment(a, amount)
      PROVE  DocumentsHold' /\ ChargesNothing
  <2>1. /\ Post(<<"assetPayment", a, asset[a].payments + 1>>, AssetPaymentEntry(amount)) /\ at' = at
        /\ asset' = [asset EXCEPT ![a].paid = @ + amount, ![a].payments = @ + 1]
    BY <1>6 DEF RecordAssetPayment, AtOnce
  <2> DEFINE new == [status |-> asset[a].status, paid |-> asset[a].paid + amount, payments |-> asset[a].payments + 1,
                     accumulated |-> asset[a].accumulated, through |-> asset[a].through]
  <2>2. new \in AssetRow
    BY <1>0, InstalmentsAssumption DEF AssetRow
  <2>3. asset' = [asset EXCEPT ![a] = new]
    BY <1>0, <2>1 DEF AssetRow
  <2>4. new.accumulated = asset[a].accumulated /\ new.through = asset[a].through
    OBVIOUS
  <2> HIDE DEF new
  <2>5. asset' \in [Assets -> AssetRow] /\ RowsStay
    BY <1>0, <2>2, <2>3, <2>4
  <2> QED BY <1>1, <2>1, <2>5, PostsNoCharge
<1>7. ASSUME posted' = posted PROVE \A a \in Assets : ChargesOf(a)' = ChargesOf(a)
  BY <1>7 DEF ChargesOf
<1>8. ASSUME NEW a \in Assets, NEW c \in Clients, ReadToVoidAsset(c, a) PROVE DocumentsHold' /\ ChargesNothing
  <2>1. posted' = posted /\ asset' = asset /\ Reads(c, "voidAsset", a, 0, {})
    BY <1>8 DEF ReadToVoidAsset
  <2>2. GoodRequest([op |-> "voidAsset", doc |-> a, amount |-> 0, due |-> {}])
    BY DEF GoodRequest
  <2> QED BY <1>0, <1>2, <1>7, <2>1, <2>2
<1>9. ASSUME NEW c \in Clients, EndDepreciation(c) PROVE DocumentsHold' /\ ChargesNothing
  <2>1. posted' = posted /\ asset' = asset /\ Done(c)
    BY <1>9 DEF EndDepreciation
  <2> QED BY <1>0, <1>2, <1>7, <2>1
<1>10. ASSUME NEW c \in Clients, VoidAsset(c) PROVE DocumentsHold' /\ ChargesNothing
  <2>1. at[c].doc \in Assets
    BY <1>0, <1>10 DEF VoidAsset, Writing, DocumentsHold, GoodRequest
  <2>2. CASE UNCHANGED <<posted, asset>>
    BY <1>0, <1>2, <1>7, <1>10, <2>2 DEF VoidAsset
  <2>3. CASE asset' = [asset EXCEPT ![at[c].doc].status = "DELETED"] /\ VoidAll({<<"acquired", at[c].doc>>})
    <3>1. asset' \in [Assets -> AssetRow] /\ RowsStay
      BY <1>3, <2>1, <2>3
    <3>2. \A a \in Assets : ChargesOf(a)' = ChargesOf(a)
      BY <2>3, VoidsNoCharge
    <3> QED BY <1>2, <1>10, <3>1, <3>2 DEF VoidAsset
  <2> QED BY <1>10, <2>2, <2>3 DEF VoidAsset
<1> QED BY <1>4, <1>5, <1>6, <1>8, <1>9, <1>10

-----------------------------------------------------------------------------
(* What runDepreciation() reads and writes *)

\* What is due is so many months' worth of it.
LEMMA WhatIsDue ==
  ASSUME DocumentsInv, NEW a \in Assets, NEW date \in ThroughDates, Due(a, date).amount > 0
  PROVE  DueHolds(Due(a, date))
<1> DEFINE d       == Due(a, date)
           elapsed == WholeMonthsBetween(asset[a].through, date)
<1>1. /\ d.asset = a /\ d.from = asset[a].through /\ d.through = AddMonths(asset[a].through, elapsed)
      /\ d.amount = Smaller(Rounded(Base(a) * elapsed, Terms[a].life), Base(a) - asset[a].accumulated)
  BY DEF Due
<1>2. /\ OnSchedule(a, asset[a].through) /\ date \in Dates /\ asset[a] \in AssetRow
      /\ Base(a) \in Nat /\ Terms[a].life \in Nat \ {0}
  BY AssetsAssumption DEF DocumentsInv, ChargesHold, DocumentsHold, Base
<1>3. elapsed \in Nat
  <2>1. date[1] \in Nat /\ date[2] \in Nat
    BY <1>2, CalendarAssumption DEF Dates, Months
  <2>2. asset[a].through[1] \in Nat /\ asset[a].through[2] \in Nat
    BY <1>2 DEF OnSchedule
  <2> QED BY <2>1, <2>2 DEF WholeMonthsBetween, Larger
<1>4. elapsed > 0
  <2>1. SUFFICES ASSUME elapsed = 0 PROVE FALSE
    BY <1>3
  <2>2. Base(a) * elapsed = 0
    BY <1>2, <2>1
  <2>3. Rounded(0, Terms[a].life) = 0
    <3>1. /\ Rounded(0, Terms[a].life) \in Int
          /\ 2 * (Rounded(0, Terms[a].life) * Terms[a].life - 0) <= Terms[a].life
          /\ 2 * (0 - Rounded(0, Terms[a].life) * Terms[a].life) <= Terms[a].life
      <4>1. \A n \in Int : /\ Rounded(n, Terms[a].life) \in Int
                           /\ 2 * (Rounded(n, Terms[a].life) * Terms[a].life - n) <= Terms[a].life
                           /\ 2 * (n - Rounded(n, Terms[a].life) * Terms[a].life) <= Terms[a].life
        BY <1>2, RoundedToNearest
      <4> QED BY <4>1
    <3> DEFINE q == Rounded(0, Terms[a].life)
               l == Terms[a].life
    <3>2. q \in Int /\ l \in Nat \ {0} /\ 2 * (q * l) <= l /\ -l <= 2 * (q * l)
      BY <1>2, <3>1
    <3> HIDE DEF q, l
    <3>3. q >= 1 => q * l >= l
      BY <3>2
    <3>4. q <= -1 => q * l <= -l
      BY <3>2
    <3>5. q = 0
      BY <3>2, <3>3, <3>4
    <3> QED BY <3>5 DEF q
  <2>4. Smaller(0, Base(a) - asset[a].accumulated) > 0
    BY <1>1, <2>2, <2>3
  <2> QED BY <2>4, <1>2 DEF Smaller, AssetRow
<1>5. OnSchedule(a, d.through) /\ Age(a, d.through) = Age(a, d.from) + elapsed
  BY <1>1, <1>2, <1>4, AddMonthsKeepsSchedule
<1>6. Age(a, d.from) <= Age(a, asset[a].through)
  BY <1>1, <1>2, AgeOnSchedule
<1> HIDE DEF d, elapsed
<1>7. d.amount > 0
  BY DEF d
<1> QED BY <1>1, <1>2, <1>3, <1>4, <1>5, <1>6, <1>7 DEF DueHolds, d

\* What a run of depreciation reads as due is due ...
LEMMA ReadToDepreciateKeeps ==
  ASSUME DocumentsInv, NEW c \in Clients, NEW date \in ThroughDates, ReadToDepreciate(c, date), expense' = expense
  PROVE  DocumentsHold' /\ ChargesHold'
<1> DEFINE due == {d \in {Due(a, date) : a \in {b \in Assets : asset[b].status = "ACTIVE"
                                                               /\ ~ Before(date, Terms[b].acquired)}} : d.amount > 0}
<1>1. Reads(c, "depreciate", None, 0, due) /\ posted' = posted /\ asset' = asset
  BY DEF ReadToDepreciate
<1>2. \A d \in due : DueHolds(d)
  BY WhatIsDue
<1> HIDE DEF due
<1>3. \A e \in Clients : at'[e] = IF e = c THEN [op |-> "depreciate", doc |-> None, amount |-> 0, due |-> due] ELSE at[e]
  BY <1>1, RequestReads DEF DocumentsInv, RunsInv
<1>4. DocumentsHold'
  BY <1>1, <1>3 DEF DocumentsInv, DocumentsHold, GoodRequest
<1>5. \A d : DueHolds(d)' <=> DueHolds(d)
  BY <1>1 DEF DueHolds
<1>6. \A e \in Clients : at'[e].op = "depreciate" => \A d \in at'[e].due : DueHolds(d)'
  BY <1>2, <1>3, <1>5 DEF DocumentsInv, ChargesHold
<1>7. (\A a \in Assets : OnSchedule(a, asset[a].through) /\ IsFiniteSet(ChargesOf(a)))' /\ DepreciationFollowsAge'
  BY <1>1 DEF DocumentsInv, ChargesHold, ChargesOf, DepreciationFollowsAge
<1> QED BY <1>4, <1>6, <1>7 DEF ChargesHold

\* The property, in terms of the lemmas.
LEMMA FollowsAge ==
  DepreciationFollowsAge <=>
    \A a \in Assets : KeepsPace(Base(a), Terms[a].life, asset[a].accumulated, Age(a, asset[a].through),
                                Cardinality(ChargesOf(a)))
BY DEF DepreciationFollowsAge, KeepsPace, Age

\* ... and a charge that is claimed leaves what is due to others undone.
LEMMA DepreciateKeeps ==
  ASSUME DocumentsInv, NEW c \in Clients, Depreciate(c), expense' = expense
  PROVE  DocumentsHold' /\ ChargesHold'
<1>0. /\ RequestsHold /\ asset \in [Assets -> AssetRow] /\ at[c].op = "depreciate"
      /\ at[c] = [op |-> at[c].op, doc |-> at[c].doc, amount |-> at[c].amount, due |-> at[c].due]
      /\ \A a \in Assets : /\ asset[a] \in AssetRow /\ OnSchedule(a, asset[a].through) /\ IsFiniteSet(ChargesOf(a))
                           /\ Base(a) \in Nat /\ Terms[a].life \in Nat \ {0}
      /\ \A e \in Clients : at[e].op = "depreciate" => \A d \in at[e].due : DueHolds(d)
  BY AssetsAssumption DEF DocumentsInv, RunsInv, RequestsHold, DocumentsHold, ChargesHold, Depreciate, Writing, Base
<1>1. PICK d \in at[c].due :
        /\ IF Claimable(d)
           THEN /\ asset' = [asset EXCEPT ![d.asset].accumulated = @ + d.amount, ![d.asset].through = d.through]
                /\ Post(<<"depreciation", d.asset, d.through>>, DepreciationEntry(d.amount))
           ELSE UNCHANGED <<posted, asset>>
        /\ \/ at[c].due = {d} /\ Done(c)
           \/ at[c].due # {d} /\ at' = [at EXCEPT ![c].due = @ \ {d}]
  BY DEF Depreciate
<1>2. /\ \A e \in Clients : GoodRequest(at'[e])
      /\ \A e \in Clients : at'[e].op = "depreciate" => at[e].op = "depreciate" /\ at'[e].due \subseteq at[e].due
  <2>1. CASE Done(c)
    BY <1>0, <2>1, RequestDone DEF DocumentsInv, DocumentsHold, GoodRequest, Idle
  <2>2. CASE at' = [at EXCEPT ![c].due = @ \ {d}]
    <3> DEFINE new == [op |-> "depreciate", doc |-> at[c].doc, amount |-> at[c].amount, due |-> at[c].due \ {d}]
    <3>1. at' = [at EXCEPT ![c] = new]
      <4>1. at' = [at EXCEPT ![c] = [at[c] EXCEPT !.due = at[c].due \ {d}]]
        BY <2>2
      <4>2. [at[c] EXCEPT !.due = at[c].due \ {d}] = new
        <5>1. at[c] = [op |-> "depreciate", doc |-> at[c].doc, amount |-> at[c].amount, due |-> at[c].due]
          BY <1>0
        <5> QED BY <5>1
      <4> QED BY <4>1, <4>2
    <3>2. new.op = "depreciate" /\ new.due \subseteq at[c].due /\ GoodRequest(new)
      BY DEF GoodRequest
    <3> HIDE DEF new
    <3>3. \A e \in Clients : at'[e] = IF e = c THEN new ELSE at[e]
      BY <1>0, <3>1 DEF RequestsHold
    <3> QED BY <1>0, <3>2, <3>3 DEF DocumentsInv, DocumentsHold
  <2> QED BY <1>1, <2>1, <2>2
<1>3. CASE ~ Claimable(d)
  <2>1. posted' = posted /\ asset' = asset
    BY <1>1, <1>3
  <2>2. DocumentsHold'
    BY <1>2, <2>1 DEF DocumentsInv, DocumentsHold
  <2>3. ChargesNothing
    BY <1>2, <2>1 DEF ChargesNothing, ChargesOf
  <2> QED BY <2>2, <2>3, ChargesNothingKeeps DEF DocumentsInv
<1>4. CASE Claimable(d)
  <2> DEFINE a == d.asset
             new == [asset[a] EXCEPT !.accumulated = asset[a].accumulated + d.amount, !.through = d.through]
  <2>1. a \in Assets /\ d.from = asset[a].through /\ DueHolds(d)
    BY <1>0, <1>1, <1>4 DEF Claimable, DueHolds
  <2>2. PICK n \in Nat \ {0} :
          /\ OnSchedule(a, d.through) /\ Age(a, d.through) = Age(a, asset[a].through) + n
          /\ d.amount > 0
          /\ d.amount = Smaller(Rounded(Base(a) * n, Terms[a].life), Base(a) - asset[a].accumulated)
    BY <2>1 DEF DueHolds
  <2> DEFINE charges == Cardinality(ChargesOf(a))
             age     == Age(a, asset[a].through)
  <2>3. asset[a].accumulated \in Nat /\ KeepsPace(Base(a), Terms[a].life, asset[a].accumulated, age, charges)
    BY <1>0, <2>1, FollowsAge DEF DocumentsInv, ChargesHold, AssetRow
  <2>4. charges \in Nat /\ age \in Nat
    BY <1>0, <2>1, FS_CardinalityType, AgeOnSchedule
  <2>5. d.amount \in Nat /\ KeepsPace(Base(a), Terms[a].life, asset[a].accumulated + d.amount, age + n, charges + 1)
    <3>1. Base(a) \in Nat /\ Terms[a].life \in Nat \ {0}
      BY <1>0, <2>1
    <3> HIDE DEF a, charges, age
    <3> QED BY <2>2, <2>3, <2>4, <3>1, ChargeKeepsPace
  <2>6. asset' = [asset EXCEPT ![a] = new]
    BY <1>0, <1>1, <1>4, <2>1
  <2>7. new \in AssetRow /\ new.accumulated = asset[a].accumulated + d.amount /\ new.through = d.through
    <3>1. d.through \in Nat \X Nat /\ asset[a].accumulated + d.amount \in Nat /\ asset[a] \in AssetRow
      BY <1>0, <2>1, <2>2, <2>3, <2>5 DEF OnSchedule
    <3> DEFINE row == asset[a]
               total == asset[a].accumulated + d.amount
               date == d.through
    <3>2. row \in AssetRow /\ total \in Nat /\ date \in Nat \X Nat
      BY <3>1
    <3> HIDE DEF row, total, date
    <3>3. LET charged == [row EXCEPT !.accumulated = total, !.through = date]
          IN  charged \in AssetRow /\ charged.accumulated = total /\ charged.through = date
      BY <3>2 DEF AssetRow
    <3> QED BY <3>3 DEF row, total, date
  <2> HIDE DEF new
  <2>9. \A b \in Assets : asset'[b] = IF b = a THEN new ELSE asset[b]
    BY <1>0, <2>6
  <2>10. DocumentsHold'
    BY <1>0, <1>2, <2>1, <2>6, <2>7 DEF DocumentsInv, DocumentsHold
  <2> DEFINE source == <<"depreciation", a, d.through>>
  <2>11. /\ source \notin DOMAIN posted /\ DOMAIN posted' = DOMAIN posted \cup {source}
    BY <1>1, <1>4 DEF Post
  <2>12. /\ ChargesOf(a)' = ChargesOf(a) \cup {source} /\ source \notin ChargesOf(a)
         /\ \A b \in Assets \ {a} : ChargesOf(b)' = ChargesOf(b)
    <3>1. source[1] = "depreciation" /\ source[2] = a
      OBVIOUS
    <3> HIDE DEF source, a
    <3> QED BY <2>11, <3>1 DEF ChargesOf
  <2>13. IsFiniteSet(ChargesOf(a)') /\ Cardinality(ChargesOf(a)') = charges + 1
    <3>1. IsFiniteSet(ChargesOf(a))
      BY <1>0, <2>1
    <3> HIDE DEF source, a
    <3> QED BY <2>12, <3>1, FS_AddElement
  <2>14. \A b \in Assets : OnSchedule(b, asset'[b].through) /\ IsFiniteSet(ChargesOf(b)')
    BY <1>0, <2>2, <2>7, <2>9, <2>12, <2>13
  <2>15. ASSUME NEW x, DueHolds(x) PROVE DueHolds(x)'
    <3>1. CASE x.asset # a
      <4>1. x.asset \in Assets /\ asset'[x.asset] = asset[x.asset]
        BY <2>9, <2>15, <3>1 DEF DueHolds
      <4> QED BY <2>15, <4>1 DEF DueHolds
    <3>2. CASE x.asset = a
      <4>1. /\ OnSchedule(a, x.from) /\ Age(a, x.from) <= age
        BY <2>15, <3>2 DEF DueHolds
      <4>2. Age(a, x.from) \in Nat
        BY <2>1, <4>1, AgeOnSchedule
      <4>3. Age(a, d.through) = age + n /\ asset'[a].through = d.through
        BY <2>1, <2>2, <2>7, <2>9
      <4>4. Age(a, x.from) <= Age(a, asset'[a].through) /\ x.from # asset'[a].through
        <5> HIDE DEF a, age
        <5> QED BY <2>4, <4>1, <4>2, <4>3
      <4> QED BY <2>1, <3>2, <4>1, <4>4 DEF DueHolds
    <3> QED BY <3>1, <3>2
  <2>16. \A e \in Clients : at'[e].op = "depreciate" => \A x \in at'[e].due : DueHolds(x)'
    BY <1>0, <1>2, <2>15
  <2>17. DepreciationFollowsAge'
    <3>1. \A b \in Assets : KeepsPace(Base(b), Terms[b].life, asset'[b].accumulated, Age(b, asset'[b].through),
                                      Cardinality(ChargesOf(b)'))
      <4>1. \A b \in Assets : KeepsPace(Base(b), Terms[b].life, asset[b].accumulated, Age(b, asset[b].through),
                                        Cardinality(ChargesOf(b)))
        BY FollowsAge DEF DocumentsInv, ChargesHold
      <4>2. KeepsPace(Base(a), Terms[a].life, asset'[a].accumulated, Age(a, asset'[a].through), charges + 1)
        BY <2>1, <2>2, <2>5, <2>7, <2>9
      <4> QED BY <2>9, <2>12, <2>13, <4>1, <4>2
    <3> QED BY <3>1 DEF DepreciationFollowsAge, KeepsPace, Age
  <2> QED BY <2>10, <2>14, <2>16, <2>17 DEF ChargesHold
<1> QED BY <1>3, <1>4

\* The documents are right at first, and after every step.
LEMMA DocumentsInit == Init => DocumentsInv
<1> SUFFICES ASSUME Init PROVE DocumentsInv
  OBVIOUS
<1>1. RunsInv
  BY BackOfficeInit
<1>2. /\ \A c \in Clients : at[c] = Idle
      /\ \A a \in Assets : /\ ChargesOf(a) = {} /\ asset[a].accumulated = 0 /\ asset[a].through = Terms[a].acquired
                           /\ Terms[a].acquired \in Nat \X Nat
  BY AssetsAssumption, CalendarAssumption DEF Init, LedgerInit, AssetInit, ChargesOf, Dates, Months
<1>3. DocumentsHold
  <2>1. expense \in [ExpenseIds -> ExpenseRow]
    BY DEF Init, ExpenseInit, ExpenseRow
  <2>2. asset \in [Assets -> AssetRow]
    BY <1>2 DEF Init, AssetInit, AssetRow
  <2>3. \A c \in Clients : GoodRequest(at[c])
    BY <1>2 DEF GoodRequest, Idle
  <2> QED BY <2>1, <2>2, <2>3 DEF DocumentsHold
<1>4. \A a \in Assets : OnSchedule(a, asset[a].through) /\ IsFiniteSet(ChargesOf(a))
  BY <1>2, FS_EmptySet DEF OnSchedule
<1>5. \A c \in Clients : at[c].op # "depreciate"
  BY <1>2 DEF Idle
<1>6. ASSUME NEW a \in Assets
      PROVE  KeepsPace(Base(a), Terms[a].life, asset[a].accumulated, Age(a, asset[a].through), Cardinality(ChargesOf(a)))
  <2>1. Age(a, asset[a].through) = 0
    <3>1. asset[a].through[1] = Terms[a].acquired[1] /\ ~ (asset[a].through[2] < Terms[a].acquired[2])
          /\ Terms[a].acquired[1] \in Nat
      BY <1>2
    <3> QED BY <1>4, <3>1, AgeOnSchedule
  <2>2. Base(a) \in Nat /\ Terms[a].life \in Nat \ {0}
    BY AssetsAssumption DEF Base
  <2>3. Cardinality(ChargesOf(a)) = 0 /\ asset[a].accumulated = 0
    BY <1>2, FS_EmptySet
  <2>4. Smaller(Terms[a].life, 0) = 0
    BY <2>2 DEF Smaller
  <2>5. 0 * Terms[a].life - Base(a) * 0 = 0 /\ Terms[a].life * 0 = 0
    BY <2>2
  <2> QED BY <2>1, <2>2, <2>3, <2>4, <2>5 DEF KeepsPace, Larger
<1>7. DepreciationFollowsAge
  BY <1>6, FollowsAge
<1> QED BY <1>1, <1>3, <1>4, <1>5, <1>7 DEF DocumentsInv, ChargesHold

LEMMA DocumentsStep ==
  ASSUME DocumentsInv, [Next]_vars
  PROVE  DocumentsInv'
<1>1. RunsInv'
  BY BackOfficeStep DEF DocumentsInv
<1>2. CASE ExpensesNext /\ UNCHANGED <<asset, payroll>>
  BY <1>1, <1>2, ExpensesKeepDocuments, ChargesNothingKeeps DEF DocumentsInv
<1>3. CASE FixedAssetsNext /\ UNCHANGED <<expense, payroll>>
  <2>1. CASE \E c \in Clients : \E date \in ThroughDates : ReadToDepreciate(c, date)
    BY <1>1, <1>3, <2>1, ReadToDepreciateKeeps DEF DocumentsInv
  <2>2. CASE \E c \in Clients : Depreciate(c)
    BY <1>1, <1>3, <2>2, DepreciateKeeps DEF DocumentsInv
  <2>3. CASE \/ \E a \in Assets :
                  \/ CreateAsset(a)
                  \/ \E amount \in Instalments : RecordAssetPayment(a, amount)
                  \/ \E proceeds \in Proceeds : DisposeAsset(a, proceeds)
                  \/ \E c \in Clients : ReadToVoidAsset(c, a)
             \/ \E c \in Clients : EndDepreciation(c) \/ VoidAsset(c)
    BY <1>1, <1>3, <2>3, AssetsKeepDocuments, ChargesNothingKeeps DEF DocumentsInv
  <2> QED BY <1>3, <2>1, <2>2, <2>3 DEF FixedAssetsNext
<1>4. CASE PayrollNext /\ UNCHANGED <<expense, asset>>
  BY <1>1, <1>4, PayrollKeepsDocuments, ChargesNothingKeeps DEF DocumentsInv
<1>5. CASE UNCHANGED vars
  <2>1. ChargesNothing
    BY <1>5 DEF vars, ChargesNothing, ChargesOf
  <2>2. DocumentsHold'
    BY <1>5 DEF vars, DocumentsInv, DocumentsHold
  <2> QED BY <1>1, <2>1, <2>2, ChargesNothingKeeps DEF DocumentsInv
<1> QED BY <1>2, <1>3, <1>4, <1>5 DEF Next

-----------------------------------------------------------------------------
(* The balances, step by step *)

BookAccounts == {"expensePayable", "fixedAssetPayable", "fixedAssets"}

LedgerHolds ==
  /\ IsFiniteSet(DOMAIN posted)
  /\ \A s \in DOMAIN posted : \A account \in BookAccounts : LineOf(posted[s], account) \in Int

\* A posted entry adds its lines to the balances ...
LEMMA PostAdds ==
  ASSUME LedgerHolds, NEW source, NEW lines, Post(source, lines),
         \A account \in BookAccounts : LineOf(lines, account) \in Int
  PROVE  /\ LedgerHolds'
         /\ \A account \in BookAccounts : /\ Balance(account) \in Int
                                          /\ Balance(account)' = Balance(account) + LineOf(lines, account)
         /\ DOMAIN posted' = DOMAIN posted \cup {source}
         /\ posted'[source] = lines
         /\ \A s \in DOMAIN posted : posted'[s] = posted[s]
<1>1. /\ source \notin DOMAIN posted /\ DOMAIN posted' = DOMAIN posted \cup {source} /\ posted'[source] = lines
      /\ \A s \in DOMAIN posted : posted'[s] = posted[s]
  BY DEF Post
<1>2. IsFiniteSet(DOMAIN posted')
  BY <1>1, FS_AddElement DEF LedgerHolds
<1>3. LedgerHolds'
  BY <1>1, <1>2 DEF LedgerHolds
<1>4. ASSUME NEW account \in BookAccounts
      PROVE  Balance(account) \in Int /\ Balance(account)' = Balance(account) + LineOf(lines, account)
  <2> DEFINE f == [s \in DOMAIN posted |-> LineOf(posted[s], account)]
             g == [s \in DOMAIN posted' |-> LineOf(posted'[s], account)]
             S == DOMAIN posted
             T == DOMAIN posted'
  <2>1. Balance(account) = SumFunctionOnSet(f, S) /\ Balance(account)' = SumFunctionOnSet(g, T)
    BY DEF Balance, SumFunction
  <2>2. /\ \A s \in S : f[s] \in Int
        /\ \A s \in T : g[s] \in Int
        /\ S \ {source} = T \ {source} /\ \A s \in S \ {source} : g[s] = f[s]
        /\ source \notin S /\ source \in T /\ g[source] = LineOf(lines, account)
        /\ IsFiniteSet(S) /\ IsFiniteSet(T)
    BY <1>1, <1>3 DEF LedgerHolds
  <2> HIDE DEF f, g, S, T
  <2>3. /\ SumFunctionOnSet(f, S) \in Int
        /\ SumFunctionOnSet(g, T) = SumFunctionOnSet(f, S) - (IF source \in S THEN f[source] ELSE 0)
                                                           + (IF source \in T THEN g[source] ELSE 0)
    <3>1. ChangesAt(source, f, S, g, T)
      BY <2>2 DEF ChangesAt
    <3> QED BY <3>1, SumChange
  <2>4. LineOf(lines, account) \in Int
    OBVIOUS
  <2> QED BY <2>1, <2>2, <2>3, <2>4
<1> QED BY <1>1, <1>3, <1>4

\* ... and a voided one takes them away.
LEMMA VoidTakes ==
  ASSUME LedgerHolds, NEW source \in DOMAIN posted, VoidAll({source})
  PROVE  /\ LedgerHolds'
         /\ \A account \in BookAccounts : /\ Balance(account) \in Int
                                          /\ Balance(account)' = Balance(account) - LineOf(posted[source], account)
         /\ DOMAIN posted' = DOMAIN posted \ {source}
         /\ \A s \in DOMAIN posted' : posted'[s] = posted[s]
<1>1. DOMAIN posted' = DOMAIN posted \ {source} /\ \A s \in DOMAIN posted' : posted'[s] = posted[s]
  BY DEF VoidAll
<1>2. IsFiniteSet(DOMAIN posted')
  BY <1>1, FS_RemoveElement DEF LedgerHolds
<1>3. LedgerHolds'
  BY <1>1, <1>2 DEF LedgerHolds
<1>4. ASSUME NEW account \in BookAccounts
      PROVE  Balance(account) \in Int /\ Balance(account)' = Balance(account) - LineOf(posted[source], account)
  <2> DEFINE f == [s \in DOMAIN posted |-> LineOf(posted[s], account)]
             g == [s \in DOMAIN posted' |-> LineOf(posted'[s], account)]
             S == DOMAIN posted
             T == DOMAIN posted'
  <2>1. Balance(account) = SumFunctionOnSet(f, S) /\ Balance(account)' = SumFunctionOnSet(g, T)
    BY DEF Balance, SumFunction
  <2>2. /\ \A s \in S : f[s] \in Int
        /\ \A s \in T : g[s] \in Int
        /\ S \ {source} = T \ {source} /\ \A s \in S \ {source} : g[s] = f[s]
        /\ source \in S /\ source \notin T /\ f[source] = LineOf(posted[source], account)
        /\ IsFiniteSet(S) /\ IsFiniteSet(T)
    BY <1>1, <1>3 DEF LedgerHolds
  <2> HIDE DEF f, g, S, T
  <2>3. /\ SumFunctionOnSet(f, S) \in Int
        /\ SumFunctionOnSet(g, T) = SumFunctionOnSet(f, S) - (IF source \in S THEN f[source] ELSE 0)
                                                           + (IF source \in T THEN g[source] ELSE 0)
    <3>1. ChangesAt(source, f, S, g, T)
      BY <2>2 DEF ChangesAt
    <3> QED BY <3>1, SumChange
  <2>4. f[source] \in Int
    BY <2>2
  <2> QED BY <2>1, <2>2, <2>3, <2>4
<1> QED BY <1>1, <1>3, <1>4

\* Entries without lines in these accounts, taken away together.
LEMMA VoidOthers ==
  ASSUME LedgerHolds, NEW x, NEW y, VoidAll({x, y}),
         \A s \in {x, y} \cap DOMAIN posted : \A account \in BookAccounts : LineOf(posted[s], account) = 0
  PROVE  /\ LedgerHolds'
         /\ \A account \in BookAccounts : Balance(account)' = Balance(account)
         /\ DOMAIN posted' = DOMAIN posted \ {x, y}
         /\ \A s \in DOMAIN posted' : posted'[s] = posted[s]
<1>1. /\ DOMAIN posted' = (DOMAIN posted \ {x}) \ {y} /\ DOMAIN posted' = DOMAIN posted \ {x, y}
      /\ \A s \in DOMAIN posted' : posted'[s] = posted[s]
  BY DEF VoidAll
<1>2. IsFiniteSet(DOMAIN posted \ {x}) /\ IsFiniteSet(DOMAIN posted')
  BY <1>1, FS_RemoveElement DEF LedgerHolds
<1>3. LedgerHolds'
  BY <1>1, <1>2 DEF LedgerHolds
<1>4. ASSUME NEW account \in BookAccounts PROVE Balance(account)' = Balance(account)
  <2> DEFINE f == [s \in DOMAIN posted |-> LineOf(posted[s], account)]
             g == [s \in DOMAIN posted' |-> LineOf(posted'[s], account)]
             S == DOMAIN posted
             R == DOMAIN posted \ {x}
             T == DOMAIN posted'
  <2>1. Balance(account) = SumFunctionOnSet(f, S) /\ Balance(account)' = SumFunctionOnSet(g, T)
    BY DEF Balance, SumFunction
  <2>2. /\ \A s \in S : f[s] \in Int
        /\ \A s \in T : g[s] \in Int /\ g[s] = f[s]
        /\ S \ {x} = R \ {x} /\ R \ {y} = T \ {y} /\ R \subseteq S /\ T \subseteq R
        /\ x \notin R /\ y \notin T
        /\ x \in S => f[x] = 0
        /\ y \in S => f[y] = 0
        /\ IsFiniteSet(S) /\ IsFiniteSet(R) /\ IsFiniteSet(T)
    BY <1>1, <1>2, <1>3 DEF LedgerHolds
  <2> HIDE DEF f, g, S, R, T
  <2>3. /\ SumFunctionOnSet(f, S) \in Int
        /\ SumFunctionOnSet(f, R) = SumFunctionOnSet(f, S) - (IF x \in S THEN f[x] ELSE 0)
                                                           + (IF x \in R THEN f[x] ELSE 0)
    <3>1. ChangesAt(x, f, S, f, R)
      BY <2>2 DEF ChangesAt
    <3> QED BY <3>1, SumChange
  <2>4. SumFunctionOnSet(f, R) = SumFunctionOnSet(f, S)
    BY <2>2, <2>3
  <2>5. SumFunctionOnSet(g, T) = SumFunctionOnSet(f, R) - (IF y \in R THEN f[y] ELSE 0)
                                                        + (IF y \in T THEN g[y] ELSE 0)
    <3>1. ChangesAt(y, f, R, g, T)
      BY <2>2 DEF ChangesAt
    <3> QED BY <3>1, SumChange
  <2> QED BY <2>1, <2>2, <2>3, <2>4, <2>5
<1> QED BY <1>1, <1>3, <1>4

-----------------------------------------------------------------------------
(* The documents, step by step *)

ExpensesHere == {x \in ExpenseIds : ExpenseHere(x)}
AssetsHere   == {x \in Assets : AssetHere(x)}
AssetsInUse  == {x \in Assets : asset[x].status = "ACTIVE"}

ExpensesOwed == SumFunction([e \in ExpensesHere |-> Owed(e)])
AssetsOwed   == SumFunction([a \in AssetsHere |-> StillOwed(a)])
CostInUse    == SumFunction([a \in AssetsInUse |-> Terms[a].cost])

\* A change of one expense changes what is owed by that much.
LEMMA ExpenseChanges ==
  ASSUME IsFiniteSet(ExpensesHere), NEW e \in ExpenseIds,
         expense \in [ExpenseIds -> ExpenseRow], expense' \in [ExpenseIds -> ExpenseRow],
         \A x \in ExpenseIds \ {e} : expense'[x] = expense[x]
  PROVE  /\ IsFiniteSet(ExpensesHere') /\ ExpensesOwed \in Int
         /\ ExpensesOwed' = ExpensesOwed - (IF ExpenseHere(e) THEN Owed(e) ELSE 0)
                                         + (IF ExpenseHere(e)' THEN Owed(e)' ELSE 0)
<1> DEFINE f == [x \in ExpensesHere |-> Owed(x)]
           g == [x \in ExpensesHere' |-> Owed(x)']
           S == ExpensesHere
           T == ExpensesHere'
<1>1. ExpensesOwed = SumFunctionOnSet(f, S) /\ ExpensesOwed' = SumFunctionOnSet(g, T)
  BY DEF ExpensesOwed, SumFunction
<1>2. \A x \in ExpenseIds \ {e} : (ExpenseHere(x)' <=> ExpenseHere(x)) /\ Owed(x)' = Owed(x)
  BY DEF ExpenseHere, Owed
<1>3. \A x \in ExpenseIds : Owed(x) \in Int /\ Owed(x)' \in Int
  BY ExpensesAssumption DEF Owed, ExpenseRow
<1>4. S \ {e} = T \ {e} /\ (e \in S <=> ExpenseHere(e)) /\ (e \in T <=> ExpenseHere(e)')
  BY <1>2 DEF ExpensesHere
<1>5. IsFiniteSet(T)
  <2> HIDE DEF S, T
  <2>1. T = S \ {e} \/ T = (S \ {e}) \cup {e}
    BY <1>4
  <2> QED BY <2>1, FS_AddElement, FS_RemoveElement DEF S
<1>6. /\ \A x \in S : f[x] \in Int
      /\ \A x \in T : g[x] \in Int
      /\ \A x \in S \ {e} : g[x] = f[x]
      /\ e \in S => f[e] = Owed(e)
      /\ e \in T => g[e] = Owed(e)'
  BY <1>2, <1>3, <1>4 DEF ExpensesHere
<1> HIDE DEF f, g
<1>7. /\ SumFunctionOnSet(f, S) \in Int
      /\ SumFunctionOnSet(g, T) = SumFunctionOnSet(f, S) - (IF e \in S THEN f[e] ELSE 0)
                                                         + (IF e \in T THEN g[e] ELSE 0)
  <2> HIDE DEF T
  <2>1. ChangesAt(e, f, S, g, T)
    BY <1>4, <1>5, <1>6 DEF ChangesAt
  <2> QED BY <2>1, SumChange
<1> QED BY <1>1, <1>3, <1>4, <1>5, <1>6, <1>7

\* A change of one asset changes what is owed, and the cost in use, by that much.
LEMMA AssetChanges ==
  ASSUME IsFiniteSet(AssetsHere), IsFiniteSet(AssetsInUse), NEW a \in Assets,
         asset \in [Assets -> AssetRow], asset' \in [Assets -> AssetRow],
         \A x \in Assets \ {a} : asset'[x].status = asset[x].status /\ asset'[x].paid = asset[x].paid
  PROVE  /\ IsFiniteSet(AssetsHere') /\ IsFiniteSet(AssetsInUse') /\ AssetsOwed \in Int /\ CostInUse \in Int
         /\ AssetsOwed' = AssetsOwed - (IF AssetHere(a) THEN StillOwed(a) ELSE 0)
                                     + (IF AssetHere(a)' THEN StillOwed(a)' ELSE 0)
         /\ CostInUse' = CostInUse - (IF asset[a].status = "ACTIVE" THEN Terms[a].cost ELSE 0)
                                   + (IF asset'[a].status = "ACTIVE" THEN Terms[a].cost ELSE 0)
<1>1. /\ \A x \in Assets \ {a} : (AssetHere(x)' <=> AssetHere(x)) /\ StillOwed(x)' = StillOwed(x)
      /\ \A x \in Assets : StillOwed(x) \in Int /\ StillOwed(x)' \in Int /\ Terms[x].cost \in Int
  BY AssetsAssumption DEF AssetHere, StillOwed, AssetRow
<1>2. /\ IsFiniteSet(AssetsHere') /\ AssetsOwed \in Int
      /\ AssetsOwed' = AssetsOwed - (IF AssetHere(a) THEN StillOwed(a) ELSE 0)
                                  + (IF AssetHere(a)' THEN StillOwed(a)' ELSE 0)
  <2> DEFINE f == [x \in AssetsHere |-> StillOwed(x)]
             g == [x \in AssetsHere' |-> StillOwed(x)']
             S == AssetsHere
             T == AssetsHere'
  <2>1. AssetsOwed = SumFunctionOnSet(f, S) /\ AssetsOwed' = SumFunctionOnSet(g, T)
    BY DEF AssetsOwed, SumFunction
  <2>2. S \ {a} = T \ {a} /\ (a \in S <=> AssetHere(a)) /\ (a \in T <=> AssetHere(a)')
    BY <1>1 DEF AssetsHere
  <2>3. IsFiniteSet(T)
    <3> HIDE DEF S, T
    <3>1. T = S \ {a} \/ T = (S \ {a}) \cup {a}
      BY <2>2
    <3> QED BY <3>1, FS_AddElement, FS_RemoveElement DEF S
  <2>4. /\ \A x \in S : f[x] \in Int
        /\ \A x \in T : g[x] \in Int
        /\ \A x \in S \ {a} : g[x] = f[x]
        /\ a \in S => f[a] = StillOwed(a)
        /\ a \in T => g[a] = StillOwed(a)'
    BY <1>1, <2>2 DEF AssetsHere
  <2> HIDE DEF f, g
  <2>5. /\ SumFunctionOnSet(f, S) \in Int
        /\ SumFunctionOnSet(g, T) = SumFunctionOnSet(f, S) - (IF a \in S THEN f[a] ELSE 0)
                                                           + (IF a \in T THEN g[a] ELSE 0)
    <3> HIDE DEF T
    <3>1. ChangesAt(a, f, S, g, T)
      BY <2>2, <2>3, <2>4 DEF ChangesAt
    <3> QED BY <3>1, SumChange
  <2> QED BY <1>1, <2>1, <2>2, <2>3, <2>4, <2>5
<1>3. /\ IsFiniteSet(AssetsInUse') /\ CostInUse \in Int
      /\ CostInUse' = CostInUse - (IF asset[a].status = "ACTIVE" THEN Terms[a].cost ELSE 0)
                                + (IF asset'[a].status = "ACTIVE" THEN Terms[a].cost ELSE 0)
  <2> DEFINE f == [x \in AssetsInUse |-> Terms[x].cost]
             g == [x \in AssetsInUse' |-> Terms[x].cost]
             S == AssetsInUse
             T == AssetsInUse'
  <2>1. CostInUse = SumFunctionOnSet(f, S) /\ CostInUse' = SumFunctionOnSet(g, T)
    BY DEF CostInUse, SumFunction
  <2>2. S \ {a} = T \ {a} /\ (a \in S <=> asset[a].status = "ACTIVE") /\ (a \in T <=> asset'[a].status = "ACTIVE")
    BY DEF AssetsInUse
  <2>3. IsFiniteSet(T)
    <3> HIDE DEF S, T
    <3>1. T = S \ {a} \/ T = (S \ {a}) \cup {a}
      BY <2>2
    <3> QED BY <3>1, FS_AddElement, FS_RemoveElement DEF S
  <2>4. /\ \A x \in S : f[x] \in Int
        /\ \A x \in T : g[x] \in Int
        /\ \A x \in S \ {a} : g[x] = f[x]
        /\ a \in S => f[a] = Terms[a].cost
        /\ a \in T => g[a] = Terms[a].cost
    BY <1>1, <2>2 DEF AssetsInUse
  <2> HIDE DEF f, g
  <2>5. /\ SumFunctionOnSet(f, S) \in Int
        /\ SumFunctionOnSet(g, T) = SumFunctionOnSet(f, S) - (IF a \in S THEN f[a] ELSE 0)
                                                           + (IF a \in T THEN g[a] ELSE 0)
    <3> HIDE DEF T
    <3>1. ChangesAt(a, f, S, g, T)
      BY <2>2, <2>3, <2>4 DEF ChangesAt
    <3> QED BY <3>1, SumChange
  <2> QED BY <1>1, <2>1, <2>2, <2>3, <2>4, <2>5
<1> QED BY <1>2, <1>3

-----------------------------------------------------------------------------
(* The balances follow the documents *)

\* A document that is here has its first entry, and entries of payroll have
\* no lines in these accounts.
EntriesHold ==
  /\ LedgerHolds
  /\ \A e \in ExpenseIds :
       ExpenseHere(e) => <<"expense", e>> \in DOMAIN posted /\ posted[<<"expense", e>>] = ExpenseEntry(e)
  /\ \A a \in Assets :
       AssetHere(a) => <<"acquired", a>> \in DOMAIN posted /\ posted[<<"acquired", a>>] = AcquisitionEntry(a)
  /\ \A s \in PayrollSources \cap DOMAIN posted : \A account \in BookAccounts : LineOf(posted[s], account) = 0

\* A document is made without payments, and has nothing paid without them.
RowsHold ==
  /\ IsFiniteSet(ExpensesHere) /\ IsFiniteSet(AssetsHere) /\ IsFiniteSet(AssetsInUse)
  /\ \A e \in ExpenseIds : /\ expense[e].is = "none" => expense[e].payments = 0
                           /\ expense[e].payments = 0 => expense[e].paid = 0
  /\ \A a \in Assets : /\ asset[a].status = "NONE" => asset[a].payments = 0
                       /\ asset[a].payments = 0 => asset[a].paid = 0

\* An asset that is about to be taken back is still in use.
AssetsAwait == \A c \in Clients : at[c].op = "voidAsset" => asset[at[c].doc].status = "ACTIVE"

BooksInv == EntriesHold /\ RowsHold /\ AssetsAwait /\ BooksAgree

\* The books in terms of the sums.
LEMMA Books ==
  /\ BooksAgree <=> /\ Balance("expensePayable") = ExpensesOwed
                    /\ Balance("fixedAssetPayable") = AssetsOwed
                    /\ - Balance("fixedAssets") = CostInUse
  /\ BooksAgree' <=> /\ Balance("expensePayable")' = ExpensesOwed'
                     /\ Balance("fixedAssetPayable")' = AssetsOwed'
                     /\ - Balance("fixedAssets")' = CostInUse'
BY DEF BooksAgree, ExpensesOwed, AssetsOwed, CostInUse, ExpensesHere, AssetsHere, AssetsInUse

\* What each entry brings to the accounts.
LEMMA EntryLines ==
  /\ \A e \in ExpenseIds : /\ LineOf(ExpenseEntry(e), "expensePayable") = ExpenseOf[e]
                           /\ LineOf(ExpenseEntry(e), "fixedAssetPayable") = 0
                           /\ LineOf(ExpenseEntry(e), "fixedAssets") = 0
  /\ \A amount : /\ LineOf(ExpensePaymentEntry(amount), "expensePayable") = -amount
                 /\ LineOf(ExpensePaymentEntry(amount), "fixedAssetPayable") = 0
                 /\ LineOf(ExpensePaymentEntry(amount), "fixedAssets") = 0
                 /\ LineOf(AssetPaymentEntry(amount), "expensePayable") = 0
                 /\ LineOf(AssetPaymentEntry(amount), "fixedAssetPayable") = -amount
                 /\ LineOf(AssetPaymentEntry(amount), "fixedAssets") = 0
                 /\ \A account \in BookAccounts : LineOf(DepreciationEntry(amount), account) = 0
  /\ \A a \in Assets : /\ LineOf(AcquisitionEntry(a), "expensePayable") = 0
                       /\ LineOf(AcquisitionEntry(a), "fixedAssetPayable") = Terms[a].cost
                       /\ LineOf(AcquisitionEntry(a), "fixedAssets") = -Terms[a].cost
  /\ \A a \in Assets : \A proceeds : /\ LineOf(DisposalEntry(a, proceeds), "expensePayable") = 0
                                 /\ LineOf(DisposalEntry(a, proceeds), "fixedAssetPayable") = 0
                                 /\ LineOf(DisposalEntry(a, proceeds), "fixedAssets") = Terms[a].cost
  /\ \A pay : \A account \in BookAccounts : LineOf(RunEntry(pay), account) = 0 /\ LineOf(PaidEntry(pay), account) = 0
<1>1. \A e \in ExpenseIds : /\ LineOf(ExpenseEntry(e), "expensePayable") = ExpenseOf[e]
                            /\ LineOf(ExpenseEntry(e), "fixedAssetPayable") = 0
                            /\ LineOf(ExpenseEntry(e), "fixedAssets") = 0
  BY DEF LineOf, ExpenseEntry, Lines
<1>2. \A amount : /\ LineOf(ExpensePaymentEntry(amount), "expensePayable") = -amount
                  /\ LineOf(ExpensePaymentEntry(amount), "fixedAssetPayable") = 0
                  /\ LineOf(ExpensePaymentEntry(amount), "fixedAssets") = 0
  BY DEF LineOf, ExpensePaymentEntry, Lines
<1>3. \A amount : /\ LineOf(AssetPaymentEntry(amount), "expensePayable") = 0
                  /\ LineOf(AssetPaymentEntry(amount), "fixedAssetPayable") = -amount
                  /\ LineOf(AssetPaymentEntry(amount), "fixedAssets") = 0
  BY DEF LineOf, AssetPaymentEntry, Lines
<1>4. \A amount : \A account \in BookAccounts : LineOf(DepreciationEntry(amount), account) = 0
  BY DEF LineOf, DepreciationEntry, Lines, BookAccounts
<1>5. \A a \in Assets : /\ LineOf(AcquisitionEntry(a), "expensePayable") = 0
                        /\ LineOf(AcquisitionEntry(a), "fixedAssetPayable") = Terms[a].cost
                        /\ LineOf(AcquisitionEntry(a), "fixedAssets") = -Terms[a].cost
  BY DEF LineOf, AcquisitionEntry, Lines
<1>6. \A a \in Assets : \A proceeds : /\ LineOf(DisposalEntry(a, proceeds), "expensePayable") = 0
                                  /\ LineOf(DisposalEntry(a, proceeds), "fixedAssetPayable") = 0
                                  /\ LineOf(DisposalEntry(a, proceeds), "fixedAssets") = Terms[a].cost
  BY DEF LineOf, DisposalEntry
<1>7. \A pay : \A account \in BookAccounts : LineOf(RunEntry(pay), account) = 0
  BY DEF LineOf, RunEntry, BookAccounts
<1>8. \A pay : \A account \in BookAccounts : LineOf(PaidEntry(pay), account) = 0
  BY DEF LineOf, PaidEntry, Lines, BookAccounts
<1> QED BY <1>1, <1>2, <1>3, <1>4, <1>5, <1>6, <1>7, <1>8

-----------------------------------------------------------------------------
(* What each step does to the books *)

\* Posting keeps the entries of the documents there are, and those it makes.
LEMMA PostKeepsEntries ==
  ASSUME EntriesHold, NEW source, NEW lines, Post(source, lines),
         \A account \in BookAccounts : LineOf(lines, account) \in Int,
         source \in PayrollSources => \A account \in BookAccounts : LineOf(lines, account) = 0,
         \A e \in ExpenseIds : ExpenseHere(e)' =>
           ExpenseHere(e) \/ (source = <<"expense", e>> /\ lines = ExpenseEntry(e)),
         \A a \in Assets : AssetHere(a)' =>
           AssetHere(a) \/ (source = <<"acquired", a>> /\ lines = AcquisitionEntry(a))
  PROVE  /\ EntriesHold'
         /\ \A account \in BookAccounts : /\ Balance(account) \in Int
                                          /\ Balance(account)' = Balance(account) + LineOf(lines, account)
<1>1. /\ LedgerHolds'
      /\ \A account \in BookAccounts : /\ Balance(account) \in Int
                                       /\ Balance(account)' = Balance(account) + LineOf(lines, account)
      /\ DOMAIN posted' = DOMAIN posted \cup {source} /\ posted'[source] = lines
      /\ \A s \in DOMAIN posted : posted'[s] = posted[s]
  BY PostAdds DEF EntriesHold
<1>2. \A e \in ExpenseIds :
        ExpenseHere(e)' => <<"expense", e>> \in DOMAIN posted' /\ posted'[<<"expense", e>>] = ExpenseEntry(e)
  BY <1>1 DEF EntriesHold
<1>3. \A a \in Assets :
        AssetHere(a)' => <<"acquired", a>> \in DOMAIN posted' /\ posted'[<<"acquired", a>>] = AcquisitionEntry(a)
  BY <1>1 DEF EntriesHold
<1>4. \A s \in PayrollSources \cap DOMAIN posted' : \A account \in BookAccounts : LineOf(posted'[s], account) = 0
  BY <1>1 DEF EntriesHold
<1>5. \A e \in ExpenseIds : ExpenseEntry(e)' = ExpenseEntry(e)
  BY DEF ExpenseEntry
<1>6. \A a \in Assets : AcquisitionEntry(a)' = AcquisitionEntry(a)
  BY DEF AcquisitionEntry
<1> QED BY <1>1, <1>2, <1>3, <1>4, <1>5, <1>6 DEF EntriesHold

\* Requests other than to take back an asset.
LEMMA RequestsAwait ==
  ASSUME RequestsHold, NEW c \in Clients,
         \/ at' = at
         \/ Done(c)
         \/ \E op, doc, amount, due : op # "voidAsset" /\ Reads(c, op, doc, amount, due)
  PROVE  \A e \in Clients : at'[e].op = "voidAsset" => at'[e] = at[e]
<1>1. CASE Done(c)
  <2>1. \A e \in Clients : at'[e] = IF e = c THEN Idle ELSE at[e]
    BY <1>1, RequestDone
  <2>2. Idle.op # "voidAsset"
    BY DEF Idle
  <2> QED BY <2>1, <2>2
<1>2. ASSUME NEW op, NEW doc, NEW amount, NEW due, op # "voidAsset", Reads(c, op, doc, amount, due)
      PROVE  \A e \in Clients : at'[e].op = "voidAsset" => at'[e] = at[e]
  <2> DEFINE new == [op |-> op, doc |-> doc, amount |-> amount, due |-> due]
  <2>1. \A e \in Clients : at'[e] = IF e = c THEN new ELSE at[e]
    BY <1>2, RequestReads
  <2>2. new.op # "voidAsset"
    BY <1>2
  <2> HIDE DEF new
  <2> QED BY <2>1, <2>2
<1> QED BY <1>1, <1>2

\* Steps of expenses on what the assets have.
LEMMA AssetsUntouched ==
  ASSUME asset' = asset
  PROVE  /\ AssetsHere' = AssetsHere /\ AssetsInUse' = AssetsInUse
         /\ AssetsOwed' = AssetsOwed /\ CostInUse' = CostInUse
         /\ \A a \in Assets : AssetHere(a)' <=> AssetHere(a)
BY DEF AssetsHere, AssetsInUse, AssetsOwed, CostInUse, AssetHere, StillOwed

LEMMA ExpensesUntouched ==
  ASSUME expense' = expense
  PROVE  /\ ExpensesHere' = ExpensesHere /\ ExpensesOwed' = ExpensesOwed
         /\ \A e \in ExpenseIds : ExpenseHere(e)' <=> ExpenseHere(e)
BY DEF ExpensesHere, ExpensesOwed, ExpenseHere, Owed

\* An expense is created with what it owes.
LEMMA CreateExpenseKeeps ==
  ASSUME DocumentsHold, DocumentsHold', EntriesHold, RowsHold, BooksAgree, asset' = asset,
         NEW e \in ExpenseIds, CreateExpense(e)
  PROVE  EntriesHold' /\ RowsHold' /\ BooksAgree'
<1>0. /\ expense \in [ExpenseIds -> ExpenseRow] /\ expense' \in [ExpenseIds -> ExpenseRow]
      /\ expense[e].is = "none" /\ expense[e].payments = 0 /\ expense[e].paid = 0 /\ ExpenseOf[e] \in Nat
  BY ExpensesAssumption DEF DocumentsHold, CreateExpense, RowsHold
<1>1. /\ \A x \in ExpenseIds \ {e} : expense'[x] = expense[x]
      /\ expense'[e].is = "here" /\ expense'[e].paid = 0 /\ expense'[e].payments = 0
  BY <1>0 DEF CreateExpense, ExpenseRow
<1>2. /\ ~ ExpenseHere(e) /\ ExpenseHere(e)' /\ Owed(e)' = ExpenseOf[e]
      /\ \A x \in ExpenseIds \ {e} : ExpenseHere(x)' <=> ExpenseHere(x)
  BY <1>0, <1>1 DEF ExpenseHere, Owed
<1>3. /\ EntriesHold'
      /\ \A account \in BookAccounts : /\ Balance(account) \in Int
                                       /\ Balance(account)' = Balance(account) + LineOf(ExpenseEntry(e), account)
  <2>1. Post(<<"expense", e>>, ExpenseEntry(e))
    BY DEF CreateExpense
  <2>2. <<"expense", e>> \notin PayrollSources
    BY DEF PayrollSources
  <2>3. \A account \in BookAccounts : LineOf(ExpenseEntry(e), account) \in Int
    BY <1>0, EntryLines DEF BookAccounts
  <2> QED BY <1>2, <2>1, <2>2, <2>3, AssetsUntouched, PostKeepsEntries
<1>4. /\ IsFiniteSet(ExpensesHere') /\ ExpensesOwed \in Int
      /\ ExpensesOwed' = ExpensesOwed + ExpenseOf[e]
  <2>1. /\ IsFiniteSet(ExpensesHere') /\ ExpensesOwed \in Int
        /\ ExpensesOwed' = ExpensesOwed - (IF ExpenseHere(e) THEN Owed(e) ELSE 0)
                                        + (IF ExpenseHere(e)' THEN Owed(e)' ELSE 0)
    BY <1>0, <1>1, ExpenseChanges DEF RowsHold
  <2> QED BY <1>0, <1>2, <2>1
<1>5. RowsHold'
  BY <1>1, <1>4, AssetsUntouched DEF RowsHold
<1>6. BooksAgree'
  BY <1>3, <1>4, Books, EntryLines, AssetsUntouched DEF BookAccounts
<1> QED BY <1>3, <1>5, <1>6

\* The transaction of recordPayment() takes as much off both.
LEMMA PaysExpenseKeeps ==
  ASSUME DocumentsHold, DocumentsHold', EntriesHold, RowsHold, BooksAgree, asset' = asset,
         NEW e \in ExpenseIds, NEW amount \in Nat, PaysExpense(e, amount)
  PROVE  EntriesHold' /\ RowsHold' /\ BooksAgree'
<1>0. /\ expense \in [ExpenseIds -> ExpenseRow] /\ expense' \in [ExpenseIds -> ExpenseRow]
      /\ expense[e] \in ExpenseRow /\ ExpenseHere(e) /\ ExpenseOf[e] \in Nat
  BY ExpensesAssumption DEF DocumentsHold, PaysExpense
<1>1. /\ \A x \in ExpenseIds \ {e} : expense'[x] = expense[x]
      /\ expense'[e].is = "here" /\ expense'[e].paid = expense[e].paid + amount
      /\ expense'[e].payments = expense[e].payments + 1
  BY <1>0 DEF PaysExpense, ExpenseRow, ExpenseHere
<1>2. /\ ExpenseHere(e)' /\ Owed(e)' = Owed(e) - amount /\ Owed(e) \in Int
      /\ \A x \in ExpenseIds \ {e} : ExpenseHere(x)' <=> ExpenseHere(x)
  BY <1>0, <1>1 DEF ExpenseHere, Owed, ExpenseRow
<1>3. /\ EntriesHold'
      /\ \A account \in BookAccounts : /\ Balance(account) \in Int
                                       /\ Balance(account)' = Balance(account) + LineOf(ExpensePaymentEntry(amount), account)
  <2> DEFINE source == <<"expensePayment", e, expense[e].payments + 1>>
  <2>1. Post(source, ExpensePaymentEntry(amount))
    BY DEF PaysExpense
  <2>2. source \notin PayrollSources
    BY DEF PayrollSources
  <2>3. \A account \in BookAccounts : LineOf(ExpensePaymentEntry(amount), account) \in Int
    BY EntryLines DEF BookAccounts
  <2> HIDE DEF source
  <2> QED BY <1>0, <1>2, <2>1, <2>2, <2>3, AssetsUntouched, PostKeepsEntries
<1>4. /\ IsFiniteSet(ExpensesHere') /\ ExpensesOwed \in Int
      /\ ExpensesOwed' = ExpensesOwed - amount
  <2>1. /\ IsFiniteSet(ExpensesHere') /\ ExpensesOwed \in Int
        /\ ExpensesOwed' = ExpensesOwed - (IF ExpenseHere(e) THEN Owed(e) ELSE 0)
                                        + (IF ExpenseHere(e)' THEN Owed(e)' ELSE 0)
    BY <1>0, <1>1, ExpenseChanges DEF RowsHold
  <2> QED BY <1>0, <1>2, <2>1
<1>5. RowsHold'
  BY <1>0, <1>1, <1>4, AssetsUntouched DEF RowsHold, ExpenseRow
<1>6. BooksAgree'
  BY <1>3, <1>4, Books, EntryLines, AssetsUntouched DEF BookAccounts
<1> QED BY <1>3, <1>5, <1>6

\* An expense without payments goes with all that it owes.
LEMMA VoidExpenseKeeps ==
  ASSUME DocumentsHold, DocumentsHold', EntriesHold, RowsHold, BooksAgree, asset' = asset,
         NEW e \in ExpenseIds, ExpenseCanGo(e),
         expense' = [expense EXCEPT ![e].is = "deleted"], VoidAll({<<"expense", e>>})
  PROVE  EntriesHold' /\ RowsHold' /\ BooksAgree'
<1>0. /\ expense \in [ExpenseIds -> ExpenseRow] /\ expense' \in [ExpenseIds -> ExpenseRow]
      /\ ExpenseHere(e) /\ expense[e].payments = 0 /\ expense[e].paid = 0 /\ ExpenseOf[e] \in Nat
  BY ExpensesAssumption DEF DocumentsHold, ExpenseCanGo, RowsHold
<1>1. /\ \A x \in ExpenseIds \ {e} : expense'[x] = expense[x]
      /\ expense'[e].is = "deleted" /\ expense'[e].paid = 0 /\ expense'[e].payments = 0
  BY <1>0 DEF ExpenseRow
<1>2. /\ ~ ExpenseHere(e)' /\ Owed(e) = ExpenseOf[e]
      /\ \A x \in ExpenseIds \ {e} : ExpenseHere(x)' <=> ExpenseHere(x)
  BY <1>0, <1>1 DEF ExpenseHere, Owed
<1>3. /\ <<"expense", e>> \in DOMAIN posted /\ posted[<<"expense", e>>] = ExpenseEntry(e)
      /\ LedgerHolds'
      /\ \A account \in BookAccounts : /\ Balance(account) \in Int
                                       /\ Balance(account)' = Balance(account) - LineOf(ExpenseEntry(e), account)
      /\ DOMAIN posted' = DOMAIN posted \ {<<"expense", e>>}
      /\ \A s \in DOMAIN posted' : posted'[s] = posted[s]
  <2>1. <<"expense", e>> \in DOMAIN posted /\ posted[<<"expense", e>>] = ExpenseEntry(e)
    BY <1>0 DEF EntriesHold
  <2> QED BY <2>1, VoidTakes DEF EntriesHold
<1>4. EntriesHold'
  <2>1. \A x \in ExpenseIds \ {e} : <<"expense", x>> # <<"expense", e>>
    OBVIOUS
  <2>2. \A a \in Assets : <<"acquired", a>> # <<"expense", e>>
    OBVIOUS
  <2>3. \A x \in ExpenseIds : ExpenseEntry(x)' = ExpenseEntry(x)
    BY DEF ExpenseEntry
  <2>4. \A a \in Assets : AcquisitionEntry(a)' = AcquisitionEntry(a)
    BY DEF AcquisitionEntry
  <2>5. \A x \in ExpenseIds :
          ExpenseHere(x)' => <<"expense", x>> \in DOMAIN posted' /\ posted'[<<"expense", x>>] = ExpenseEntry(x)'
    BY <1>2, <1>3, <2>1, <2>3 DEF EntriesHold
  <2>6. \A a \in Assets :
          AssetHere(a)' => <<"acquired", a>> \in DOMAIN posted' /\ posted'[<<"acquired", a>>] = AcquisitionEntry(a)'
    BY <1>3, <2>2, <2>4, AssetsUntouched DEF EntriesHold
  <2>7. \A s \in PayrollSources \cap DOMAIN posted' : \A account \in BookAccounts : LineOf(posted'[s], account) = 0
    BY <1>3 DEF EntriesHold
  <2> QED BY <1>3, <2>5, <2>6, <2>7 DEF EntriesHold
<1>5. /\ IsFiniteSet(ExpensesHere') /\ ExpensesOwed \in Int
      /\ ExpensesOwed' = ExpensesOwed - ExpenseOf[e]
  <2>1. /\ IsFiniteSet(ExpensesHere') /\ ExpensesOwed \in Int
        /\ ExpensesOwed' = ExpensesOwed - (IF ExpenseHere(e) THEN Owed(e) ELSE 0)
                                        + (IF ExpenseHere(e)' THEN Owed(e)' ELSE 0)
    BY <1>0, <1>1, ExpenseChanges DEF RowsHold
  <2> QED BY <1>0, <1>2, <2>1
<1>6. RowsHold'
  BY <1>1, <1>5, AssetsUntouched DEF RowsHold
<1>7. BooksAgree'
  BY <1>3, <1>5, Books, EntryLines, AssetsUntouched DEF BookAccounts
<1> QED BY <1>4, <1>6, <1>7

\* A step that leaves the ledger and the rows of documents alone.
LEMMA BooksUntouched ==
  ASSUME EntriesHold, RowsHold, BooksAgree, UNCHANGED <<posted, expense, asset>>
  PROVE  EntriesHold' /\ RowsHold' /\ BooksAgree'
BY DEF EntriesHold, LedgerHolds, RowsHold, BooksAgree, Balance, ExpenseHere, AssetHere, Owed, StillOwed,
       ExpensesHere, AssetsHere, AssetsInUse, ExpenseEntry, AcquisitionEntry

\* The steps of expenses keep the books, each as its lemma says.
LEMMA ExpensesKeepBooks ==
  ASSUME RequestsHold, DocumentsHold, DocumentsHold', BooksInv, ExpensesNext, asset' = asset
  PROVE  BooksInv'
<1>0. EntriesHold /\ RowsHold /\ BooksAgree /\ AssetsAwait
  BY DEF BooksInv
<1>1. ASSUME \A c \in Clients : at'[c].op = "voidAsset" => at'[c] = at[c],
             EntriesHold' /\ RowsHold' /\ BooksAgree'
      PROVE  BooksInv'
  BY <1>0, <1>1 DEF BooksInv, AssetsAwait
<1>2. ASSUME NEW e \in ExpenseIds, CreateExpense(e) PROVE BooksInv'
  <2>1. at' = at
    BY <1>2 DEF CreateExpense, AtOnce
  <2> QED BY <1>0, <1>1, <1>2, <2>1, CreateExpenseKeeps
<1>3. ASSUME NEW e \in ExpenseIds, NEW amount \in Instalments, RecordExpensePayment(e, amount) PROVE BooksInv'
  <2>1. at' = at /\ PaysExpense(e, amount) /\ amount \in Nat
    BY <1>3, InstalmentsAssumption DEF RecordExpensePayment, AtOnce
  <2> QED BY <1>0, <1>1, <2>1, PaysExpenseKeeps
<1>4. ASSUME NEW e \in ExpenseIds, NEW c \in Clients, ReadToMarkPaid(c, e) \/ ReadToVoidExpense(c, e)
      PROVE  BooksInv'
  <2>1. /\ UNCHANGED <<posted, expense, asset>>
        /\ \E op, doc, amount, due : op # "voidAsset" /\ Reads(c, op, doc, amount, due)
    BY <1>4 DEF ReadToMarkPaid, ReadToVoidExpense
  <2>2. \A x \in Clients : at'[x].op = "voidAsset" => at'[x] = at[x]
    BY <2>1, RequestsAwait
  <2> QED BY <1>0, <1>1, <2>1, <2>2, BooksUntouched
<1>5. ASSUME NEW c \in Clients, MarkExpensePaid(c) PROVE BooksInv'
  <2>1. at[c].doc \in ExpenseIds /\ at[c].amount \in Nat /\ Done(c)
    BY <1>5 DEF MarkExpensePaid, Writing, DocumentsHold, GoodRequest
  <2>2. \A x \in Clients : at'[x].op = "voidAsset" => at'[x] = at[x]
    BY <2>1, RequestsAwait
  <2>3. CASE PaysExpense(at[c].doc, at[c].amount)
    BY <1>0, <1>1, <2>1, <2>2, <2>3, PaysExpenseKeeps
  <2>4. CASE UNCHANGED <<posted, expense>>
    BY <1>0, <1>1, <2>2, <2>4, BooksUntouched
  <2> QED BY <1>5, <2>3, <2>4 DEF MarkExpensePaid
<1>6. ASSUME NEW c \in Clients, VoidExpense(c) PROVE BooksInv'
  <2>1. at[c].doc \in ExpenseIds /\ Done(c)
    BY <1>6 DEF VoidExpense, Writing, DocumentsHold, GoodRequest
  <2>2. \A x \in Clients : at'[x].op = "voidAsset" => at'[x] = at[x]
    BY <2>1, RequestsAwait
  <2>3. CASE ExpenseCanGo(at[c].doc)
    <3>1. /\ expense' = [expense EXCEPT ![at[c].doc].is = "deleted"]
          /\ VoidAll({<<"expense", at[c].doc>>})
      BY <1>6, <2>3 DEF VoidExpense
    <3> QED BY <1>0, <1>1, <2>1, <2>2, <2>3, <3>1, VoidExpenseKeeps
  <2>4. CASE ~ ExpenseCanGo(at[c].doc)
    BY <1>0, <1>1, <1>6, <2>2, <2>4, BooksUntouched DEF VoidExpense
  <2> QED BY <2>3, <2>4
<1> QED BY <1>2, <1>3, <1>4, <1>5, <1>6 DEF ExpensesNext

\* Entries of payroll have no lines in these accounts.
LEMMA PayrollKeepsBooks ==
  ASSUME RequestsHold, BooksInv, PayrollNext, UNCHANGED <<expense, asset>>
  PROVE  BooksInv'
<1>0. EntriesHold /\ RowsHold /\ BooksAgree /\ AssetsAwait
  BY DEF BooksInv
<1>1. ASSUME \A c \in Clients : at'[c].op = "voidAsset" => at'[c] = at[c], EntriesHold',
             \A account \in BookAccounts : Balance(account)' = Balance(account)
      PROVE  BooksInv'
  <2>1. RowsHold' /\ AssetsAwait'
    BY <1>0, <1>1, AssetsUntouched, ExpensesUntouched DEF RowsHold, AssetsAwait
  <2>2. BooksAgree'
    BY <1>0, <1>1, AssetsUntouched, ExpensesUntouched, Books DEF BookAccounts
  <2> QED BY <1>1, <2>1, <2>2 DEF BooksInv
<1>2. ASSUME NEW source, NEW lines, Post(source, lines), at' = at,
             \A account \in BookAccounts : LineOf(lines, account) = 0
      PROVE  BooksInv'
  <2>1. /\ EntriesHold'
        /\ \A account \in BookAccounts : /\ Balance(account) \in Int
                                         /\ Balance(account)' = Balance(account) + LineOf(lines, account)
    BY <1>0, <1>2, AssetsUntouched, ExpensesUntouched, PostKeepsEntries
  <2> QED BY <1>1, <1>2, <2>1
<1>3. ASSUME NEW r \in Runs, PostRun(r) PROVE BooksInv'
  BY <1>2, <1>3, EntryLines DEF PostRun, AtOnce
<1>4. ASSUME NEW r \in Runs, PayRun(r) PROVE BooksInv'
  BY <1>2, <1>4, EntryLines DEF PayRun, AtOnce
<1>5. ASSUME NEW r \in Runs, VoidRun(r) PROVE BooksInv'
  <2> DEFINE x == <<"payroll", r>>
             y == <<"payrollPaid", r>>
  <2>1. VoidAll({x, y}) /\ at' = at /\ x \in PayrollSources /\ y \in PayrollSources
    BY <1>5 DEF VoidRun, SourcesOfRun, AtOnce, PayrollSources
  <2>2. /\ \A e \in ExpenseIds : <<"expense", e>> \notin {x, y}
        /\ \A a \in Assets : <<"acquired", a>> \notin {x, y}
    OBVIOUS
  <2> HIDE DEF x, y
  <2>3. \A s \in {x, y} \cap DOMAIN posted : \A account \in BookAccounts : LineOf(posted[s], account) = 0
    BY <1>0, <2>1 DEF EntriesHold
  <2>4. /\ LedgerHolds'
        /\ \A account \in BookAccounts : Balance(account)' = Balance(account)
        /\ DOMAIN posted' = DOMAIN posted \ {x, y}
        /\ \A s \in DOMAIN posted' : posted'[s] = posted[s]
    BY <1>0, <2>1, <2>3, VoidOthers DEF EntriesHold
  <2>5. \A e \in ExpenseIds :
          ExpenseHere(e)' => <<"expense", e>> \in DOMAIN posted' /\ posted'[<<"expense", e>>] = ExpenseEntry(e)'
    BY <1>0, <2>2, <2>4, ExpensesUntouched DEF EntriesHold, ExpenseEntry
  <2>6. \A a \in Assets :
          AssetHere(a)' => <<"acquired", a>> \in DOMAIN posted' /\ posted'[<<"acquired", a>>] = AcquisitionEntry(a)'
    BY <1>0, <2>2, <2>4, AssetsUntouched DEF EntriesHold, AcquisitionEntry
  <2>7. \A s \in PayrollSources \cap DOMAIN posted' : \A account \in BookAccounts : LineOf(posted'[s], account) = 0
    BY <1>0, <2>4 DEF EntriesHold
  <2>8. EntriesHold'
    BY <2>4, <2>5, <2>6, <2>7 DEF EntriesHold
  <2> QED BY <1>1, <2>1, <2>4, <2>8
<1>6. ASSUME NEW c \in Clients, posted' = posted,
             \/ Done(c)
             \/ \E op, doc, amount, due : op # "voidAsset" /\ Reads(c, op, doc, amount, due)
      PROVE  BooksInv'
  <2>1. \A x \in Clients : at'[x].op = "voidAsset" => at'[x] = at[x]
    BY <1>6, RequestsAwait
  <2>2. EntriesHold' /\ RowsHold' /\ BooksAgree'
    BY <1>0, <1>6, BooksUntouched
  <2> QED BY <1>0, <2>1, <2>2 DEF BooksInv, AssetsAwait
<1>7. ASSUME NEW c \in Clients, NEW r \in Runs,
             ReadToRemoveRun(c, r) \/ \E pay \in Payslips : ReadToCreateRun(c, r, pay)
      PROVE  BooksInv'
  <2>1. posted' = posted /\ \E op, doc, amount, due : op # "voidAsset" /\ Reads(c, op, doc, amount, due)
    BY <1>7 DEF ReadToRemoveRun, ReadToCreateRun
  <2> QED BY <1>6, <2>1
<1>8. ASSUME NEW c \in Clients, CreateRun(c) \/ RemoveRun(c) PROVE BooksInv'
  BY <1>6, <1>8 DEF CreateRun, RemoveRun
<1> QED BY <1>3, <1>4, <1>5, <1>7, <1>8 DEF PayrollNext

\* An asset is acquired with all of its cost to be paid.
LEMMA CreateAssetKeeps ==
  ASSUME DocumentsHold, DocumentsHold', EntriesHold, RowsHold, BooksAgree, expense' = expense,
         NEW a \in Assets, CreateAsset(a)
  PROVE  EntriesHold' /\ RowsHold' /\ BooksAgree'
<1>0. /\ asset \in [Assets -> AssetRow] /\ asset' \in [Assets -> AssetRow] /\ asset[a] \in AssetRow
      /\ asset[a].status = "NONE" /\ asset[a].payments = 0 /\ asset[a].paid = 0 /\ Terms[a].cost \in Nat
  BY AssetsAssumption DEF DocumentsHold, CreateAsset, RowsHold
<1>1. /\ \A x \in Assets \ {a} : asset'[x] = asset[x]
      /\ asset'[a].status = "ACTIVE" /\ asset'[a].paid = 0 /\ asset'[a].payments = 0
  BY <1>0 DEF CreateAsset, AssetRow
<1>2. /\ ~ AssetHere(a) /\ AssetHere(a)' /\ StillOwed(a)' = Terms[a].cost
      /\ \A x \in Assets \ {a} : AssetHere(x)' <=> AssetHere(x)
  BY <1>0, <1>1 DEF AssetHere, StillOwed
<1>3. /\ EntriesHold'
      /\ \A account \in BookAccounts : /\ Balance(account) \in Int
                                       /\ Balance(account)' = Balance(account) + LineOf(AcquisitionEntry(a), account)
  <2>1. Post(<<"acquired", a>>, AcquisitionEntry(a))
    BY DEF CreateAsset
  <2>2. <<"acquired", a>> \notin PayrollSources
    BY DEF PayrollSources
  <2>3. \A account \in BookAccounts : LineOf(AcquisitionEntry(a), account) \in Int
    BY <1>0, EntryLines DEF BookAccounts
  <2> QED BY <1>2, <2>1, <2>2, <2>3, ExpensesUntouched, PostKeepsEntries
<1>4. /\ IsFiniteSet(AssetsHere') /\ IsFiniteSet(AssetsInUse') /\ AssetsOwed \in Int /\ CostInUse \in Int
      /\ AssetsOwed' = AssetsOwed + Terms[a].cost
      /\ CostInUse' = CostInUse + Terms[a].cost
  <2>1. /\ IsFiniteSet(AssetsHere') /\ IsFiniteSet(AssetsInUse') /\ AssetsOwed \in Int /\ CostInUse \in Int
        /\ AssetsOwed' = AssetsOwed - (IF AssetHere(a) THEN StillOwed(a) ELSE 0)
                                    + (IF AssetHere(a)' THEN StillOwed(a)' ELSE 0)
        /\ CostInUse' = CostInUse - (IF asset[a].status = "ACTIVE" THEN Terms[a].cost ELSE 0)
                                  + (IF asset'[a].status = "ACTIVE" THEN Terms[a].cost ELSE 0)
    BY <1>0, <1>1, AssetChanges DEF RowsHold
  <2> QED BY <1>0, <1>1, <1>2, <2>1
<1>5. RowsHold'
  BY <1>1, <1>4, ExpensesUntouched DEF RowsHold
<1>6. BooksAgree'
  BY <1>0, <1>3, <1>4, Books, EntryLines, ExpensesUntouched DEF BookAccounts
<1> QED BY <1>3, <1>5, <1>6

\* A payment of an asset takes as much off both.
LEMMA PayAssetKeeps ==
  ASSUME DocumentsHold, DocumentsHold', EntriesHold, RowsHold, BooksAgree, expense' = expense,
         NEW a \in Assets, NEW amount \in Instalments, RecordAssetPayment(a, amount)
  PROVE  EntriesHold' /\ RowsHold' /\ BooksAgree'
<1>0. /\ asset \in [Assets -> AssetRow] /\ asset' \in [Assets -> AssetRow] /\ asset[a] \in AssetRow
      /\ asset[a].status = "ACTIVE" /\ Terms[a].cost \in Nat /\ amount \in Nat
  BY AssetsAssumption, InstalmentsAssumption DEF DocumentsHold, RecordAssetPayment
<1>1. /\ \A x \in Assets \ {a} : asset'[x] = asset[x]
      /\ asset'[a].status = "ACTIVE" /\ asset'[a].paid = asset[a].paid + amount
      /\ asset'[a].payments = asset[a].payments + 1
  BY <1>0 DEF RecordAssetPayment, AssetRow
<1>2. /\ AssetHere(a) /\ AssetHere(a)' /\ StillOwed(a)' = StillOwed(a) - amount /\ StillOwed(a) \in Int
      /\ \A x \in Assets \ {a} : AssetHere(x)' <=> AssetHere(x)
  BY <1>0, <1>1 DEF AssetHere, StillOwed, AssetRow
<1>3. /\ EntriesHold'
      /\ \A account \in BookAccounts : /\ Balance(account) \in Int
                                       /\ Balance(account)' = Balance(account) + LineOf(AssetPaymentEntry(amount), account)
  <2> DEFINE source == <<"assetPayment", a, asset[a].payments + 1>>
  <2>1. Post(source, AssetPaymentEntry(amount))
    BY DEF RecordAssetPayment
  <2>2. source \notin PayrollSources
    BY DEF PayrollSources
  <2>3. \A account \in BookAccounts : LineOf(AssetPaymentEntry(amount), account) \in Int
    BY <1>0, EntryLines DEF BookAccounts
  <2> HIDE DEF source
  <2> QED BY <1>2, <2>1, <2>2, <2>3, ExpensesUntouched, PostKeepsEntries
<1>4. /\ IsFiniteSet(AssetsHere') /\ IsFiniteSet(AssetsInUse') /\ AssetsOwed \in Int /\ CostInUse \in Int
      /\ AssetsOwed' = AssetsOwed - amount
      /\ CostInUse' = CostInUse
  <2>1. /\ IsFiniteSet(AssetsHere') /\ IsFiniteSet(AssetsInUse') /\ AssetsOwed \in Int /\ CostInUse \in Int
        /\ AssetsOwed' = AssetsOwed - (IF AssetHere(a) THEN StillOwed(a) ELSE 0)
                                    + (IF AssetHere(a)' THEN StillOwed(a)' ELSE 0)
        /\ CostInUse' = CostInUse - (IF asset[a].status = "ACTIVE" THEN Terms[a].cost ELSE 0)
                                  + (IF asset'[a].status = "ACTIVE" THEN Terms[a].cost ELSE 0)
    BY <1>0, <1>1, AssetChanges DEF RowsHold
  <2> QED BY <1>0, <1>1, <1>2, <2>1
<1>5. RowsHold'
  BY <1>0, <1>1, <1>4, ExpensesUntouched DEF RowsHold, AssetRow
<1>6. BooksAgree'
  BY <1>0, <1>3, <1>4, Books, EntryLines, ExpensesUntouched DEF BookAccounts
<1> QED BY <1>3, <1>5, <1>6

\* A disposed asset leaves its account, and is still owed for.
LEMMA DisposeKeeps ==
  ASSUME DocumentsHold, DocumentsHold', EntriesHold, RowsHold, BooksAgree, expense' = expense,
         NEW a \in Assets, NEW proceeds, DisposeAsset(a, proceeds)
  PROVE  EntriesHold' /\ RowsHold' /\ BooksAgree'
<1>0. /\ asset \in [Assets -> AssetRow] /\ asset' \in [Assets -> AssetRow] /\ asset[a] \in AssetRow
      /\ asset[a].status = "ACTIVE" /\ Terms[a].cost \in Nat
  BY AssetsAssumption DEF DocumentsHold, DisposeAsset
<1>1. /\ \A x \in Assets \ {a} : asset'[x] = asset[x]
      /\ asset'[a].status = "DISPOSED" /\ asset'[a].paid = asset[a].paid
      /\ asset'[a].payments = asset[a].payments
  BY <1>0 DEF DisposeAsset, AssetRow
<1>2. /\ AssetHere(a) /\ AssetHere(a)' /\ StillOwed(a)' = StillOwed(a) /\ StillOwed(a) \in Int
      /\ \A x \in Assets \ {a} : AssetHere(x)' <=> AssetHere(x)
  BY <1>0, <1>1 DEF AssetHere, StillOwed, AssetRow
<1>3. /\ EntriesHold'
      /\ \A account \in BookAccounts : /\ Balance(account) \in Int
                                       /\ Balance(account)' = Balance(account) + LineOf(DisposalEntry(a, proceeds), account)
  <2>1. Post(<<"disposal", a>>, DisposalEntry(a, proceeds))
    BY DEF DisposeAsset
  <2>2. <<"disposal", a>> \notin PayrollSources
    BY DEF PayrollSources
  <2>3. \A account \in BookAccounts : LineOf(DisposalEntry(a, proceeds), account) \in Int
    BY <1>0, EntryLines DEF BookAccounts
  <2> QED BY <1>2, <2>1, <2>2, <2>3, ExpensesUntouched, PostKeepsEntries
<1>4. /\ IsFiniteSet(AssetsHere') /\ IsFiniteSet(AssetsInUse') /\ AssetsOwed \in Int /\ CostInUse \in Int
      /\ AssetsOwed' = AssetsOwed
      /\ CostInUse' = CostInUse - Terms[a].cost
  <2>1. /\ IsFiniteSet(AssetsHere') /\ IsFiniteSet(AssetsInUse') /\ AssetsOwed \in Int /\ CostInUse \in Int
        /\ AssetsOwed' = AssetsOwed - (IF AssetHere(a) THEN StillOwed(a) ELSE 0)
                                    + (IF AssetHere(a)' THEN StillOwed(a)' ELSE 0)
        /\ CostInUse' = CostInUse - (IF asset[a].status = "ACTIVE" THEN Terms[a].cost ELSE 0)
                                  + (IF asset'[a].status = "ACTIVE" THEN Terms[a].cost ELSE 0)
    BY <1>0, <1>1, AssetChanges DEF RowsHold
  <2> QED BY <1>0, <1>1, <1>2, <2>1
<1>5. RowsHold'
  BY <1>0, <1>1, <1>4, ExpensesUntouched DEF RowsHold
<1>6. BooksAgree'
  BY <1>0, <1>3, <1>4, Books, EntryLines, ExpensesUntouched DEF BookAccounts
<1> QED BY <1>3, <1>5, <1>6

\* An asset without payments that is in use goes with its cost, owed and shown.
LEMMA VoidAssetKeeps ==
  ASSUME DocumentsHold, DocumentsHold', EntriesHold, RowsHold, BooksAgree, expense' = expense,
         NEW a \in Assets, AssetCanGo(a), asset[a].status = "ACTIVE",
         asset' = [asset EXCEPT ![a].status = "DELETED"], VoidAll({<<"acquired", a>>})
  PROVE  EntriesHold' /\ RowsHold' /\ BooksAgree'
<1>0. /\ asset \in [Assets -> AssetRow] /\ asset' \in [Assets -> AssetRow] /\ asset[a] \in AssetRow
      /\ asset[a].payments = 0 /\ asset[a].paid = 0 /\ Terms[a].cost \in Nat
  BY AssetsAssumption DEF DocumentsHold, AssetCanGo, RowsHold
<1>1. /\ \A x \in Assets \ {a} : asset'[x] = asset[x]
      /\ asset'[a].status = "DELETED" /\ asset'[a].paid = 0 /\ asset'[a].payments = 0
  BY <1>0 DEF AssetRow
<1>2. /\ AssetHere(a) /\ ~ AssetHere(a)' /\ StillOwed(a) = Terms[a].cost
      /\ \A x \in Assets \ {a} : AssetHere(x)' <=> AssetHere(x)
  BY <1>0, <1>1 DEF AssetHere, StillOwed
<1>3. /\ <<"acquired", a>> \in DOMAIN posted /\ posted[<<"acquired", a>>] = AcquisitionEntry(a)
      /\ LedgerHolds'
      /\ \A account \in BookAccounts : /\ Balance(account) \in Int
                                       /\ Balance(account)' = Balance(account) - LineOf(AcquisitionEntry(a), account)
      /\ DOMAIN posted' = DOMAIN posted \ {<<"acquired", a>>}
      /\ \A s \in DOMAIN posted' : posted'[s] = posted[s]
  <2>1. <<"acquired", a>> \in DOMAIN posted /\ posted[<<"acquired", a>>] = AcquisitionEntry(a)
    BY <1>2 DEF EntriesHold
  <2> QED BY <2>1, VoidTakes DEF EntriesHold
<1>4. EntriesHold'
  <2>1. \A x \in Assets \ {a} : <<"acquired", x>> # <<"acquired", a>>
    OBVIOUS
  <2>2. \A e \in ExpenseIds : <<"expense", e>> # <<"acquired", a>>
    OBVIOUS
  <2>3. \A x \in ExpenseIds : ExpenseEntry(x)' = ExpenseEntry(x)
    BY DEF ExpenseEntry
  <2>4. \A x \in Assets : AcquisitionEntry(x)' = AcquisitionEntry(x)
    BY DEF AcquisitionEntry
  <2>5. \A x \in ExpenseIds :
          ExpenseHere(x)' => <<"expense", x>> \in DOMAIN posted' /\ posted'[<<"expense", x>>] = ExpenseEntry(x)'
    BY <1>3, <2>2, <2>3, ExpensesUntouched DEF EntriesHold
  <2>6. \A x \in Assets :
          AssetHere(x)' => <<"acquired", x>> \in DOMAIN posted' /\ posted'[<<"acquired", x>>] = AcquisitionEntry(x)'
    BY <1>2, <1>3, <2>1, <2>4 DEF EntriesHold
  <2>7. \A s \in PayrollSources \cap DOMAIN posted' : \A account \in BookAccounts : LineOf(posted'[s], account) = 0
    BY <1>3 DEF EntriesHold
  <2> QED BY <1>3, <2>5, <2>6, <2>7 DEF EntriesHold
<1>5. /\ IsFiniteSet(AssetsHere') /\ IsFiniteSet(AssetsInUse') /\ AssetsOwed \in Int /\ CostInUse \in Int
      /\ AssetsOwed' = AssetsOwed - Terms[a].cost
      /\ CostInUse' = CostInUse - Terms[a].cost
  <2>1. /\ IsFiniteSet(AssetsHere') /\ IsFiniteSet(AssetsInUse') /\ AssetsOwed \in Int /\ CostInUse \in Int
        /\ AssetsOwed' = AssetsOwed - (IF AssetHere(a) THEN StillOwed(a) ELSE 0)
                                    + (IF AssetHere(a)' THEN StillOwed(a)' ELSE 0)
        /\ CostInUse' = CostInUse - (IF asset[a].status = "ACTIVE" THEN Terms[a].cost ELSE 0)
                                  + (IF asset'[a].status = "ACTIVE" THEN Terms[a].cost ELSE 0)
    BY <1>0, <1>1, AssetChanges DEF RowsHold
  <2> QED BY <1>0, <1>1, <1>2, <2>1
<1>6. RowsHold'
  BY <1>1, <1>5, ExpensesUntouched DEF RowsHold
<1>7. BooksAgree'
  BY <1>0, <1>3, <1>5, Books, EntryLines, ExpensesUntouched DEF BookAccounts
<1> QED BY <1>4, <1>6, <1>7

\* A charge is none of what is owed, and none of the cost.
LEMMA ChargeKeepsBooks ==
  ASSUME DocumentsHold, DocumentsHold', EntriesHold, RowsHold, BooksAgree, expense' = expense,
         NEW a \in Assets, NEW amount, NEW through,
         asset' = [asset EXCEPT ![a].accumulated = @ + amount, ![a].through = through],
         Post(<<"depreciation", a, through>>, DepreciationEntry(amount))
  PROVE  /\ EntriesHold' /\ RowsHold' /\ BooksAgree'
         /\ \A x \in Assets : asset'[x].status = asset[x].status
<1>0. asset \in [Assets -> AssetRow] /\ asset' \in [Assets -> AssetRow] /\ asset[a] \in AssetRow /\ Terms[a].cost \in Nat
  BY AssetsAssumption DEF DocumentsHold
<1>1. /\ \A x \in Assets \ {a} : asset'[x] = asset[x]
      /\ asset'[a].status = asset[a].status /\ asset'[a].paid = asset[a].paid
      /\ asset'[a].payments = asset[a].payments
  BY <1>0 DEF AssetRow
<1>2. /\ \A x \in Assets : AssetHere(x)' <=> AssetHere(x)
      /\ StillOwed(a)' = StillOwed(a) /\ StillOwed(a) \in Int
  BY <1>0, <1>1 DEF AssetHere, StillOwed, AssetRow
<1>3. /\ EntriesHold'
      /\ \A account \in BookAccounts : Balance(account)' = Balance(account)
  <2> DEFINE source == <<"depreciation", a, through>>
  <2>1. Post(source, DepreciationEntry(amount))
    OBVIOUS
  <2>2. source \notin PayrollSources
    BY DEF PayrollSources
  <2>3. \A account \in BookAccounts : LineOf(DepreciationEntry(amount), account) = 0
    BY EntryLines
  <2> HIDE DEF source
  <2>4. /\ EntriesHold'
        /\ \A account \in BookAccounts : /\ Balance(account) \in Int
                                         /\ Balance(account)' = Balance(account) + LineOf(DepreciationEntry(amount), account)
    BY <1>2, <2>1, <2>2, <2>3, ExpensesUntouched, PostKeepsEntries
  <2> QED BY <2>3, <2>4
<1>4. /\ IsFiniteSet(AssetsHere') /\ IsFiniteSet(AssetsInUse')
      /\ AssetsOwed' = AssetsOwed /\ CostInUse' = CostInUse
  <2>1. /\ IsFiniteSet(AssetsHere') /\ IsFiniteSet(AssetsInUse') /\ AssetsOwed \in Int /\ CostInUse \in Int
        /\ AssetsOwed' = AssetsOwed - (IF AssetHere(a) THEN StillOwed(a) ELSE 0)
                                    + (IF AssetHere(a)' THEN StillOwed(a)' ELSE 0)
        /\ CostInUse' = CostInUse - (IF asset[a].status = "ACTIVE" THEN Terms[a].cost ELSE 0)
                                  + (IF asset'[a].status = "ACTIVE" THEN Terms[a].cost ELSE 0)
    BY <1>0, <1>1, AssetChanges DEF RowsHold
  <2> QED BY <1>0, <1>1, <1>2, <2>1
<1>5. RowsHold'
  BY <1>1, <1>4, ExpensesUntouched DEF RowsHold
<1>6. BooksAgree'
  BY <1>3, <1>4, Books, ExpensesUntouched DEF BookAccounts
<1> QED BY <1>1, <1>3, <1>5, <1>6

\* While a request to take back an asset is half done no other writes.
LEMMA NoneToVoid ==
  ASSUME "voidAsset" \notin Overlapping
  PROVE  /\ Quiet => \A c \in Clients : at[c].op # "voidAsset"
         /\ \A c \in Clients : Undisturbed(c) => \A e \in Clients \ {c} : at[e].op # "voidAsset"
BY DEF Quiet, Undisturbed

\* The steps of assets keep the books if none comes between a void's two.
LEMMA AssetsKeepBooks ==
  ASSUME DocumentsInv, DocumentsHold', BooksInv, FixedAssetsNext, expense' = expense,
         "voidAsset" \notin Overlapping
  PROVE  BooksInv'
<1>0. RequestsHold /\ DocumentsHold /\ EntriesHold /\ RowsHold /\ BooksAgree /\ AssetsAwait
  BY DEF BooksInv, DocumentsInv, RunsInv
<1>1. ASSUME AtOnce, EntriesHold' /\ RowsHold' /\ BooksAgree' PROVE BooksInv'
  BY <1>1, NoneToVoid DEF BooksInv, AssetsAwait, AtOnce
<1>2. ASSUME NEW a \in Assets, CreateAsset(a) PROVE BooksInv'
  BY <1>0, <1>1, <1>2, CreateAssetKeeps DEF CreateAsset
<1>3. ASSUME NEW a \in Assets, NEW amount \in Instalments, RecordAssetPayment(a, amount) PROVE BooksInv'
  BY <1>0, <1>1, <1>3, PayAssetKeeps DEF RecordAssetPayment
<1>4. ASSUME NEW a \in Assets, NEW proceeds \in Proceeds, DisposeAsset(a, proceeds) PROVE BooksInv'
  BY <1>0, <1>1, <1>4, DisposeKeeps DEF DisposeAsset
<1>5. ASSUME NEW a \in Assets, NEW c \in Clients, ReadToVoidAsset(c, a) PROVE BooksInv'
  <2> DEFINE new == [op |-> "voidAsset", doc |-> a, amount |-> 0, due |-> {}]
  <2>1. asset[a].status = "ACTIVE" /\ Reads(c, "voidAsset", a, 0, {}) /\ UNCHANGED <<posted, expense, asset>>
    BY <1>5 DEF ReadToVoidAsset
  <2>2. \A e \in Clients : at'[e] = IF e = c THEN new ELSE at[e]
    BY <1>0, <2>1, RequestReads
  <2>3. new.doc = a
    OBVIOUS
  <2> HIDE DEF new
  <2>4. AssetsAwait'
    BY <1>0, <2>1, <2>2, <2>3 DEF AssetsAwait
  <2> QED BY <1>0, <2>1, <2>4, BooksUntouched DEF BooksInv
<1>6. ASSUME NEW c \in Clients, NEW date \in ThroughDates, ReadToDepreciate(c, date) PROVE BooksInv'
  <2>1. UNCHANGED <<posted, expense, asset>>
        /\ \E op, doc, amount, due : op # "voidAsset" /\ Reads(c, op, doc, amount, due)
    BY <1>6 DEF ReadToDepreciate
  <2>2. \A e \in Clients : at'[e].op = "voidAsset" => at'[e] = at[e]
    BY <1>0, <2>1, RequestsAwait
  <2> QED BY <1>0, <2>1, <2>2, BooksUntouched DEF BooksInv, AssetsAwait
<1>7. ASSUME NEW c \in Clients, EndDepreciation(c) PROVE BooksInv'
  <2>1. UNCHANGED <<posted, expense, asset>> /\ Done(c)
    BY <1>7 DEF EndDepreciation
  <2>2. \A e \in Clients : at'[e].op = "voidAsset" => at'[e] = at[e]
    BY <1>0, <2>1, RequestsAwait
  <2> QED BY <1>0, <2>1, <2>2, BooksUntouched DEF BooksInv, AssetsAwait
<1>8. ASSUME NEW c \in Clients, Depreciate(c) PROVE BooksInv'
  <2>1. Undisturbed(c) /\ at[c].op = "depreciate"
    BY <1>8 DEF Depreciate, Writing
  <2>2. \A e \in Clients : at[e].op # "voidAsset"
    BY <2>1, NoneToVoid
  <2>3. \A e \in Clients : at'[e].op # "voidAsset"
    <3>1. CASE Done(c)
      BY <1>0, <2>2, <3>1, RequestDone DEF Idle
    <3>2. ASSUME NEW rest, at' = [at EXCEPT ![c].due = rest] PROVE \A e \in Clients : at'[e].op # "voidAsset"
      <4> DEFINE new == [at[c] EXCEPT !.due = rest]
      <4>1. at' = [at EXCEPT ![c] = new]
        BY <3>2
      <4>2. new.op = at[c].op
        <5>1. at[c] = [op |-> at[c].op, doc |-> at[c].doc, amount |-> at[c].amount, due |-> at[c].due]
          BY <1>0 DEF RequestsHold
        <5> QED BY <5>1
      <4> HIDE DEF new
      <4>3. \A e \in Clients : at'[e] = IF e = c THEN new ELSE at[e]
        BY <1>0, <4>1 DEF RequestsHold
      <4> QED BY <2>2, <4>2, <4>3
    <3> QED BY <1>8, <3>1, <3>2 DEF Depreciate
  <2>4. AssetsAwait'
    BY <2>3 DEF AssetsAwait
  <2>5. PICK d \in at[c].due :
          IF Claimable(d)
          THEN /\ asset' = [asset EXCEPT ![d.asset].accumulated = @ + d.amount, ![d.asset].through = d.through]
               /\ Post(<<"depreciation", d.asset, d.through>>, DepreciationEntry(d.amount))
          ELSE UNCHANGED <<posted, asset>>
    BY <1>8 DEF Depreciate
  <2>6. CASE Claimable(d)
    <3>1. d.asset \in Assets
      BY <2>1 DEF DocumentsInv, ChargesHold, DueHolds
    <3> QED BY <1>0, <2>4, <2>5, <2>6, <3>1, ChargeKeepsBooks DEF BooksInv
  <2>7. CASE ~ Claimable(d)
    BY <1>0, <2>4, <2>5, <2>7, BooksUntouched DEF BooksInv
  <2> QED BY <2>6, <2>7
<1>9. ASSUME NEW c \in Clients, VoidAsset(c) PROVE BooksInv'
  <2>1. at[c].doc \in Assets /\ Done(c) /\ Undisturbed(c) /\ asset[at[c].doc].status = "ACTIVE"
    BY <1>0, <1>9 DEF VoidAsset, Writing, DocumentsHold, GoodRequest, AssetsAwait
  <2>2. \A e \in Clients : at'[e].op # "voidAsset"
    BY <1>0, <2>1, NoneToVoid, RequestDone DEF Idle
  <2>3. AssetsAwait'
    BY <2>2 DEF AssetsAwait
  <2>4. CASE AssetCanGo(at[c].doc)
    <3>1. /\ asset' = [asset EXCEPT ![at[c].doc].status = "DELETED"]
          /\ VoidAll({<<"acquired", at[c].doc>>})
      BY <1>9, <2>4 DEF VoidAsset
    <3> QED BY <1>0, <2>1, <2>3, <2>4, <3>1, VoidAssetKeeps DEF BooksInv
  <2>5. CASE ~ AssetCanGo(at[c].doc)
    BY <1>0, <1>9, <2>3, <2>5, BooksUntouched DEF VoidAsset, BooksInv
  <2> QED BY <2>4, <2>5
<1> QED BY <1>2, <1>3, <1>4, <1>5, <1>6, <1>7, <1>8, <1>9 DEF FixedAssetsNext

\* The books agree at first, with nothing on them, and after every step.
LEMMA BooksInit == Init => BooksInv
<1> SUFFICES ASSUME Init PROVE BooksInv
  OBVIOUS
<1>1. /\ DOMAIN posted = {} /\ \A c \in Clients : at[c] = Idle
      /\ \A e \in ExpenseIds : expense[e].is = "none" /\ expense[e].paid = 0 /\ expense[e].payments = 0
      /\ \A a \in Assets : asset[a].status = "NONE" /\ asset[a].paid = 0 /\ asset[a].payments = 0
  BY DEF Init, LedgerInit, ExpenseInit, AssetInit
<1>2. ExpensesHere = {} /\ AssetsHere = {} /\ AssetsInUse = {}
  BY <1>1 DEF ExpensesHere, AssetsHere, AssetsInUse, ExpenseHere, AssetHere
<1>3. EntriesHold
  BY <1>1, FS_EmptySet DEF EntriesHold, LedgerHolds, ExpenseHere, AssetHere
<1>4. RowsHold
  BY <1>1, <1>2, FS_EmptySet DEF RowsHold
<1>5. AssetsAwait
  BY <1>1 DEF AssetsAwait, Idle
<1>6. ASSUME NEW f, DOMAIN f = {} PROVE SumFunction(f) = 0
  BY <1>6, FS_EmptySet, SumSplit DEF SumFunction
<1>7. ExpensesOwed = 0 /\ AssetsOwed = 0 /\ CostInUse = 0
  BY <1>2, <1>6 DEF ExpensesOwed, AssetsOwed, CostInUse
<1>8. \A account \in BookAccounts : Balance(account) = 0
  BY <1>1, <1>6 DEF Balance
<1>9. BooksAgree
  BY <1>7, <1>8, Books DEF BookAccounts
<1> QED BY <1>3, <1>4, <1>5, <1>9 DEF BooksInv

LEMMA BooksStep ==
  ASSUME DocumentsInv, DocumentsInv', BooksInv, [Next]_vars, "voidAsset" \notin Overlapping
  PROVE  BooksInv'
<1>0. RequestsHold /\ DocumentsHold /\ DocumentsHold'
  BY DEF DocumentsInv, RunsInv
<1>1. CASE ExpensesNext /\ UNCHANGED <<asset, payroll>>
  BY <1>0, <1>1, ExpensesKeepBooks
<1>2. CASE FixedAssetsNext /\ UNCHANGED <<expense, payroll>>
  BY <1>0, <1>2, AssetsKeepBooks
<1>3. CASE PayrollNext /\ UNCHANGED <<expense, asset>>
  BY <1>0, <1>3, PayrollKeepsBooks
<1>4. CASE UNCHANGED vars
  BY <1>4, BooksUntouched DEF vars, BooksInv, AssetsAwait
<1> QED BY <1>1, <1>2, <1>3, <1>4 DEF Next

-----------------------------------------------------------------------------
(* The theorems *)

\* The inductive invariant: the rows of runs keep their types, and a run
\* holds the slot of its period exactly while it is live.
THEOREM PayrollInvariant == Spec => []RunsInv
<1>1. Init => RunsInv
  BY BackOfficeInit
<1>2. RunsInv /\ [Next]_vars => RunsInv'
  BY BackOfficeStep
<1> QED BY <1>1, <1>2, PTL DEF Spec

\* However many drafts of a period's payroll are made at a time, one run of
\* it is live: the unique activeSlot of create() and void() sees to it.
THEOREM PeriodHasOneRun == Spec => []OneLiveRun
<1>1. RunsInv => OneLiveRun
  <2> SUFFICES ASSUME RunsInv PROVE OneLiveRun
    OBVIOUS
  <2>1. \A r \in LiveRuns : payroll[r].active
    BY DEF RunsInv, SlotHolds, LiveRuns, Sheet, Live
  <2>2. \A r, s \in LiveRuns : r = s
    BY <2>1 DEF RunsInv, SlotHolds, LiveRuns
  <2>3. CASE LiveRuns = {}
    BY <2>3, FS_EmptySet DEF OneLiveRun
  <2>4. CASE \E r \in LiveRuns : LiveRuns = {r}
    <3>1. PICK r \in LiveRuns : LiveRuns = {r}
      BY <2>4
    <3>2. Cardinality({r}) = 1
      BY FS_Singleton
    <3> QED BY <3>1, <3>2 DEF OneLiveRun
  <2>5. LiveRuns = {} \/ \E r \in LiveRuns : LiveRuns = {r}
    BY <2>2
  <2> QED BY <2>3, <2>4, <2>5
<1> QED BY <1>1, PayrollInvariant, PTL

\* Whatever comes between the reading and the deleting of remove(), a run that
\* exists has exactly the entries of its status, and no disbursement stays on
\* the ledger without the entry it discharges.
THEOREM LedgerTellsRuns == Spec => []PayrollMatchesLedger
<1>1. Init => RunsInv /\ PayrollMatchesLedger
  BY BackOfficeInit
<1>2. (RunsInv /\ PayrollMatchesLedger) /\ [Next]_vars => (RunsInv /\ PayrollMatchesLedger)'
  BY BackOfficeStep
<1> QED BY <1>1, <1>2, PTL DEF Spec

\* The inductive invariant of the documents: rows keep their types, and each
\* charge that a run has found due is still what is due unless depreciation
\* has gone further since.
THEOREM DocumentsInvariant == Spec => []DocumentsInv
<1>1. Init => DocumentsInv
  BY DocumentsInit
<1>2. DocumentsInv /\ [Next]_vars => DocumentsInv'
  BY DocumentsStep
<1> QED BY <1>1, <1>2, PTL DEF Spec

\* However many runs of depreciation there are at a time and whatever they are
\* run through, an asset is charged for its whole months and never beyond its
\* base: runDepreciation() claims the row by the date it has read.
THEOREM ChargesFollowAge == Spec => []DepreciationFollowsAge
<1>1. DocumentsInv => DepreciationFollowsAge
  BY DEF DocumentsInv, ChargesHold
<1> QED BY <1>1, DocumentsInvariant, PTL

\* If no request comes between the reading and the deleting of
\* voidUnrecorded(), the payables and the asset account are at every moment
\* what is owed on the documents that exist and the cost of the assets in use.
THEOREM BooksFollowDocuments ==
  ASSUME "voidAsset" \notin Overlapping
  PROVE  Spec => []BooksAgree
<1>1. Init => BooksInv
  BY BooksInit
<1>2. DocumentsInv /\ DocumentsInv' /\ BooksInv /\ [Next]_vars => BooksInv'
  BY BooksStep
<1>3. BooksInv => BooksAgree
  BY DEF BooksInv
<1> QED BY <1>1, <1>2, <1>3, DocumentsInvariant, PTL DEF Spec
=============================================================================
