------------------------------ MODULE Expenses ------------------------------
(***************************************************************************)
(* Expenses: recorded with their payable, paid off in instalments or at    *)
(* once, and taken back while nothing is paid.                             *)
(***************************************************************************)
EXTENDS BackOfficeLedger

CONSTANTS
  ExpenseIds,  \* ids of expenses
  ExpenseOf    \* the amount of each

ASSUME ExpensesAssumption == ExpenseOf \in [ExpenseIds -> Nat \ {0}]

VARIABLE expense  \* amountPaid and the number of ExpensePayment rows of each

ExpenseInit ==
  expense = [e \in ExpenseIds |-> [is |-> "none", paid |-> 0, payments |-> 0]]

ExpenseHere(e) == expense[e].is = "here"
Owed(e)        == ExpenseOf[e] - expense[e].paid

\* deriveExpenseStatus()
ExpenseStatus(e) ==
  CASE expense[e].paid >= ExpenseOf[e] -> "PAID"
    [] expense[e].paid = 0 -> "UNPAID"
    [] OTHER -> "PARTIALLY_PAID"

\* postExpenseRecorded(), postExpensePayment()
ExpenseEntry(e)             == Lines("expense", ExpenseOf[e], "expensePayable")
ExpensePaymentEntry(amount) == Lines("expensePayable", amount, "cash")

\* create()
CreateExpense(e) ==
  /\ AtOnce
  /\ expense[e].is = "none"
  /\ expense' = [expense EXCEPT ![e].is = "here"]
  /\ Post(<<"expense", e>>, ExpenseEntry(e))

\* The transaction of recordPayment().
PaysExpense(e, amount) ==
  /\ ExpenseHere(e)
  /\ amount <= Owed(e)
  /\ expense' = [expense EXCEPT ![e].paid = @ + amount, ![e].payments = @ + 1]
  /\ Post(<<"expensePayment", e, expense[e].payments + 1>>, ExpensePaymentEntry(amount))

RecordExpensePayment(e, amount) == AtOnce /\ PaysExpense(e, amount)

\* markPaid(): the balance is read before recordPayment().
ReadToMarkPaid(c, e) ==
  /\ ExpenseHere(e) /\ Owed(e) > 0
  /\ Reads(c, "markPaid", e, Owed(e), {})
  /\ UNCHANGED <<posted, expense>>

MarkExpensePaid(c) ==
  /\ Writing(c, "markPaid")
  /\ \/ PaysExpense(at[c].doc, at[c].amount)
     \/ ~ (ExpenseHere(at[c].doc) /\ at[c].amount <= Owed(at[c].doc)) /\ UNCHANGED <<posted, expense>>
  /\ Done(c)

\* voidUnpaid(): the status is read before the transaction.
ReadToVoidExpense(c, e) ==
  /\ ExpenseHere(e) /\ ExpenseStatus(e) = "UNPAID"
  /\ Reads(c, "voidExpense", e, 0, {})
  /\ UNCHANGED <<posted, expense>>

\* Mutant of ExpenseCanGo: the rows of its payments go with an expense.
ExpenseCanCascade(e) == ExpenseHere(e)

\* The row may be deleted: no ExpensePayment refers to it.
ExpenseCanGo(e) == ExpenseHere(e) /\ expense[e].payments = 0

VoidExpense(c) ==
  /\ Writing(c, "voidExpense")
  /\ IF ExpenseCanGo(at[c].doc)
     THEN /\ expense' = [expense EXCEPT ![at[c].doc].is = "deleted"]
          /\ VoidAll({<<"expense", at[c].doc>>})
     ELSE UNCHANGED <<posted, expense>>
  /\ Done(c)

ExpensesNext ==
  \/ \E e \in ExpenseIds :
       \/ CreateExpense(e)
       \/ \E amount \in Instalments : RecordExpensePayment(e, amount)
       \/ \E c \in Clients : ReadToMarkPaid(c, e) \/ ReadToVoidExpense(c, e)
  \/ \E c \in Clients : MarkExpensePaid(c) \/ VoidExpense(c)
=============================================================================
