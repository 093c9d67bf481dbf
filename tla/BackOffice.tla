----------------------------- MODULE BackOffice -----------------------------
(***************************************************************************)
(* Expenses, fixed assets and payrolls over one ledger.                    *)
(***************************************************************************)
EXTENDS Expenses, FixedAssets, Payroll

vars == <<posted, at, expense, asset, payroll>>

Init == LedgerInit /\ ExpenseInit /\ AssetInit /\ PayrollInit

Next ==
  \/ ExpensesNext /\ UNCHANGED <<asset, payroll>>
  \/ FixedAssetsNext /\ UNCHANGED <<expense, payroll>>
  \/ PayrollNext /\ UNCHANGED <<expense, asset>>

Spec == Init /\ [][Next]_vars

-----------------------------------------------------------------------------
(* Properties *)

\* What the ledger shows as owed for expenses and fixed assets is what is still
\* owed on the documents that exist, and the assets it shows are those in use,
\* whatever requests to pay, to pay off, to take back and to dispose come
\* between one another: a payment is never posted for a document that a void
\* has already taken off the books, nor more than was owed.
BooksAgree ==
  /\ Balance("expensePayable") = SumFunction([e \in {x \in ExpenseIds : ExpenseHere(x)} |-> Owed(e)])
  /\ Balance("fixedAssetPayable") = SumFunction([a \in {x \in Assets : AssetHere(x)} |-> StillOwed(a)])
  /\ - Balance("fixedAssets") =
       SumFunction([a \in {x \in Assets : asset[x].status = "ACTIVE"} |-> Terms[a].cost])

ChargesOf(a) == {s \in DOMAIN posted : s[1] = "depreciation" /\ s[2] = a}

\* However depreciation is run, twice at a time, through any dates in any
\* order, or cut short, what has been charged on an asset is that of the whole
\* months since it was acquired, but for half a cent of rounding for each
\* charge, and never more than there was to charge.
DepreciationFollowsAge ==
  \A a \in Assets :
    LET months == Smaller(Terms[a].life, WholeMonthsBetween(Terms[a].acquired, asset[a].through))
        off    == asset[a].accumulated * Terms[a].life - Base(a) * months
    IN  /\ asset[a].accumulated <= Base(a)
        /\ 2 * Larger(off, -off) <= Terms[a].life * Cardinality(ChargesOf(a))

\* Whatever comes between the requests, a payroll run that exists has exactly
\* the entries of its status on the ledger: net pay is owed while it is POSTED,
\* and not when it is PAID, void or a draft.  A run that was removed leaves no
\* disbursement without the entry it discharges.
PayrollMatchesLedger ==
  \A r \in Runs :
    /\ payroll[r].status # "DELETED" =>
         /\ <<"payroll", r>> \in DOMAIN posted <=> payroll[r].status \in {"POSTED", "PAID"}
         /\ <<"payrollPaid", r>> \in DOMAIN posted <=> payroll[r].status = "PAID"
    /\ <<"payrollPaid", r>> \in DOMAIN posted => <<"payroll", r>> \in DOMAIN posted

\* What the comment on post() has for structurally impossible: an entry of
\* payroll whose run is not POSTED or PAID.  remove() deletes a run that was
\* posted after it read DRAFT.
EntriesHaveRuns ==
  \A r \in Runs : <<"payroll", r>> \in DOMAIN posted => payroll[r].status \in {"POSTED", "PAID"}

\* A period has one live payroll run, also when two are created at a time.
OneLiveRun == Cardinality(LiveRuns) <= 1
=============================================================================
