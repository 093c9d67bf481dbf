------------------------------ MODULE Payroll -------------------------------
(***************************************************************************)
(* The payroll runs of one period and pay type: drafted from the salaries  *)
(* of the moment, posted, paid, voided, and removed while they are drafts. *)
(***************************************************************************)
EXTENDS BackOfficeLedger

CONSTANTS
  Runs,      \* ids of payroll runs
  Payslips   \* the totals a run may be made with: gross and net pay

ASSUME PayrollAssumption ==
  Payslips \subseteq {p \in [gross : Nat \ {0}, net : Nat] : p.net <= p.gross}

VARIABLE payroll  \* status, activeSlot and totals of each run

PayrollInit ==
  payroll = [r \in Runs |-> [status |-> "NONE", active |-> FALSE, pay |-> None]]

LiveRuns == {r \in Runs : payroll[r].status \notin {"NONE", "VOID", "DELETED"}}

\* create(): no live run of the period is seen, and the salaries are read.
ReadToCreateRun(c, r, pay) ==
  /\ payroll[r].status = "NONE"
  /\ LiveRuns = {}
  /\ Reads(c, "createRun", r, 0, {pay})
  /\ UNCHANGED <<posted, payroll>>

\* Mutant of SlotFree: the key of a run has no activeSlot in it.
SlotAlwaysFree == TRUE

\* The unique key of the period, with activeSlot.
SlotFree == \A r \in Runs : ~ payroll[r].active

CreateRun(c) ==
  /\ Writing(c, "createRun")
  /\ IF SlotFree /\ payroll[at[c].doc].status = "NONE"
     THEN \E pay \in at[c].due :
            payroll' = [payroll EXCEPT ![at[c].doc] = [status |-> "DRAFT", active |-> TRUE, pay |-> pay]]
     ELSE UNCHANGED payroll
  /\ Done(c)
  /\ UNCHANGED posted

\* postPayrollRun(), postPayrollPaid()
RunEntry(pay)  == [salaries |-> -pay.gross, payrollPayable |-> pay.net, deductions |-> pay.gross - pay.net]
PaidEntry(pay) == Lines("payrollPayable", pay.net, "cash")

\* post(): an entry has no line of zero, so a run of no net pay is refused.
PostRun(r) ==
  /\ AtOnce
  /\ payroll[r].status = "DRAFT"
  /\ payroll[r].pay.net > 0
  /\ payroll' = [payroll EXCEPT ![r].status = "POSTED"]
  /\ Post(<<"payroll", r>>, RunEntry(payroll[r].pay))

\* markPaid()
PayRun(r) ==
  /\ AtOnce
  /\ payroll[r].status = "POSTED"
  /\ payroll' = [payroll EXCEPT ![r].status = "PAID"]
  /\ Post(<<"payrollPaid", r>>, PaidEntry(payroll[r].pay))

\* Mutant of SourcesOfRun: the entry of the disbursement is forgotten.
SourcesButPaid(r) == {<<"payroll", r>>}

\* payrollJournalSourceIds()
SourcesOfRun(r) == {<<"payroll", r>>, <<"payrollPaid", r>>}

\* void()
VoidRun(r) ==
  /\ AtOnce
  /\ payroll[r].status \in {"POSTED", "PAID"}
  /\ payroll' = [payroll EXCEPT ![r].status = "VOID", ![r].active = FALSE]
  /\ VoidAll(SourcesOfRun(r))

\* remove(): the status is read before the transaction, which asks no more.
ReadToRemoveRun(c, r) ==
  /\ payroll[r].status = "DRAFT"
  /\ Reads(c, "removeRun", r, 0, {})
  /\ UNCHANGED <<posted, payroll>>

RemoveRun(c) ==
  /\ Writing(c, "removeRun")
  /\ payroll' = IF payroll[at[c].doc].status \in {"NONE", "DELETED"} THEN payroll
                ELSE [payroll EXCEPT ![at[c].doc] = [status |-> "DELETED", active |-> FALSE, pay |-> None]]
  /\ Done(c)
  /\ UNCHANGED posted

PayrollNext ==
  \/ \E r \in Runs :
       \/ PostRun(r) \/ PayRun(r) \/ VoidRun(r)
       \/ \E c \in Clients :
            \/ \E pay \in Payslips : ReadToCreateRun(c, r, pay)
            \/ ReadToRemoveRun(c, r)
  \/ \E c \in Clients : CreateRun(c) \/ RemoveRun(c)
=============================================================================
