-------------------------- MODULE BackOfficeLedger --------------------------
(***************************************************************************)
(* What the expenses, fixed assets and payrolls of an organisation share:  *)
(* the ledger they post to, by the source of each entry, and the requests  *)
(* that have read and not yet written.                                     *)
(*                                                                         *)
(* A void marks an entry and posts its mirror, which Journal models: here  *)
(* the entry is gone and its source is free.  Amounts are in cents,        *)
(* credits positive.  Dates, periods and bank accounts are left out.       *)
(***************************************************************************)
EXTENDS Integers, FiniteSets, Functions, TLC

CONSTANTS
  Clients,      \* those whose requests may be open at the same time
  Overlapping,  \* the requests that others may come between
  Instalments,  \* what one payment may be
  None          \* no document

ASSUME InstalmentsAssumption == Instalments \subseteq Nat \ {0}

VARIABLES
  posted,  \* the lines of each posted entry, by source
  at       \* what each client's request has read

Accounts == {"cash", "expense", "expensePayable", "fixedAssets", "fixedAssetPayable",
             "accumulated", "depreciation", "gainOrLoss", "salaries", "payrollPayable", "deductions"}

Lines(account, amount, contra) == [x \in {account, contra} |-> IF x = account THEN -amount ELSE amount]

\* postEntry(): a source that is posted already is refused, with all that the
\* transaction has done.
Post(source, lines) ==
  /\ source \notin DOMAIN posted
  /\ posted' = [s \in DOMAIN posted \cup {source} |-> IF s = source THEN lines ELSE posted[s]]

\* findPostedBySource() and voidEntry(), of each source that is posted.
VoidAll(sources) ==
  posted' = [s \in DOMAIN posted \ sources |-> posted[s]]

LineOf(entry, account) == IF account \in DOMAIN entry THEN entry[account] ELSE 0

Balance(account) == SumFunction([s \in DOMAIN posted |-> LineOf(posted[s], account)])

-----------------------------------------------------------------------------

Idle == [op |-> "idle", doc |-> None, amount |-> 0, due |-> {}]

Quiet          == \A c \in Clients : at[c].op \in Overlapping \cup {"idle"}
Undisturbed(c) == \A e \in Clients \ {c} : at[e].op \in Overlapping \cup {"idle"}

\* A request that reads, and is to write later.
Reads(c, op, doc, amount, due) ==
  /\ at[c] = Idle
  /\ Quiet
  /\ at' = [at EXCEPT ![c] = [op |-> op, doc |-> doc, amount |-> amount, due |-> due]]

Writing(c, op) == at[c].op = op /\ Undisturbed(c)

Done(c) == at' = [at EXCEPT ![c] = Idle]

\* A request that is one transaction.
AtOnce == Quiet /\ UNCHANGED at

LedgerInit ==
  /\ posted = <<>>
  /\ at = [c \in Clients |-> Idle]
=============================================================================
