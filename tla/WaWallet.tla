------------------------------ MODULE WaWallet ------------------------------
(***************************************************************************)
(* The prepaid WhatsApp balance of an organisation and its ledger.  Every  *)
(* change locks the organisation's row, writes the new balance and adds an *)
(* entry, so it is one step.  Rounding to cents and the low-balance        *)
(* warning are left out.                                                   *)
(***************************************************************************)
EXTENDS Integers, Sequences

VARIABLES
  balance,  \* Organization.waBalance
  ledger    \* the rows of WaLedgerEntry, oldest first

walletVars == <<balance, ledger>>

Kinds == {"TOPUP", "MESSAGE", "REFUND", "ADJUSTMENT"}

EmptyWallet == balance = 0 /\ ledger = <<>>

\* Mutant of Apply: the entry carries the balance from before it.
ApplyStale(delta, kind, of) ==
  /\ balance' = balance + delta
  /\ ledger' = Append(ledger, [kind |-> kind, of |-> of, amount |-> delta, after |-> balance])

\* apply(); of: the payment or the message that the entry is for.
Apply(delta, kind, of) ==
  /\ balance' = balance + delta
  /\ ledger' = Append(ledger, [kind |-> kind, of |-> of, amount |-> delta, after |-> balance + delta])

ChargeWaMessage(price, of) == balance >= price /\ Apply(- price, "MESSAGE", of)
RefundWaMessage(price, of) == Apply(price, "REFUND", of)
CreditWaTopup(credit, of)  == Apply(credit, "TOPUP", of)

AdjustWaBalance(delta, of) == balance + delta >= 0 /\ Apply(delta, "ADJUSTMENT", of)

Entries(of, kind) == {i \in 1..Len(ledger) : ledger[i].of = of /\ ledger[i].kind = kind}

\* wa-wallet.ts: each entry carries the balance on from the one before it, the
\* last one is the balance, and none is below zero.
LedgerAgrees ==
  /\ balance = IF ledger = <<>> THEN 0 ELSE ledger[Len(ledger)].after
  /\ \A i \in 1..Len(ledger) :
       /\ ledger[i].after = ledger[i].amount + IF i = 1 THEN 0 ELSE ledger[i - 1].after
       /\ ledger[i].after >= 0
=============================================================================
