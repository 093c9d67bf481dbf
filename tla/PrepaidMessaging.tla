-------------------------- MODULE PrepaidMessaging --------------------------
(***************************************************************************)
(* Documents and payment reminders sent by WhatsApp, which is charged to   *)
(* the prepaid balance, or by email, which is free.  Each attempt is a     *)
(* chain of steps with the provider, the file storage and the database in  *)
(* turn; the process may stop between any two of them, and the provider's  *)
(* answer may be lost.  Billing fills the balance meanwhile.               *)
(*                                                                         *)
(* Invoices, recipients and texts are left out: every reminder of Keys is  *)
(* due.  The ledger entry's link to the message is written with the log.   *)
(***************************************************************************)
EXTENDS Billing

CONSTANTS
  Attempts,   \* messages that may be tried
  Keys,       \* reminders: an invoice, a stage and a channel
  EmailKeys,  \* those that go by email
  Price,      \* of a WhatsApp message
  None        \* no reminder: a document that a user sends by WhatsApp

ASSUME MessagingAssumption ==
  /\ EmailKeys \subseteq Keys
  /\ None \notin Keys
  /\ Price \in Nat \ {0}

VARIABLE attempt   \* the reminder and the step of each attempt

vars == <<walletVars, billingVars, attempt>>

Steps == {"none", "ready", "charged", "stored", "unstored", "accepted", "refused", "refunded",
          "sent", "failed", "unlogged", "dropped"}

\* out: the message has gone out; lost: the process stopped.
TypeOK ==
  /\ BillingTypeOK
  /\ balance \in Nat
  /\ \A i \in 1..Len(ledger) : ledger[i].kind \in Kinds /\ ledger[i].of \in Payments \cup Attempts \cup {None}
  /\ attempt \in [Attempts -> [key : Keys \cup {None}, step : Steps, out : BOOLEAN, lost : BOOLEAN]]

Init ==
  /\ EmptyWallet
  /\ BillingInit
  /\ attempt = [a \in Attempts |-> [key |-> None, step |-> "none", out |-> FALSE, lost |-> FALSE]]

-----------------------------------------------------------------------------
Is(a, step) == attempt[a].step = step /\ ~ attempt[a].lost
To(a, step) == attempt' = [attempt EXCEPT ![a].step = step]
Free(a)     == attempt[a].key \in EmailKeys
Logged(k)   == \E a \in Attempts : attempt[a].key = k /\ attempt[a].step = "sent"

SendDocument(a) ==
  /\ Is(a, "none")
  /\ To(a, "ready")
  /\ UNCHANGED walletVars

\* runPaymentReminders(): a reminder that was not logged is sent.
Remind(a, k) ==
  /\ Is(a, "none")
  /\ ~ Logged(k)
  /\ attempt' = [attempt EXCEPT ![a].step = "ready", ![a].key = k]
  /\ UNCHANGED walletVars

Charge(a) ==
  /\ Is(a, "ready")
  /\ ~ Free(a)
  /\ ChargeWaMessage(Price, a)
  /\ To(a, "charged")

NotEnough(a) ==
  /\ Is(a, "ready")
  /\ ~ Free(a) /\ balance < Price
  /\ To(a, "dropped")
  /\ UNCHANGED walletVars

\* Mutant of StoreFails: nothing is given back.
StoreFailsCharged(a) ==
  /\ Is(a, "charged")
  /\ To(a, "dropped")
  /\ UNCHANGED walletVars

StoreFails(a) ==
  /\ Is(a, "charged")
  /\ To(a, "unstored")
  /\ UNCHANGED walletVars

Store(a) ==
  /\ Is(a, "charged") \/ (Is(a, "ready") /\ Free(a))
  /\ To(a, "stored")
  /\ UNCHANGED walletVars

\* The provider takes the message; its answer may be lost, which looks like a
\* refusal.
Accept(a, step) ==
  /\ Is(a, "stored")
  /\ attempt' = [attempt EXCEPT ![a].step = step, ![a].out = TRUE]
  /\ UNCHANGED walletVars

Refuse(a) ==
  /\ Is(a, "stored")
  /\ To(a, "refused")
  /\ UNCHANGED walletVars

\* Mutant of Refund: only a refusal is given back.
RefundRefused(a) ==
  /\ Is(a, "refused") /\ To(a, "refunded")
  /\ ~ Free(a)
  /\ RefundWaMessage(Price, a)

Refund(a) ==
  /\ \/ Is(a, "unstored") /\ To(a, "dropped")
     \/ Is(a, "refused") /\ To(a, "refunded")
  /\ ~ Free(a)
  /\ RefundWaMessage(Price, a)

LogFailed(a) ==
  /\ Is(a, "refunded") \/ (Is(a, "refused") /\ Free(a))
  /\ To(a, "failed")
  /\ UNCHANGED walletVars

\* A reminder has one log row: the second one is refused, after the fact.
LogSent(a) ==
  /\ Is(a, "accepted")
  /\ To(a, IF Logged(attempt[a].key) /\ attempt[a].key # None THEN "unlogged" ELSE "sent")
  /\ UNCHANGED walletVars

Ends == {"none", "sent", "failed", "unlogged", "dropped"}

AttemptLost(a) ==
  /\ attempt[a].step \notin Ends /\ ~ attempt[a].lost
  /\ attempt' = [attempt EXCEPT ![a].lost = TRUE]
  /\ UNCHANGED <<walletVars, billingVars>>

\* The platform owner corrects the balance, once (the bound).
Adjust(delta) ==
  /\ Entries(None, "ADJUSTMENT") = {}
  /\ AdjustWaBalance(delta, None)
  /\ UNCHANGED <<billingVars, attempt>>

Progress(a) ==
  /\ \/ Charge(a) \/ NotEnough(a) \/ StoreFails(a) \/ Store(a)
     \/ Accept(a, "accepted") \/ Accept(a, "refused") \/ Refuse(a)
     \/ Refund(a) \/ LogFailed(a) \/ LogSent(a)
  /\ UNCHANGED billingVars

Next ==
  \/ BillingNext /\ UNCHANGED attempt
  \/ Adjust(Price) \/ Adjust(- Price)
  \/ \E a \in Attempts :
       \/ SendDocument(a) /\ UNCHANGED billingVars
       \/ \E k \in Keys : Remind(a, k) /\ UNCHANGED billingVars
       \/ Progress(a)
       \/ AttemptLost(a)

\* The gateway repeats a call until it is answered, a call that is served goes
\* on and so does an attempt, unless its process stops.
Spec ==
  /\ Init
  /\ [][Next]_vars
  /\ \A p \in Payments :
       /\ WF_vars(p \in owed /\ (\E c \in Calls : Callback(p, c)) /\ UNCHANGED attempt)
       /\ \A c \in Calls : WF_vars(Serve(p, c) /\ UNCHANGED attempt)
  /\ \A a \in Attempts : WF_vars(Progress(a))

-----------------------------------------------------------------------------
(* Properties *)

\* What the ledger says an attempt has cost.
Cost(a) == Price * (Cardinality(Entries(a, "MESSAGE")) - Cardinality(Entries(a, "REFUND")))

\* deliverWhatsApp(): a message that was sent has cost its price, and one that
\* was not has cost nothing; when the process stopped in between, no more than
\* the price of that message is in doubt.
PaidIfSent ==
  \A a \in Attempts :
    /\ attempt[a].step \in Ends => Cost(a) = IF attempt[a].step \in {"sent", "unlogged"} /\ ~ Free(a) THEN Price ELSE 0
    /\ Cost(a) \in {0, Price}

\* A charge is never left hanging while the server runs: the message is sent
\* and logged, or the money is back.
EveryChargeSettles ==
  \A a \in Attempts : (attempt[a].step = "charged") ~> (attempt[a].step \in Ends \/ attempt[a].lost)
=============================================================================
