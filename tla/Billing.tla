------------------------------- MODULE Billing -------------------------------
(***************************************************************************)
(* Checkouts of one organisation at the payment gateway, for periods of    *)
(* modules or for WhatsApp credit, and the callbacks that settle them.     *)
(*                                                                         *)
(* The gateway calls back when a checkout is paid or expires and repeats   *)
(* the call until it is answered; it may also call again later.  A call    *)
(* looks the status up at the gateway, settles the payment in one          *)
(* transaction and answers.  The process may stop in the middle of it.     *)
(*                                                                         *)
(* Periods are counted from a day on which nothing has lapsed; prices,     *)
(* trials, grants without expiry and notifications are left out.           *)
(***************************************************************************)
EXTENDS WaWallet, FiniteSets

CONSTANTS
  Payments,         \* checkouts that may be made
  Modules,          \* modules that are sold
  Buys,             \* the modules that each payment buys, none for a top-up
  Credit,           \* what each top-up credits
  NCalls,           \* bound: calls for one payment that are served at a time
  MaxOutages,       \* bound: status lookups that fail
  MaxCrashes,       \* bound: calls cut short
  SettlesTogether   \* whether two payments may settle at the same time

ASSUME BillingAssumption ==
  /\ IsFiniteSet(Payments)
  /\ Buys \in [Payments -> SUBSET Modules]
  /\ Credit \in [Payments -> Nat]
  /\ NCalls \in Nat /\ MaxOutages \in Nat /\ MaxCrashes \in Nat
  /\ SettlesTogether \in BOOLEAN

Calls == 1..NCalls

VARIABLES
  invoice,   \* the status of each checkout at the gateway
  owed,      \* the payments whose callback the gateway still repeats
  payment,   \* the rows of BillingPayment: status and appliedAt
  until,     \* OrganizationModule.paidUntil, in periods
  orgUntil,  \* Organization.paidUntil, in periods
  call,      \* what each call has got to
  outages,   \* lookups that failed
  crashes    \* calls cut short

billingVars == <<invoice, owed, payment, until, orgUntil, call, outages, crashes>>

CallSteps == {"idle", "called", "paid", "expired", "settling", "answering"}

IdleCall == [step |-> "idle", read |-> [m \in Modules |-> 0]]

BillingTypeOK ==
  /\ invoice \in [Payments -> {"NONE", "PENDING", "PAID", "EXPIRED"}]
  /\ owed \in SUBSET Payments
  /\ payment \in [Payments -> [status : {"NONE", "PENDING", "PAID", "EXPIRED"}, applied : BOOLEAN]]
  /\ until \in [Modules -> 0..Cardinality(Payments)]
  /\ orgUntil \in 0..Cardinality(Payments)
  /\ call \in [Payments -> [Calls -> [step : CallSteps, read : [Modules -> 0..Cardinality(Payments)]]]]
  /\ outages \in 0..MaxOutages
  /\ crashes \in 0..MaxCrashes

BillingInit ==
  /\ invoice = [p \in Payments |-> "NONE"]
  /\ owed = {}
  /\ payment = [p \in Payments |-> [status |-> "NONE", applied |-> FALSE]]
  /\ until = [m \in Modules |-> 0]
  /\ orgUntil = 0
  /\ call = [p \in Payments |-> [c \in Calls |-> IdleCall]]
  /\ outages = 0
  /\ crashes = 0

BillingStart == EmptyWallet /\ BillingInit

-----------------------------------------------------------------------------
(* The customer and the gateway *)

\* createCheckout(); the address to pay at is handed out with the row.
CreateCheckout(p) ==
  /\ invoice[p] = "NONE"
  /\ invoice' = [invoice EXCEPT ![p] = "PENDING"]
  /\ payment' = [payment EXCEPT ![p].status = "PENDING"]
  /\ UNCHANGED <<owed, until, orgUntil, call, outages, crashes, walletVars>>

\* The checkout is paid or runs out, and the gateway will say so.
Close(p, status) ==
  /\ invoice[p] = "PENDING"
  /\ invoice' = [invoice EXCEPT ![p] = status]
  /\ owed' = owed \cup {p}
  /\ UNCHANGED <<payment, until, orgUntil, call, outages, crashes, walletVars>>

-----------------------------------------------------------------------------
(* handleXenditWebhook() *)

At(p, c, step)   == call[p][c].step = step
Goes(p, c, step) == call' = [call EXCEPT ![p][c].step = step]

\* Mutant of Callback: the call is answered before it is served.
CallbackAnswered(p, c) ==
  /\ At(p, c, "idle")
  /\ invoice[p] \in {"PAID", "EXPIRED"}
  /\ Goes(p, c, "called")
  /\ owed' = owed \ {p}
  /\ UNCHANGED <<invoice, payment, until, orgUntil, outages, crashes, walletVars>>

\* The first time, again because it was not answered, or a repetition.
Callback(p, c) ==
  /\ At(p, c, "idle")
  /\ invoice[p] \in {"PAID", "EXPIRED"}
  /\ Goes(p, c, "called")
  /\ UNCHANGED <<invoice, owed, payment, until, orgUntil, outages, crashes, walletVars>>

FetchStatus(p, c) ==
  /\ At(p, c, "called")
  /\ Goes(p, c, IF invoice[p] = "PAID" THEN "paid" ELSE "expired")
  /\ UNCHANGED <<invoice, owed, payment, until, orgUntil, outages, crashes, walletVars>>

\* The status is unknown: nothing is done, and the call answered all the same.
FetchFails(p, c) ==
  /\ At(p, c, "called")
  /\ outages < MaxOutages
  /\ outages' = outages + 1
  /\ Goes(p, c, "answering")
  /\ UNCHANGED <<invoice, owed, payment, until, orgUntil, crashes, walletVars>>

MarkExpired(p, c) ==
  /\ At(p, c, "expired")
  /\ payment' = [payment EXCEPT ![p].status = IF @ = "PENDING" THEN "EXPIRED" ELSE @]
  /\ Goes(p, c, "answering")
  /\ UNCHANGED <<invoice, owed, until, orgUntil, outages, crashes, walletVars>>

\* The row of the payment is locked, and the modules are not.
Unlocked(p) ==
  \A q \in Payments, c \in Calls : At(q, c, "settling") => q # p /\ SettlesTogether

\* Mutant of Lock: a payment that was applied is applied again.
LockAnyway(p, c) ==
  /\ At(p, c, "paid")
  /\ Unlocked(p)
  /\ call' = [call EXCEPT ![p][c] = [step |-> "settling", read |-> until]]
  /\ UNCHANGED <<invoice, owed, payment, until, orgUntil, outages, crashes, walletVars>>

\* markPaid() up to the applier's reads.
Lock(p, c) ==
  /\ At(p, c, "paid")
  /\ Unlocked(p)
  /\ call' = [call EXCEPT ![p][c] =
       IF payment[p].applied THEN [@ EXCEPT !.step = "answering"]
       ELSE [step |-> "settling", read |-> until]]
  /\ UNCHANGED <<invoice, owed, payment, until, orgUntil, outages, crashes, walletVars>>

\* Mutant of Renewed: a period runs from today, not from the paid-until.
RenewedToday(p, read) == [m \in Modules |-> IF m \in Buys[p] THEN 1 ELSE until[m]]

\* applySubscription()
Renewed(p, read) == [m \in Modules |-> IF m \in Buys[p] THEN read[m] + 1 ELSE until[m]]

Latest(S) == CHOOSE n \in S : \A k \in S : k <= n

\* The applier of the payment's purpose, and the commit.
Settle(p, c) ==
  /\ At(p, c, "settling")
  /\ payment' = [payment EXCEPT ![p] = [status |-> "PAID", applied |-> TRUE]]
  /\ IF Buys[p] = {}
     THEN /\ CreditWaTopup(Credit[p], p)
          /\ UNCHANGED <<until, orgUntil>>
     ELSE /\ until' = Renewed(p, call[p][c].read)
          /\ orgUntil' = Latest({orgUntil} \cup {until'[m] : m \in Buys[p]})
          /\ UNCHANGED walletVars
  /\ call' = [call EXCEPT ![p][c] = [IdleCall EXCEPT !.step = "answering"]]
  /\ UNCHANGED <<invoice, owed, outages, crashes>>

Answer(p, c) ==
  /\ At(p, c, "answering")
  /\ owed' = owed \ {p}
  /\ call' = [call EXCEPT ![p][c] = IdleCall]
  /\ UNCHANGED <<invoice, payment, until, orgUntil, outages, crashes, walletVars>>

\* The process stops: an open transaction is rolled back, and no answer sent.
CallLost(p, c) ==
  /\ ~ At(p, c, "idle")
  /\ crashes < MaxCrashes
  /\ crashes' = crashes + 1
  /\ call' = [call EXCEPT ![p][c] = IdleCall]
  /\ UNCHANGED <<invoice, owed, payment, until, orgUntil, outages, walletVars>>

-----------------------------------------------------------------------------
\* What a call does once it has come in.
Serve(p, c) ==
  FetchStatus(p, c) \/ FetchFails(p, c) \/ MarkExpired(p, c) \/ Lock(p, c) \/ Settle(p, c) \/ Answer(p, c)

BillingNext ==
  \E p \in Payments :
    \/ CreateCheckout(p)
    \/ Close(p, "PAID") \/ Close(p, "EXPIRED")
    \/ \E c \in Calls : Callback(p, c) \/ Serve(p, c) \/ CallLost(p, c)

\* The gateway repeats a call until it is answered, and a call that has come in
\* is served unless its process stops.
BillingSpec ==
  /\ BillingStart
  /\ [][BillingNext]_<<walletVars, billingVars>>
  /\ \A p \in Payments :
       /\ WF_<<walletVars, billingVars>>(p \in owed /\ \E c \in Calls : Callback(p, c))
       /\ \A c \in Calls : WF_<<walletVars, billingVars>>(Serve(p, c))

-----------------------------------------------------------------------------
(* Properties *)

\* markPaid(): a top-up is credited once, by what was promised, however often
\* the gateway calls and wherever a call is cut short.
ToppedUpOnce ==
  \A p \in Payments : Buys[p] = {} =>
    /\ Cardinality(Entries(p, "TOPUP")) = (IF payment[p].applied THEN 1 ELSE 0)
    /\ \A i \in Entries(p, "TOPUP") : ledger[i].amount = Credit[p]

\* applySubscription(): a module runs for as many periods as were paid for it,
\* and the organisation as long as its longest module.
PeriodsAddUp ==
  /\ \A m \in Modules : until[m] = Cardinality({p \in Payments : payment[p].applied /\ m \in Buys[p]})
  /\ orgUntil = Latest({0} \cup {until[m] : m \in Modules})

Service == INSTANCE PaymentService WITH
  paid    <- {p \in Payments : invoice[p] = "PAID"},
  applied <- {p \in Payments : payment[p].applied}

\* Webhooks settle what PaymentService promises: a payment made at the gateway
\* is applied once and only then, through repeated, overlapping and interrupted
\* calls, and every one is applied in the end unless a status lookup fails.
SettlesPayments == Service!Safe /\ ([](outages = 0) => Service!Granting)
=============================================================================
