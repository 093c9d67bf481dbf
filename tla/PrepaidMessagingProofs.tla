----------------------- MODULE PrepaidMessagingProofs -----------------------
(***************************************************************************)
(* Theorems about the wallet, the top-ups and the messages paid from it,   *)
(* for any number of payments, calls, attempts and reminders.              *)
(***************************************************************************)
EXTENDS PrepaidMessaging, TotalsProofs, FiniteSetTheorems, SequenceTheorems, TLAPS

Sources == Payments \cup Attempts \cup {None}
Row     == [kind : Kinds, of : Sources, amount : Int, after : Nat]
Reading == [step : CallSteps, read : [Modules -> Nat]]
Trying  == [key : Keys \cup {None}, step : Steps, out : BOOLEAN, lost : BOOLEAN]

\* The balance is a number of cents, and the ledger carries it on.
WalletHolds ==
  /\ balance \in Nat
  /\ ledger \in Seq(Row)
  /\ LedgerAgrees

\* What a payment, a call and an attempt are made of.
RowsHold ==
  /\ payment \in [Payments -> [status : {"NONE", "PENDING", "PAID", "EXPIRED"}, applied : BOOLEAN]]
  /\ until \in [Modules -> Nat]
  /\ call \in [Payments -> [Calls -> Reading]]
  /\ attempt \in [Attempts -> Trying]

\* One call applies a payment at a time, and none that was applied.
OneSettles ==
  \A p \in Payments, c, e \in Calls :
    At(p, c, "settling") => ~ payment[p].applied /\ (At(p, e, "settling") => c = e)

\* A top-up has its entry once it was applied.
TopUpsHold ==
  \A p \in Payments : Buys[p] = {} =>
    IF payment[p].applied THEN \E i \in 1..Len(ledger) : Entries(p, "TOPUP") = {i} /\ ledger[i].amount = Credit[p]
    ELSE Entries(p, "TOPUP") = {}

Charged  == {"charged", "stored", "unstored", "accepted", "refused", "sent", "unlogged"}
Restored == {"refunded", "failed"}

One(S) == \E i \in Nat : S = {i}

\* An attempt was charged once if it got that far, and given its money back
\* once if it did not go out.
Settled(step, free, charges, refunds) ==
  \/ charges = {} /\ refunds = {} /\ (free \/ step \in {"none", "ready", "dropped"})
  \/ One(charges) /\ refunds = {} /\ ~ free /\ step \in Charged
  \/ One(charges) /\ One(refunds) /\ ~ free /\ step \in Restored \cup {"dropped"}

ChargesHold ==
  \A a \in Attempts : Settled(attempt[a].step, Free(a), Entries(a, "MESSAGE"), Entries(a, "REFUND"))

\* An email is never charged or refunded.
NotFree   == {"none", "charged", "unstored", "refunded"}
FreeHolds == \A a \in Attempts : Free(a) => attempt[a].step \notin NotFree

MessagingInv == WalletHolds /\ RowsHold /\ OneSettles /\ TopUpsHold /\ ChargesHold /\ FreeHolds

-----------------------------------------------------------------------------
(* The ledger *)

LEMMA ApplyKeeps ==
  ASSUME WalletHolds, NEW delta \in Int, balance + delta >= 0,
         NEW kind \in Kinds, NEW of \in Sources, Apply(delta, kind, of)
  PROVE  WalletHolds'
<1> DEFINE row == [kind |-> kind, of |-> of, amount |-> delta, after |-> balance + delta]
<1>1. row \in Row /\ balance' = balance + delta /\ balance' \in Nat /\ ledger' = Append(ledger, row)
  BY DEF Apply, WalletHolds, Row
<1>2. ledger' \in Seq(Row) /\ Len(ledger') = Len(ledger) + 1 /\ Len(ledger) \in Nat
  BY <1>1 DEF WalletHolds
<1>3. /\ ledger'[Len(ledger')] = row
      /\ \A i \in 1..Len(ledger) : ledger'[i] = ledger[i]
  BY <1>1, <1>2 DEF WalletHolds
<1>4. balance = IF Len(ledger) = 0 THEN 0 ELSE ledger[Len(ledger)].after
  BY <1>2 DEF WalletHolds, LedgerAgrees
<1>5. ASSUME NEW i \in 1..Len(ledger')
      PROVE  /\ ledger'[i].after = ledger'[i].amount + IF i = 1 THEN 0 ELSE ledger'[i - 1].after
             /\ ledger'[i].after >= 0
  <2>1. CASE i \in 1..Len(ledger)
    <3>1. i # 1 => ledger'[i - 1] = ledger[i - 1]
      BY <1>2, <1>3, <2>1
    <3> QED BY <1>3, <2>1, <3>1 DEF WalletHolds, LedgerAgrees
  <2>2. CASE i = Len(ledger')
    <3>1. ledger'[i].after = balance + delta /\ ledger'[i].amount = delta
      BY <1>3, <2>2
    <3>2. i # 1 => ledger'[i - 1] = ledger[Len(ledger)] /\ Len(ledger) # 0
      BY <1>2, <1>3, <2>2
    <3> QED BY <1>2, <1>4, <2>2, <3>1, <3>2 DEF WalletHolds
  <2> QED BY <1>2, <2>1, <2>2
<1>6. balance' = ledger'[Len(ledger')].after /\ ledger' # <<>>
  BY <1>1, <1>2, <1>3
<1> QED BY <1>1, <1>2, <1>5, <1>6 DEF WalletHolds, LedgerAgrees

\* An entry is one more of its source and kind, and leaves the others.
LEMMA ApplyAdds ==
  ASSUME WalletHolds, NEW delta, NEW kind, NEW of, Apply(delta, kind, of)
  PROVE  /\ Len(ledger') = Len(ledger) + 1
         /\ \A i \in 1..Len(ledger) : ledger'[i] = ledger[i]
         /\ ledger'[Len(ledger')].amount = delta
         /\ Entries(of, kind)' = Entries(of, kind) \cup {Len(ledger')}
         /\ \A x, k : x # of \/ k # kind => Entries(x, k)' = Entries(x, k)
<1> DEFINE row == [kind |-> kind, of |-> of, amount |-> delta, after |-> balance + delta]
<1>1. ledger' = Append(ledger, row) /\ Len(ledger) \in Nat
  BY DEF Apply, WalletHolds
<1>2. /\ Len(ledger') = Len(ledger) + 1
      /\ \A i \in 1..Len(ledger) : ledger'[i] = ledger[i]
      /\ ledger'[Len(ledger')] = row
  BY <1>1 DEF WalletHolds
<1>3. 1..Len(ledger') = 1..Len(ledger) \cup {Len(ledger')}
  BY <1>1, <1>2
<1>4. ASSUME NEW x, NEW k
      PROVE  Entries(x, k)' = Entries(x, k) \cup (IF x = of /\ k = kind THEN {Len(ledger')} ELSE {})
  <2>1. Entries(x, k)' = {i \in 1..Len(ledger') : ledger'[i].of = x /\ ledger'[i].kind = k}
    BY DEF Entries
  <2>2. ledger'[Len(ledger')].of = of /\ ledger'[Len(ledger')].kind = kind
    BY <1>2
  <2> QED BY <1>2, <1>3, <2>1, <2>2 DEF Entries
<1>5. Entries(of, kind)' = Entries(of, kind) \cup {Len(ledger')}
  BY <1>4
<1>6. \A x, k : x # of \/ k # kind => Entries(x, k)' = Entries(x, k)
  BY <1>4
<1>7. ledger'[Len(ledger')].amount = delta
  BY <1>2
<1> QED BY <1>2, <1>5, <1>6, <1>7

-----------------------------------------------------------------------------
(* Calls of the gateway *)

LEMMA CallBecomes ==
  ASSUME RowsHold, NEW p \in Payments, NEW c \in Calls, NEW new \in Reading,
         call' = [call EXCEPT ![p][c] = new]
  PROVE  /\ call' \in [Payments -> [Calls -> Reading]]
         /\ \A q \in Payments, e \in Calls : call'[q][e] = IF q = p /\ e = c THEN new ELSE call[q][e]
<1>1. call \in [Payments -> [Calls -> Reading]]
  BY DEF RowsHold
<1>2. call' \in [Payments -> [Calls -> Reading]]
  BY <1>1
<1>3. \A q \in Payments, e \in Calls : call'[q][e] = IF q = p /\ e = c THEN new ELSE call[q][e]
  BY <1>1
<1> QED BY <1>2, <1>3

\* A call that goes to a step of its own.
LEMMA GoesRow ==
  ASSUME RowsHold, NEW p \in Payments, NEW c \in Calls, NEW step \in CallSteps, Goes(p, c, step)
  PROVE  \E new \in Reading : new.step = step /\ call' = [call EXCEPT ![p][c] = new]
<1> DEFINE new == [call[p][c] EXCEPT !.step = step]
<1>1. call[p][c] \in Reading
  BY DEF RowsHold
<1>2. new \in Reading /\ new.step = step
  BY <1>1 DEF Reading
<1>3. call' = [call EXCEPT ![p][c] = new]
  BY DEF Goes
<1> QED BY <1>2, <1>3

\* A call that is not to apply anything leaves OneSettles.
LEMMA SettlesStill ==
  ASSUME RowsHold, OneSettles, NEW p \in Payments, NEW c \in Calls, NEW new \in Reading,
         new.step # "settling", call' = [call EXCEPT ![p][c] = new],
         \A q \in Payments : payment'[q].applied = payment[q].applied
  PROVE  call' \in [Payments -> [Calls -> Reading]] /\ OneSettles'
<1>1. /\ call' \in [Payments -> [Calls -> Reading]]
      /\ \A q \in Payments, e \in Calls : call'[q][e] = IF q = p /\ e = c THEN new ELSE call[q][e]
  BY CallBecomes
<1>2. \A q \in Payments, e \in Calls : At(q, e, "settling")' => At(q, e, "settling")
  BY <1>1 DEF At
<1> QED BY <1>1, <1>2 DEF OneSettles

\* What neither the wallet nor an attempt takes part in.
LEMMA WalletRests ==
  ASSUME WalletHolds, UNCHANGED walletVars
  PROVE  WalletHolds' /\ \A x, k : Entries(x, k)' = Entries(x, k)
BY DEF walletVars, WalletHolds, LedgerAgrees, Entries

LEMMA TopUpsRest ==
  ASSUME TopUpsHold, WalletHolds, Len(ledger') \in Nat, Len(ledger') >= Len(ledger),
         \A i \in 1..Len(ledger) : ledger'[i] = ledger[i],
         \A p \in Payments : Entries(p, "TOPUP")' = Entries(p, "TOPUP") /\ payment'[p].applied = payment[p].applied
  PROVE  TopUpsHold'
<1>1. Len(ledger) \in Nat
  BY DEF WalletHolds
<1> SUFFICES ASSUME NEW p \in Payments, Buys[p] = {}
             PROVE  IF payment'[p].applied
                    THEN \E i \in 1..Len(ledger') : Entries(p, "TOPUP")' = {i} /\ ledger'[i].amount = Credit[p]
                    ELSE Entries(p, "TOPUP")' = {}
  BY DEF TopUpsHold
<1>2. CASE payment[p].applied
  <2>1. PICK i \in 1..Len(ledger) : Entries(p, "TOPUP") = {i} /\ ledger[i].amount = Credit[p]
    BY <1>2 DEF TopUpsHold
  <2>2. i \in 1..Len(ledger') /\ ledger'[i].amount = Credit[p] /\ Entries(p, "TOPUP")' = {i}
    BY <1>1, <2>1
  <2> QED BY <1>2, <2>2
<1>3. CASE ~ payment[p].applied
  BY <1>3 DEF TopUpsHold
<1> QED BY <1>2, <1>3

\* A step of a call that applies nothing.
LEMMA ServingKeeps ==
  ASSUME MessagingInv, attempt' = attempt, UNCHANGED walletVars, until' = until,
         payment' \in [Payments -> [status : {"NONE", "PENDING", "PAID", "EXPIRED"}, applied : BOOLEAN]],
         \A p \in Payments : payment'[p].applied = payment[p].applied,
         call' \in [Payments -> [Calls -> Reading]], OneSettles'
  PROVE  MessagingInv'
<1>1. WalletHolds' /\ \A x, k : Entries(x, k)' = Entries(x, k)
  BY WalletRests DEF MessagingInv
<1>2. RowsHold'
  BY DEF MessagingInv, RowsHold
<1>3. TopUpsHold'
  <2>1. ledger' = ledger /\ Len(ledger) \in Nat
    BY DEF walletVars, MessagingInv, WalletHolds
  <2> QED BY <1>1, <2>1, TopUpsRest DEF MessagingInv
<1>4. ChargesHold' /\ FreeHolds'
  BY <1>1 DEF MessagingInv, ChargesHold, Settled, One, FreeHolds, Free
<1> QED BY <1>1, <1>2, <1>3, <1>4 DEF MessagingInv

LEMMA CallKeeps ==
  ASSUME MessagingInv, NEW p \in Payments, NEW c \in Calls, attempt' = attempt, UNCHANGED walletVars, until' = until,
         payment' \in [Payments -> [status : {"NONE", "PENDING", "PAID", "EXPIRED"}, applied : BOOLEAN]],
         \A q \in Payments : payment'[q].applied = payment[q].applied,
         \/ \E step \in CallSteps \ {"settling"} : Goes(p, c, step)
         \/ \E new \in Reading : new.step # "settling" /\ call' = [call EXCEPT ![p][c] = new]
  PROVE  MessagingInv'
<1>1. PICK new \in Reading : new.step # "settling" /\ call' = [call EXCEPT ![p][c] = new]
  BY GoesRow DEF MessagingInv
<1>2. call' \in [Payments -> [Calls -> Reading]] /\ OneSettles'
  BY <1>1, SettlesStill DEF MessagingInv
<1> QED BY <1>2, ServingKeeps

LEMMA CallFetchKeeps ==
  ASSUME MessagingInv, attempt' = attempt, NEW p \in Payments, NEW c \in Calls,
         Callback(p, c) \/ FetchStatus(p, c) \/ FetchFails(p, c) \/ MarkExpired(p, c)
  PROVE  MessagingInv'
<1>1. payment \in [Payments -> [status : {"NONE", "PENDING", "PAID", "EXPIRED"}, applied : BOOLEAN]]
  BY DEF MessagingInv, RowsHold
<1>2. CASE Callback(p, c) \/ FetchStatus(p, c) \/ FetchFails(p, c)
  <2>1. \E step \in CallSteps \ {"settling"} : Goes(p, c, step)
    BY <1>2 DEF Callback, FetchStatus, FetchFails, CallSteps
  <2>2. UNCHANGED walletVars /\ until' = until /\ payment' = payment
    BY <1>2 DEF Callback, FetchStatus, FetchFails
  <2> QED BY <1>1, <2>1, <2>2, CallKeeps
<1>3. CASE MarkExpired(p, c)
  <2>1. Goes(p, c, "answering") /\ "answering" \in CallSteps \ {"settling"}
    BY <1>3 DEF MarkExpired, CallSteps
  <2>2. UNCHANGED walletVars /\ until' = until
    BY <1>3 DEF MarkExpired
  <2>3. PICK status \in {"EXPIRED", payment[p].status} :
          payment' = [payment EXCEPT ![p] = [status |-> status, applied |-> payment[p].applied]]
    <3>1. payment[p] = [status |-> payment[p].status, applied |-> payment[p].applied]
      BY <1>1
    <3> DEFINE status == IF payment[p].status = "PENDING" THEN "EXPIRED" ELSE payment[p].status
    <3>2. payment' = [payment EXCEPT ![p] = [payment[p] EXCEPT !.status = status]]
      BY <1>3 DEF MarkExpired
    <3>3. status \in {"EXPIRED", payment[p].status}
      OBVIOUS
    <3> HIDE DEF status
    <3>4. [payment[p] EXCEPT !.status = status] = [status |-> status, applied |-> payment[p].applied]
      BY <3>1
    <3> QED BY <3>2, <3>3, <3>4
  <2>4. /\ payment' \in [Payments -> [status : {"NONE", "PENDING", "PAID", "EXPIRED"}, applied : BOOLEAN]]
        /\ \A q \in Payments : payment'[q].applied = payment[q].applied
    BY <1>1, <2>3
  <2> QED BY <2>1, <2>2, <2>4, CallKeeps
<1> QED BY <1>2, <1>3

LEMMA IdleRow == IdleCall \in Reading /\ IdleCall.step = "idle"
BY DEF IdleCall, Reading, CallSteps

LEMMA CallEndKeeps ==
  ASSUME MessagingInv, attempt' = attempt, NEW p \in Payments, NEW c \in Calls,
         Answer(p, c) \/ CallLost(p, c)
  PROVE  MessagingInv'
<1>1. payment' = payment /\ UNCHANGED walletVars /\ until' = until /\ call' = [call EXCEPT ![p][c] = IdleCall]
  BY DEF Answer, CallLost
<1>2. payment \in [Payments -> [status : {"NONE", "PENDING", "PAID", "EXPIRED"}, applied : BOOLEAN]]
  BY DEF MessagingInv, RowsHold
<1> QED BY <1>1, <1>2, IdleRow, CallKeeps

LEMMA LockKeeps ==
  ASSUME MessagingInv, attempt' = attempt, NEW p \in Payments, NEW c \in Calls, Lock(p, c)
  PROVE  MessagingInv'
<1>1. payment' = payment /\ UNCHANGED walletVars /\ until' = until
  BY DEF Lock
<1>2. payment \in [Payments -> [status : {"NONE", "PENDING", "PAID", "EXPIRED"}, applied : BOOLEAN]]
  BY DEF MessagingInv, RowsHold
<1>3. CASE payment[p].applied
  <2>1. Goes(p, c, "answering") /\ "answering" \in CallSteps \ {"settling"}
    BY <1>3 DEF Lock, Goes, CallSteps
  <2> QED BY <1>1, <1>2, <2>1, CallKeeps
<1>4. CASE ~ payment[p].applied
  <2> DEFINE new == [step |-> "settling", read |-> until]
  <2>1. new \in Reading /\ call' = [call EXCEPT ![p][c] = new]
    BY <1>4 DEF Lock, MessagingInv, RowsHold, Reading, CallSteps
  <2>2. /\ call' \in [Payments -> [Calls -> Reading]]
        /\ \A q \in Payments, e \in Calls : call'[q][e] = IF q = p /\ e = c THEN new ELSE call[q][e]
    BY <2>1, CallBecomes DEF MessagingInv
  <2>3. \A e \in Calls : ~ At(p, e, "settling")
    BY DEF Lock, Unlocked
  <2>4. \A q \in Payments, e \in Calls : At(q, e, "settling")' => At(q, e, "settling") \/ (q = p /\ e = c)
    BY <2>2 DEF At
  <2>5. OneSettles'
    BY <1>1, <1>4, <2>3, <2>4 DEF MessagingInv, OneSettles
  <2> QED BY <1>1, <1>2, <2>2, <2>5, ServingKeeps
<1> QED BY <1>3, <1>4

LEMMA SettleKeeps ==
  ASSUME MessagingInv, attempt' = attempt, NEW p \in Payments, NEW c \in Calls, Settle(p, c)
  PROVE  MessagingInv'
<1> DEFINE new == [IdleCall EXCEPT !.step = "answering"]
<1>1. new \in Reading /\ new.step # "settling"
  BY DEF IdleCall, Reading, CallSteps
<1>2. call' = [call EXCEPT ![p][c] = new] /\ At(p, c, "settling")
  BY DEF Settle
<1> HIDE DEF new
<1>3. /\ call' \in [Payments -> [Calls -> Reading]]
      /\ \A q \in Payments, e \in Calls : call'[q][e] = IF q = p /\ e = c THEN new ELSE call[q][e]
  BY <1>1, <1>2, CallBecomes DEF MessagingInv
<1>4. /\ payment' \in [Payments -> [status : {"NONE", "PENDING", "PAID", "EXPIRED"}, applied : BOOLEAN]]
      /\ \A q \in Payments : payment'[q].applied <=> q = p \/ payment[q].applied
  BY DEF Settle, MessagingInv, RowsHold
<1>5. ~ payment[p].applied /\ \A e \in Calls : At(p, e, "settling") => e = c
  BY <1>2 DEF MessagingInv, OneSettles
<1>6. OneSettles'
  <2>1. \A q \in Payments, e \in Calls : At(q, e, "settling")' => At(q, e, "settling") /\ q # p
    BY <1>1, <1>3, <1>5 DEF At
  <2> QED BY <1>4, <2>1 DEF MessagingInv, OneSettles
<1>7. until' \in [Modules -> Nat]
  <2>1. call[p][c].read \in [Modules -> Nat] /\ until \in [Modules -> Nat]
    BY DEF MessagingInv, RowsHold, Reading
  <2>2. until' = until \/ until' = Renewed(p, call[p][c].read)
    BY DEF Settle
  <2> QED BY <2>1, <2>2 DEF Renewed
<1>8. RowsHold'
  BY <1>3, <1>4, <1>7 DEF MessagingInv, RowsHold
<1>9. FreeHolds'
  BY DEF MessagingInv, FreeHolds, Free
<1>10. CASE Buys[p] = {}
  <2>1. Apply(Credit[p], "TOPUP", p)
    BY <1>10 DEF Settle, CreditWaTopup
  <2>2. Credit[p] \in Nat /\ "TOPUP" \in Kinds /\ p \in Sources /\ balance \in Nat
    BY BillingAssumption DEF Kinds, Sources, MessagingInv, WalletHolds
  <2>3. WalletHolds'
    BY <2>1, <2>2, ApplyKeeps DEF MessagingInv
  <2>4. /\ Len(ledger') = Len(ledger) + 1 /\ Len(ledger) \in Nat
        /\ \A i \in 1..Len(ledger) : ledger'[i] = ledger[i]
        /\ ledger'[Len(ledger')].amount = Credit[p]
        /\ Entries(p, "TOPUP")' = Entries(p, "TOPUP") \cup {Len(ledger')}
        /\ \A x, k : x # p \/ k # "TOPUP" => Entries(x, k)' = Entries(x, k)
    BY <2>1, ApplyAdds DEF MessagingInv, WalletHolds
  <2>5. TopUpsHold'
    <3> SUFFICES ASSUME NEW q \in Payments, Buys[q] = {}
                 PROVE  IF payment'[q].applied
                        THEN \E i \in 1..Len(ledger') : Entries(q, "TOPUP")' = {i} /\ ledger'[i].amount = Credit[q]
                        ELSE Entries(q, "TOPUP")' = {}
      BY DEF TopUpsHold
    <3>1. CASE q = p
      <4>1. Entries(p, "TOPUP") = {}
        BY <1>5, <1>10 DEF MessagingInv, TopUpsHold
      <4>2. Entries(p, "TOPUP")' = {Len(ledger')} /\ Len(ledger') \in 1..Len(ledger')
        BY <2>4, <4>1
      <4> QED BY <1>4, <2>4, <3>1, <4>2
    <3>2. CASE q # p /\ payment[q].applied
      <4>1. PICK i \in 1..Len(ledger) : Entries(q, "TOPUP") = {i} /\ ledger[i].amount = Credit[q]
        BY <3>2 DEF MessagingInv, TopUpsHold
      <4>2. i \in 1..Len(ledger') /\ ledger'[i].amount = Credit[q] /\ Entries(q, "TOPUP")' = {i}
        BY <2>4, <3>2, <4>1
      <4> QED BY <1>4, <3>2, <4>2
    <3>3. CASE q # p /\ ~ payment[q].applied
      BY <1>4, <2>4, <3>3 DEF MessagingInv, TopUpsHold
    <3> QED BY <3>1, <3>2, <3>3
  <2>6. ChargesHold'
    BY <2>4 DEF MessagingInv, ChargesHold, Settled, Free, One
  <2> QED BY <1>6, <1>8, <1>9, <2>3, <2>5, <2>6 DEF MessagingInv
<1>11. CASE Buys[p] # {}
  <2>1. UNCHANGED walletVars
    BY <1>11 DEF Settle
  <2>2. WalletHolds' /\ \A x, k : Entries(x, k)' = Entries(x, k)
    BY <2>1, WalletRests DEF MessagingInv
  <2>3. ledger' = ledger
    BY <2>1 DEF walletVars
  <2>4. TopUpsHold'
    BY <1>4, <1>11, <2>2, <2>3 DEF MessagingInv, TopUpsHold
  <2>5. ChargesHold'
    BY <2>2 DEF MessagingInv, ChargesHold, Settled, Free, One
  <2> QED BY <1>6, <1>8, <1>9, <2>2, <2>4, <2>5 DEF MessagingInv
<1> QED BY <1>10, <1>11

LEMMA BillingKeeps ==
  ASSUME MessagingInv, attempt' = attempt, BillingNext
  PROVE  MessagingInv'
<1>1. payment \in [Payments -> [status : {"NONE", "PENDING", "PAID", "EXPIRED"}, applied : BOOLEAN]]
  BY DEF MessagingInv, RowsHold
<1>2. call' = call => call' \in [Payments -> [Calls -> Reading]]
  BY DEF MessagingInv, RowsHold
<1>3. ASSUME NEW p \in Payments, CreateCheckout(p) PROVE MessagingInv'
  <2>1. UNCHANGED walletVars /\ until' = until /\ call' = call
    BY <1>3 DEF CreateCheckout
  <2>2. /\ payment' \in [Payments -> [status : {"NONE", "PENDING", "PAID", "EXPIRED"}, applied : BOOLEAN]]
        /\ \A q \in Payments : payment'[q].applied = payment[q].applied
    BY <1>1, <1>3 DEF CreateCheckout
  <2>3. OneSettles'
    BY <2>1, <2>2 DEF MessagingInv, OneSettles, At
  <2> QED BY <1>2, <2>1, <2>2, <2>3, ServingKeeps
<1>4. ASSUME NEW p \in Payments, Close(p, "PAID") \/ Close(p, "EXPIRED") PROVE MessagingInv'
  <2>1. UNCHANGED walletVars /\ until' = until /\ call' = call /\ payment' = payment
    BY <1>4 DEF Close
  <2>2. OneSettles'
    BY <2>1 DEF MessagingInv, OneSettles, At
  <2> QED BY <1>1, <1>2, <2>1, <2>2, ServingKeeps
<1>5. ASSUME NEW p \in Payments, NEW c \in Calls, Callback(p, c) \/ Serve(p, c) \/ CallLost(p, c) PROVE MessagingInv'
  BY <1>5, CallFetchKeeps, CallEndKeeps, LockKeeps, SettleKeeps DEF Serve
<1> QED BY <1>3, <1>4, <1>5 DEF BillingNext

-----------------------------------------------------------------------------
(* Attempts *)

\* One attempt changes, and the ledger gains at most what it was charged or
\* given back.
LEMMA AttemptKeeps ==
  ASSUME MessagingInv, UNCHANGED billingVars, WalletHolds', NEW a \in Attempts, NEW new \in Trying,
         attempt' = [attempt EXCEPT ![a] = new],
         Len(ledger') >= Len(ledger), \A i \in 1..Len(ledger) : ledger'[i] = ledger[i],
         \A x : Entries(x, "TOPUP")' = Entries(x, "TOPUP"),
         \A x : x # a => Entries(x, "MESSAGE")' = Entries(x, "MESSAGE") /\ Entries(x, "REFUND")' = Entries(x, "REFUND"),
         Settled(new.step, new.key \in EmailKeys, Entries(a, "MESSAGE")', Entries(a, "REFUND")'),
         new.key \in EmailKeys => new.step \notin NotFree
  PROVE  MessagingInv'
<1>1. attempt \in [Attempts -> Trying] /\ payment' = payment /\ call' = call /\ until' = until
  BY DEF MessagingInv, RowsHold, billingVars
<1>2. attempt' \in [Attempts -> Trying] /\ attempt'[a] = new /\ \A b \in Attempts : b # a => attempt'[b] = attempt[b]
  BY <1>1
<1>3. RowsHold' /\ OneSettles'
  BY <1>1, <1>2 DEF MessagingInv, RowsHold, OneSettles, At
<1>4. TopUpsHold'
  <2>1. Len(ledger') \in Nat
    BY DEF WalletHolds
  <2> QED BY <1>1, <2>1, TopUpsRest DEF MessagingInv
<1>5. ChargesHold'
  <2> SUFFICES ASSUME NEW b \in Attempts
               PROVE  Settled(attempt'[b].step, attempt'[b].key \in EmailKeys, Entries(b, "MESSAGE")', Entries(b, "REFUND")')
    BY DEF ChargesHold, Settled, One, Free
  <2>1. CASE b = a
    BY <1>2, <2>1
  <2>2. CASE b # a
    <3>1. Settled(attempt[b].step, attempt[b].key \in EmailKeys, Entries(b, "MESSAGE"), Entries(b, "REFUND"))
      BY DEF MessagingInv, ChargesHold, Free
    <3> QED BY <1>2, <2>2, <3>1
  <2> QED BY <2>1, <2>2
<1>6. FreeHolds'
  BY <1>2 DEF MessagingInv, FreeHolds, Free
<1> QED BY <1>3, <1>4, <1>5, <1>6 DEF MessagingInv

\* An attempt that pays nothing and gets nothing back.
LEMMA MoveKeeps ==
  ASSUME MessagingInv, UNCHANGED billingVars, UNCHANGED walletVars, NEW a \in Attempts, NEW new \in Trying,
         attempt' = [attempt EXCEPT ![a] = new],
         Settled(new.step, new.key \in EmailKeys, Entries(a, "MESSAGE"), Entries(a, "REFUND")),
         new.key \in EmailKeys => new.step \notin NotFree
  PROVE  MessagingInv'
<1>1. WalletHolds' /\ \A x, k : Entries(x, k)' = Entries(x, k)
  BY WalletRests DEF MessagingInv
<1>2. ledger' = ledger /\ Len(ledger) \in Nat
  BY DEF walletVars, MessagingInv, WalletHolds
<1>3. Settled(new.step, new.key \in EmailKeys, Entries(a, "MESSAGE")', Entries(a, "REFUND")')
  BY <1>1
<1>4. \A x : Entries(x, "TOPUP")' = Entries(x, "TOPUP")
  BY <1>1
<1>5. \A x : Entries(x, "MESSAGE")' = Entries(x, "MESSAGE") /\ Entries(x, "REFUND")' = Entries(x, "REFUND")
  BY <1>1
<1>6. Len(ledger') >= Len(ledger) /\ \A i \in 1..Len(ledger) : ledger'[i] = ledger[i]
  BY <1>2
<1>7. WalletHolds'
  BY <1>1
<1> QED BY <1>3, <1>4, <1>5, <1>6, <1>7, AttemptKeeps

LEMMA ToRow ==
  ASSUME MessagingInv, NEW a \in Attempts, NEW step \in Steps, To(a, step)
  PROVE  \E new \in Trying : /\ attempt' = [attempt EXCEPT ![a] = new]
                             /\ new.step = step /\ new.key = attempt[a].key
<1> DEFINE new == [attempt[a] EXCEPT !.step = step]
<1>1. attempt[a] \in Trying
  BY DEF MessagingInv, RowsHold
<1>2. new \in Trying /\ new.step = step /\ new.key = attempt[a].key
  BY <1>1 DEF Trying
<1>3. attempt' = [attempt EXCEPT ![a] = new]
  BY DEF To
<1> QED BY <1>2, <1>3

\* A step to one of its own that the ledger already agrees with.
LEMMA ToKeeps ==
  ASSUME MessagingInv, UNCHANGED billingVars, UNCHANGED walletVars, NEW a \in Attempts,
         NEW step \in Steps, To(a, step), Free(a) => step \notin NotFree,
         Settled(step, Free(a), Entries(a, "MESSAGE"), Entries(a, "REFUND"))
  PROVE  MessagingInv'
<1>1. PICK new \in Trying : attempt' = [attempt EXCEPT ![a] = new] /\ new.step = step /\ new.key = attempt[a].key
  BY ToRow
<1>2. Settled(new.step, new.key \in EmailKeys, Entries(a, "MESSAGE"), Entries(a, "REFUND"))
  BY <1>1 DEF Free
<1>3. new.key \in EmailKeys => new.step \notin NotFree
  BY <1>1 DEF Free
<1> QED BY <1>1, <1>2, <1>3, MoveKeeps

LEMMA StartKeeps ==
  ASSUME MessagingInv, UNCHANGED billingVars, NEW a \in Attempts, SendDocument(a) \/ \E k \in Keys : Remind(a, k)
  PROVE  MessagingInv'
<1>1. attempt[a] \in Trying /\ attempt[a].step = "none" /\ UNCHANGED walletVars
  BY DEF MessagingInv, RowsHold, SendDocument, Remind, Is
<1>2. Entries(a, "MESSAGE") = {} /\ Entries(a, "REFUND") = {}
  <2>1. Settled("none", Free(a), Entries(a, "MESSAGE"), Entries(a, "REFUND"))
    BY <1>1 DEF MessagingInv, ChargesHold
  <2> QED BY <2>1 DEF Settled, Charged, Restored
<1>3. \A free : Settled("ready", free, Entries(a, "MESSAGE"), Entries(a, "REFUND"))
  BY <1>2 DEF Settled
<1>4. "ready" \in Steps \ NotFree
  BY DEF Steps, NotFree
<1>5. CASE SendDocument(a)
  <2>1. To(a, "ready") /\ Settled("ready", Free(a), Entries(a, "MESSAGE"), Entries(a, "REFUND"))
    BY <1>3, <1>5 DEF SendDocument, Free
  <2> QED BY <1>1, <1>4, <2>1, ToKeeps
<1>6. ASSUME NEW k \in Keys, Remind(a, k) PROVE MessagingInv'
  <2> DEFINE new == [attempt[a] EXCEPT !.step = "ready", !.key = k]
  <2>1. new \in Trying /\ new.step = "ready"
    BY <1>1, <1>4 DEF Trying
  <2>2. attempt' = [attempt EXCEPT ![a] = new]
    BY <1>6 DEF Remind
  <2> HIDE DEF new
  <2>3. Settled(new.step, new.key \in EmailKeys, Entries(a, "MESSAGE"), Entries(a, "REFUND"))
    BY <1>3, <2>1
  <2> QED BY <1>1, <1>4, <2>1, <2>2, <2>3, MoveKeeps
<1> QED BY <1>5, <1>6

LEMMA StepIn ==
  ASSUME MessagingInv, NEW a \in Attempts
  PROVE  /\ attempt[a] \in Trying
         /\ Settled(attempt[a].step, Free(a), Entries(a, "MESSAGE"), Entries(a, "REFUND"))
         /\ Free(a) => attempt[a].step \notin NotFree
BY DEF MessagingInv, RowsHold, ChargesHold, FreeHolds

LEMMA ProviderKeeps ==
  ASSUME MessagingInv, UNCHANGED billingVars, NEW a \in Attempts,
         Accept(a, "accepted") \/ Accept(a, "refused")
  PROVE  MessagingInv'
<1>1. PICK step \in {"accepted", "refused"} : Accept(a, step)
  OBVIOUS
<1> DEFINE new == [attempt[a] EXCEPT !.step = step, !.out = TRUE]
<1>2. attempt[a] \in Trying /\ step \in Steps \ NotFree
  BY StepIn DEF Steps, NotFree
<1>3. new \in Trying /\ new.step = step /\ new.key = attempt[a].key
  BY <1>2 DEF Trying
<1>4. attempt' = [attempt EXCEPT ![a] = new] /\ UNCHANGED walletVars /\ attempt[a].step = "stored"
  BY <1>1 DEF Accept, Is
<1> HIDE DEF new
<1>5. Settled(new.step, new.key \in EmailKeys, Entries(a, "MESSAGE"), Entries(a, "REFUND"))
  BY <1>3, <1>4, StepIn DEF Settled, Charged, Restored, Free
<1> QED BY <1>2, <1>3, <1>4, <1>5, MoveKeeps

LEMMA MovesKeep ==
  ASSUME MessagingInv, UNCHANGED billingVars, NEW a \in Attempts,
         NotEnough(a) \/ StoreFails(a) \/ Store(a) \/ Refuse(a) \/ LogFailed(a) \/ LogSent(a)
  PROVE  MessagingInv'
<1> DEFINE charges == Entries(a, "MESSAGE")
           refunds == Entries(a, "REFUND")
<1>1. /\ Settled(attempt[a].step, Free(a), charges, refunds)
      /\ Free(a) => attempt[a].step \notin NotFree
  BY StepIn
<1> HIDE DEF charges, refunds
<1>2. CASE NotEnough(a)
  <2>1. UNCHANGED walletVars /\ ~ Free(a) /\ attempt[a].step = "ready" /\ To(a, "dropped") /\ "dropped" \in Steps
    BY <1>2 DEF NotEnough, Is, Steps
  <2>2. Settled("dropped", Free(a), charges, refunds)
    BY <1>1, <2>1 DEF Settled, Charged, Restored
  <2> QED BY <2>1, <2>2, ToKeeps DEF charges, refunds
<1>3. CASE StoreFails(a)
  <2>1. UNCHANGED walletVars /\ attempt[a].step = "charged" /\ To(a, "unstored") /\ "unstored" \in Steps
    BY <1>3 DEF StoreFails, Is, Steps
  <2>2. Settled("unstored", Free(a), charges, refunds) /\ ~ Free(a)
    BY <1>1, <2>1 DEF Settled, Charged, Restored, NotFree
  <2> QED BY <2>1, <2>2, ToKeeps DEF charges, refunds
<1>4. CASE Store(a)
  <2>1. /\ UNCHANGED walletVars /\ To(a, "stored") /\ "stored" \in Steps \ NotFree
        /\ attempt[a].step = "charged" \/ (attempt[a].step = "ready" /\ Free(a))
    BY <1>4 DEF Store, Is, Steps, NotFree
  <2>2. Settled("stored", Free(a), charges, refunds)
    BY <1>1, <2>1 DEF Settled, Charged, Restored, NotFree
  <2> QED BY <2>1, <2>2, ToKeeps DEF charges, refunds
<1>5. CASE Refuse(a)
  <2>1. UNCHANGED walletVars /\ attempt[a].step = "stored" /\ To(a, "refused") /\ "refused" \in Steps \ NotFree
    BY <1>5 DEF Refuse, Is, Steps, NotFree
  <2>2. Settled("refused", Free(a), charges, refunds)
    BY <1>1, <2>1 DEF Settled, Charged, Restored
  <2> QED BY <2>1, <2>2, ToKeeps DEF charges, refunds
<1>6. CASE LogFailed(a)
  <2>1. /\ UNCHANGED walletVars /\ To(a, "failed") /\ "failed" \in Steps \ NotFree
        /\ attempt[a].step = "refunded" \/ (attempt[a].step = "refused" /\ Free(a))
    BY <1>6 DEF LogFailed, Is, Steps, NotFree
  <2>2. Settled("failed", Free(a), charges, refunds)
    BY <1>1, <2>1 DEF Settled, Charged, Restored, NotFree
  <2> QED BY <2>1, <2>2, ToKeeps DEF charges, refunds
<1>7. CASE LogSent(a)
  <2>1. PICK step \in {"sent", "unlogged"} : To(a, step)
    BY <1>7 DEF LogSent
  <2>2. UNCHANGED walletVars /\ attempt[a].step = "accepted" /\ step \in Steps \ NotFree
    BY <1>7 DEF LogSent, Is, Steps, NotFree
  <2>3. Settled(step, Free(a), charges, refunds)
    BY <1>1, <2>2 DEF Settled, Charged, Restored
  <2> QED BY <2>1, <2>2, <2>3, ToKeeps DEF charges, refunds
<1> QED BY <1>2, <1>3, <1>4, <1>5, <1>6, <1>7

LEMMA LostKeeps ==
  ASSUME MessagingInv, NEW a \in Attempts, AttemptLost(a)
  PROVE  MessagingInv'
<1> DEFINE new == [attempt[a] EXCEPT !.lost = TRUE]
<1>1. attempt[a] \in Trying
  BY StepIn
<1>2. new \in Trying /\ new.step = attempt[a].step /\ new.key = attempt[a].key
  BY <1>1 DEF Trying
<1>3. attempt' = [attempt EXCEPT ![a] = new] /\ UNCHANGED walletVars /\ UNCHANGED billingVars
  BY DEF AttemptLost
<1> HIDE DEF new
<1>4. /\ Settled(new.step, new.key \in EmailKeys, Entries(a, "MESSAGE"), Entries(a, "REFUND"))
      /\ new.key \in EmailKeys => new.step \notin NotFree
  BY <1>2, StepIn DEF Free
<1> QED BY <1>2, <1>3, <1>4, MoveKeeps

\* A charge or a refund of an attempt.
LEMMA PayKeeps ==
  ASSUME MessagingInv, UNCHANGED billingVars, NEW a \in Attempts, NEW delta \in Int, balance + delta >= 0,
         NEW kind \in {"MESSAGE", "REFUND"}, Apply(delta, kind, a),
         NEW step \in Steps, To(a, step), ~ Free(a),
         Settled(step, FALSE, Entries(a, "MESSAGE")', Entries(a, "REFUND")')
  PROVE  MessagingInv'
<1>1. WalletHolds /\ kind \in Kinds /\ a \in Sources
  BY DEF MessagingInv, Kinds, Sources
<1>2. WalletHolds'
  BY <1>1, ApplyKeeps
<1>3. /\ Len(ledger') = Len(ledger) + 1
      /\ \A i \in 1..Len(ledger) : ledger'[i] = ledger[i]
      /\ \A x, k : x # a \/ k # kind => Entries(x, k)' = Entries(x, k)
  BY <1>1, ApplyAdds
<1>4. Len(ledger') >= Len(ledger)
  BY <1>1, <1>3 DEF WalletHolds
<1>5. \A x : Entries(x, "TOPUP")' = Entries(x, "TOPUP")
  BY <1>3
<1>6. \A x : x # a => Entries(x, "MESSAGE")' = Entries(x, "MESSAGE") /\ Entries(x, "REFUND")' = Entries(x, "REFUND")
  BY <1>3
<1>7. PICK new \in Trying : attempt' = [attempt EXCEPT ![a] = new] /\ new.step = step /\ new.key = attempt[a].key
  BY ToRow
<1>8. new.key \notin EmailKeys /\ Settled(new.step, new.key \in EmailKeys, Entries(a, "MESSAGE")', Entries(a, "REFUND")')
  BY <1>7 DEF Free, Settled
<1> QED BY <1>2, <1>3, <1>4, <1>5, <1>6, <1>7, <1>8, AttemptKeeps

LEMMA ChargeKeeps ==
  ASSUME MessagingInv, UNCHANGED billingVars, NEW a \in Attempts, Charge(a)
  PROVE  MessagingInv'
<1>1. attempt[a].step = "ready" /\ ~ Free(a) /\ balance >= Price /\ Apply(- Price, "MESSAGE", a) /\ To(a, "charged")
  BY DEF Charge, Is, ChargeWaMessage
<1>2. Entries(a, "MESSAGE") = {} /\ Entries(a, "REFUND") = {}
  BY <1>1, StepIn DEF Settled, Charged, Restored
<1>3. WalletHolds /\ Price \in Nat /\ balance \in Nat
  BY MessagingAssumption DEF MessagingInv, WalletHolds
<1>4. Entries(a, "MESSAGE")' = {Len(ledger')} /\ Entries(a, "REFUND")' = {} /\ Len(ledger') \in Nat
  <2>1. /\ Entries(a, "MESSAGE")' = Entries(a, "MESSAGE") \cup {Len(ledger')}
        /\ Entries(a, "REFUND")' = Entries(a, "REFUND")
        /\ Len(ledger') = Len(ledger) + 1
    BY <1>1, <1>3, ApplyAdds
  <2> QED BY <1>2, <1>3, <2>1 DEF WalletHolds
<1>5. Settled("charged", FALSE, Entries(a, "MESSAGE")', Entries(a, "REFUND")')
  BY <1>4 DEF Settled, One, Charged
<1>6. - Price \in Int /\ balance + (- Price) >= 0 /\ "charged" \in Steps
  BY <1>1, <1>3 DEF Steps
<1> QED BY <1>1, <1>5, <1>6, PayKeeps

LEMMA RefundKeeps ==
  ASSUME MessagingInv, UNCHANGED billingVars, NEW a \in Attempts, Refund(a)
  PROVE  MessagingInv'
<1>1. PICK step \in {"dropped", "refunded"} : To(a, step)
  BY DEF Refund
<1>2. attempt[a].step \in {"unstored", "refused"} /\ ~ Free(a) /\ Apply(Price, "REFUND", a)
  BY DEF Refund, Is, RefundWaMessage
<1>3. One(Entries(a, "MESSAGE")) /\ Entries(a, "REFUND") = {}
  BY <1>2, StepIn DEF Settled, Charged, Restored
<1>4. WalletHolds /\ Price \in Nat /\ balance \in Nat
  BY MessagingAssumption DEF MessagingInv, WalletHolds
<1>5. Entries(a, "MESSAGE")' = Entries(a, "MESSAGE") /\ Entries(a, "REFUND")' = {Len(ledger')} /\ Len(ledger') \in Nat
  <2>1. /\ Entries(a, "REFUND")' = Entries(a, "REFUND") \cup {Len(ledger')}
        /\ Entries(a, "MESSAGE")' = Entries(a, "MESSAGE")
        /\ Len(ledger') = Len(ledger) + 1
    BY <1>2, <1>4, ApplyAdds
  <2> QED BY <1>3, <1>4, <2>1 DEF WalletHolds
<1>6. Settled(step, FALSE, Entries(a, "MESSAGE")', Entries(a, "REFUND")')
  BY <1>1, <1>3, <1>5 DEF Settled, One, Restored
<1>7. Price \in Int /\ balance + Price >= 0 /\ step \in Steps
  BY <1>1, <1>4 DEF Steps
<1> QED BY <1>1, <1>2, <1>6, <1>7, PayKeeps

LEMMA AdjustKeeps ==
  ASSUME MessagingInv, NEW delta \in Int, Adjust(delta)
  PROVE  MessagingInv'
<1>1. balance + delta >= 0 /\ Apply(delta, "ADJUSTMENT", None) /\ UNCHANGED billingVars /\ attempt' = attempt
  BY DEF Adjust, AdjustWaBalance
<1>2. WalletHolds /\ "ADJUSTMENT" \in Kinds /\ None \in Sources
  BY DEF MessagingInv, Kinds, Sources
<1>3. WalletHolds'
  BY <1>1, <1>2, ApplyKeeps
<1>4. /\ Len(ledger') = Len(ledger) + 1
      /\ \A i \in 1..Len(ledger) : ledger'[i] = ledger[i]
      /\ \A x, k : k # "ADJUSTMENT" => Entries(x, k)' = Entries(x, k)
  BY <1>1, <1>2, ApplyAdds
<1>5. payment' = payment /\ call' = call /\ until' = until
  BY <1>1 DEF billingVars
<1>6. RowsHold' /\ OneSettles'
  BY <1>1, <1>5 DEF MessagingInv, RowsHold, OneSettles, At
<1>7. TopUpsHold'
  <2>1. Len(ledger') \in Nat /\ Len(ledger') >= Len(ledger)
    BY <1>2, <1>4 DEF WalletHolds
  <2>2. \A p \in Payments : Entries(p, "TOPUP")' = Entries(p, "TOPUP") /\ payment'[p].applied = payment[p].applied
    BY <1>4, <1>5
  <2> QED BY <1>4, <2>1, <2>2, TopUpsRest DEF MessagingInv
<1>8. ChargesHold' /\ FreeHolds'
  BY <1>1, <1>4 DEF MessagingInv, ChargesHold, FreeHolds, Settled, One, Free
<1> QED BY <1>3, <1>6, <1>7, <1>8 DEF MessagingInv

-----------------------------------------------------------------------------
(* Theorems *)

LEMMA MessagingStarts == Init => MessagingInv
<1> SUFFICES ASSUME Init PROVE MessagingInv
  OBVIOUS
<1>1. balance = 0 /\ ledger = <<>> /\ Len(ledger) = 0
  BY DEF Init, EmptyWallet
<1>2. WalletHolds
  BY <1>1 DEF WalletHolds, LedgerAgrees
<1>3. \A x, k : Entries(x, k) = {}
  BY <1>1 DEF Entries
<1>4. IdleCall \in Reading /\ IdleCall.step = "idle"
  BY IdleRow
<1>5. payment = [p \in Payments |-> [status |-> "NONE", applied |-> FALSE]]
  BY DEF Init, BillingInit
<1>6. until = [m \in Modules |-> 0] /\ call = [p \in Payments |-> [c \in Calls |-> IdleCall]]
  BY DEF Init, BillingInit
<1>7. attempt = [a \in Attempts |-> [key |-> None, step |-> "none", out |-> FALSE, lost |-> FALSE]]
  BY DEF Init
<1>8. RowsHold
  <2>1. payment \in [Payments -> [status : {"NONE", "PENDING", "PAID", "EXPIRED"}, applied : BOOLEAN]]
    BY <1>5
  <2>2. until \in [Modules -> Nat] /\ call \in [Payments -> [Calls -> Reading]]
    BY <1>4, <1>6
  <2>3. attempt \in [Attempts -> Trying]
    BY <1>7 DEF Trying, Steps
  <2> QED BY <2>1, <2>2, <2>3 DEF RowsHold
<1>9. OneSettles
  BY <1>4, <1>6 DEF OneSettles, At
<1>10. TopUpsHold
  BY <1>3, <1>5 DEF TopUpsHold
<1>11. ChargesHold
  BY <1>3, <1>7 DEF ChargesHold, Settled
<1>12. FreeHolds
  BY <1>7, MessagingAssumption DEF FreeHolds, Free
<1> QED BY <1>2, <1>8, <1>9, <1>10, <1>11, <1>12 DEF MessagingInv

LEMMA MessagingStep == MessagingInv /\ [Next]_vars => MessagingInv'
<1> SUFFICES ASSUME MessagingInv, [Next]_vars PROVE MessagingInv'
  OBVIOUS
<1>1. CASE BillingNext /\ UNCHANGED attempt
  BY <1>1, BillingKeeps
<1>2. CASE Adjust(Price) \/ Adjust(- Price)
  <2>1. Price \in Int /\ - Price \in Int
    BY MessagingAssumption
  <2> QED BY <1>2, <2>1, AdjustKeeps
<1>3. ASSUME NEW a \in Attempts, SendDocument(a) \/ \E k \in Keys : Remind(a, k), UNCHANGED billingVars
      PROVE  MessagingInv'
  BY <1>3, StartKeeps
<1>4. ASSUME NEW a \in Attempts, Progress(a) PROVE MessagingInv'
  <2>1. UNCHANGED billingVars
    BY <1>4 DEF Progress
  <2>2. CASE Charge(a)
    BY <2>1, <2>2, ChargeKeeps
  <2>3. CASE Refund(a)
    BY <2>1, <2>3, RefundKeeps
  <2>4. CASE Accept(a, "accepted") \/ Accept(a, "refused")
    BY <2>1, <2>4, ProviderKeeps
  <2>5. CASE NotEnough(a) \/ StoreFails(a) \/ Store(a) \/ Refuse(a) \/ LogFailed(a) \/ LogSent(a)
    BY <2>1, <2>5, MovesKeep
  <2> QED BY <1>4, <2>2, <2>3, <2>4, <2>5 DEF Progress
<1>5. ASSUME NEW a \in Attempts, AttemptLost(a) PROVE MessagingInv'
  BY <1>5, LostKeeps
<1>6. CASE UNCHANGED vars
  <2>1. UNCHANGED walletVars /\ UNCHANGED billingVars /\ attempt' = attempt
    BY <1>6 DEF vars
  <2>2. payment' = payment /\ call' = call /\ until' = until
    BY <2>1 DEF billingVars
  <2>3. OneSettles'
    BY <2>2 DEF MessagingInv, OneSettles, At
  <2> QED BY <2>1, <2>2, <2>3, ServingKeeps DEF MessagingInv, RowsHold
<1> QED BY <1>1, <1>2, <1>3, <1>4, <1>5, <1>6 DEF Next

\* The wallet, the top-ups and the attempts stay in step, whatever is cut
\* short, answered late or repeated.
THEOREM MessagingInvariant == Spec => []MessagingInv
<1>1. Init => MessagingInv
  BY MessagingStarts
<1>2. MessagingInv /\ [Next]_vars => MessagingInv'
  BY MessagingStep
<1> QED BY <1>1, <1>2, PTL DEF Spec

\* wa-wallet.ts, apply(): the ledger carries the balance from entry to entry,
\* the last one is the balance, and none is below zero.
THEOREM LedgerCarriesBalance == Spec => []LedgerAgrees
<1>1. MessagingInv => LedgerAgrees
  BY DEF MessagingInv, WalletHolds
<1> QED BY <1>1, MessagingInvariant, PTL

\* markPaid(): a top-up is credited once and by what was promised, whatever
\* calls and crashes there are, and while messages are charged.
THEOREM TopUpsCreditedOnce == Spec => []ToppedUpOnce
<1>1. MessagingInv => ToppedUpOnce
  <2> SUFFICES ASSUME MessagingInv, NEW p \in Payments, Buys[p] = {}
               PROVE  /\ Cardinality(Entries(p, "TOPUP")) = (IF payment[p].applied THEN 1 ELSE 0)
                      /\ \A i \in Entries(p, "TOPUP") : ledger[i].amount = Credit[p]
    BY DEF ToppedUpOnce
  <2>1. CASE payment[p].applied
    <3>1. PICK i \in 1..Len(ledger) : Entries(p, "TOPUP") = {i} /\ ledger[i].amount = Credit[p]
      BY <2>1 DEF MessagingInv, TopUpsHold
    <3>2. Cardinality({i}) = 1
      BY FS_Singleton
    <3> QED BY <2>1, <3>1, <3>2
  <2>2. CASE ~ payment[p].applied
    <3>1. Entries(p, "TOPUP") = {}
      BY <2>2 DEF MessagingInv, TopUpsHold
    <3> QED BY <2>2, <3>1, FS_EmptySet
  <2> QED BY <2>1, <2>2
<1> QED BY <1>1, MessagingInvariant, PTL

\* deliverWhatsApp(): a message that was sent has cost its price and one that
\* was not nothing; no more than the price is ever in doubt.
THEOREM MessagesPaidIfSent == Spec => []PaidIfSent
<1>1. MessagingInv => PaidIfSent
  <2> SUFFICES ASSUME MessagingInv, NEW a \in Attempts
               PROVE  /\ attempt[a].step \in Ends =>
                            Cost(a) = IF attempt[a].step \in {"sent", "unlogged"} /\ ~ Free(a) THEN Price ELSE 0
                      /\ Cost(a) \in {0, Price}
    BY DEF PaidIfSent
  <2> DEFINE charges == Entries(a, "MESSAGE")
             refunds == Entries(a, "REFUND")
  <2>1. Settled(attempt[a].step, Free(a), charges, refunds)
    BY StepIn
  <2>2. Price \in Nat /\ Cost(a) = Price * (Cardinality(charges) - Cardinality(refunds))
    BY MessagingAssumption DEF Cost
  <2> HIDE DEF charges, refunds
  <2>3. Cardinality({}) = 0 /\ \A S : One(S) => Cardinality(S) = 1
    BY FS_EmptySet, FS_Singleton DEF One
  <2>4. CASE charges = {} /\ refunds = {} /\ (Free(a) \/ attempt[a].step \in {"none", "ready", "dropped"})
    <3>1. Cost(a) = 0
      BY <2>2, <2>3, <2>4
    <3> QED BY <2>4, <3>1
  <2>5. CASE One(charges) /\ refunds = {} /\ ~ Free(a) /\ attempt[a].step \in Charged
    <3>1. Cost(a) = Price
      BY <2>2, <2>3, <2>5
    <3> QED BY <2>5, <3>1 DEF Charged, Ends
  <2>6. CASE One(charges) /\ One(refunds) /\ ~ Free(a) /\ attempt[a].step \in Restored \cup {"dropped"}
    <3>1. Cost(a) = 0
      BY <2>2, <2>3, <2>6
    <3> QED BY <2>6, <3>1 DEF Restored
  <2> QED BY <2>1, <2>4, <2>5, <2>6 DEF Settled
<1> QED BY <1>1, MessagingInvariant, PTL

-----------------------------------------------------------------------------
(* What billing promises *)

PaidNow    == {p \in Payments : invoice[p] = "PAID"}
AppliedNow == {p \in Payments : payment[p].applied}

\* A payment is only applied by a call that saw it paid.
PaidCalls ==
  /\ invoice \in [Payments -> {"NONE", "PENDING", "PAID", "EXPIRED"}]
  /\ \A p \in Payments, c \in Calls : At(p, c, "paid") \/ At(p, c, "settling") => invoice[p] = "PAID"

ServiceStep == PaidCalls' /\ [Service!Next]_<<PaidNow, AppliedNow>>

\* A call moves and the rest is as it was: to the customer, nothing happens.
LEMMA CallIsStutter ==
  ASSUME MessagingInv, PaidCalls, NEW p \in Payments, NEW c \in Calls, NEW new \in Reading,
         call' = [call EXCEPT ![p][c] = new], invoice' = invoice,
         \A q \in Payments : payment'[q].applied = payment[q].applied,
         new.step \in {"paid", "settling"} => invoice[p] = "PAID"
  PROVE  ServiceStep
<1>1. \A q \in Payments, e \in Calls : call'[q][e] = IF q = p /\ e = c THEN new ELSE call[q][e]
  BY CallBecomes DEF MessagingInv
<1>2. PaidCalls'
  BY <1>1 DEF PaidCalls, At
<1>3. PaidNow' = PaidNow /\ AppliedNow' = AppliedNow
  BY DEF PaidNow, AppliedNow
<1> QED BY <1>2, <1>3 DEF ServiceStep

LEMMA ServeStep ==
  ASSUME MessagingInv, PaidCalls, NEW p \in Payments, NEW c \in Calls,
         Callback(p, c) \/ FetchStatus(p, c) \/ FetchFails(p, c) \/ MarkExpired(p, c) \/ Lock(p, c)
           \/ Answer(p, c) \/ CallLost(p, c)
  PROVE  ServiceStep
<1>1. invoice' = invoice
  BY DEF Callback, FetchStatus, FetchFails, MarkExpired, Lock, Answer, CallLost
<1>2. \A q \in Payments : payment'[q].applied = payment[q].applied
  BY DEF Callback, FetchStatus, FetchFails, MarkExpired, Lock, Answer, CallLost, MessagingInv, RowsHold
<1>3. CASE Callback(p, c) \/ FetchFails(p, c) \/ MarkExpired(p, c)
  <2>1. PICK step \in {"called", "answering"} : Goes(p, c, step)
    BY <1>3 DEF Callback, FetchFails, MarkExpired
  <2>2. step \in CallSteps
    BY DEF CallSteps
  <2>3. PICK new \in Reading : new.step = step /\ call' = [call EXCEPT ![p][c] = new]
    BY <2>1, <2>2, GoesRow DEF MessagingInv
  <2> QED BY <1>1, <1>2, <2>3, CallIsStutter
<1>4. CASE FetchStatus(p, c)
  <2>1. PICK step \in {"paid", "expired"} : Goes(p, c, step) /\ (step = "paid" => invoice[p] = "PAID")
    BY <1>4 DEF FetchStatus
  <2>2. step \in CallSteps
    BY DEF CallSteps
  <2>3. PICK new \in Reading : new.step = step /\ call' = [call EXCEPT ![p][c] = new]
    BY <2>1, <2>2, GoesRow DEF MessagingInv
  <2> QED BY <1>1, <1>2, <2>1, <2>3, CallIsStutter
<1>5. CASE Lock(p, c)
  <2>1. invoice[p] = "PAID"
    BY <1>5 DEF Lock, PaidCalls
  <2>2. call[p][c] \in Reading /\ until \in [Modules -> Nat]
    BY DEF MessagingInv, RowsHold
  <2>3. \E new \in Reading : call' = [call EXCEPT ![p][c] = new]
    <3>1. CASE payment[p].applied
      <4>1. Goes(p, c, "answering") /\ "answering" \in CallSteps
        BY <1>5, <3>1 DEF Lock, Goes, CallSteps
      <4> QED BY <4>1, GoesRow DEF MessagingInv
    <3>2. CASE ~ payment[p].applied
      <4>1. [step |-> "settling", read |-> until] \in Reading
        BY <2>2 DEF Reading, CallSteps
      <4> QED BY <1>5, <3>2, <4>1 DEF Lock
    <3> QED BY <3>1, <3>2
  <2> QED BY <1>1, <1>2, <2>1, <2>3, CallIsStutter
<1>6. CASE Answer(p, c) \/ CallLost(p, c)
  <2>1. call' = [call EXCEPT ![p][c] = IdleCall]
    BY <1>6 DEF Answer, CallLost
  <2> QED BY <1>1, <1>2, <2>1, IdleRow, CallIsStutter
<1> QED BY <1>3, <1>4, <1>5, <1>6

\* A payment is granted, and was not before.
LEMMA SettleIsGrant ==
  ASSUME MessagingInv, PaidCalls, NEW p \in Payments, NEW c \in Calls, Settle(p, c)
  PROVE  ServiceStep
<1> DEFINE new == [IdleCall EXCEPT !.step = "answering"]
<1>1. new \in Reading /\ new.step = "answering"
  BY DEF IdleCall, Reading, CallSteps
<1>2. call' = [call EXCEPT ![p][c] = new] /\ At(p, c, "settling") /\ invoice' = invoice
  BY DEF Settle
<1> HIDE DEF new
<1>3. \A q \in Payments, e \in Calls : call'[q][e] = IF q = p /\ e = c THEN new ELSE call[q][e]
  BY <1>1, <1>2, CallBecomes DEF MessagingInv
<1>4. PaidCalls'
  BY <1>1, <1>2, <1>3 DEF PaidCalls, At
<1>5. \A q \in Payments : payment'[q].applied <=> q = p \/ payment[q].applied
  BY DEF Settle, MessagingInv, RowsHold
<1>6. PaidNow' = PaidNow /\ p \in PaidNow
  BY <1>2 DEF PaidNow, PaidCalls
<1>7. p \notin AppliedNow /\ AppliedNow' = AppliedNow \cup {p}
  BY <1>2, <1>5 DEF AppliedNow, MessagingInv, OneSettles
<1>8. Service!Grant(p)
  BY <1>6, <1>7 DEF Service!Grant, PaidNow, AppliedNow
<1> QED BY <1>4, <1>8 DEF ServiceStep, Service!Next

LEMMA CheckoutStep ==
  ASSUME MessagingInv, PaidCalls, NEW p \in Payments,
         CreateCheckout(p) \/ Close(p, "PAID") \/ Close(p, "EXPIRED")
  PROVE  ServiceStep
<1>1. PICK status \in {"PENDING", "PAID", "EXPIRED"} :
        /\ invoice' = [invoice EXCEPT ![p] = status]
        /\ (status = "PAID" => Close(p, "PAID"))
  BY DEF CreateCheckout, Close
<1>2. call' = call /\ invoice[p] # "PAID" /\ \A q \in Payments : payment'[q].applied = payment[q].applied
  <2>1. payment \in [Payments -> [status : {"NONE", "PENDING", "PAID", "EXPIRED"}, applied : BOOLEAN]]
    BY DEF MessagingInv, RowsHold
  <2>2. payment' = payment \/ payment' = [payment EXCEPT ![p].status = "PENDING"]
    BY DEF CreateCheckout, Close
  <2>3. \A q \in Payments : payment'[q].applied = payment[q].applied
    BY <2>1, <2>2
  <2>4. call' = call /\ invoice[p] \in {"NONE", "PENDING"}
    BY DEF CreateCheckout, Close
  <2> QED BY <2>3, <2>4
<1>3. /\ invoice' \in [Payments -> {"NONE", "PENDING", "PAID", "EXPIRED"}]
      /\ \A q \in Payments : invoice'[q] = IF q = p THEN status ELSE invoice[q]
  BY <1>1 DEF PaidCalls
<1>4. PaidCalls'
  BY <1>2, <1>3 DEF PaidCalls, At
<1>5. AppliedNow' = AppliedNow /\ PaidNow' = IF status = "PAID" THEN PaidNow \cup {p} ELSE PaidNow
  BY <1>2, <1>3 DEF AppliedNow, PaidNow
<1>6. CASE status = "PAID"
  <2>1. Service!Pay(p)
    BY <1>5, <1>6 DEF Service!Pay, AppliedNow, PaidNow
  <2> QED BY <1>4, <2>1 DEF ServiceStep, Service!Next
<1>7. CASE status # "PAID"
  BY <1>4, <1>5, <1>7 DEF ServiceStep
<1> QED BY <1>6, <1>7

LEMMA NextIsServiceStep == MessagingInv /\ PaidCalls /\ [Next]_vars => ServiceStep
<1> SUFFICES ASSUME MessagingInv, PaidCalls, [Next]_vars PROVE ServiceStep
  OBVIOUS
<1>1. CASE UNCHANGED billingVars
  <2>1. invoice' = invoice /\ payment' = payment /\ call' = call
    BY <1>1 DEF billingVars
  <2> QED BY <2>1 DEF ServiceStep, PaidCalls, At, PaidNow, AppliedNow
<1>2. CASE BillingNext
  BY <1>2, CheckoutStep, ServeStep, SettleIsGrant DEF BillingNext, Serve
<1>3. UNCHANGED billingVars \/ BillingNext
  BY DEF Next, Adjust, Progress, AttemptLost, vars
<1> QED BY <1>1, <1>2, <1>3

\* markPaid(): also while messages are charged, a checkout is granted once and
\* only after it was paid at the gateway.
THEOREM BillingKeepsPromise == Spec => Service!Safe
<1>1. Init => PaidCalls /\ Service!Init
  <2> SUFFICES ASSUME Init PROVE PaidCalls /\ Service!Init
    OBVIOUS
  <2>1. invoice = [p \in Payments |-> "NONE"] /\ call = [p \in Payments |-> [c \in Calls |-> IdleCall]]
    BY DEF Init, BillingInit
  <2>2. payment = [p \in Payments |-> [status |-> "NONE", applied |-> FALSE]]
    BY DEF Init, BillingInit
  <2>3. PaidCalls
    BY <2>1, IdleRow DEF PaidCalls, At
  <2>4. Service!Init
    BY <2>1, <2>2 DEF Service!Init
  <2> QED BY <2>3, <2>4
<1>2. MessagingInv /\ PaidCalls /\ [Next]_vars => PaidCalls' /\ [Service!Next]_<<PaidNow, AppliedNow>>
  BY NextIsServiceStep DEF ServiceStep
<1> QED BY <1>1, <1>2, MessagingInvariant, PTL DEF Spec, Service!Safe, PaidNow, AppliedNow

-----------------------------------------------------------------------------
(***************************************************************************)
(* Periods.  The theorem supposes that payments settle one after the other *)
(* and fails without that: two that renew the same module at the same time *)
(* read the same paid-until (see the README).                              *)
(***************************************************************************)

\* The payments that have bought periods of a module.
PaidFor(m) == {p \in Payments : payment[p].applied /\ m \in Buys[p]}

\* One call applies a payment at a time, and what it has read still stands.
ReadsHold ==
  /\ \A p, q \in Payments, c, e \in Calls : At(p, c, "settling") /\ At(q, e, "settling") => p = q
  /\ \A p \in Payments, c \in Calls : At(p, c, "settling") => call[p][c].read = until

PeriodsInv == ReadsHold /\ PeriodsAddUp

\* A bounded set of naturals has a latest element ...
LEMMA LatestExists ==
  ASSUME NEW S, S \subseteq Nat, S # {}, NEW b \in Nat, \A k \in S : k <= b
  PROVE  Latest(S) \in S /\ \A k \in S : k <= Latest(S)
<1> DEFINE T == {n \in Nat : \A k \in S : k <= n}
<1>1. PICK n \in T : \A k \in T : n <= k
  <2>1. T \subseteq Nat /\ b \in T
    OBVIOUS
  <2> HIDE DEF T
  <2> QED BY <2>1, LeastNat, Zenon
<1>2. n \in Nat /\ \A k \in S : k <= n
  BY <1>1
<1>3. n \in S
  <2> SUFFICES ASSUME n \notin S PROVE FALSE
    OBVIOUS
  <2>1. \A k \in S : k \in Nat /\ k < n
    BY <1>2
  <2>2. n - 1 \in Nat
    <3>1. PICK k \in S : TRUE
      OBVIOUS
    <3> QED BY <1>2, <2>1, <3>1
  <2>3. \A k \in S : k <= n - 1
    BY <1>2, <2>1
  <2>4. n - 1 \in T
    BY <2>2, <2>3
  <2> QED BY <1>1, <1>2, <2>4
<1> HIDE DEF T
<1> QED BY <1>2, <1>3 DEF Latest

\* ... and only one.
LEMMA LatestIs ==
  ASSUME NEW S, S \subseteq Nat, NEW n \in S, \A k \in S : k <= n
  PROVE  Latest(S) = n
<1>1. \E m \in S : \A k \in S : k <= m
  OBVIOUS
<1>2. Latest(S) \in S /\ \A k \in S : k <= Latest(S)
  BY <1>1, Zenon DEF Latest
<1> DEFINE m == Latest(S)
<1>3. m \in S /\ \A k \in S : k <= m
  BY <1>2
<1> HIDE DEF m
<1>4. m \in Nat /\ n \in Nat /\ m <= n /\ n <= m
  BY <1>3
<1>5. m = n
  BY <1>4
<1> QED BY <1>5 DEF m

\* The organisation's paid-until follows the modules that are renewed.
LEMMA LatestRenewed ==
  ASSUME until \in [Modules -> Nat], orgUntil = Latest({0} \cup {until[m] : m \in Modules}),
         NEW b \in Nat, NEW after \in [Modules -> Nat], NEW buys \in SUBSET Modules,
         \A m \in Modules : after[m] <= b /\ after[m] = until[m] + IF m \in buys THEN 1 ELSE 0
  PROVE  Latest({orgUntil} \cup {after[m] : m \in buys}) = Latest({0} \cup {after[m] : m \in Modules})
<1> DEFINE A == {0} \cup {until[m] : m \in Modules}
           B == {orgUntil} \cup {after[m] : m \in buys}
           C == {0} \cup {after[m] : m \in Modules}
<1>1. orgUntil \in A /\ \A k \in A : k \in Nat /\ k <= orgUntil
  <2>1. A \subseteq Nat /\ A # {} /\ \A k \in A : k <= b
    OBVIOUS
  <2>2. orgUntil = Latest(A)
    OBVIOUS
  <2> HIDE DEF A
  <2> QED BY <2>1, <2>2, LatestExists
<1>2. B \subseteq Nat /\ B # {} /\ C \subseteq Nat
  BY <1>1
<1>3. \A k \in B : k <= b
  BY <1>1
<1>4. PICK n \in B : n = Latest(B) /\ \A k \in B : k <= n
  <2> HIDE DEF B
  <2> QED BY <1>2, <1>3, LatestExists
<1>5. n \in C
  <2>1. CASE n \in {after[m] : m \in buys}
    BY <2>1
  <2>2. CASE n = orgUntil
    <3>1. CASE n = 0
      BY <3>1
    <3>2. ASSUME NEW m \in Modules, n = until[m] PROVE n \in C
      <4>1. CASE m \in buys
        <5>1. after[m] = n + 1 /\ after[m] \in B
          BY <3>2, <4>1
        <5>2. after[m] <= n
          BY <1>4, <5>1
        <5> QED BY <1>1, <2>2, <5>1, <5>2
      <4>2. CASE m \notin buys
        BY <3>2, <4>2
      <4> QED BY <4>1, <4>2
    <3> QED BY <1>1, <2>2, <3>1, <3>2
  <2> QED BY <2>1, <2>2
<1>6. ASSUME NEW k \in C PROVE k <= n
  <2>1. orgUntil <= n /\ orgUntil \in Nat /\ n \in Nat
    BY <1>1, <1>2, <1>4
  <2>2. CASE k = 0
    BY <2>1, <2>2
  <2>3. ASSUME NEW m \in Modules, k = after[m] PROVE k <= n
    <3>1. CASE m \in buys
      BY <1>4, <2>3, <3>1
    <3>2. CASE m \notin buys
      <4>1. k = until[m] /\ until[m] \in A
        BY <2>3, <3>2
      <4> QED BY <1>1, <2>1, <4>1
    <3> QED BY <3>1, <3>2
  <2> QED BY <2>2, <2>3
<1>7. Latest(C) = n
  <2> HIDE DEF C
  <2> QED BY <1>2, <1>5, <1>6, LatestIs
<1> QED BY <1>4, <1>7

\* A payment that is applied is one more of each of its modules.
LEMMA PaidForGrows ==
  ASSUME NEW p \in Payments, ~ payment[p].applied, NEW m \in Modules,
         \A q \in Payments : payment'[q].applied <=> q = p \/ payment[q].applied
  PROVE  /\ Cardinality(PaidFor(m)) \in Nat
         /\ Cardinality(PaidFor(m))' = Cardinality(PaidFor(m)) + IF m \in Buys[p] THEN 1 ELSE 0
         /\ Cardinality(PaidFor(m))' <= Cardinality(Payments)
<1>1. PaidFor(m)' = (IF m \in Buys[p] THEN PaidFor(m) \cup {p} ELSE PaidFor(m)) /\ p \notin PaidFor(m)
  BY DEF PaidFor
<1>2. PaidFor(m) \in SUBSET Payments /\ PaidFor(m)' \in SUBSET Payments
  BY DEF PaidFor
<1>3. IsFiniteSet(PaidFor(m))
  BY <1>2, FS_Subset, BillingAssumption
<1>4. Cardinality(PaidFor(m) \cup {p}) = Cardinality(PaidFor(m)) + 1
  BY <1>1, <1>3, FS_AddElement
<1>5. Cardinality(PaidFor(m)) \in Nat
  BY <1>3, FS_CardinalityType
<1>6. Cardinality(PaidFor(m)') <= Cardinality(Payments)
  BY <1>2, FS_Subset, BillingAssumption
<1> QED BY <1>1, <1>4, <1>5, <1>6

\* A step that applies nothing, and lets no call begin to.
LEMMA PeriodsRest ==
  ASSUME PeriodsInv, UNCHANGED <<until, orgUntil>>,
         \A q \in Payments : payment'[q].applied = payment[q].applied,
         \A q \in Payments, e \in Calls : At(q, e, "settling")' =>
           At(q, e, "settling") /\ call'[q][e].read = call[q][e].read
  PROVE  PeriodsInv'
<1>1. PeriodsAddUp'
  BY DEF PeriodsInv, PeriodsAddUp
<1>2. ReadsHold'
  BY DEF PeriodsInv, ReadsHold
<1> QED BY <1>1, <1>2 DEF PeriodsInv

\* The steps of a call up to the lock and after the commit.
LEMMA ServingPeriods ==
  ASSUME MessagingInv, PeriodsInv, NEW p \in Payments, NEW c \in Calls,
         Callback(p, c) \/ FetchStatus(p, c) \/ FetchFails(p, c) \/ MarkExpired(p, c)
           \/ Answer(p, c) \/ CallLost(p, c)
  PROVE  PeriodsInv'
<1>1. UNCHANGED <<until, orgUntil>> /\ \A q \in Payments : payment'[q].applied = payment[q].applied
  BY DEF Callback, FetchStatus, FetchFails, MarkExpired, Answer, CallLost, MessagingInv, RowsHold
<1>2. PICK new \in Reading : new.step # "settling" /\ call' = [call EXCEPT ![p][c] = new]
  <2>1. CASE Callback(p, c) \/ FetchStatus(p, c) \/ FetchFails(p, c) \/ MarkExpired(p, c)
    <3>1. PICK step \in {"called", "paid", "expired", "answering"} : Goes(p, c, step)
      BY <2>1 DEF Callback, FetchStatus, FetchFails, MarkExpired
    <3>2. step \in CallSteps
      BY DEF CallSteps
    <3> QED BY <3>1, <3>2, GoesRow DEF MessagingInv
  <2>2. CASE Answer(p, c) \/ CallLost(p, c)
    BY <2>2, IdleRow DEF Answer, CallLost
  <2> QED BY <2>1, <2>2
<1>3. \A q \in Payments, e \in Calls : call'[q][e] = IF q = p /\ e = c THEN new ELSE call[q][e]
  BY <1>2, CallBecomes DEF MessagingInv
<1>4. \A q \in Payments, e \in Calls : At(q, e, "settling")' =>
        At(q, e, "settling") /\ call'[q][e].read = call[q][e].read
  BY <1>2, <1>3 DEF At
<1> QED BY <1>1, <1>4, PeriodsRest

\* markPaid() locks: no other call is applying anything, and it reads what
\* stands.
LEMMA LockPeriods ==
  ASSUME ~ SettlesTogether, MessagingInv, PeriodsInv, NEW p \in Payments, NEW c \in Calls, Lock(p, c)
  PROVE  PeriodsInv'
<1>1. UNCHANGED <<until, orgUntil, payment>>
  BY DEF Lock
<1>2. \A q \in Payments, e \in Calls : ~ At(q, e, "settling")
  BY DEF Lock, Unlocked
<1>3. CASE payment[p].applied
  <2>1. Goes(p, c, "answering") /\ "answering" \in CallSteps
    BY <1>3 DEF Lock, Goes, CallSteps
  <2>2. PICK new \in Reading : new.step = "answering" /\ call' = [call EXCEPT ![p][c] = new]
    BY <2>1, GoesRow DEF MessagingInv
  <2>3. \A q \in Payments, e \in Calls : call'[q][e] = IF q = p /\ e = c THEN new ELSE call[q][e]
    BY <2>2, CallBecomes DEF MessagingInv
  <2>4. \A q \in Payments, e \in Calls : ~ At(q, e, "settling")'
    BY <1>2, <2>2, <2>3 DEF At
  <2> QED BY <1>1, <2>4, PeriodsRest
<1>4. CASE ~ payment[p].applied
  <2> DEFINE new == [step |-> "settling", read |-> until]
  <2>1. new \in Reading /\ call' = [call EXCEPT ![p][c] = new]
    BY <1>4 DEF Lock, MessagingInv, RowsHold, Reading, CallSteps
  <2>2. \A q \in Payments, e \in Calls : call'[q][e] = IF q = p /\ e = c THEN new ELSE call[q][e]
    BY <2>1, CallBecomes DEF MessagingInv
  <2>3. \A q \in Payments, e \in Calls : At(q, e, "settling")' => q = p /\ e = c
    BY <1>2, <2>2 DEF At
  <2>4. ReadsHold'
    BY <1>1, <2>2, <2>3 DEF ReadsHold
  <2>5. PeriodsAddUp'
    BY <1>1 DEF PeriodsInv, PeriodsAddUp
  <2> QED BY <2>4, <2>5 DEF PeriodsInv
<1> QED BY <1>3, <1>4

\* applySubscription() adds a period to each of the payment's modules.
LEMMA SettlePeriods ==
  ASSUME MessagingInv, PeriodsInv, NEW p \in Payments, NEW c \in Calls, Settle(p, c)
  PROVE  PeriodsInv'
<1> DEFINE new == [IdleCall EXCEPT !.step = "answering"]
<1>1. new \in Reading /\ new.step # "settling"
  BY DEF IdleCall, Reading, CallSteps
<1>2. call' = [call EXCEPT ![p][c] = new] /\ At(p, c, "settling")
  BY DEF Settle
<1> HIDE DEF new
<1>3. \A q \in Payments, e \in Calls : call'[q][e] = IF q = p /\ e = c THEN new ELSE call[q][e]
  BY <1>1, <1>2, CallBecomes DEF MessagingInv
<1>4. \A q \in Payments : payment'[q].applied <=> q = p \/ payment[q].applied
  BY DEF Settle, MessagingInv, RowsHold
<1>5. ~ payment[p].applied /\ \A q \in Payments, e \in Calls : At(q, e, "settling") => q = p /\ e = c
  BY <1>2 DEF MessagingInv, OneSettles, PeriodsInv, ReadsHold
<1>6. ReadsHold'
  <2>1. \A q \in Payments, e \in Calls : ~ At(q, e, "settling")'
    BY <1>1, <1>3, <1>5 DEF At
  <2> QED BY <2>1 DEF ReadsHold
<1>7. /\ until \in [Modules -> Nat] /\ call[p][c].read = until
      /\ \A m \in Modules : until[m] = Cardinality(PaidFor(m))
      /\ orgUntil = Latest({0} \cup {until[m] : m \in Modules})
      /\ Buys[p] \in SUBSET Modules
  BY <1>2, BillingAssumption DEF MessagingInv, RowsHold, PeriodsInv, ReadsHold, PeriodsAddUp, PaidFor
<1>8. \A m \in Modules : /\ until'[m] = until[m] + IF m \in Buys[p] THEN 1 ELSE 0
                         /\ until'[m] \in Nat
  <2>1. CASE Buys[p] = {}
    BY <1>7, <2>1 DEF Settle
  <2>2. CASE Buys[p] # {}
    BY <1>7, <2>2 DEF Settle, Renewed
  <2> QED BY <2>1, <2>2
<1>9. until' \in [Modules -> Nat]
  <2>1. until' = until \/ until' = Renewed(p, call[p][c].read)
    BY DEF Settle
  <2> QED BY <1>7, <2>1 DEF Renewed
<1>10. \A m \in Modules : until'[m] = Cardinality(PaidFor(m))' /\ until'[m] <= Cardinality(Payments)
  BY <1>4, <1>5, <1>7, <1>8, PaidForGrows
<1>11. orgUntil' = Latest({0} \cup {until'[m] : m \in Modules})
  <2>1. CASE Buys[p] = {}
    BY <1>7, <2>1 DEF Settle
  <2>2. CASE Buys[p] # {}
    <3>1. orgUntil' = Latest({orgUntil} \cup {until'[m] : m \in Buys[p]})
      BY <2>2 DEF Settle
    <3>2. Cardinality(Payments) \in Nat
      BY BillingAssumption, FS_CardinalityType
    <3> QED BY <1>7, <1>8, <1>9, <1>10, <3>1, <3>2, LatestRenewed
  <2> QED BY <2>1, <2>2
<1>12. PeriodsAddUp'
  BY <1>10, <1>11 DEF PeriodsAddUp, PaidFor
<1> QED BY <1>6, <1>12 DEF PeriodsInv

LEMMA PeriodsStep == ~ SettlesTogether /\ MessagingInv /\ PeriodsInv /\ [Next]_vars => PeriodsInv'
<1> SUFFICES ASSUME ~ SettlesTogether, MessagingInv, PeriodsInv, [Next]_vars PROVE PeriodsInv'
  OBVIOUS
<1>1. CASE UNCHANGED billingVars
  BY <1>1, PeriodsRest DEF billingVars, At
<1>2. ASSUME NEW p \in Payments, CreateCheckout(p) \/ Close(p, "PAID") \/ Close(p, "EXPIRED")
      PROVE  PeriodsInv'
  <2>1. UNCHANGED <<until, orgUntil, call>>
    BY <1>2 DEF CreateCheckout, Close
  <2>2. \A q \in Payments : payment'[q].applied = payment[q].applied
    <3>1. payment \in [Payments -> [status : {"NONE", "PENDING", "PAID", "EXPIRED"}, applied : BOOLEAN]]
      BY DEF MessagingInv, RowsHold
    <3>2. payment' = payment \/ payment' = [payment EXCEPT ![p].status = "PENDING"]
      BY <1>2 DEF CreateCheckout, Close
    <3> QED BY <3>1, <3>2
  <2> QED BY <2>1, <2>2, PeriodsRest DEF At
<1>3. ASSUME NEW p \in Payments, NEW c \in Calls, Callback(p, c) \/ Serve(p, c) \/ CallLost(p, c)
      PROVE  PeriodsInv'
  BY <1>3, ServingPeriods, LockPeriods, SettlePeriods DEF Serve
<1>4. UNCHANGED billingVars \/ BillingNext
  BY DEF Next, Adjust, Progress, AttemptLost, vars
<1> QED BY <1>1, <1>2, <1>3, <1>4 DEF BillingNext

LEMMA PeriodsStart == Init => PeriodsInv
<1> SUFFICES ASSUME Init PROVE PeriodsInv
  OBVIOUS
<1>1. /\ payment = [p \in Payments |-> [status |-> "NONE", applied |-> FALSE]]
      /\ until = [m \in Modules |-> 0] /\ orgUntil = 0
      /\ call = [p \in Payments |-> [c \in Calls |-> IdleCall]]
  BY DEF Init, BillingInit
<1>2. ReadsHold
  BY <1>1, IdleRow DEF ReadsHold, At
<1>3. \A m \in Modules : PaidFor(m) = {} /\ until[m] = Cardinality(PaidFor(m))
  <2>1. \A m \in Modules : PaidFor(m) = {}
    BY <1>1 DEF PaidFor
  <2> QED BY <1>1, <2>1, FS_EmptySet
<1>4. orgUntil = Latest({0} \cup {until[m] : m \in Modules})
  <2>1. {0} \cup {until[m] : m \in Modules} = {0}
    BY <1>1
  <2>2. Latest({0}) = 0
    BY LatestIs
  <2> QED BY <1>1, <2>1, <2>2
<1> QED BY <1>2, <1>3, <1>4 DEF PeriodsInv, PeriodsAddUp, PaidFor

\* applySubscription(): when payments settle one after the other, a module
\* runs for as many periods as were paid for it, and the organisation as long
\* as its longest module, through repeated and interrupted calls.
THEOREM PeriodsAreCounted ==
  ASSUME ~ SettlesTogether
  PROVE  Spec => []PeriodsAddUp
<1>1. Init => PeriodsInv
  BY PeriodsStart
<1>2. MessagingInv /\ PeriodsInv /\ [Next]_vars => PeriodsInv'
  BY PeriodsStep
<1>3. PeriodsInv => PeriodsAddUp
  BY DEF PeriodsInv
<1> QED BY <1>1, <1>2, <1>3, MessagingInvariant, PTL DEF Spec
=============================================================================
