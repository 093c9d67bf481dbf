---------------------------- MODULE FixedAssets -----------------------------
(***************************************************************************)
(* Fixed assets: acquired with their payable, paid off, depreciated month  *)
(* by month, and disposed of, or taken back while nothing has happened to  *)
(* them.                                                                   *)
(*                                                                         *)
(* A date is a month and a day.  Months need not be equally long: adding   *)
(* months to a date may run over into the month after.                     *)
(***************************************************************************)
EXTENDS BackOfficeLedger, Sequences

CONSTANTS
  Assets,       \* ids of fixed assets
  Terms,        \* cost, salvage, usefulLifeMonths and acquisitionDate of each
  DaysIn,       \* the days of each month
  ThroughDates, \* the dates that depreciation may be run through
  Proceeds      \* what an asset may be sold for

Months == DOMAIN DaysIn
Dates  == {d \in Months \X Nat : 1 <= d[2] /\ d[2] <= DaysIn[d[1]]}

ASSUME AssetsAssumption ==
  /\ DOMAIN Terms = Assets
  /\ \A a \in Assets :
       /\ Terms[a].cost \in Nat /\ Terms[a].salvage \in Nat /\ Terms[a].salvage < Terms[a].cost
       /\ Terms[a].life \in Nat \ {0}
       /\ Terms[a].acquired \in Dates
  /\ ThroughDates \subseteq Dates
  /\ Proceeds \subseteq Nat

\* Months are about as long: the days by which one is longer than another
\* are days that every month has.
ASSUME CalendarAssumption ==
  /\ DaysIn \in Seq(Nat \ {0})
  /\ \A m, n, k \in Months : DaysIn[m] - DaysIn[n] <= DaysIn[k]

VARIABLE asset  \* the row of each asset

AssetInit ==
  asset = [a \in Assets |-> [status |-> "NONE", paid |-> 0, payments |-> 0, accumulated |-> 0,
                             through |-> Terms[a].acquired]]

AssetHere(a) == asset[a].status \in {"ACTIVE", "DISPOSED"}
StillOwed(a) == Terms[a].cost - asset[a].paid
Base(a)      == Terms[a].cost - Terms[a].salvage

-----------------------------------------------------------------------------
(* Dates *)

Before(d, e) == d[1] < e[1] \/ (d[1] = e[1] /\ d[2] < e[2])

Larger(m, n)  == IF m < n THEN n ELSE m
Smaller(m, n) == IF m < n THEN m ELSE n

\* wholeMonthsBetween()
WholeMonthsBetween(from, to) ==
  IF Before(from, to) THEN Larger(0, to[1] - from[1] - (IF to[2] < from[2] THEN 1 ELSE 0)) ELSE 0

\* addMonths(): a day that the month does not have is one of the next.
AddMonths(d, n) ==
  LET m == d[1] + n IN
    IF d[2] <= DaysIn[m] THEN <<m, d[2]>> ELSE <<m + 1, d[2] - DaysIn[m]>>

-----------------------------------------------------------------------------
(* Acquisition and payments *)

\* postFixedAssetAcquired(), postFixedAssetPayment()
AcquisitionEntry(a)       == Lines("fixedAssets", Terms[a].cost, "fixedAssetPayable")
AssetPaymentEntry(amount) == Lines("fixedAssetPayable", amount, "cash")

\* create()
CreateAsset(a) ==
  /\ AtOnce
  /\ asset[a].status = "NONE"
  /\ asset' = [asset EXCEPT ![a].status = "ACTIVE"]
  /\ Post(<<"acquired", a>>, AcquisitionEntry(a))

\* recordPayment()
RecordAssetPayment(a, amount) ==
  /\ AtOnce
  /\ asset[a].status = "ACTIVE"
  /\ amount <= StillOwed(a)
  /\ asset' = [asset EXCEPT ![a].paid = @ + amount, ![a].payments = @ + 1]
  /\ Post(<<"assetPayment", a, asset[a].payments + 1>>, AssetPaymentEntry(amount))

-----------------------------------------------------------------------------
(* runDepreciation() *)

\* postFixedAssetDepreciation()
DepreciationEntry(amount) == Lines("depreciation", amount, "accumulated")

\* To the nearest cent.
Rounded(n, d) == (2 * n + d) \div (2 * d)

\* What is due on asset a through a date, from what is on its row.
Due(a, date) ==
  LET elapsed == WholeMonthsBetween(asset[a].through, date) IN
    [asset |-> a, from |-> asset[a].through, through |-> AddMonths(asset[a].through, elapsed),
     amount |-> Smaller(Rounded(Base(a) * elapsed, Terms[a].life), Base(a) - asset[a].accumulated)]

ReadToDepreciate(c, date) ==
  /\ Reads(c, "depreciate", None, 0,
           {d \in {Due(a, date) : a \in {b \in Assets : asset[b].status = "ACTIVE"
                                                        /\ ~ Before(date, Terms[b].acquired)}} : d.amount > 0})
  /\ UNCHANGED <<posted, asset>>

\* Mutant of Claimable: the row is updated by its id alone.
ClaimableAnyway(d) == AssetHere(d.asset)

\* The claim: lastDepreciatedThrough is what was read.
Claimable(d) == AssetHere(d.asset) /\ asset[d.asset].through = d.from

\* One asset, in a transaction of its own.
Depreciate(c) ==
  /\ Writing(c, "depreciate")
  /\ \E d \in at[c].due :
       /\ IF Claimable(d)
          THEN /\ asset' = [asset EXCEPT ![d.asset].accumulated = @ + d.amount, ![d.asset].through = d.through]
               /\ Post(<<"depreciation", d.asset, d.through>>, DepreciationEntry(d.amount))
          ELSE UNCHANGED <<posted, asset>>
       /\ \/ at[c].due = {d} /\ Done(c)
          \/ at[c].due # {d} /\ at' = [at EXCEPT ![c].due = @ \ {d}]

\* A run that found nothing due, or that was cut short.
EndDepreciation(c) ==
  /\ Writing(c, "depreciate")
  /\ Done(c)
  /\ UNCHANGED <<posted, asset>>

-----------------------------------------------------------------------------
(* Disposal and deletion *)

\* postFixedAssetDisposal(): what is left of the cost is a loss, or a gain
\* when more was paid for it.
DisposalEntry(a, proceeds) ==
  [accumulated |-> -asset[a].accumulated, cash |-> -proceeds, fixedAssets |-> Terms[a].cost,
   gainOrLoss |-> proceeds + asset[a].accumulated - Terms[a].cost]

\* dispose()
DisposeAsset(a, proceeds) ==
  /\ AtOnce
  /\ asset[a].status = "ACTIVE"
  /\ asset' = [asset EXCEPT ![a].status = "DISPOSED"]
  /\ Post(<<"disposal", a>>, DisposalEntry(a, proceeds))

\* voidUnrecorded(): what is asked of the row is read before the transaction.
ReadToVoidAsset(c, a) ==
  /\ asset[a].status = "ACTIVE" /\ asset[a].paid = 0 /\ asset[a].accumulated = 0
  /\ Reads(c, "voidAsset", a, 0, {})
  /\ UNCHANGED <<posted, asset>>

\* The row may be deleted: no FixedAssetPayment refers to it.
AssetCanGo(a) == AssetHere(a) /\ asset[a].payments = 0

VoidAsset(c) ==
  /\ Writing(c, "voidAsset")
  /\ IF AssetCanGo(at[c].doc)
     THEN /\ asset' = [asset EXCEPT ![at[c].doc].status = "DELETED"]
          /\ VoidAll({<<"acquired", at[c].doc>>})
     ELSE UNCHANGED <<posted, asset>>
  /\ Done(c)

FixedAssetsNext ==
  \/ \E a \in Assets :
       \/ CreateAsset(a)
       \/ \E amount \in Instalments : RecordAssetPayment(a, amount)
       \/ \E proceeds \in Proceeds : DisposeAsset(a, proceeds)
       \/ \E c \in Clients : ReadToVoidAsset(c, a)
  \/ \E c \in Clients :
       \/ \E date \in ThroughDates : ReadToDepreciate(c, date)
       \/ Depreciate(c) \/ EndDepreciation(c) \/ VoidAsset(c)
=============================================================================
