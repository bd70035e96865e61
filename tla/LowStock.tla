------------------------------ MODULE LowStock ------------------------------
(***************************************************************************)
(* Low-stock alerts.  Two places open a LowStockNotification: the order    *)
(* that takes the stock down to the threshold (reserveForOrder, without an *)
(* email) and the hourly scan (with one), which skips variants that have   *)
(* an open notification.  Nothing ever sets resolvedAt, so they all stay   *)
(* open.  Stock is low or not here; Inventory.tla counts the units.        *)
(***************************************************************************)
EXTENDS Naturals, FiniteSets

CONSTANTS Variants,
          Ordered,     \* variants that are sold in orders
          Scans,       \* cron calls that may run at the same time
          Take,        \* LIMIT of the scan
          MaxRefills,  \* bound: how often a variant is filled up again
          Crashes      \* may a scan end between two of its steps?

LowStockAssumption ==
    /\ Ordered \subseteq Variants
    /\ Take \in Nat \ {0}
    /\ Crashes \in BOOLEAN

VARIABLES
    low,      \* variants at or under their threshold
    active,   \* variants that are active
    refills,  \* how often a variant was filled up
    open,     \* number of open notifications of a variant
    mails,    \* number of email.low_stock jobs enqueued for a variant
    scan      \* what each scan still has to do

vars == <<low, active, refills, open, mails, scan>>

Scan == [found : SUBSET Variants,              \* rows of the query, not yet flagged
         mailing : SUBSET Variants]            \* flagged, the email not yet enqueued

IdleScan == [found |-> {}, mailing |-> {}]

----------------------------------------------------------------------------

\* An order takes the stock of an active variant to the threshold or under it.
reserveForOrder(v) ==
    /\ v \in (Ordered \cap active) \ low
    /\ low' = low \cup {v}
    /\ open' = IF open[v] = 0 THEN [open EXCEPT ![v] = 1] ELSE open
    /\ UNCHANGED <<active, refills, mails, scan>>

\* The stock runs low, or the variant is filled up.
StockChanges(v) ==
    \/ /\ low' = low \cup {v}
       /\ UNCHANGED refills
    \/ /\ v \in low
       /\ refills[v] < MaxRefills
       /\ low' = low \ {v}
       /\ refills' = [refills EXCEPT ![v] = @ + 1]

\* An admin or a restock changes the stock ...
adjustStock(v) ==
    /\ StockChanges(v)
    /\ UNCHANGED <<active, open, mails, scan>>

\* ... and the variant form stock, threshold and isActive at once.
updateVariant(v) ==
    /\ StockChanges(v) \/ UNCHANGED <<low, refills>>
    /\ \E on \in SUBSET {v} : active' = (active \ {v}) \cup on
    /\ UNCHANGED <<open, mails, scan>>

\* The scan selects up to Take of the rows.
Select(s, rows) ==
    /\ scan[s] = IdleScan
    /\ rows # {}
    /\ \E found \in SUBSET rows :
         /\ Cardinality(found) = IF Cardinality(rows) < Take THEN Cardinality(rows) ELSE Take
         /\ scan' = [scan EXCEPT ![s].found = found]
    /\ UNCHANGED <<low, active, refills, open, mails>>

\* Mutant: only variants that have been sold are looked at.
ScanSold(s) == Select(s, {v \in low \cap active \cap Ordered : open[v] = 0})

\* Active low variants without an open notification.
scanLowStock(s) == Select(s, {v \in low \cap active : open[v] = 0})

\* One row after the other gets its notification ...
Flag(s) ==
    /\ scan[s].mailing = {}
    /\ \E v \in scan[s].found :
         /\ open' = [open EXCEPT ![v] = @ + 1]
         /\ scan' = [scan EXCEPT ![s].found = @ \ {v}, ![s].mailing = {v}]
    /\ UNCHANGED <<low, active, refills, mails>>

\* ... and its email.
EnqueueAlert(s) ==
    /\ \E v \in scan[s].mailing :
         /\ mails' = [mails EXCEPT ![v] = @ + 1]
         /\ scan' = [scan EXCEPT ![s].mailing = @ \ {v}]
    /\ UNCHANGED <<low, active, refills, open>>

Crash(s) ==
    /\ Crashes
    /\ scan[s] # IdleScan
    /\ scan' = [scan EXCEPT ![s] = IdleScan]
    /\ UNCHANGED <<low, active, refills, open, mails>>

----------------------------------------------------------------------------

Init ==
    /\ low = {}
    /\ active = Variants
    /\ refills = [v \in Variants |-> 0]
    /\ open = [v \in Variants |-> 0]
    /\ mails = [v \in Variants |-> 0]
    /\ scan = [s \in Scans |-> IdleScan]

ScanStep(s) == scanLowStock(s) \/ Flag(s) \/ EnqueueAlert(s)

Next ==
    \/ \E v \in Variants : reserveForOrder(v) \/ adjustStock(v) \/ updateVariant(v)
    \/ \E s \in Scans : ScanStep(s) \/ Crash(s)

Spec == Init /\ [][Next]_vars

\* The cron keeps calling, and a scan goes on unless it is cut off; that does not
\* happen to every scan for ever.
Fairness ==
    \A s \in Scans : WF_vars(ScanStep(s)) /\ <>[][~ Crash(s)]_vars

FairSpec == Spec /\ Fairness

----------------------------------------------------------------------------
(* Properties *)

TypeOK ==
    /\ low \subseteq Variants
    /\ active \subseteq Variants
    /\ refills \in [Variants -> 0 .. MaxRefills]
    /\ open \in [Variants -> 0 .. Cardinality(Scans) + 1]
    /\ mails \in [Variants -> Nat]
    /\ scan \in [Scans -> Scan]

\* "flags low-stock variants once": one open notification per variant.
FlaggedOnce == \A v \in Variants : open[v] <= 1

\* "flags low-stock variants": an active variant that stays low gets a notification,
\* though scans are cut off, variants are switched off and on between a scan's query and
\* its insert, and others fill the LIMIT of the query.
LowIsFlagged ==
    \A v \in Variants : v \in low \cap active ~> (v \notin low \cap active \/ open[v] > 0)

\* "Flag variants at/under their low-stock threshold and enqueue an alert": a
\* variant that stays low is reported.
LowIsReported ==
    \A v \in Variants : v \in low \cap active ~> (v \notin low \cap active \/ mails[v] > 0)
=============================================================================
