---------------------------- MODULE MCBackground ----------------------------
(***************************************************************************)
(* Small instances of what runs behind the pages: the calls to bKash       *)
(* (BkashClient, extended), the safety net under one payment               *)
(* (OrderPayments), the low-stock scan and the refresh of the category     *)
(* menu.  What is true of one does not depend on the others: a behaviour   *)
(* is one of them, chosen at the start, with the others at rest.           *)
(***************************************************************************)
EXTENDS BkashClient

CONSTANTS Handler, PaymentIDs, NoID,                                 \* OrderPayments
          Variants, Ordered, Scans, Take, MaxRefills, Crashes,       \* LowStock
          MaxEdits, Refreshes                                        \* CategoryNav

VARIABLES
    work,                                                   \* what runs
    provider, order, payment, reservation, shipments,       \* OrderPayments
    confirmations, gateway, refunded, task,
    low, active, refills, open, mails, scan,                \* LowStock
    categories, cache, outdated, refresh                    \* CategoryNav

netVars == <<provider, order, payment, reservation, shipments, confirmations, gateway,
             refunded, task>>
stockVars == <<low, active, refills, open, mails, scan>>
menuVars == <<categories, cache, outdated, refresh>>
allVars == <<work, vars, netVars, stockVars, menuVars>>

\* One handler at a time, which may crash.
Net == INSTANCE OrderPayments
    WITH Actors <- {Handler}, MayCrash <- {Handler},
         Providers <- {"bkash"}, Redirects <- {"success"},
         Captures <- {"completed", "otherAmount"}, Crons <- {"expire", "reconcile"},
         Buttons <- {"approveReview", "refundOrder", "processing"}, MaxConfirmations <- 1
Stock == INSTANCE LowStock
Menu == INSTANCE CategoryNav

ASSUME Net!OrderPaymentsAssumption
ASSUME Stock!LowStockAssumption
ASSUME Menu!CategoryNavAssumption

BackgroundInit ==
    /\ work \in {"client", "net", "stock", "menu"}
    /\ Init /\ Net!Init /\ Stock!Init /\ Menu!Init
    /\ work # "menu" => cache = categories

BackgroundNext ==
    /\ \/ work = "client" /\ Next /\ UNCHANGED <<netVars, stockVars, menuVars>>
       \/ work = "net" /\ Net!Next /\ UNCHANGED <<vars, stockVars, menuVars>>
       \/ work = "stock" /\ Stock!Next /\ UNCHANGED <<vars, netVars, menuVars>>
       \/ work = "menu" /\ Menu!Next /\ UNCHANGED <<vars, netVars, stockVars>>
    /\ UNCHANGED work

\* At rest the payment and the crons have nothing to do.  The menu would be refreshed;
\* time passes, pages are read, a query ends, and not all of them fail, when it is chosen.
MenuFairness ==
    /\ WF_menuVars(work = "menu" /\ Menu!Outdates)
    /\ WF_menuVars(work = "menu" /\ \E i \in Refreshes : Menu!getCached(i))
    /\ \A i \in Refreshes :
         WF_menuVars(work = "menu" /\ (Menu!Query(i) \/ Menu!Answer(i) \/ Menu!Fails(i)))
    /\ SF_menuVars(work = "menu" /\ \E i \in Refreshes : Menu!Query(i))
    /\ SF_menuVars(work = "menu" /\ \E i \in Refreshes : Menu!Answer(i))

BackgroundSpec ==
    /\ BackgroundInit /\ [][BackgroundNext]_allVars
    /\ Net!Fairness /\ Stock!Fairness /\ MenuFairness

----------------------------------------------------------------------------
(* Properties *)

\* Of OrderPayments: the safety net of reconcile, where it reaches.
OpenSessionIsSettled == Net!OpenSessionIsSettled

\* Of LowStock: an active variant that stays low gets a notification (scanLowStock).
LowIsFlagged == Stock!LowIsFlagged

\* Of CategoryNav: a change to the categories reaches the menu (getCached, refresh).
MenuCatchesUp == Menu!MenuCatchesUp
=============================================================================
