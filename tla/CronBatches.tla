---------------------------- MODULE CronBatches ----------------------------
(***************************************************************************)
(* The two crons that work through orders in batches: reconcile queries    *)
(* bKash for up to 100 open sessions, expireUnpaidOrders closes up to 200  *)
(* unpaid orders.  Neither query has an ORDER BY: the rows come in the     *)
(* order of the index, by id, and ids grow with time.                      *)
(*                                                                         *)
(* OrderPayments.tla has one order in every detail; here there are many,   *)
(* and settling one is a step.  The browsers never come back: what is left *)
(* is what the crons do of it.                                             *)
(***************************************************************************)
EXTENDS Naturals, FiniteSets

CONSTANTS Orders,         \* order ids, numbered in the order they are placed
          TakeReconcile,  \* take of reconcile, 100
          TakeExpire,     \* take of expireUnpaidOrders, 200
          Captures        \* what a captured payment looks like when queried

CronBatchesAssumption ==
    /\ Orders \subseteq Nat
    /\ TakeReconcile \in Nat \ {0}
    /\ TakeExpire \in Nat \ {0}
    /\ Captures \subseteq {"completed", "otherAmount", "otherInvoice"}

VARIABLES
    order,        \* Order.status, "ABSENT": no row
    payment,      \* Payment.status of the order
    units,        \* status of its InventoryReservation rows
    bkash,        \* what Query would say of its session
    aged,         \* orders older than both limits
    reconciling,  \* rows of reconcile's batch still to go
    expiring,     \* rows of expireUnpaidOrders' batch still to go
    released      \* the first of them has had its reservations released

vars == <<order, payment, units, bkash, aged, reconciling, expiring, released>>

\* The first n of the rows.
Batch(rows, n) == {o \in rows : Cardinality({p \in rows : p < o}) < n}

Unpaid(o) == order[o] = "AWAITING_PAYMENT"

IsFirst(o, rows) == o \in rows /\ \A p \in rows : o <= p

----------------------------------------------------------------------------

\* An order is placed and its session created.
Place(o) ==
    /\ order[o] = "ABSENT"
    /\ \A p \in Orders : p < o => order[p] # "ABSENT"
    /\ order' = [order EXCEPT ![o] = "AWAITING_PAYMENT"]
    /\ payment' = [payment EXCEPT ![o] = "SESSION_CREATED"]
    /\ units' = [units EXCEPT ![o] = "ACTIVE"]
    /\ bkash' = [bkash EXCEPT ![o] = "initiated"]
    /\ UNCHANGED <<aged, reconciling, expiring, released>>

Ages(o) ==
    /\ order[o] # "ABSENT"
    /\ o \notin aged
    /\ aged' = aged \cup {o}
    /\ UNCHANGED <<order, payment, units, bkash, reconciling, expiring, released>>

\* The customer pays, which is captured, or gives up at bKash.
AtBkash(o) ==
    /\ bkash[o] = "initiated"
    /\ \E outcome \in Captures \cup {"cancelled"} : bkash' = [bkash EXCEPT ![o] = outcome]
    /\ UNCHANGED <<order, payment, units, aged, reconciling, expiring, released>>

----------------------------------------------------------------------------
(* PaymentsService.reconcile *)

\* Reservations of o that are ACTIVE become status.
FromActive(o, status) == units' = [units EXCEPT ![o] = IF @ = "ACTIVE" THEN status ELSE @]

\* A payment that is verified is one transaction, and so is one that a human is to
\* look at.
Accept(o, status) ==
    /\ payment' = [payment EXCEPT ![o] = status]
    /\ order' = [order EXCEPT ![o] = status]
    /\ IF status = "PAID" THEN FromActive(o, "COMMITTED") ELSE UNCHANGED units

\* markTerminal closes payment, order and reservations one after the other, and
\* may throw after any of them.
MarkTerminal(o) ==
    \E done \in 1 .. 3 :
       /\ payment' = [payment EXCEPT ![o] = "FAILED"]
       /\ order' = [order EXCEPT ![o] = IF done > 1 THEN "FAILED" ELSE @]
       /\ IF done > 2 THEN FromActive(o, "RELEASED") ELSE UNCHANGED units

\* A row is settled by what bKash says of it.
Settle(o) ==
    CASE bkash[o] = "completed" -> Accept(o, "PAID")
      [] bkash[o] = "otherAmount" -> Accept(o, "PAYMENT_REVIEW")
      [] bkash[o] \in {"otherInvoice", "cancelled"} -> MarkTerminal(o)
      [] OTHER -> UNCHANGED <<payment, order, units>>

\* A batch of aged open sessions.
reconcile ==
    /\ reconciling = {}
    /\ reconciling' = Batch({o \in aged : payment[o] = "SESSION_CREATED"}, TakeReconcile)
    /\ UNCHANGED <<order, payment, units, bkash, aged, expiring, released>>

\* Query and settle, one row after the other.  What is lost or throws is caught: the
\* loop goes on with the next row.
ReconcileNext(answered) ==
    /\ \E o \in reconciling :
         /\ IsFirst(o, reconciling)
         /\ reconciling' = reconciling \ {o}
         /\ IF answered THEN Settle(o) ELSE UNCHANGED <<payment, order, units>>
    /\ UNCHANGED <<bkash, aged, expiring, released>>

\* The worker is restarted.
ReconcileCrash ==
    /\ reconciling # {}
    /\ reconciling' = {}
    /\ UNCHANGED <<order, payment, units, bkash, aged, expiring, released>>

----------------------------------------------------------------------------
(* MaintenanceService.expireUnpaidOrders *)

\* Mutant: unpaid is an order with an open session.
ExpireOpenSessions ==
    /\ expiring = {}
    /\ expiring' = Batch({o \in aged : Unpaid(o) /\ payment[o] = "SESSION_CREATED"}, TakeExpire)
    /\ UNCHANGED <<order, payment, units, bkash, aged, reconciling, released>>

\* A batch of unpaid orders with reservations past their TTL.
expireUnpaidOrders ==
    /\ expiring = {}
    /\ expiring' = Batch({o \in aged : Unpaid(o) /\ units[o] = "ACTIVE"}, TakeExpire)
    /\ UNCHANGED <<order, payment, units, bkash, aged, reconciling, released>>

\* The next one's reservations are released ...
ReleaseNext ==
    /\ ~ released
    /\ \E o \in expiring : IsFirst(o, expiring) /\ FromActive(o, "EXPIRED")
    /\ released' = TRUE
    /\ UNCHANGED <<order, payment, bkash, aged, reconciling, expiring>>

\* ... and the order is EXPIRED, whatever it is by now.
ExpireNext ==
    /\ released
    /\ \E o \in expiring :
         /\ IsFirst(o, expiring)
         /\ expiring' = expiring \ {o}
         /\ order' = [order EXCEPT ![o] = "EXPIRED"]
    /\ released' = FALSE
    /\ UNCHANGED <<payment, units, bkash, aged, reconciling>>

\* A statement throws, which ends the loop, or the worker is restarted.
ExpireCrash ==
    /\ expiring # {}
    /\ expiring' = {}
    /\ released' = FALSE
    /\ UNCHANGED <<order, payment, units, bkash, aged, reconciling>>

----------------------------------------------------------------------------

Init ==
    /\ order = [o \in Orders |-> "ABSENT"]
    /\ payment = [o \in Orders |-> "NONE"]
    /\ units = [o \in Orders |-> "NONE"]
    /\ bkash = [o \in Orders |-> "none"]
    /\ aged = {}
    /\ reconciling = {}
    /\ expiring = {}
    /\ released = FALSE

Next ==
    \/ \E o \in Orders : Place(o) \/ Ages(o) \/ AtBkash(o)
    \/ reconcile \/ ReconcileCrash
    \/ \E answered \in BOOLEAN : ReconcileNext(answered)
    \/ expireUnpaidOrders \/ ReleaseNext \/ ExpireNext \/ ExpireCrash

Spec == Init /\ [][Next]_vars

\* Time passes, the crons keep calling and go through their batches; neither a lost
\* answer nor a crash meets every attempt at the same step.  Nothing is asked of the
\* customers.
Fairness ==
    /\ \A o \in Orders : WF_vars(Ages(o))
    /\ WF_vars(reconcile) /\ SF_vars(ReconcileNext(TRUE))
    /\ WF_vars(expireUnpaidOrders) /\ SF_vars(ReleaseNext) /\ SF_vars(ExpireNext)

FairSpec == Spec /\ Fairness

----------------------------------------------------------------------------
(* Properties *)

TypeOK ==
    /\ order \in [Orders -> {"ABSENT", "AWAITING_PAYMENT", "PAYMENT_REVIEW", "PAID", "FAILED",
                             "EXPIRED"}]
    /\ payment \in [Orders -> {"NONE", "SESSION_CREATED", "PAYMENT_REVIEW", "PAID", "FAILED"}]
    /\ units \in [Orders -> {"NONE", "ACTIVE", "COMMITTED", "RELEASED", "EXPIRED"}]
    /\ bkash \in [Orders -> {"none", "initiated", "cancelled"} \cup Captures]
    /\ aged \subseteq Orders
    /\ reconciling \subseteq Orders /\ Cardinality(reconciling) <= TakeReconcile
    /\ expiring \subseteq Orders /\ Cardinality(expiring) <= TakeExpire
    /\ released \in BOOLEAN

\* No order keeps its units for ever by not being paid, however many there are at a
\* time and wherever the two crons are cut off: in the end it has let them go or sold
\* them, unless a human is to look at it.  An order that markTerminal has FAILED before
\* it threw is the exception that NoStockStranded of OrderPayments.tla is about.
UnpaidLetsGo ==
    \A o \in Orders : (Unpaid(o) /\ units[o] = "ACTIVE")
                        ~> (units[o] # "ACTIVE" \/ order[o] \in {"PAYMENT_REVIEW", "FAILED"})

\* "the safety net for customer paid but Execute/callback never completed": what
\* bKash has captured is settled in the end.
CapturedIsSettled == \A o \in Orders : bkash[o] = "completed" ~> payment[o] = "PAID"

\* "Expire unpaid orders whose reservations have passed their TTL: restock and mark
\* EXPIRED": an order does not await its payment for ever.
UnpaidIsClosed == \A o \in Orders : Unpaid(o) ~> ~ Unpaid(o)
=============================================================================
