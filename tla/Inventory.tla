----------------------------- MODULE Inventory -----------------------------
(***************************************************************************)
(* InventoryService over MySQL/MariaDB.  Every operation of the service is *)
(* a database transaction of its own or part of the caller's; a session    *)
(* (a pooled connection of one of the Node workers) runs one at a time.    *)
(* The steps are the points where another session can come in between: a   *)
(* read from the transaction's snapshot, a row lock, the commit.  All      *)
(* writes of a transaction follow its last lock, so they and the COMMIT    *)
(* are one step; until then an abort leaves no trace.                      *)
(*                                                                         *)
(* The database is external.  What the code relies on: InnoDB row locks    *)
(* (exclusive for SELECT ... FOR UPDATE and writes, shared on the parent   *)
(* row for an INSERT with a foreign key), and REPEATABLE READ snapshots,   *)
(* taken at the first plain SELECT of a transaction.  SnapshotIsolation is *)
(* the server's choice: TRUE where locking a row that changed after the    *)
(* snapshot fails the transaction (MariaDB 11.6.2 and later by default),   *)
(* FALSE where the lock succeeds (MySQL, older MariaDB).                   *)
(***************************************************************************)
EXTENDS Integers

CONSTANTS Variants,          \* variant ids, ordered as the code sorts them
          Orders,            \* order ids that placeOrder may create
          Basket,            \* Basket[o][v]: quantity of v on order o
          InitialStock,
          Backorder,         \* variants whose product has allowBackorder
          LowStockThreshold, \* variant.lowStockThreshold
          Sessions,          \* database sessions
          NoOrder,           \* the order of a session that serves none
          SnapshotIsolation, \* innodb_snapshot_isolation
          Deltas,            \* inputs of adjustStock
          AdjustLimit,       \* bound: net manual adjustment of a variant
          FormStocks         \* inputs of the admin's variant form

ASSUME InventoryAssumption ==
    /\ Variants \subseteq Nat
    /\ Basket \in [Orders -> [Variants -> Nat]]
    /\ InitialStock \in [Variants -> Nat]
    /\ Backorder \subseteq Variants
    /\ LowStockThreshold \in Int
    /\ NoOrder \notin Orders
    /\ SnapshotIsolation \in BOOLEAN
    /\ Deltas \subseteq Int
    /\ AdjustLimit \in Nat
    /\ FormStocks \subseteq Nat

VARIABLES
    stock,         \* ProductVariant.stock
    reservation,   \* InventoryReservation.status of an order's line, "NONE": no row
    adjusted,      \* sum of a variant's MANUAL_ADJUSTMENT movements
    returned,      \* number of restocking movements booked on a reservation
    alerts,        \* open LowStockNotification rows of a variant
    tx             \* the transaction each session is in

vars == <<stock, reservation, adjusted, returned, alerts, tx>>

Ledger == INSTANCE StockLedger

ReservationStatus == {"ACTIVE", "COMMITTED", "RELEASED", "EXPIRED"}

Lines(o) == {v \in Variants : Basket[o][v] > 0}

----------------------------------------------------------------------------
(* Transactions *)

Ops == {"place", "cancel", "fail", "expiry", "admin", "scan", "none"}

Tx == [pc : {"idle", "insert", "lock", "apply", "flag"},
       op : Ops,
       order : Orders \cup {NoOrder},
       shared : SUBSET Variants,      \* rows locked shared (foreign key checks)
       locked : SUBSET Variants,      \* rows locked exclusive (FOR UPDATE)
       rows : SUBSET Variants,        \* the lines the transaction is about
       seen : [Variants -> Int],      \* stock of these lines in its snapshot
       alerted : SUBSET Variants,     \* rows with an open alert in its snapshot
       missed : SUBSET Variants]      \* rows changed since its snapshot

IdleTx == [pc |-> "idle", op |-> "none", order |-> NoOrder,
           shared |-> {}, locked |-> {}, rows |-> {},
           seen |-> [v \in Variants |-> 0], alerted |-> {}, missed |-> {}]

\* A transaction that begins at stage pc, about the lines R of order o.
BeginTx(pc, op, o, R) ==
    [IdleTx EXCEPT !.pc = pc, !.op = op, !.order = o, !.rows = R]

\* Session s goes on with its transaction in state t.
Become(s, t) == tx' = [tx EXCEPT ![s] = t]

\* Nobody but s holds v, in the modes that conflict with a shared and with an
\* exclusive request.
NotExclusive(s, v) == \A t \in Sessions \ {s} : v \notin tx[t].locked
Free(s, v) == NotExclusive(s, v) /\ \A t \in Sessions \ {s} : v \notin tx[t].shared

\* A transaction with a snapshot has missed the committed change of the rows in V.
Misses(t, V) ==
    IF SnapshotIsolation /\ t.pc \in {"lock", "apply"}
      THEN [t EXCEPT !.missed = @ \cup (V \cap t.rows)]
      ELSE t

\* s commits a change of the variant rows in V and ends its transaction.
CommitTx(s, V) ==
    tx' = [t \in Sessions |-> IF t = s THEN IdleTx ELSE Misses(tx[t], V)]

\* Mutants: a restock that filters no status, and one filter for all callers.
WantedAnyStatus(op) == ReservationStatus
WantedHolding(op) == {"ACTIVE", "COMMITTED"}

\* The reservations of o that a release (ACTIVE only) or a restock of an
\* admin's cancel or refund (ACTIVE and COMMITTED) looks for.
Wanted(op) == IF op = "admin" THEN {"ACTIVE", "COMMITTED"} ELSE {"ACTIVE"}

\* The status the operation closes a reservation with.
Closing(op) == IF op = "expiry" THEN "EXPIRED" ELSE "RELEASED"

IsLowest(v, V) == v \in V /\ \A w \in V : v <= w

----------------------------------------------------------------------------
(* placeOrder's transaction, as far as the inventory takes part in it *)

\* The transaction of a checkout begins: the order id is fresh.
BeginPlace(s, o) ==
    /\ tx[s].pc = "idle"
    /\ Lines(o) # {}
    /\ \A v \in Variants : reservation[o][v] = "NONE"
    /\ \A t \in Sessions : tx[t].order # o
    /\ Become(s, BeginTx("insert", "place", o, Lines(o)))
    /\ UNCHANGED <<stock, reservation, adjusted, returned, alerts>>

\* INSERT of an OrderItem: its foreign key locks the variant row shared.  The
\* items are inserted in the order of the cart, which is any order.
InsertItem(s) ==
    /\ tx[s].pc = "insert"
    /\ \E v \in tx[s].rows \ tx[s].shared :
         /\ NotExclusive(s, v)
         /\ Become(s, [tx[s] EXCEPT !.shared = @ \cup {v}])
    /\ UNCHANGED <<stock, reservation, adjusted, returned, alerts>>

\* The create of the order ends with a plain SELECT, which takes the snapshot
\* that reserveForOrder's reads will see.
OrderCreated(s) ==
    /\ tx[s].pc = "insert"
    /\ tx[s].shared = tx[s].rows
    /\ Become(s, [tx[s] EXCEPT
                    !.pc = "lock",
                    !.seen = [v \in Variants |-> IF v \in tx[s].rows THEN stock[v] ELSE 0],
                    !.alerted = {v \in tx[s].rows : alerts[v] > 0}])
    /\ UNCHANGED <<stock, reservation, adjusted, returned, alerts>>

\* Mutant: the ids are not sorted.
LockAnyRow(s) ==
    /\ tx[s].pc = "lock"
    /\ \E v \in tx[s].rows \ tx[s].locked :
         /\ Free(s, v)
         /\ v \notin tx[s].missed
         /\ Become(s, [tx[s] EXCEPT
                         !.locked = @ \cup {v},
                         !.pc = IF tx[s].rows = tx[s].locked \cup {v}
                                  THEN "apply" ELSE "lock"])
    /\ UNCHANGED <<stock, reservation, adjusted, returned, alerts>>

\* SELECT ... FOR UPDATE: one row after the other, in the order of the ids.
LockRow(s) ==
    /\ tx[s].pc = "lock"
    /\ \E v \in tx[s].rows :
         /\ IsLowest(v, tx[s].rows \ tx[s].locked)
         /\ Free(s, v)
         /\ v \notin tx[s].missed
         /\ Become(s, [tx[s] EXCEPT
                         !.locked = @ \cup {v},
                         !.pc = IF tx[s].rows = tx[s].locked \cup {v}
                                  THEN "apply" ELSE "lock"])
    /\ UNCHANGED <<stock, reservation, adjusted, returned, alerts>>

\* Mutants: the check forgets the quantity, and is not made at all.
AvailableAtAll(s, v) == v \in Backorder \/ tx[s].seen[v] >= 0
AvailableAlways(s, v) == TRUE

\* A line can be satisfied by what the snapshot shows.
Available(s, v) ==
    v \in Backorder \/ tx[s].seen[v] >= Basket[tx[s].order][v]

\* Mutant: the alert waits until the stock is below the threshold.
RaisesAlertLate(s, v) ==
    /\ v \in tx[s].rows \ tx[s].alerted
    /\ tx[s].seen[v] - Basket[tx[s].order][v] < LowStockThreshold

\* The decrement leaves the variant low and the snapshot shows no open alert.
RaisesAlert(s, v) ==
    /\ v \in tx[s].rows \ tx[s].alerted
    /\ tx[s].seen[v] - Basket[tx[s].order][v] <= LowStockThreshold

\* What the checkout of o takes of v.
Taken(o, v) == Basket[o][v]

\* All lines are decremented and reserved, and placeOrder's transaction commits:
\* the reservations of a bKash order ACTIVE, those of a cash-on-delivery order
\* already COMMITTED by commitReservations in the same transaction.  A line that
\* is not available throws, which is Abort.
reserveForOrder(s, status) ==
    /\ tx[s].pc = "apply"
    /\ tx[s].op = "place"
    /\ \A v \in tx[s].rows : Available(s, v)
    /\ stock' = [v \in Variants |-> stock[v] - Taken(tx[s].order, v)]
    /\ reservation' = [reservation EXCEPT ![tx[s].order] =
                         [v \in Variants |-> IF v \in tx[s].rows THEN status ELSE "NONE"]]
    /\ alerts' = [v \in Variants |-> IF RaisesAlert(s, v) THEN alerts[v] + 1 ELSE alerts[v]]
    /\ CommitTx(s, tx[s].rows)
    /\ UNCHANGED <<adjusted, returned>>

----------------------------------------------------------------------------
(* Reservations of a placed order *)

\* Part of the caller's transaction, whose last statement it is.  updateMany
\* reads the current rows, not the snapshot; it waits for a transaction that is
\* writing them, and those write and commit in one step.
commitReservations(o) ==
    /\ reservation' = [reservation EXCEPT ![o] =
                         [v \in Variants |-> IF @[v] = "ACTIVE" THEN "COMMITTED" ELSE @[v]]]
    /\ tx' = [t \in Sessions |->
                IF tx[t].order = o
                  THEN Misses(tx[t], {v \in Variants : reservation[o][v] = "ACTIVE"})
                  ELSE tx[t]]
    /\ UNCHANGED <<stock, adjusted, returned, alerts>>

\* releaseReservations (cancel, fail, expiry) and restockOrder (admin) begin with
\* a findMany that takes the snapshot; with nothing to do they return.
FindReservations(s, o, op) ==
    /\ tx[s].pc = "idle"
    /\ op \in {"cancel", "fail", "expiry", "admin"}
    /\ LET found == {v \in Variants : reservation[o][v] \in Wanted(op)}
       IN  /\ found # {}
           /\ Become(s, BeginTx("lock", op, o, found))
    /\ UNCHANGED <<stock, reservation, adjusted, returned, alerts>>

\* Each reservation that was found: increment, status by id, movement.
releaseReservations(s) ==
    /\ tx[s].pc = "apply"
    /\ tx[s].op \in {"cancel", "fail", "expiry", "admin"}
    /\ tx[s].missed = {}
    /\ LET o == tx[s].order
           R == tx[s].rows
       IN  /\ stock' = [v \in Variants |-> IF v \in R THEN stock[v] + Basket[o][v] ELSE stock[v]]
           /\ reservation' = [reservation EXCEPT ![o] =
                                [v \in Variants |-> IF v \in R THEN Closing(tx[s].op) ELSE @[v]]]
           /\ returned' = [returned EXCEPT ![o] =
                             [v \in Variants |-> IF v \in R THEN @[v] + 1 ELSE @[v]]]
           /\ CommitTx(s, R)
    /\ UNCHANGED <<adjusted, alerts>>

----------------------------------------------------------------------------
(* Operators and the cron *)

\* One row, locked and written by the same transaction.  There is no floor.
adjustStock(v, delta) ==
    /\ adjusted[v] + delta \in -AdjustLimit .. AdjustLimit
    /\ \A s \in Sessions : v \notin tx[s].locked \cup tx[s].shared
    /\ stock' = [stock EXCEPT ![v] = @ + delta]
    /\ adjusted' = [adjusted EXCEPT ![v] = @ + delta]
    /\ tx' = [t \in Sessions |-> Misses(tx[t], {v})]
    /\ UNCHANGED <<reservation, returned, alerts>>

\* The admin's variant form writes the absolute stock it was submitted with.
updateVariant(v, units) ==
    /\ \A s \in Sessions : v \notin tx[s].locked \cup tx[s].shared
    /\ stock' = [stock EXCEPT ![v] = units]
    /\ tx' = [t \in Sessions |-> Misses(tx[t], {v})]
    /\ UNCHANGED <<reservation, adjusted, returned, alerts>>

\* The hourly scan selects the low variants without an open alert ...
scanLowStock(s) ==
    /\ tx[s].pc = "idle"
    /\ LET found == {v \in Variants : stock[v] <= LowStockThreshold /\ alerts[v] = 0}
       IN  /\ found # {}
           /\ Become(s, BeginTx("flag", "scan", NoOrder, found))
    /\ UNCHANGED <<stock, reservation, adjusted, returned, alerts>>

\* ... and inserts one row for each, in statements of their own.
FlagLowStock(s) ==
    /\ tx[s].pc = "flag"
    /\ \E v \in tx[s].rows :
         /\ NotExclusive(s, v)
         /\ alerts' = [alerts EXCEPT ![v] = @ + 1]
         /\ Become(s, IF tx[s].rows = {v} THEN IdleTx
                                    ELSE [tx[s] EXCEPT !.rows = @ \ {v}])
    /\ UNCHANGED <<stock, reservation, adjusted, returned>>

\* A throw, a later step of the caller that fails, a deadlock or lock-wait
\* timeout, a lost connection or a crash: the transaction is rolled back.
Abort(s) ==
    /\ tx[s].pc # "idle"
    /\ Become(s, IdleTx)
    /\ UNCHANGED <<stock, reservation, adjusted, returned, alerts>>

----------------------------------------------------------------------------

Init ==
    /\ stock = InitialStock
    /\ reservation = [o \in Orders |-> [v \in Variants |-> "NONE"]]
    /\ adjusted = [v \in Variants |-> 0]
    /\ returned = [o \in Orders |-> [v \in Variants |-> 0]]
    /\ alerts = [v \in Variants |-> 0]
    /\ tx = [s \in Sessions |-> IdleTx]

SessionStep(s) ==
    \/ \E o \in Orders : BeginPlace(s, o)
    \/ InsertItem(s)
    \/ OrderCreated(s)
    \/ LockRow(s)
    \/ \E status \in {"ACTIVE", "COMMITTED"} : reserveForOrder(s, status)
    \/ \E o \in Orders, op \in Ops : FindReservations(s, o, op)
    \/ releaseReservations(s)
    \/ scanLowStock(s)
    \/ FlagLowStock(s)
    \/ Abort(s)

Next ==
    \/ \E s \in Sessions : SessionStep(s)
    \/ \E o \in Orders : commitReservations(o)
    \/ \E v \in Variants, delta \in Deltas : adjustStock(v, delta)
    \/ \E v \in Variants, units \in FormStocks : updateVariant(v, units)

Spec == Init /\ [][Next]_vars

----------------------------------------------------------------------------
(* Properties *)

TypeOK ==
    /\ stock \in [Variants -> Int]
    /\ reservation \in [Orders -> [Variants -> ReservationStatus \cup {"NONE"}]]
    /\ adjusted \in [Variants -> Int]
    /\ returned \in [Orders -> [Variants -> Nat]]
    /\ alerts \in [Variants -> Nat]
    /\ tx \in [Sessions -> Tx]

\* The row locks and the snapshot read together keep two checkouts from
\* selling the same unit: taking a reservation never leaves the stock of a
\* variant without backorder below zero, whatever ran between the checkout's
\* read of the stock and its decrement (reserveForOrder's check and update).
NoOversell ==
    [][\A v \in Variants \ Backorder, o \in Orders :
         (reservation[o][v] = "NONE" /\ reservation'[o][v] # "NONE")
            => stock'[v] >= 0]_vars

\* releaseReservations and restockOrder are idempotent, as their comments say:
\* however often the callback, the cron and an admin close the same order, a
\* reservation is put back on the shelf once, exactly when it is closed.
RestockedOnce ==
    \A o \in Orders, v \in Variants :
        returned[o][v] = IF reservation[o][v] \in {"RELEASED", "EXPIRED"} THEN 1 ELSE 0

\* "Only ACTIVE reservations are touched": a reservation that a payment has
\* committed leaves that status only through an admin's cancel or refund.
CommittedStaysSold ==
    [][\A o \in Orders, v \in Variants :
         (reservation[o][v] = "COMMITTED" /\ reservation'[o][v] # "COMMITTED")
            => \E s \in Sessions : tx[s].op = "admin" /\ tx[s].order = o]_vars

\* A checkout that leaves a variant at or below its threshold leaves an open
\* low-stock notification too, though it looked for one before it held the lock.
LowStockFlagged ==
    [][\A v \in Variants, o \in Orders :
         (reservation[o][v] = "NONE" /\ reservation'[o][v] # "NONE"
            /\ stock'[v] <= LowStockThreshold)
            => alerts'[v] > 0]_vars

\* The detailed transactions implement the atomic ledger.
ImplementsLedger == Ledger!LedgerSpec

\* s cannot take its next FOR UPDATE lock before t ends.
WaitsFor(s, t) ==
    /\ tx[s].pc = "lock"
    /\ s # t
    /\ \E v \in tx[t].locked \cup tx[t].shared : IsLowest(v, tx[s].rows \ tx[s].locked)

\* Locks are taken in the order of the ids, so the transactions that only lock
\* FOR UPDATE (release, restock) never wait for each other in a circle of two.
SortedLocksNeverCross ==
    \A s, t \in Sessions :
        (WaitsFor(s, t) /\ WaitsFor(t, s)) => "place" \in {tx[s].op, tx[t].op}

\* What the comment on reserveForOrder claims of all of them: "Locks every
\* involved variant row up front (sorted, to avoid deadlocks)".
NoDeadlock == ~ \E s, t \in Sessions : WaitsFor(s, t) /\ WaitsFor(t, s)

\* What the header of the service claims: stock is only mutated while its row
\* is locked with FOR UPDATE inside a transaction, of a reservation, a restock
\* or a manual adjustment, so that every change has its movement.
StockOnlyUnderLock ==
    [][\A v \in Variants :
         (stock'[v] # stock[v] /\ adjusted'[v] = adjusted[v])
            => \E s \in Sessions : v \in tx[s].locked]_vars
=============================================================================
