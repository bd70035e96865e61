---------------------------- MODULE StockLedger ----------------------------
(***************************************************************************)
(* What the inventory promises to the rest of the shop, with every         *)
(* operation atomic: an order takes the stock of all its lines or of none, *)
(* a confirmed payment makes the reservations sales, and what goes back to *)
(* the shelf goes back once.  Inventory.tla is the detailed specification: *)
(* the same operations as database transactions that interleave.           *)
(***************************************************************************)
EXTENDS Integers

CONSTANTS Variants,        \* product variants; the order of ids is that of Nat
          Orders,          \* orders customers may place
          Basket,          \* Basket[o][v]: units of v on order o, 0 if not a line
          InitialStock,    \* units on the shelf at the start
          Backorder,       \* variants whose product has allowBackorder
          Deltas,          \* manual adjustments an operator may book
          AdjustLimit      \* bound: net manual adjustment of a variant

VARIABLES stock,           \* ProductVariant.stock
          reservation,     \* InventoryReservation.status, "NONE" if no row
          adjusted         \* sum of the MANUAL_ADJUSTMENT movements

ledgerVars == <<stock, reservation, adjusted>>

\* The lines of an order: the variants it asks for.
Lines(o) == {v \in Variants : Basket[o][v] > 0}

ReservationStatus == {"ACTIVE", "COMMITTED", "RELEASED", "EXPIRED"}

\* A reservation that still keeps its units off the shelf.
Holding == {"ACTIVE", "COMMITTED"}

Unplaced(o) == \A v \in Variants : reservation[o][v] = "NONE"

LedgerInit ==
    /\ stock = InitialStock
    /\ reservation = [o \in Orders |-> [v \in Variants |-> "NONE"]]
    /\ adjusted = [v \in Variants |-> 0]

\* All lines are available, and all of them are taken: reserved until the order
\* is paid, or sold at once.
Reserve(o, status) ==
    /\ Unplaced(o)
    /\ Lines(o) # {}
    /\ \A v \in Lines(o) : v \in Backorder \/ stock[v] >= Basket[o][v]
    /\ stock' = [v \in Variants |-> stock[v] - Basket[o][v]]
    /\ reservation' =
         [reservation EXCEPT ![o] =
            [v \in Variants |-> IF v \in Lines(o) THEN status ELSE "NONE"]]
    /\ UNCHANGED adjusted

\* Payment confirmed: what is reserved is sold.
Commit(o) ==
    /\ reservation' =
         [reservation EXCEPT ![o] =
            [v \in Variants |-> IF @[v] = "ACTIVE" THEN "COMMITTED" ELSE @[v]]]
    /\ UNCHANGED <<stock, adjusted>>

\* The units of every reservation of o in status `from` go back to the shelf,
\* and the reservation is closed with status `to`.
GiveBack(o, from, to) ==
    /\ stock' = [v \in Variants |->
                   IF reservation[o][v] \in from THEN stock[v] + Basket[o][v]
                                                 ELSE stock[v]]
    /\ reservation' =
         [reservation EXCEPT ![o] =
            [v \in Variants |-> IF @[v] \in from THEN to ELSE @[v]]]
    /\ UNCHANGED adjusted

Release(o) == GiveBack(o, {"ACTIVE"}, "RELEASED")
Expire(o)  == GiveBack(o, {"ACTIVE"}, "EXPIRED")
Restock(o) == GiveBack(o, Holding, "RELEASED")

Adjust(v, delta) ==
    /\ adjusted[v] + delta \in -AdjustLimit .. AdjustLimit
    /\ stock' = [stock EXCEPT ![v] = @ + delta]
    /\ adjusted' = [adjusted EXCEPT ![v] = @ + delta]
    /\ UNCHANGED reservation

LedgerNext ==
    \/ \E o \in Orders, status \in Holding : Reserve(o, status)
    \/ \E o \in Orders : Commit(o) \/ Release(o) \/ Expire(o) \/ Restock(o)
    \/ \E v \in Variants, delta \in Deltas : Adjust(v, delta)

LedgerSpec == LedgerInit /\ [][LedgerNext]_ledgerVars
=============================================================================
