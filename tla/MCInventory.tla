---------------------------- MODULE MCInventory ----------------------------
(***************************************************************************)
(* Small instances of Inventory.                                           *)
(***************************************************************************)
EXTENDS Inventory, TLC

\* Two orders that both want one unit of the first variant and two of the second;
\* one unit of each is on the shelf, and the second may be backordered.
MCBasket == [o \in Orders |-> [v \in Variants |-> v]]
MCInitialStock == [v \in Variants |-> 1]
MCDeltas == {-1, 1}
NoInputs == {}
MCFormStocks == {0, 2}

\* Sessions are alike, and so are the two orders.
Symmetry == Permutations(Sessions) \cup Permutations(Orders)
=============================================================================
