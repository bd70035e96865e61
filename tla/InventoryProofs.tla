-------------------------- MODULE InventoryProofs --------------------------
(***************************************************************************)
(* Theorems about Inventory, for every set of variants, orders and         *)
(* sessions and every basket.                                              *)
(***************************************************************************)
EXTENDS Inventory, TLAPS

RestoreOps == {"cancel", "fail", "expiry", "admin"}

\* The stages of a transaction, and what it holds in each.
Shape(t) ==
    /\ t.pc = "idle" => t.op = "none" /\ t.shared = {} /\ t.locked = {}
    /\ t.pc = "insert" => t.op = "place"
    /\ t.pc \in {"lock", "apply"} => t.op \in RestoreOps \cup {"place"}
    /\ t.pc = "flag" => t.op = "scan"
    /\ t.op = "none" => t.pc = "idle" /\ t.order = NoOrder
    /\ t.op = "scan" => t.pc = "flag" /\ t.order = NoOrder
    /\ t.op = "place" => /\ t.pc \in {"insert", "lock", "apply"}
                         /\ t.order \in Orders
                         /\ t.rows = Lines(t.order)
                         /\ t.rows # {}
                         /\ t.pc # "insert" => t.shared = t.rows
    /\ t.op \in RestoreOps => t.pc \in {"lock", "apply"} /\ t.order \in Orders
    /\ t.pc = "apply" => t.locked = t.rows

Txs == {t \in Tx : Shape(t)}

\* The type invariant with the shape of the transactions, which makes it inductive.
TypeInv == TypeOK /\ tx \in [Sessions -> Txs]

----------------------------------------------------------------------------
(* The constants, and the states a transaction goes through *)

LEMMA ConstantTypes ==
  /\ \A o \in Orders, v \in Variants : Basket[o][v] \in Nat
  /\ \A delta \in Deltas : delta \in Int
  /\ \A units \in FormStocks : units \in Int
  /\ NoOrder \notin Orders
  BY InventoryAssumption

LEMMA IdleTyped == IdleTx \in Txs
  BY DEF IdleTx, Txs, Tx, Ops, Shape, RestoreOps

LEMMA PlaceTyped ==
  ASSUME NEW o \in Orders, Lines(o) # {}
  PROVE  BeginTx("insert", "place", o, Lines(o)) \in Txs
  <1>1. BeginTx("insert", "place", o, Lines(o)) \in Tx
    BY IdleTyped DEF BeginTx, Txs, Tx, Ops, Lines
  <1>2. Shape(BeginTx("insert", "place", o, Lines(o)))
    BY DEF BeginTx, IdleTx, Shape, RestoreOps
  <1>3. QED
    BY <1>1, <1>2 DEF Txs

LEMMA RestoreTyped ==
  ASSUME NEW o \in Orders, NEW op \in RestoreOps, NEW R \in SUBSET Variants
  PROVE  BeginTx("lock", op, o, R) \in Txs
  <1>1. BeginTx("lock", op, o, R) \in Tx
    BY IdleTyped DEF BeginTx, Txs, Tx, Ops, RestoreOps
  <1>2. Shape(BeginTx("lock", op, o, R))
    BY DEF BeginTx, IdleTx, Shape, RestoreOps
  <1>3. QED
    BY <1>1, <1>2 DEF Txs

LEMMA ScanTyped ==
  ASSUME NEW R \in SUBSET Variants
  PROVE  BeginTx("flag", "scan", NoOrder, R) \in Txs
  <1>1. BeginTx("flag", "scan", NoOrder, R) \in Tx
    BY IdleTyped DEF BeginTx, Txs, Tx, Ops
  <1>2. Shape(BeginTx("flag", "scan", NoOrder, R))
    BY DEF BeginTx, IdleTx, Shape, RestoreOps
  <1>3. QED
    BY <1>1, <1>2 DEF Txs

LEMMA InsertTyped ==
  ASSUME NEW t \in Txs, NEW v \in t.rows, t.pc = "insert"
  PROVE  [t EXCEPT !.shared = @ \cup {v}] \in Txs
  BY DEF Txs, Tx, Shape, RestoreOps

LEMMA CreatedTyped ==
  ASSUME NEW t \in Txs, NEW seen \in [Variants -> Int], NEW A \in SUBSET Variants,
         t.pc = "insert", t.shared = t.rows
  PROVE  [t EXCEPT !.pc = "lock", !.seen = seen, !.alerted = A] \in Txs
  BY DEF Txs, Tx, Shape, RestoreOps

LEMMA LockTyped ==
  ASSUME NEW t \in Txs, NEW v \in t.rows, t.pc = "lock"
  PROVE  [t EXCEPT !.locked = @ \cup {v},
                   !.pc = IF t.rows = t.locked \cup {v} THEN "apply" ELSE "lock"] \in Txs
  BY DEF Txs, Tx, Shape, RestoreOps

LEMMA FlagTyped ==
  ASSUME NEW t \in Txs, NEW v \in t.rows, t.pc = "flag"
  PROVE  [t EXCEPT !.rows = @ \ {v}] \in Txs
  BY DEF Txs, Tx, Shape, RestoreOps

LEMMA MissesTyped ==
  ASSUME NEW t \in Txs, NEW V \in SUBSET Variants
  PROVE  Misses(t, V) \in Txs
  BY DEF Misses, Txs, Tx, Shape, RestoreOps

LEMMA BecomeTyped ==
  ASSUME NEW s \in Sessions, NEW t \in Txs, tx \in [Sessions -> Txs], Become(s, t)
  PROVE  tx' \in [Sessions -> Txs]
  BY DEF Become

LEMMA CommitTyped ==
  ASSUME NEW s \in Sessions, NEW V \in SUBSET Variants, tx \in [Sessions -> Txs],
         CommitTx(s, V)
  PROVE  tx' \in [Sessions -> Txs]
  BY IdleTyped, MissesTyped DEF CommitTx

LEMMA TxsInTx ==
  ASSUME tx \in [Sessions -> Txs]
  PROVE  tx \in [Sessions -> Tx]
  BY DEF Txs

----------------------------------------------------------------------------
(* Type correctness *)

LEMMA TypeInit == Init => TypeInv
<1> SUFFICES ASSUME Init PROVE TypeInv
  OBVIOUS
<1>1. stock \in [Variants -> Int]
  BY InventoryAssumption DEF Init
<1>2. tx \in [Sessions -> Txs]
  BY IdleTyped DEF Init
<1>3. QED
  BY <1>1, <1>2, TxsInTx DEF Init, TypeInv, TypeOK

LEMMA TypeStep == TypeInv /\ [Next]_vars => TypeInv'
<1> SUFFICES ASSUME TypeInv, [Next]_vars PROVE TypeInv'
  OBVIOUS
<1>0. tx \in [Sessions -> Txs] /\ TypeOK /\ \A s \in Sessions : tx[s] \in Txs
  BY DEF TypeInv
<1>1. ASSUME UNCHANGED <<stock, reservation, adjusted, returned>>,
             alerts' \in [Variants -> Nat], tx' \in [Sessions -> Txs]
      PROVE  TypeInv'
  <2>1. tx' \in [Sessions -> Tx]
    BY <1>1 DEF Txs
  <2>2. QED
    BY <1>0, <1>1, <2>1 DEF TypeInv, TypeOK
<1>2. ASSUME NEW s \in Sessions, NEW o \in Orders, BeginPlace(s, o) PROVE TypeInv'
  <2>1. tx' \in [Sessions -> Txs]
    BY <1>0, <1>2, PlaceTyped, BecomeTyped DEF BeginPlace
  <2>2. QED
    BY <1>0, <1>1, <1>2, <2>1 DEF BeginPlace, TypeOK
<1>3. ASSUME NEW s \in Sessions, InsertItem(s) PROVE TypeInv'
  <2>1. PICK v \in tx[s].rows : Become(s, [tx[s] EXCEPT !.shared = @ \cup {v}])
    BY <1>3 DEF InsertItem
  <2>2. tx' \in [Sessions -> Txs]
    BY <1>0, <1>3, <2>1, InsertTyped, BecomeTyped DEF InsertItem
  <2>3. QED
    BY <1>0, <1>1, <1>3, <2>2 DEF InsertItem, TypeOK
<1>4. ASSUME NEW s \in Sessions, OrderCreated(s) PROVE TypeInv'
  <2> DEFINE seen == [v \in Variants |-> IF v \in tx[s].rows THEN stock[v] ELSE 0]
             A == {v \in tx[s].rows : alerts[v] > 0}
  <2>1. seen \in [Variants -> Int] /\ A \in SUBSET Variants
    BY <1>0 DEF TypeOK, Txs, Tx
  <2>2. [tx[s] EXCEPT !.pc = "lock", !.seen = seen, !.alerted = A] \in Txs
    BY <1>0, <1>4, <2>1, CreatedTyped DEF OrderCreated
  <2>3. tx' \in [Sessions -> Txs]
    BY <1>0, <1>4, <2>2, BecomeTyped DEF OrderCreated
  <2>4. QED
    BY <1>0, <1>1, <1>4, <2>3 DEF OrderCreated, TypeOK
<1>5. ASSUME NEW s \in Sessions, LockRow(s) PROVE TypeInv'
  <2>1. PICK v \in tx[s].rows :
          Become(s, [tx[s] EXCEPT
                       !.locked = @ \cup {v},
                       !.pc = IF tx[s].rows = tx[s].locked \cup {v} THEN "apply" ELSE "lock"])
    BY <1>5 DEF LockRow
  <2>2. tx' \in [Sessions -> Txs]
    BY <1>0, <1>5, <2>1, LockTyped, BecomeTyped DEF LockRow
  <2>3. QED
    BY <1>0, <1>1, <1>5, <2>2 DEF LockRow, TypeOK
<1>6. ASSUME NEW s \in Sessions, NEW status \in {"ACTIVE", "COMMITTED"},
             reserveForOrder(s, status)
      PROVE  TypeInv'
  <2>1. tx[s].order \in Orders /\ tx[s].rows \in SUBSET Variants
    BY <1>0, <1>6 DEF Txs, Tx, Shape, reserveForOrder
  <2>2. tx' \in [Sessions -> Txs]
    BY <1>0, <1>6, <2>1, CommitTyped DEF reserveForOrder
  <2>3. stock' \in [Variants -> Int]
    BY <1>0, <1>6, <2>1, ConstantTypes DEF reserveForOrder, TypeOK, Taken
  <2>4. reservation' \in [Orders -> [Variants -> ReservationStatus \cup {"NONE"}]]
    BY <1>0, <1>6, <2>1 DEF reserveForOrder, TypeOK, ReservationStatus
  <2>5. alerts' \in [Variants -> Nat]
    BY <1>0, <1>6 DEF reserveForOrder, TypeOK
  <2>6. QED
    BY <1>0, <1>6, <2>2, <2>3, <2>4, <2>5, TxsInTx DEF reserveForOrder, TypeInv, TypeOK, Txs
<1>7. ASSUME NEW s \in Sessions, NEW o \in Orders, NEW op \in Ops, FindReservations(s, o, op)
      PROVE  TypeInv'
  <2>1. tx' \in [Sessions -> Txs]
    BY <1>0, <1>7, RestoreTyped, BecomeTyped DEF FindReservations, RestoreOps
  <2>2. QED
    BY <1>0, <1>1, <1>7, <2>1 DEF FindReservations, TypeOK
<1>8. ASSUME NEW s \in Sessions, releaseReservations(s) PROVE TypeInv'
  <2>1. tx[s].order \in Orders /\ tx[s].rows \in SUBSET Variants
    BY <1>0, <1>8 DEF Txs, Tx, Shape, RestoreOps, releaseReservations
  <2>2. tx' \in [Sessions -> Txs]
    BY <1>0, <1>8, <2>1, CommitTyped DEF releaseReservations
  <2>3. stock' \in [Variants -> Int]
    BY <1>0, <1>8, <2>1, ConstantTypes DEF releaseReservations, TypeOK
  <2>4. reservation' \in [Orders -> [Variants -> ReservationStatus \cup {"NONE"}]]
    BY <1>0, <1>8, <2>1 DEF releaseReservations, TypeOK, ReservationStatus, Closing
  <2>5. returned' \in [Orders -> [Variants -> Nat]]
    BY <1>0, <1>8, <2>1 DEF releaseReservations, TypeOK
  <2>6. QED
    BY <1>0, <1>8, <2>2, <2>3, <2>4, <2>5 DEF releaseReservations, TypeInv, TypeOK, Txs
<1>9. ASSUME NEW s \in Sessions, scanLowStock(s) PROVE TypeInv'
  <2>1. tx' \in [Sessions -> Txs]
    BY <1>0, <1>9, ScanTyped, BecomeTyped DEF scanLowStock
  <2>2. QED
    BY <1>0, <1>1, <1>9, <2>1 DEF scanLowStock, TypeOK
<1>10. ASSUME NEW s \in Sessions, FlagLowStock(s) PROVE TypeInv'
  <2>1. PICK v \in tx[s].rows :
          /\ alerts' = [alerts EXCEPT ![v] = @ + 1]
          /\ Become(s, IF tx[s].rows = {v} THEN IdleTx ELSE [tx[s] EXCEPT !.rows = @ \ {v}])
    BY <1>10 DEF FlagLowStock
  <2>2. tx' \in [Sessions -> Txs]
    BY <1>0, <1>10, <2>1, FlagTyped, IdleTyped, BecomeTyped DEF FlagLowStock
  <2>3. alerts' \in [Variants -> Nat]
    BY <1>0, <2>1 DEF TypeOK, Txs, Tx
  <2>4. QED
    BY <1>1, <1>10, <2>2, <2>3 DEF FlagLowStock
<1>11. ASSUME NEW s \in Sessions, Abort(s) PROVE TypeInv'
  <2>1. tx' \in [Sessions -> Txs]
    BY <1>0, <1>11, IdleTyped, BecomeTyped DEF Abort
  <2>2. QED
    BY <1>0, <1>1, <1>11, <2>1 DEF Abort, TypeOK
<1>12. ASSUME NEW o \in Orders, commitReservations(o) PROVE TypeInv'
  <2>1. tx' \in [Sessions -> Txs]
    BY <1>0, <1>12, MissesTyped DEF commitReservations
  <2>2. reservation' \in [Orders -> [Variants -> ReservationStatus \cup {"NONE"}]]
    BY <1>0, <1>12 DEF commitReservations, TypeOK, ReservationStatus
  <2>3. QED
    BY <1>0, <1>12, <2>1, <2>2 DEF commitReservations, TypeInv, TypeOK, Txs
<1>13. ASSUME NEW v \in Variants, NEW delta \in Deltas, adjustStock(v, delta) PROVE TypeInv'
  <2>1. tx' \in [Sessions -> Txs]
    BY <1>0, <1>13, MissesTyped DEF adjustStock
  <2>2. stock' \in [Variants -> Int] /\ adjusted' \in [Variants -> Int]
    BY <1>0, <1>13, ConstantTypes DEF adjustStock, TypeOK
  <2>3. QED
    BY <1>0, <1>13, <2>1, <2>2 DEF adjustStock, TypeInv, TypeOK, Txs
<1>14. ASSUME NEW v \in Variants, NEW units \in FormStocks, updateVariant(v, units)
       PROVE  TypeInv'
  <2>1. tx' \in [Sessions -> Txs]
    BY <1>0, <1>14, MissesTyped DEF updateVariant
  <2>2. stock' \in [Variants -> Int]
    BY <1>0, <1>14, ConstantTypes DEF updateVariant, TypeOK
  <2>3. QED
    BY <1>0, <1>14, <2>1, <2>2 DEF updateVariant, TypeInv, TypeOK, Txs
<1>15. CASE UNCHANGED vars
  BY <1>0, <1>15 DEF vars, TypeInv, TypeOK
<1>16. QED
  BY <1>2, <1>3, <1>4, <1>5, <1>6, <1>7, <1>8, <1>9, <1>10, <1>11, <1>12, <1>13,
     <1>14, <1>15 DEF Next, SessionStep

\* Every step of every session keeps the state in its type, on every server and
\* for every input of the admin's forms.
THEOREM TypeCorrect == Spec => []TypeOK
<1>1. Spec => []TypeInv
  BY TypeInit, TypeStep, PTL DEF Spec
<1>2. TypeInv => TypeOK
  BY DEF TypeInv
<1>3. QED
  BY <1>1, <1>2, PTL

----------------------------------------------------------------------------
(* Checkouts: locks, snapshot, and the fresh order *)

\* Exclusive means exclusive.
LocksExclude ==
    \A s, t \in Sessions :
        s # t => tx[s].locked \cap (tx[t].locked \cup tx[t].shared) = {}

\* What a checkout read is what is there, as long as it holds its locks.
SnapshotFresh ==
    \A s \in Sessions :
        (tx[s].op = "place" /\ tx[s].pc # "insert") =>
            \A v \in tx[s].rows : tx[s].seen[v] = stock[v]

\* An order that is being placed has no rows yet, and is nobody else's.
NewOrderIsPrivate ==
    \A s \in Sessions :
        tx[s].op = "place" =>
            /\ \A v \in Variants : reservation[tx[s].order][v] = "NONE"
            /\ \A t \in Sessions \ {s} : tx[t].order # tx[s].order

CheckoutInv == LocksExclude /\ SnapshotFresh /\ NewOrderIsPrivate

LEMMA CheckoutInit == Init => CheckoutInv
  BY DEF Init, CheckoutInv, LocksExclude, SnapshotFresh, NewOrderIsPrivate, IdleTx

\* A transaction keeps its locks, its snapshot and its order when it misses a change.
LEMMA MissesKeeps ==
  ASSUME NEW t \in Txs, NEW V \in SUBSET Variants
  PROVE  /\ Misses(t, V).pc = t.pc
         /\ Misses(t, V).op = t.op
         /\ Misses(t, V).order = t.order
         /\ Misses(t, V).rows = t.rows
         /\ Misses(t, V).shared = t.shared
         /\ Misses(t, V).locked = t.locked
         /\ Misses(t, V).seen = t.seen
         /\ Misses(t, V).alerted = t.alerted
  BY DEF Misses, Txs, Tx

\* A step that may change the stock of no row another session has locked, that
\* gives no reservation row to an order being placed by another session, and that
\* leaves the other sessions with what they hold, is harmless to them.
OthersKeep(s) ==
    \A t \in Sessions \ {s} :
        /\ tx'[t].pc = tx[t].pc
        /\ tx'[t].op = tx[t].op
        /\ tx'[t].order = tx[t].order
        /\ tx'[t].rows = tx[t].rows
        /\ tx'[t].shared = tx[t].shared
        /\ tx'[t].locked = tx[t].locked
        /\ tx'[t].seen = tx[t].seen
        /\ tx'[t].alerted = tx[t].alerted

LEMMA BecomeKeeps ==
  ASSUME NEW s \in Sessions, NEW t, TypeInv, Become(s, t)
  PROVE  OthersKeep(s) /\ tx'[s] = t
  BY DEF TypeInv, Become, OthersKeep

LEMMA CommitKeeps ==
  ASSUME NEW s \in Sessions, NEW V \in SUBSET Variants, TypeInv, CommitTx(s, V)
  PROVE  OthersKeep(s) /\ tx'[s] = IdleTx
  BY MissesKeeps DEF TypeInv, CommitTx, OthersKeep

\* A session that ends its transaction, having changed the stock of rows it had
\* locked and the reservations of its own order only.
LEMMA EndKeepsCheckouts ==
  ASSUME NEW s \in Sessions, TypeInv, TypeInv', CheckoutInv, OthersKeep(s), tx'[s] = IdleTx,
         \A v \in Variants : stock'[v] = stock[v] \/ v \in tx[s].locked,
         \A o \in Orders : reservation'[o] = reservation[o] \/ o = tx[s].order
  PROVE  CheckoutInv'
<1> USE DEF CheckoutInv
<1>1. LocksExclude'
  BY DEF LocksExclude, OthersKeep, IdleTx
<1>2. SnapshotFresh'
  <2> SUFFICES ASSUME NEW t \in Sessions, tx'[t].op = "place", tx'[t].pc # "insert",
                      NEW v \in tx'[t].rows
               PROVE  tx'[t].seen[v] = stock'[v]
    BY DEF SnapshotFresh
  <2>1. t # s
    BY DEF IdleTx
  <2>2. v \in Variants /\ v \in tx[t].shared /\ tx[t].seen[v] = stock[v]
    BY <2>1 DEF OthersKeep, SnapshotFresh, TypeInv, Txs, Tx, Shape
  <2>3. v \notin tx[s].locked
    BY <2>1, <2>2 DEF LocksExclude
  <2>4. QED
    BY <2>1, <2>2, <2>3 DEF OthersKeep
<1>3. NewOrderIsPrivate'
  <2> SUFFICES ASSUME NEW t \in Sessions, tx'[t].op = "place"
               PROVE  /\ \A v \in Variants : reservation'[tx'[t].order][v] = "NONE"
                      /\ \A r \in Sessions \ {t} : tx'[r].order # tx'[t].order
    BY DEF NewOrderIsPrivate
  <2>1. t # s
    BY DEF IdleTx
  <2>2. tx[t].op = "place" /\ tx'[t].order = tx[t].order /\ tx[t].order \in Orders
    BY <2>1 DEF OthersKeep, TypeInv, Txs, Shape
  <2>3. tx[t].order # tx[s].order
    BY <2>1, <2>2 DEF NewOrderIsPrivate
  <2>4. \A v \in Variants : reservation'[tx'[t].order][v] = "NONE"
    BY <2>2, <2>3 DEF NewOrderIsPrivate
  <2>5. \A r \in Sessions \ {t} : tx'[r].order # tx'[t].order
    BY <2>2, ConstantTypes DEF NewOrderIsPrivate, OthersKeep, IdleTx
  <2>6. QED
    BY <2>4, <2>5
<1>4. QED
  BY <1>1, <1>2, <1>3

LEMMA CheckoutStep == TypeInv /\ TypeInv' /\ CheckoutInv /\ [Next]_vars => CheckoutInv'
<1> SUFFICES ASSUME TypeInv, TypeInv', CheckoutInv, [Next]_vars PROVE CheckoutInv'
  OBVIOUS
<1>0. \A s \in Sessions : tx[s] \in Txs
  BY DEF TypeInv
<1>1. ASSUME NEW s \in Sessions, NEW t, Become(s, t),
             UNCHANGED <<stock, reservation>>,
             \A r \in Sessions \ {s} : t.locked \cap (tx[r].locked \cup tx[r].shared) = {},
             \A r \in Sessions \ {s} : t.shared \cap tx[r].locked = {},
             t.op = "place" => /\ \A v \in Variants : reservation[t.order][v] = "NONE"
                               /\ \A r \in Sessions \ {s} : tx[r].order # t.order
                               /\ t.pc # "insert" => \A v \in t.rows : t.seen[v] = stock[v],
             \A r \in Sessions \ {s} : tx[r].op = "place" => tx[r].order # t.order
      PROVE  CheckoutInv'
  <2>1. OthersKeep(s) /\ tx'[s] = t
    BY <1>1, BecomeKeeps
  <2>2. LocksExclude'
    BY <1>1, <2>1 DEF LocksExclude, OthersKeep, CheckoutInv
  <2>3. SnapshotFresh'
    BY <1>1, <2>1 DEF SnapshotFresh, OthersKeep, CheckoutInv
  <2>4. NewOrderIsPrivate'
    BY <1>1, <2>1 DEF NewOrderIsPrivate, OthersKeep, CheckoutInv
  <2>5. QED
    BY <2>2, <2>3, <2>4 DEF CheckoutInv
<1>2. ASSUME NEW s \in Sessions, NEW o \in Orders, BeginPlace(s, o) PROVE CheckoutInv'
  <2> DEFINE t == BeginTx("insert", "place", o, Lines(o))
  <2>1. /\ t.locked = {} /\ t.shared = {} /\ t.pc = "insert" /\ t.order = o
    BY DEF BeginTx, IdleTx
  <2>2. Become(s, t) /\ UNCHANGED <<stock, reservation>>
    BY <1>2 DEF BeginPlace
  <2>3. \A v \in Variants : reservation[o][v] = "NONE"
    BY <1>2 DEF BeginPlace
  <2>4. \A r \in Sessions : tx[r].order # o
    BY <1>2 DEF BeginPlace
  <2> HIDE DEF t
  <2>5. QED
    BY <1>1, <2>1, <2>2, <2>3, <2>4
<1>3. ASSUME NEW s \in Sessions, InsertItem(s) PROVE CheckoutInv'
  <2>1. PICK v \in tx[s].rows : /\ NotExclusive(s, v)
                                /\ Become(s, [tx[s] EXCEPT !.shared = @ \cup {v}])
    BY <1>3 DEF InsertItem
  <2> DEFINE t == [tx[s] EXCEPT !.shared = @ \cup {v}]
  <2>2. /\ t.locked = tx[s].locked /\ t.shared = tx[s].shared \cup {v}
        /\ t.pc = "insert" /\ t.op = tx[s].op /\ t.order = tx[s].order
    BY <1>0, <1>3 DEF Txs, Tx, InsertItem
  <2>3. Become(s, t) /\ UNCHANGED <<stock, reservation>>
    BY <1>3, <2>1 DEF InsertItem
  <2> HIDE DEF t
  <2>4. \A r \in Sessions \ {s} : /\ t.locked \cap (tx[r].locked \cup tx[r].shared) = {}
                                  /\ t.shared \cap tx[r].locked = {}
    BY <2>1, <2>2 DEF NotExclusive, CheckoutInv, LocksExclude
  <2>5. QED
    BY <1>1, <2>2, <2>3, <2>4 DEF CheckoutInv, NewOrderIsPrivate
<1>4. ASSUME NEW s \in Sessions, OrderCreated(s) PROVE CheckoutInv'
  <2> DEFINE seen == [v \in Variants |-> IF v \in tx[s].rows THEN stock[v] ELSE 0]
             A == {v \in tx[s].rows : alerts[v] > 0}
             t == [tx[s] EXCEPT !.pc = "lock", !.seen = seen, !.alerted = A]
  <2>1. Become(s, t) /\ UNCHANGED <<stock, reservation>>
    BY <1>4 DEF OrderCreated
  <2>2. tx[s].rows \subseteq Variants
    BY <1>0 DEF Txs, Tx
  <2>3. /\ t.locked = tx[s].locked /\ t.shared = tx[s].shared /\ t.rows = tx[s].rows
        /\ t.op = tx[s].op /\ t.order = tx[s].order /\ t.seen = seen
    BY <1>0 DEF Txs, Tx
  <2>4. \A v \in t.rows : t.seen[v] = stock[v]
    BY <2>2, <2>3
  <2> HIDE DEF t, seen
  <2>5. QED
    BY <1>1, <2>1, <2>3, <2>4 DEF CheckoutInv, NewOrderIsPrivate, LocksExclude
<1>5. ASSUME NEW s \in Sessions, LockRow(s) PROVE CheckoutInv'
  <2>1. PICK v \in tx[s].rows :
          /\ Free(s, v)
          /\ Become(s, [tx[s] EXCEPT
                          !.locked = @ \cup {v},
                          !.pc = IF tx[s].rows = tx[s].locked \cup {v} THEN "apply" ELSE "lock"])
    BY <1>5 DEF LockRow
  <2> DEFINE t == [tx[s] EXCEPT
                     !.locked = @ \cup {v},
                     !.pc = IF tx[s].rows = tx[s].locked \cup {v} THEN "apply" ELSE "lock"]
  <2>2. /\ t.locked = tx[s].locked \cup {v} /\ t.shared = tx[s].shared
        /\ t.rows = tx[s].rows /\ t.op = tx[s].op /\ t.order = tx[s].order
        /\ t.seen = tx[s].seen
    BY <1>0 DEF Txs, Tx
  <2>3. Become(s, t) /\ UNCHANGED <<stock, reservation>>
    BY <1>5, <2>1 DEF LockRow
  <2> HIDE DEF t
  <2>4. \A r \in Sessions \ {s} : /\ t.locked \cap (tx[r].locked \cup tx[r].shared) = {}
                                  /\ t.shared \cap tx[r].locked = {}
    BY <2>1, <2>2 DEF Free, NotExclusive, CheckoutInv, LocksExclude
  <2>5. tx[s].pc # "insert"
    BY <1>5 DEF LockRow
  <2>6. QED
    BY <1>1, <2>2, <2>3, <2>4, <2>5 DEF CheckoutInv, NewOrderIsPrivate, SnapshotFresh
<1>6. ASSUME NEW s \in Sessions, NEW status \in {"ACTIVE", "COMMITTED"},
             reserveForOrder(s, status)
      PROVE  CheckoutInv'
  <2>1. tx[s].locked = tx[s].rows /\ tx[s].rows = Lines(tx[s].order) /\ tx[s].order \in Orders
    BY <1>0, <1>6 DEF reserveForOrder, Txs, Shape
  <2>2. \A v \in Variants : stock'[v] = stock[v] \/ v \in tx[s].locked
    BY <1>6, <2>1, ConstantTypes DEF reserveForOrder, Taken, Lines, TypeInv, TypeOK
  <2>3. \A o \in Orders : reservation'[o] = reservation[o] \/ o = tx[s].order
    BY <1>6 DEF reserveForOrder, TypeInv, TypeOK
  <2>4. OthersKeep(s) /\ tx'[s] = IdleTx
    BY <1>0, <1>6, CommitKeeps DEF reserveForOrder, Txs, Tx
  <2>5. QED
    BY <2>2, <2>3, <2>4, EndKeepsCheckouts
<1>7. ASSUME NEW s \in Sessions, NEW o \in Orders, NEW op \in Ops, FindReservations(s, o, op)
      PROVE  CheckoutInv'
  <2> DEFINE found == {v \in Variants : reservation[o][v] \in Wanted(op)}
             t == BeginTx("lock", op, o, found)
  <2>1. t.locked = {} /\ t.shared = {} /\ t.op = op /\ t.order = o
    BY DEF BeginTx, IdleTx
  <2>2. Become(s, t) /\ UNCHANGED <<stock, reservation>> /\ op # "place"
    BY <1>7 DEF FindReservations
  <2>3. \E v \in Variants : reservation[o][v] # "NONE"
    BY <1>7 DEF FindReservations, Wanted
  <2> HIDE DEF t
  <2>4. QED
    BY <1>1, <2>1, <2>2, <2>3 DEF CheckoutInv, NewOrderIsPrivate
<1>8. ASSUME NEW s \in Sessions, releaseReservations(s) PROVE CheckoutInv'
  <2>1. tx[s].locked = tx[s].rows /\ tx[s].order \in Orders
    BY <1>0, <1>8 DEF releaseReservations, Txs, Shape, RestoreOps
  <2>2. \A v \in Variants : stock'[v] = stock[v] \/ v \in tx[s].locked
    BY <1>8, <2>1 DEF releaseReservations
  <2>3. \A o \in Orders : reservation'[o] = reservation[o] \/ o = tx[s].order
    BY <1>8 DEF releaseReservations, TypeInv, TypeOK
  <2>4. OthersKeep(s) /\ tx'[s] = IdleTx
    BY <1>0, <1>8, CommitKeeps DEF releaseReservations, Txs, Tx
  <2>5. QED
    BY <2>2, <2>3, <2>4, EndKeepsCheckouts
<1>9. ASSUME NEW s \in Sessions, scanLowStock(s) PROVE CheckoutInv'
  <2> DEFINE found == {v \in Variants : stock[v] <= LowStockThreshold /\ alerts[v] = 0}
             t == BeginTx("flag", "scan", NoOrder, found)
  <2>1. t.locked = {} /\ t.shared = {} /\ t.op = "scan" /\ t.order = NoOrder
    BY DEF BeginTx, IdleTx
  <2>2. Become(s, t) /\ UNCHANGED <<stock, reservation>>
    BY <1>9 DEF scanLowStock
  <2>3. \A r \in Sessions : tx[r].op = "place" => tx[r].order # NoOrder
    BY <1>0, ConstantTypes DEF Txs, Shape
  <2> HIDE DEF t
  <2>4. QED
    BY <1>1, <2>1, <2>2, <2>3
<1>10. ASSUME NEW s \in Sessions, FlagLowStock(s) PROVE CheckoutInv'
  <2>1. PICK v \in tx[s].rows :
          Become(s, IF tx[s].rows = {v} THEN IdleTx ELSE [tx[s] EXCEPT !.rows = @ \ {v}])
    BY <1>10 DEF FlagLowStock
  <2> DEFINE t == IF tx[s].rows = {v} THEN IdleTx ELSE [tx[s] EXCEPT !.rows = @ \ {v}]
  <2>2. t.locked \subseteq tx[s].locked /\ t.shared \subseteq tx[s].shared
        /\ t.op \in {"none", "scan"} /\ t.order = NoOrder
    BY <1>0, <1>10 DEF Txs, Tx, Shape, IdleTx, FlagLowStock
  <2>3. Become(s, t) /\ UNCHANGED <<stock, reservation>>
    BY <1>10, <2>1 DEF FlagLowStock
  <2>4. \A r \in Sessions : tx[r].op = "place" => tx[r].order # NoOrder
    BY <1>0, ConstantTypes DEF Txs, Shape
  <2> HIDE DEF t
  <2>5. QED
    BY <1>1, <2>2, <2>3, <2>4 DEF CheckoutInv, LocksExclude
<1>11. ASSUME NEW s \in Sessions, Abort(s) PROVE CheckoutInv'
  <2>1. Become(s, IdleTx) /\ UNCHANGED <<stock, reservation>>
    BY <1>11 DEF Abort
  <2>2. OthersKeep(s) /\ tx'[s] = IdleTx
    BY <2>1, BecomeKeeps
  <2>3. QED
    BY <2>1, <2>2, EndKeepsCheckouts
<1>12. ASSUME NEW o \in Orders, commitReservations(o) PROVE CheckoutInv'
  <2>1. \A s \in Sessions : /\ tx'[s].pc = tx[s].pc /\ tx'[s].op = tx[s].op
                            /\ tx'[s].order = tx[s].order /\ tx'[s].rows = tx[s].rows
                            /\ tx'[s].shared = tx[s].shared /\ tx'[s].locked = tx[s].locked
                            /\ tx'[s].seen = tx[s].seen
    BY <1>0, <1>12, MissesKeeps DEF commitReservations
  <2>2. \A p \in Orders, v \in Variants : reservation[p][v] = "NONE" => reservation'[p][v] = "NONE"
    BY <1>12 DEF commitReservations, TypeInv, TypeOK
  <2>3. stock' = stock
    BY <1>12 DEF commitReservations
  <2>4. \A s \in Sessions : tx[s].op = "place" => tx[s].order \in Orders
    BY <1>0 DEF Txs, Shape
  <2>5. LocksExclude' /\ SnapshotFresh'
    BY <2>1, <2>3 DEF CheckoutInv, LocksExclude, SnapshotFresh
  <2>6. NewOrderIsPrivate'
    BY <2>1, <2>2, <2>4 DEF CheckoutInv, NewOrderIsPrivate
  <2>7. QED
    BY <2>5, <2>6 DEF CheckoutInv
<1>13. ASSUME NEW v \in Variants, UNCHANGED reservation,
              \A s \in Sessions : v \notin tx[s].locked \cup tx[s].shared,
              \A w \in Variants \ {v} : stock'[w] = stock[w],
              tx' = [t \in Sessions |-> Misses(tx[t], {v})]
       PROVE  CheckoutInv'
  <2>1. \A s \in Sessions : /\ tx'[s].pc = tx[s].pc /\ tx'[s].op = tx[s].op
                            /\ tx'[s].order = tx[s].order /\ tx'[s].rows = tx[s].rows
                            /\ tx'[s].shared = tx[s].shared /\ tx'[s].locked = tx[s].locked
                            /\ tx'[s].seen = tx[s].seen
    BY <1>0, <1>13, MissesKeeps
  <2>2. \A s \in Sessions : tx[s].op = "place" /\ tx[s].pc # "insert" =>
                              tx[s].rows \subseteq tx[s].shared /\ tx[s].rows \subseteq Variants
    BY <1>0 DEF Txs, Tx, Shape
  <2>3. /\ reservation' = reservation
        /\ \A w \in Variants \ {v} : stock'[w] = stock[w]
        /\ \A s \in Sessions : v \notin tx[s].shared
    BY <1>13
  <2>4. SnapshotFresh'
    <3> SUFFICES ASSUME NEW s \in Sessions, tx'[s].op = "place", tx'[s].pc # "insert",
                        NEW w \in tx'[s].rows
                 PROVE  tx'[s].seen[w] = stock'[w]
      BY DEF SnapshotFresh
    <3>1. w \in Variants /\ w # v /\ tx[s].seen[w] = stock[w]
      BY <2>1, <2>2, <2>3 DEF CheckoutInv, SnapshotFresh
    <3>2. QED
      BY <2>1, <2>3, <3>1
  <2>5. LocksExclude'
    BY <2>1 DEF CheckoutInv, LocksExclude
  <2>6. NewOrderIsPrivate'
    BY <2>1, <2>3 DEF CheckoutInv, NewOrderIsPrivate
  <2>7. QED
    BY <2>4, <2>5, <2>6 DEF CheckoutInv
<1>14. ASSUME NEW v \in Variants, NEW delta \in Deltas, adjustStock(v, delta) PROVE CheckoutInv'
  <2>1. \A w \in Variants \ {v} : stock'[w] = stock[w]
    BY <1>14 DEF adjustStock, TypeInv, TypeOK
  <2>2. QED
    BY <1>13, <1>14, <2>1 DEF adjustStock
<1>15. ASSUME NEW v \in Variants, NEW units \in FormStocks, updateVariant(v, units)
       PROVE  CheckoutInv'
  <2>1. \A w \in Variants \ {v} : stock'[w] = stock[w]
    BY <1>15 DEF updateVariant, TypeInv, TypeOK
  <2>2. QED
    BY <1>13, <1>15, <2>1 DEF updateVariant
<1>16. CASE UNCHANGED vars
  BY <1>16 DEF vars, CheckoutInv, LocksExclude, SnapshotFresh, NewOrderIsPrivate
<1>17. QED
  BY <1>2, <1>3, <1>4, <1>5, <1>6, <1>7, <1>8, <1>9, <1>10, <1>11, <1>12, <1>14, <1>15,
     <1>16 DEF Next, SessionStep

----------------------------------------------------------------------------
(* Restores: what a release or a restock found, and what is still so *)

\* What a restoring transaction is about are rows that exist; a line it did not
\* find is none it looks for; and where the server reports missed changes, the
\* lines it has not missed a change of are as it found them.
RestoreInv ==
    \A s \in Sessions :
        tx[s].op \in RestoreOps =>
            /\ tx[s].rows # {}
            /\ \A v \in tx[s].rows : reservation[tx[s].order][v] # "NONE"
            /\ \A v \in Variants \ tx[s].rows :
                  reservation[tx[s].order][v] \notin Wanted(tx[s].op)
            /\ SnapshotIsolation =>
                  \A v \in tx[s].rows \ tx[s].missed :
                      reservation[tx[s].order][v] \in Wanted(tx[s].op)

LEMMA RestoreInit == Init => RestoreInv
  BY DEF Init, RestoreInv, IdleTx, RestoreOps

\* A session whose order keeps its reservations, and that may only miss more,
\* keeps its part of the invariant.
LEMMA RestoreKept ==
  ASSUME NEW t \in Sessions, RestoreInv, TypeInv,
         tx'[t].op = tx[t].op, tx'[t].order = tx[t].order, tx'[t].rows = tx[t].rows,
         tx[t].missed \subseteq tx'[t].missed,
         tx[t].op \in RestoreOps => reservation'[tx[t].order] = reservation[tx[t].order],
         tx'[t].op \in RestoreOps
  PROVE  /\ tx'[t].rows # {}
         /\ \A v \in tx'[t].rows : reservation'[tx'[t].order][v] # "NONE"
         /\ \A v \in Variants \ tx'[t].rows :
               reservation'[tx'[t].order][v] \notin Wanted(tx'[t].op)
         /\ SnapshotIsolation =>
               \A v \in tx'[t].rows \ tx'[t].missed :
                   reservation'[tx'[t].order][v] \in Wanted(tx'[t].op)
  BY DEF RestoreInv

LEMMA MissesMore ==
  ASSUME NEW t \in Txs, NEW V \in SUBSET Variants
  PROVE  /\ t.missed \subseteq Misses(t, V).missed
         /\ (SnapshotIsolation /\ t.op \in RestoreOps)
               => V \cap t.rows \subseteq Misses(t, V).missed
  BY DEF Misses, Txs, Tx, Shape

LEMMA RestoreStep ==
  TypeInv /\ TypeInv' /\ CheckoutInv /\ RestoreInv /\ [Next]_vars => RestoreInv'
<1> SUFFICES ASSUME TypeInv, TypeInv', CheckoutInv, RestoreInv, [Next]_vars
             PROVE  RestoreInv'
  OBVIOUS
<1>0. \A s \in Sessions : tx[s] \in Txs
  BY DEF TypeInv
<1>1. ASSUME NEW s \in Sessions, NEW t, Become(s, t), UNCHANGED reservation,
             t.op \notin RestoreOps
      PROVE  RestoreInv'
  <2>1. tx'[s] = t /\ \A r \in Sessions \ {s} : tx'[r] = tx[r]
    BY <1>1 DEF Become, TypeInv
  <2>2. QED
    BY <1>1, <2>1 DEF RestoreInv
<1>2. ASSUME NEW s \in Sessions, NEW o \in Orders, BeginPlace(s, o) PROVE RestoreInv'
  <2>1. BeginTx("insert", "place", o, Lines(o)).op \notin RestoreOps
    BY DEF BeginTx, IdleTx, RestoreOps
  <2>2. QED
    BY <1>1, <1>2, <2>1 DEF BeginPlace
<1>3. ASSUME NEW s \in Sessions, InsertItem(s) PROVE RestoreInv'
  <2>1. PICK v \in tx[s].rows : Become(s, [tx[s] EXCEPT !.shared = @ \cup {v}])
    BY <1>3 DEF InsertItem
  <2>2. [tx[s] EXCEPT !.shared = @ \cup {v}].op \notin RestoreOps
    BY <1>0, <1>3 DEF InsertItem, Txs, Tx, Shape, RestoreOps
  <2>3. QED
    BY <1>1, <1>3, <2>1, <2>2 DEF InsertItem
<1>4. ASSUME NEW s \in Sessions, OrderCreated(s) PROVE RestoreInv'
  <2> DEFINE seen == [v \in Variants |-> IF v \in tx[s].rows THEN stock[v] ELSE 0]
             A == {v \in tx[s].rows : alerts[v] > 0}
             t == [tx[s] EXCEPT !.pc = "lock", !.seen = seen, !.alerted = A]
  <2>1. t.op \notin RestoreOps
    BY <1>0, <1>4 DEF OrderCreated, Txs, Tx, Shape, RestoreOps
  <2>2. Become(s, t) /\ UNCHANGED reservation
    BY <1>4 DEF OrderCreated
  <2> HIDE DEF t
  <2>3. QED
    BY <1>1, <2>1, <2>2
<1>5. ASSUME NEW s \in Sessions, LockRow(s) PROVE RestoreInv'
  <2>1. PICK v \in tx[s].rows :
          Become(s, [tx[s] EXCEPT
                       !.locked = @ \cup {v},
                       !.pc = IF tx[s].rows = tx[s].locked \cup {v} THEN "apply" ELSE "lock"])
    BY <1>5 DEF LockRow
  <2> DEFINE t == [tx[s] EXCEPT
                     !.locked = @ \cup {v},
                     !.pc = IF tx[s].rows = tx[s].locked \cup {v} THEN "apply" ELSE "lock"]
  <2>a. /\ t.op = tx[s].op /\ t.order = tx[s].order
        /\ t.rows = tx[s].rows /\ t.missed = tx[s].missed
    BY <1>0 DEF Txs, Tx
  <2>b. tx'[s] = t /\ \A r \in Sessions \ {s} : tx'[r] = tx[r]
    BY <2>1 DEF Become, TypeInv
  <2> HIDE DEF t
  <2>2. \A r \in Sessions : /\ tx'[r].op = tx[r].op /\ tx'[r].order = tx[r].order
                            /\ tx'[r].rows = tx[r].rows /\ tx'[r].missed = tx[r].missed
    BY <2>a, <2>b
  <2>3. reservation' = reservation
    BY <1>5 DEF LockRow
  <2>4. QED
    BY <2>2, <2>3 DEF RestoreInv
<1>6. ASSUME NEW s \in Sessions, NEW status \in {"ACTIVE", "COMMITTED"},
             reserveForOrder(s, status)
      PROVE  RestoreInv'
  <2> SUFFICES ASSUME NEW t \in Sessions, tx'[t].op \in RestoreOps
               PROVE  /\ tx'[t].rows # {}
                      /\ \A v \in tx'[t].rows : reservation'[tx'[t].order][v] # "NONE"
                      /\ \A v \in Variants \ tx'[t].rows :
                            reservation'[tx'[t].order][v] \notin Wanted(tx'[t].op)
                      /\ SnapshotIsolation =>
                            \A v \in tx'[t].rows \ tx'[t].missed :
                                reservation'[tx'[t].order][v] \in Wanted(tx'[t].op)
    BY DEF RestoreInv
  <2>1. tx'[s] = IdleTx /\ OthersKeep(s)
    BY <1>0, <1>6, CommitKeeps DEF reserveForOrder, Txs, Tx
  <2>2. t # s
    BY <2>1 DEF IdleTx, RestoreOps
  <2>3. tx[t].order # tx[s].order /\ tx[t].missed \subseteq tx'[t].missed
    BY <1>0, <1>6, <2>2, MissesMore
       DEF reserveForOrder, CommitTx, CheckoutInv, NewOrderIsPrivate, Txs, Tx
  <2>4. tx[t].op \in RestoreOps => reservation'[tx[t].order] = reservation[tx[t].order]
    BY <1>0, <1>6, <2>3 DEF reserveForOrder, Txs, Shape, TypeInv, TypeOK
  <2>5. QED
    BY <2>1, <2>2, <2>3, <2>4, RestoreKept DEF OthersKeep
<1>7. ASSUME NEW s \in Sessions, NEW o \in Orders, NEW op \in Ops, FindReservations(s, o, op)
      PROVE  RestoreInv'
  <2> DEFINE found == {v \in Variants : reservation[o][v] \in Wanted(op)}
             t == BeginTx("lock", op, o, found)
  <2>1. t.op = op /\ t.order = o /\ t.rows = found /\ t.missed = {}
    BY DEF BeginTx, IdleTx
  <2>2. Become(s, t) /\ reservation' = reservation /\ found # {}
    BY <1>7 DEF FindReservations
  <2>3. tx'[s] = t /\ \A r \in Sessions \ {s} : tx'[r] = tx[r]
    BY <2>2 DEF Become, TypeInv
  <2>4. "NONE" \notin Wanted(op)
    BY DEF Wanted
  <2> HIDE DEF t
  <2>5. QED
    BY <2>1, <2>2, <2>3, <2>4 DEF RestoreInv
<1>8. ASSUME NEW s \in Sessions, releaseReservations(s) PROVE RestoreInv'
  <2> SUFFICES ASSUME NEW t \in Sessions, tx'[t].op \in RestoreOps
               PROVE  /\ tx'[t].rows # {}
                      /\ \A v \in tx'[t].rows : reservation'[tx'[t].order][v] # "NONE"
                      /\ \A v \in Variants \ tx'[t].rows :
                            reservation'[tx'[t].order][v] \notin Wanted(tx'[t].op)
                      /\ SnapshotIsolation =>
                            \A v \in tx'[t].rows \ tx'[t].missed :
                                reservation'[tx'[t].order][v] \in Wanted(tx'[t].op)
    BY DEF RestoreInv
  <2>1. tx'[s] = IdleTx /\ OthersKeep(s)
    BY <1>0, <1>8, CommitKeeps DEF releaseReservations, Txs, Tx
  <2>2. t # s
    BY <2>1 DEF IdleTx, RestoreOps
  <2>3. /\ tx[t].op \in RestoreOps /\ tx[t].order \in Orders
        /\ tx[t].missed \subseteq tx'[t].missed
        /\ SnapshotIsolation => tx[s].rows \cap tx[t].rows \subseteq tx'[t].missed
    <3>1. tx'[t] = Misses(tx[t], tx[s].rows) /\ tx[s].rows \in SUBSET Variants
      BY <1>0, <1>8, <2>2 DEF releaseReservations, CommitTx, Txs, Tx
    <3>2. QED
      BY <1>0, <2>1, <2>2, <3>1, MissesMore DEF OthersKeep, Txs, Shape
  <2>4. \A v \in Variants : reservation'[tx[t].order][v] = reservation[tx[t].order][v]
                            \/ /\ tx[t].order = tx[s].order
                               /\ v \in tx[s].rows
                               /\ reservation'[tx[t].order][v] \in {"EXPIRED", "RELEASED"}
    BY <1>8, <2>3 DEF releaseReservations, Closing, TypeInv, TypeOK
  <2>5. Wanted(tx[t].op) \cap {"EXPIRED", "RELEASED", "NONE"} = {}
    BY DEF Wanted
  <2>6. tx[t].rows \subseteq Variants /\ tx'[t].op = tx[t].op /\ tx'[t].rows = tx[t].rows
        /\ tx'[t].order = tx[t].order
    BY <1>0, <2>1, <2>2 DEF OthersKeep, Txs, Tx
  <2>7. QED
    BY <2>3, <2>4, <2>5, <2>6 DEF RestoreInv
<1>9. ASSUME NEW s \in Sessions, scanLowStock(s) PROVE RestoreInv'
  <2>1. \A R : BeginTx("flag", "scan", NoOrder, R).op \notin RestoreOps
    BY DEF BeginTx, IdleTx, RestoreOps
  <2>2. QED
    BY <1>1, <1>9, <2>1 DEF scanLowStock
<1>10. ASSUME NEW s \in Sessions, FlagLowStock(s) PROVE RestoreInv'
  <2>1. PICK v \in tx[s].rows :
          Become(s, IF tx[s].rows = {v} THEN IdleTx ELSE [tx[s] EXCEPT !.rows = @ \ {v}])
    BY <1>10 DEF FlagLowStock
  <2>2. (IF tx[s].rows = {v} THEN IdleTx ELSE [tx[s] EXCEPT !.rows = @ \ {v}]).op \notin RestoreOps
    BY <1>0, <1>10 DEF FlagLowStock, Txs, Tx, Shape, RestoreOps, IdleTx
  <2>3. QED
    BY <1>1, <1>10, <2>1, <2>2 DEF FlagLowStock
<1>11. ASSUME NEW s \in Sessions, Abort(s) PROVE RestoreInv'
  BY <1>1, <1>11 DEF Abort, IdleTx, RestoreOps
<1>12. ASSUME NEW o \in Orders, commitReservations(o) PROVE RestoreInv'
  <2> DEFINE active == {v \in Variants : reservation[o][v] = "ACTIVE"}
  <2> SUFFICES ASSUME NEW t \in Sessions, tx'[t].op \in RestoreOps
               PROVE  /\ tx'[t].rows # {}
                      /\ \A v \in tx'[t].rows : reservation'[tx'[t].order][v] # "NONE"
                      /\ \A v \in Variants \ tx'[t].rows :
                            reservation'[tx'[t].order][v] \notin Wanted(tx'[t].op)
                      /\ SnapshotIsolation =>
                            \A v \in tx'[t].rows \ tx'[t].missed :
                                reservation'[tx'[t].order][v] \in Wanted(tx'[t].op)
    BY DEF RestoreInv
  <2>1. tx'[t] = IF tx[t].order = o THEN Misses(tx[t], active) ELSE tx[t]
    BY <1>12 DEF commitReservations
  <2>2. /\ tx'[t].op = tx[t].op /\ tx'[t].rows = tx[t].rows /\ tx'[t].order = tx[t].order
        /\ tx[t].missed \subseteq tx'[t].missed
        /\ tx[t].rows \subseteq Variants
    BY <1>0, <2>1, MissesKeeps, MissesMore DEF Txs, Tx
  <2>3. (SnapshotIsolation /\ tx[t].order = o) => active \cap tx[t].rows \subseteq tx'[t].missed
    BY <1>0, <2>1, <2>2, MissesMore
  <2>4. tx[t].order \in Orders
    BY <1>0, <2>2 DEF Txs, Shape
  <2>5. \A v \in Variants : reservation'[tx[t].order][v] = reservation[tx[t].order][v]
                            \/ /\ tx[t].order = o
                               /\ v \in active
                               /\ reservation'[tx[t].order][v] = "COMMITTED"
    BY <1>12, <2>4 DEF commitReservations, TypeInv, TypeOK
  <2>6. "ACTIVE" \in Wanted(tx[t].op) /\ "NONE" \notin Wanted(tx[t].op)
    BY DEF Wanted
  <2> HIDE DEF active
  <2>7. active = {v \in Variants : reservation[o][v] = "ACTIVE"}
    BY DEF active
  <2>8. QED
    BY <2>2, <2>3, <2>5, <2>6, <2>7 DEF RestoreInv
<1>13. ASSUME NEW v \in Variants, tx' = [t \in Sessions |-> Misses(tx[t], {v})],
              reservation' = reservation
       PROVE  RestoreInv'
  <2>1. \A t \in Sessions : /\ tx'[t].op = tx[t].op /\ tx'[t].rows = tx[t].rows
                            /\ tx'[t].order = tx[t].order
                            /\ tx[t].missed \subseteq tx'[t].missed
    BY <1>0, <1>13, MissesKeeps, MissesMore
  <2>2. QED
    BY <1>13, <2>1, RestoreKept DEF RestoreInv
<1>14. ASSUME NEW v \in Variants, NEW delta \in Deltas, adjustStock(v, delta) PROVE RestoreInv'
  BY <1>13, <1>14 DEF adjustStock
<1>15. ASSUME NEW v \in Variants, NEW units \in FormStocks, updateVariant(v, units)
       PROVE  RestoreInv'
  BY <1>13, <1>15 DEF updateVariant
<1>16. CASE UNCHANGED vars
  BY <1>16 DEF vars, RestoreInv
<1>17. QED
  BY <1>2, <1>3, <1>4, <1>5, <1>6, <1>7, <1>8, <1>9, <1>10, <1>11, <1>12, <1>14, <1>15,
     <1>16 DEF Next, SessionStep

----------------------------------------------------------------------------
(* What follows for the steps *)

\* On every server.
SafeInv == TypeInv /\ CheckoutInv /\ RestoreInv

LEMMA SafeInvariant == Spec => []SafeInv
<1>1. Init => SafeInv
  BY TypeInit, CheckoutInit, RestoreInit DEF SafeInv
<1>2. SafeInv /\ [Next]_vars => SafeInv'
  BY TypeStep, CheckoutStep, RestoreStep DEF SafeInv
<1>3. QED
  BY <1>1, <1>2, PTL DEF Spec

\* A step that takes or changes reservations is one of three.
LEMMA ReservationSteps ==
  ASSUME SafeInv, [Next]_vars
  PROVE  \/ reservation' = reservation
         \/ \E s \in Sessions, status \in {"ACTIVE", "COMMITTED"} : reserveForOrder(s, status)
         \/ \E s \in Sessions : releaseReservations(s)
         \/ \E o \in Orders : commitReservations(o)
  BY DEF Next, SessionStep, vars, BeginPlace, InsertItem, OrderCreated, LockRow,
         FindReservations, scanLowStock, FlagLowStock, Abort, adjustStock, updateVariant

\* No checkout takes more than there is of a variant without backorder, however
\* many run beside it, on every server and whatever the admins write.
THEOREM NeverOversells == Spec => NoOversell
<1>1. ASSUME SafeInv, SafeInv', [Next]_vars,
             NEW v \in Variants \ Backorder, NEW o \in Orders,
             reservation[o][v] = "NONE", reservation'[o][v] # "NONE"
      PROVE  stock'[v] >= 0
  <2>0. \A s \in Sessions : tx[s] \in Txs
    BY <1>1 DEF SafeInv, TypeInv
  <2>1. CASE reservation' = reservation
    BY <1>1, <2>1
  <2>2. ASSUME NEW s \in Sessions, NEW status \in {"ACTIVE", "COMMITTED"},
               reserveForOrder(s, status)
        PROVE  stock'[v] >= 0
    <3>1. tx[s].op = "place" /\ tx[s].pc = "apply" /\ tx[s].order \in Orders
      BY <2>0, <2>2 DEF reserveForOrder, Txs, Shape
    <3>2. o = tx[s].order /\ v \in tx[s].rows
      BY <1>1, <2>2, <3>1 DEF reserveForOrder, SafeInv, TypeInv, TypeOK
    <3>3. tx[s].seen[v] = stock[v] /\ tx[s].seen[v] >= Basket[o][v]
      BY <1>1, <2>2, <3>1, <3>2
         DEF reserveForOrder, Available, SafeInv, CheckoutInv, SnapshotFresh
    <3>4. stock'[v] = stock[v] - Basket[o][v]
      BY <2>2, <3>2 DEF reserveForOrder, Taken
    <3>5. stock[v] \in Int /\ Basket[o][v] \in Nat
      BY <1>1, ConstantTypes DEF SafeInv, TypeInv, TypeOK
    <3>6. QED
      BY <3>3, <3>4, <3>5
  <2>3. ASSUME NEW s \in Sessions, releaseReservations(s) PROVE FALSE
    <3>1. tx[s].op \in RestoreOps /\ tx[s].order \in Orders
      BY <2>0, <2>3 DEF releaseReservations, Txs, Shape, RestoreOps
    <3>2. o = tx[s].order /\ v \in tx[s].rows
      BY <1>1, <2>3, <3>1 DEF releaseReservations, SafeInv, TypeInv, TypeOK
    <3>3. QED
      BY <1>1, <3>1, <3>2 DEF SafeInv, RestoreInv
  <2>4. ASSUME NEW p \in Orders, commitReservations(p) PROVE FALSE
    BY <1>1, <2>4 DEF commitReservations, SafeInv, TypeInv, TypeOK
  <2>5. QED
    BY <1>1, <2>1, <2>2, <2>3, <2>4, ReservationSteps
<1>2. SafeInv /\ SafeInv' /\ [Next]_vars =>
        [\A v \in Variants \ Backorder, o \in Orders :
           (reservation[o][v] = "NONE" /\ reservation'[o][v] # "NONE")
              => stock'[v] >= 0]_vars
  BY <1>1
<1>3. QED
  BY <1>2, SafeInvariant, PTL DEF Spec, NoOversell

----------------------------------------------------------------------------
(* On a server that fails a transaction with an old snapshot *)

\* What a release is about to give back is still as it found it.
LEMMA ReleaseIsFresh ==
  ASSUME SafeInv, SnapshotIsolation, NEW s \in Sessions, releaseReservations(s)
  PROVE  /\ tx[s].op \in RestoreOps /\ tx[s].order \in Orders
         /\ tx[s].rows = {v \in Variants : reservation[tx[s].order][v] \in Wanted(tx[s].op)}
<1>1. tx[s] \in Txs /\ tx[s].missed = {} /\ tx[s].op \in RestoreOps
  BY DEF SafeInv, TypeInv, releaseReservations, RestoreOps
<1>2. tx[s].order \in Orders /\ tx[s].rows \subseteq Variants
  BY <1>1 DEF Txs, Tx, Shape
<1>3. /\ \A v \in tx[s].rows : reservation[tx[s].order][v] \in Wanted(tx[s].op)
      /\ \A v \in Variants \ tx[s].rows : reservation[tx[s].order][v] \notin Wanted(tx[s].op)
  BY <1>1 DEF SafeInv, RestoreInv
<1>4. QED
  BY <1>1, <1>2, <1>3

\* However often and by whom an order is closed, each of its reservations is put
\* back once, when it is closed, if the server fails the late transaction.
THEOREM RestocksOnce == SnapshotIsolation => (Spec => []RestockedOnce)
<1> SUFFICES ASSUME SnapshotIsolation PROVE Spec => []RestockedOnce
  OBVIOUS
<1>1. Init => RestockedOnce
  <2> SUFFICES ASSUME Init PROVE RestockedOnce
    OBVIOUS
  <2>1. \A o \in Orders, v \in Variants : reservation[o][v] = "NONE" /\ returned[o][v] = 0
    BY DEF Init
  <2>2. QED
    BY <2>1 DEF RestockedOnce
<1>2. SafeInv /\ RestockedOnce /\ [Next]_vars => RestockedOnce'
  <2> SUFFICES ASSUME SafeInv, RestockedOnce, [Next]_vars,
                      NEW o \in Orders, NEW v \in Variants
               PROVE  returned'[o][v] =
                        IF reservation'[o][v] \in {"RELEASED", "EXPIRED"} THEN 1 ELSE 0
    BY DEF RestockedOnce
  <2>0. /\ returned[o][v] = IF reservation[o][v] \in {"RELEASED", "EXPIRED"} THEN 1 ELSE 0
        /\ \A s \in Sessions : tx[s] \in Txs
    BY DEF RestockedOnce, SafeInv, TypeInv
  <2>1. ASSUME NEW s \in Sessions, NEW status \in {"ACTIVE", "COMMITTED"},
               reserveForOrder(s, status)
        PROVE  returned'[o][v] =
                 IF reservation'[o][v] \in {"RELEASED", "EXPIRED"} THEN 1 ELSE 0
    <3>1. tx[s].op = "place" /\ tx[s].order \in Orders /\ returned' = returned
      BY <2>0, <2>1 DEF reserveForOrder, Txs, Shape
    <3>2. o = tx[s].order => reservation[o][v] = "NONE"
      BY <3>1 DEF SafeInv, CheckoutInv, NewOrderIsPrivate
    <3>3. reservation'[o][v] = reservation[o][v]
          \/ (o = tx[s].order /\ reservation'[o][v] \in {"ACTIVE", "COMMITTED", "NONE"})
      BY <2>1, <3>1 DEF reserveForOrder, SafeInv, TypeInv, TypeOK
    <3>4. QED
      BY <2>0, <3>1, <3>2, <3>3
  <2>2. ASSUME NEW s \in Sessions, releaseReservations(s)
        PROVE  returned'[o][v] =
                 IF reservation'[o][v] \in {"RELEASED", "EXPIRED"} THEN 1 ELSE 0
    <3>1. CASE o = tx[s].order /\ v \in tx[s].rows
      <4>1. reservation[o][v] \in {"ACTIVE", "COMMITTED"}
        BY <2>2, <3>1, ReleaseIsFresh DEF Wanted
      <4>2. reservation'[o][v] \in {"RELEASED", "EXPIRED"}
        BY <2>2, <3>1 DEF releaseReservations, Closing, SafeInv, TypeInv, TypeOK
      <4>3. returned'[o][v] = returned[o][v] + 1
        BY <2>2, <3>1 DEF releaseReservations, SafeInv, TypeInv, TypeOK
      <4>4. QED
        BY <2>0, <4>1, <4>2, <4>3
    <3>2. CASE ~(o = tx[s].order /\ v \in tx[s].rows)
      <4>1. reservation'[o][v] = reservation[o][v] /\ returned'[o][v] = returned[o][v]
        BY <2>2, <3>2 DEF releaseReservations, SafeInv, TypeInv, TypeOK
      <4>2. QED
        BY <2>0, <4>1
    <3>3. QED
      BY <3>1, <3>2
  <2>3. ASSUME NEW p \in Orders, commitReservations(p)
        PROVE  returned'[o][v] =
                 IF reservation'[o][v] \in {"RELEASED", "EXPIRED"} THEN 1 ELSE 0
    BY <2>0, <2>3 DEF commitReservations, SafeInv, TypeInv, TypeOK
  <2>4. ASSUME reservation' = reservation, returned' = returned
        PROVE  returned'[o][v] =
                 IF reservation'[o][v] \in {"RELEASED", "EXPIRED"} THEN 1 ELSE 0
    BY <2>0, <2>4
  <2>5. \/ reservation' = reservation /\ returned' = returned
        \/ \E s \in Sessions, status \in {"ACTIVE", "COMMITTED"} : reserveForOrder(s, status)
        \/ \E s \in Sessions : releaseReservations(s)
        \/ \E p \in Orders : commitReservations(p)
    BY DEF Next, SessionStep, vars, BeginPlace, InsertItem, OrderCreated, LockRow,
           FindReservations, scanLowStock, FlagLowStock, Abort, adjustStock, updateVariant
  <2>6. QED
    BY <2>1, <2>2, <2>3, <2>4, <2>5
<1>3. QED
  BY <1>1, <1>2, SafeInvariant, PTL DEF Spec

\* A sale is undone by an admin only, if the server fails the late transaction.
THEOREM SalesStaySold == SnapshotIsolation => (Spec => CommittedStaysSold)
<1> SUFFICES ASSUME SnapshotIsolation PROVE Spec => CommittedStaysSold
  OBVIOUS
<1>1. ASSUME SafeInv, [Next]_vars, NEW o \in Orders, NEW v \in Variants,
             reservation[o][v] = "COMMITTED", reservation'[o][v] # "COMMITTED"
      PROVE  \E s \in Sessions : tx[s].op = "admin" /\ tx[s].order = o
  <2>0. \A s \in Sessions : tx[s] \in Txs
    BY <1>1 DEF SafeInv, TypeInv
  <2>1. ASSUME NEW s \in Sessions, NEW status \in {"ACTIVE", "COMMITTED"},
               reserveForOrder(s, status)
        PROVE  FALSE
    <3>1. tx[s].op = "place" /\ tx[s].order \in Orders
      BY <2>0, <2>1 DEF reserveForOrder, Txs, Shape
    <3>2. o # tx[s].order
      BY <1>1, <3>1 DEF SafeInv, CheckoutInv, NewOrderIsPrivate
    <3>3. QED
      BY <1>1, <2>1, <3>1, <3>2 DEF reserveForOrder, SafeInv, TypeInv, TypeOK
  <2>2. ASSUME NEW s \in Sessions, releaseReservations(s)
        PROVE  tx[s].op = "admin" /\ tx[s].order = o
    <3>1. o = tx[s].order /\ v \in tx[s].rows
      BY <1>1, <2>2 DEF releaseReservations, SafeInv, TypeInv, TypeOK
    <3>2. "COMMITTED" \in Wanted(tx[s].op)
      BY <1>1, <2>2, <3>1, ReleaseIsFresh
    <3>3. QED
      BY <3>1, <3>2 DEF Wanted
  <2>3. ASSUME NEW p \in Orders, commitReservations(p) PROVE FALSE
    BY <1>1, <2>3 DEF commitReservations, SafeInv, TypeInv, TypeOK
  <2>4. QED
    BY <1>1, <2>1, <2>2, <2>3, ReservationSteps
<1>2. SafeInv /\ [Next]_vars =>
        [\A o \in Orders, v \in Variants :
           (reservation[o][v] = "COMMITTED" /\ reservation'[o][v] # "COMMITTED")
              => \E s \in Sessions : tx[s].op = "admin" /\ tx[s].order = o]_vars
  BY <1>1
<1>3. QED
  BY <1>2, SafeInvariant, PTL DEF Spec, CommittedStaysSold

\* The transactions implement the atomic ledger, where the server fails the late
\* transaction and nobody writes the stock in the variant form.
THEOREM Implementation ==
  (SnapshotIsolation /\ FormStocks = {}) => (Spec => ImplementsLedger)
<1> SUFFICES ASSUME SnapshotIsolation, FormStocks = {} PROVE Spec => ImplementsLedger
  OBVIOUS
<1>1. Init => Ledger!LedgerInit
  BY DEF Init, Ledger!LedgerInit
<1>2. SafeInv /\ [Next]_vars => [Ledger!LedgerNext]_(Ledger!ledgerVars)
  <2> SUFFICES ASSUME SafeInv, [Next]_vars
               PROVE  Ledger!LedgerNext \/ UNCHANGED <<stock, reservation, adjusted>>
    BY DEF Ledger!ledgerVars
  <2>0. TypeOK /\ \A s \in Sessions : tx[s] \in Txs
    BY DEF SafeInv, TypeInv
  <2>1. ASSUME NEW s \in Sessions, NEW status \in {"ACTIVE", "COMMITTED"},
               reserveForOrder(s, status)
        PROVE  \E o \in Orders : Ledger!Reserve(o, status)
    <3> DEFINE o == tx[s].order
    <3>1. tx[s].op = "place" /\ tx[s].pc = "apply" /\ o \in Orders /\ tx[s].rows = Lines(o)
          /\ tx[s].rows # {}
      BY <2>0, <2>1 DEF reserveForOrder, Txs, Shape
    <3>2. Ledger!Lines(o) = Lines(o)
      BY DEF Lines, Ledger!Lines
    <3>3. \A v \in Lines(o) : tx[s].seen[v] = stock[v]
      BY <3>1 DEF SafeInv, CheckoutInv, SnapshotFresh
    <3>4. \A v \in Lines(o) : v \in Backorder \/ stock[v] >= Basket[o][v]
      BY <2>1, <3>1, <3>3 DEF reserveForOrder, Available
    <3>5. Ledger!Unplaced(o)
      BY <3>1 DEF SafeInv, CheckoutInv, NewOrderIsPrivate, Ledger!Unplaced
    <3>6. /\ stock' = [v \in Variants |-> stock[v] - Basket[o][v]]
          /\ reservation' = [reservation EXCEPT ![o] =
                               [v \in Variants |-> IF v \in Lines(o) THEN status ELSE "NONE"]]
          /\ adjusted' = adjusted
      BY <2>1, <3>1 DEF reserveForOrder, Taken
    <3> HIDE DEF o
    <3>7. Ledger!Reserve(o, status)
      BY <3>1, <3>2, <3>4, <3>5, <3>6 DEF Ledger!Reserve
    <3>8. QED
      BY <3>1, <3>7
  <2>2. ASSUME NEW s \in Sessions, releaseReservations(s)
        PROVE  \E o \in Orders : Ledger!Release(o) \/ Ledger!Expire(o) \/ Ledger!Restock(o)
    <3> DEFINE o == tx[s].order
               op == tx[s].op
    <3>1. /\ o \in Orders /\ op \in RestoreOps
          /\ tx[s].rows = {v \in Variants : reservation[o][v] \in Wanted(op)}
      BY <2>2, ReleaseIsFresh
    <3>2. /\ stock' = [v \in Variants |-> IF v \in tx[s].rows THEN stock[v] + Basket[o][v]
                                                              ELSE stock[v]]
          /\ reservation' = [reservation EXCEPT ![o] =
                               [v \in Variants |-> IF v \in tx[s].rows THEN Closing(op) ELSE @[v]]]
          /\ adjusted' = adjusted
      BY <2>2 DEF releaseReservations
    <3> HIDE DEF o, op
    <3>3. /\ stock' = [v \in Variants |-> IF reservation[o][v] \in Wanted(op)
                                            THEN stock[v] + Basket[o][v] ELSE stock[v]]
          /\ reservation' = [reservation EXCEPT ![o] =
                               [v \in Variants |-> IF @[v] \in Wanted(op) THEN Closing(op) ELSE @[v]]]
      BY <3>1, <3>2
    <3>4. Ledger!GiveBack(o, Wanted(op), Closing(op))
      BY <3>2, <3>3 DEF Ledger!GiveBack
    <3>5. \/ Wanted(op) = {"ACTIVE"} /\ Closing(op) = "RELEASED"
          \/ Wanted(op) = {"ACTIVE"} /\ Closing(op) = "EXPIRED"
          \/ Wanted(op) = Ledger!Holding /\ Closing(op) = "RELEASED"
      BY DEF Wanted, Closing, Ledger!Holding
    <3>6. Ledger!Release(o) \/ Ledger!Expire(o) \/ Ledger!Restock(o)
      BY <3>4, <3>5 DEF Ledger!Release, Ledger!Expire, Ledger!Restock
    <3>7. QED
      BY <3>1, <3>6
  <2>3. ASSUME NEW o \in Orders, commitReservations(o) PROVE Ledger!Commit(o)
    BY <2>3 DEF commitReservations, Ledger!Commit
  <2>4. ASSUME NEW v \in Variants, NEW delta \in Deltas, adjustStock(v, delta)
        PROVE  Ledger!Adjust(v, delta)
    BY <2>4 DEF adjustStock, Ledger!Adjust
  <2>5. \/ UNCHANGED <<stock, reservation, adjusted>>
        \/ \E s \in Sessions, status \in {"ACTIVE", "COMMITTED"} : reserveForOrder(s, status)
        \/ \E s \in Sessions : releaseReservations(s)
        \/ \E o \in Orders : commitReservations(o)
        \/ \E v \in Variants, delta \in Deltas : adjustStock(v, delta)
    BY DEF Next, SessionStep, vars, BeginPlace, InsertItem, OrderCreated, LockRow,
           FindReservations, scanLowStock, FlagLowStock, Abort
  <2>6. QED
    BY <2>1, <2>2, <2>3, <2>4, <2>5 DEF Ledger!LedgerNext, Ledger!Holding
<1>3. QED
  BY <1>1, <1>2, SafeInvariant, PTL DEF Spec, ImplementsLedger, Ledger!LedgerSpec

----------------------------------------------------------------------------
(* The order of the locks, and the alerts a checkout has looked for *)

\* A transaction has locked the lowest of its rows, and one that restores holds
\* no row shared: it inserts nothing that refers to a variant.
LocksInOrder(t) ==
    /\ t.pc = "insert" => t.locked = {}
    /\ t.pc \in {"lock", "apply"} =>
        /\ \A v \in t.locked, w \in t.rows \ t.locked : v < w
        /\ t.op # "place" => t.shared = {}

\* An alert that a checkout's snapshot has shown is still open.
AlertsStayOpen(t) ==
    (t.op = "place" /\ t.pc # "insert") => \A v \in t.alerted : alerts[v] > 0

WaitInv == \A s \in Sessions : LocksInOrder(tx[s]) /\ AlertsStayOpen(tx[s])

\* Nothing takes an alert away.
LEMMA AlertsGrow ==
  ASSUME TypeInv, [Next]_vars, NEW v \in Variants, alerts[v] > 0
  PROVE  alerts'[v] > 0
<1>0. alerts \in [Variants -> Nat]
  BY DEF TypeInv, TypeOK
<1>1. CASE alerts' = alerts
  BY <1>1
<1>2. ASSUME NEW s \in Sessions, NEW status \in {"ACTIVE", "COMMITTED"},
             reserveForOrder(s, status)
      PROVE  alerts'[v] > 0
  BY <1>0, <1>2 DEF reserveForOrder
<1>3. ASSUME NEW s \in Sessions, FlagLowStock(s) PROVE alerts'[v] > 0
  BY <1>0, <1>3 DEF FlagLowStock
<1>4. QED
  BY <1>1, <1>2, <1>3 DEF Next, SessionStep, vars, BeginPlace, InsertItem, OrderCreated, LockRow,
     FindReservations, releaseReservations, scanLowStock, Abort, adjustStock, updateVariant,
     commitReservations

\* A transaction that goes on without a lock more, and does not look for alerts.
LEMMA WaitKept ==
  ASSUME TypeInv, [Next]_vars, NEW s \in Sessions, LocksInOrder(tx[s]), AlertsStayOpen(tx[s]),
         tx'[s].pc = tx[s].pc, tx'[s].op = tx[s].op, tx'[s].rows = tx[s].rows,
         tx'[s].shared = tx[s].shared, tx'[s].locked = tx[s].locked,
         tx'[s].alerted = tx[s].alerted
  PROVE  LocksInOrder(tx'[s]) /\ AlertsStayOpen(tx[s])'
<1>1. tx[s].alerted \subseteq Variants
  BY DEF TypeInv, Txs, Tx
<1>2. QED
  BY <1>1, AlertsGrow DEF LocksInOrder, AlertsStayOpen

\* One that is at none of the stages these are about.
LEMMA WaitNothing ==
  ASSUME NEW s \in Sessions, tx'[s].pc \notin {"lock", "apply"},
         tx'[s].pc = "insert" => tx'[s].locked = {},
         tx'[s].op = "place" => tx'[s].pc = "insert"
  PROVE  LocksInOrder(tx'[s]) /\ AlertsStayOpen(tx[s])'
  BY DEF LocksInOrder, AlertsStayOpen

LEMMA WaitInit == Init => WaitInv
  BY DEF Init, WaitInv, LocksInOrder, AlertsStayOpen, IdleTx

\* What a session's own step makes of its transaction.
LEMMA WaitOwnStep ==
  ASSUME TypeInv, TypeInv', [Next]_vars, NEW s \in Sessions, SessionStep(s),
         LocksInOrder(tx[s]), AlertsStayOpen(tx[s])
  PROVE  LocksInOrder(tx'[s]) /\ AlertsStayOpen(tx[s])'
<1>0. tx[s] \in Txs /\ tx'[s] \in Txs /\ tx \in [Sessions -> Txs]
  BY DEF TypeInv
<1>1. ASSUME NEW o \in Orders, BeginPlace(s, o)
      PROVE  LocksInOrder(tx'[s]) /\ AlertsStayOpen(tx[s])'
  <2>1. tx'[s].pc = "insert" /\ tx'[s].locked = {}
    BY <1>0, <1>1 DEF BeginPlace, Become, BeginTx, IdleTx
  <2>2. QED
    BY <2>1, WaitNothing
<1>2. CASE InsertItem(s)
  <2>1. tx'[s].pc = "insert" /\ tx'[s].locked = {}
    BY <1>0, <1>2 DEF InsertItem, Become, Txs, Tx, LocksInOrder
  <2>2. QED
    BY <2>1, WaitNothing
<1>3. CASE OrderCreated(s)
  <2> DEFINE found == {v \in tx[s].rows : alerts[v] > 0}
  <2>1. /\ tx'[s].op = tx[s].op /\ tx'[s].locked = tx[s].locked /\ tx[s].op = "place"
        /\ tx'[s].alerted = found
        /\ alerts' = alerts
    BY <1>0, <1>3 DEF OrderCreated, Become, Txs, Tx, Shape
  <2>2. tx[s].locked = {}
    BY <1>3 DEF OrderCreated, LocksInOrder
  <2>3. QED
    BY <2>1, <2>2, <1>3 DEF OrderCreated, LocksInOrder, AlertsStayOpen
<1>4. CASE LockRow(s)
  <2>1. PICK v \in tx[s].rows :
          /\ IsLowest(v, tx[s].rows \ tx[s].locked)
          /\ Become(s, [tx[s] EXCEPT
                          !.locked = @ \cup {v},
                          !.pc = IF tx[s].rows = tx[s].locked \cup {v} THEN "apply" ELSE "lock"])
    BY <1>4 DEF LockRow
  <2>2. /\ tx'[s].locked = tx[s].locked \cup {v} /\ tx'[s].rows = tx[s].rows
        /\ tx'[s].op = tx[s].op /\ tx'[s].shared = tx[s].shared
        /\ tx'[s].alerted = tx[s].alerted /\ tx'[s].pc \in {"lock", "apply"}
    BY <1>0, <2>1 DEF Become, Txs, Tx
  <2>3. tx[s].pc = "lock" /\ tx[s].rows \subseteq Nat /\ tx[s].alerted \subseteq Variants
    BY <1>0, <1>4, InventoryAssumption DEF LockRow, Txs, Tx, InventoryAssumption
  <2>4. \A w \in tx[s].rows \ (tx[s].locked \cup {v}) : v < w
    BY <2>1, <2>3 DEF IsLowest
  <2>5. LocksInOrder(tx'[s])
    BY <2>2, <2>3, <2>4 DEF LocksInOrder
  <2>6. AlertsStayOpen(tx[s])'
    BY <2>2, <2>3, AlertsGrow DEF AlertsStayOpen
  <2>7. QED
    BY <2>5, <2>6
<1>5. ASSUME NEW o \in Orders, NEW op \in Ops, FindReservations(s, o, op)
      PROVE  LocksInOrder(tx'[s]) /\ AlertsStayOpen(tx[s])'
  <2>1. tx'[s].locked = {} /\ tx'[s].shared = {} /\ tx'[s].op \in RestoreOps
    BY <1>0, <1>5 DEF FindReservations, Become, BeginTx, IdleTx, RestoreOps
  <2>2. QED
    BY <2>1 DEF LocksInOrder, AlertsStayOpen, RestoreOps
<1>6. CASE scanLowStock(s) \/ FlagLowStock(s)
  <2>1. tx'[s].pc \in {"idle", "flag"}
    <3>1. CASE scanLowStock(s)
      BY <1>0, <3>1 DEF scanLowStock, Become, BeginTx, IdleTx
    <3>2. CASE FlagLowStock(s)
      <4>1. PICK v \in tx[s].rows :
              Become(s, IF tx[s].rows = {v} THEN IdleTx ELSE [tx[s] EXCEPT !.rows = @ \ {v}])
        BY <3>2 DEF FlagLowStock
      <4>2. IdleTx.pc = "idle" /\ [tx[s] EXCEPT !.rows = @ \ {v}].pc = "flag"
        BY <1>0, <3>2 DEF FlagLowStock, IdleTx, Txs, Tx
      <4>3. QED
        BY <1>0, <4>1, <4>2 DEF Become
    <3>3. QED
      BY <1>6, <3>1, <3>2
  <2>2. QED
    BY <1>0, <2>1, WaitNothing DEF Txs, Shape
<1>7. CASE \/ Abort(s) \/ releaseReservations(s)
           \/ \E status \in {"ACTIVE", "COMMITTED"} : reserveForOrder(s, status)
  <2>1. tx'[s] = IdleTx
    BY <1>0, <1>7 DEF Abort, releaseReservations, reserveForOrder, Become, CommitTx
  <2>2. QED
    BY <2>1, WaitNothing DEF IdleTx
<1>8. QED
  BY <1>1, <1>2, <1>3, <1>4, <1>5, <1>6, <1>7 DEF SessionStep

\* What anybody else's step leaves of it.
LEMMA OthersStay ==
  ASSUME TypeInv, NEW s \in Sessions, [Next]_vars, ~ SessionStep(s)
  PROVE  /\ tx'[s].pc = tx[s].pc /\ tx'[s].op = tx[s].op /\ tx'[s].rows = tx[s].rows
         /\ tx'[s].shared = tx[s].shared /\ tx'[s].locked = tx[s].locked
         /\ tx'[s].alerted = tx[s].alerted
<1>0. tx[s] \in Txs
  BY DEF TypeInv
<1>1. ASSUME NEW t \in Sessions \ {s}, SessionStep(t)
      PROVE  tx'[s] = tx[s] \/ \E V \in SUBSET Variants : tx'[s] = Misses(tx[s], V)
  <2>1. ASSUME NEW V \in SUBSET Variants, CommitTx(t, V)
        PROVE  tx'[s] = Misses(tx[s], V)
    BY <1>1, <2>1 DEF CommitTx
  <2>2. tx[t].rows \in SUBSET Variants
    BY DEF TypeInv, Txs, Tx
  <2>3. CASE releaseReservations(t) \/ \E status \in {"ACTIVE", "COMMITTED"} : reserveForOrder(t, status)
    BY <2>1, <2>2, <2>3 DEF releaseReservations, reserveForOrder
  <2>4. ASSUME NEW u, Become(t, u) PROVE tx'[s] = tx[s]
    BY <1>1, <2>4 DEF Become, TypeInv
  <2>5. QED
    BY <1>1, <2>3, <2>4 DEF SessionStep, BeginPlace, InsertItem, OrderCreated, LockRow,
       FindReservations, scanLowStock, FlagLowStock, Abort
<1>2. ASSUME NEW o \in Orders, commitReservations(o)
      PROVE  tx'[s] = tx[s] \/ \E V \in SUBSET Variants : tx'[s] = Misses(tx[s], V)
  BY <1>2 DEF commitReservations
<1>3. ASSUME NEW v \in Variants, NEW delta \in Deltas, adjustStock(v, delta)
      PROVE  \E V \in SUBSET Variants : tx'[s] = Misses(tx[s], V)
  BY <1>3 DEF adjustStock
<1>4. ASSUME NEW v \in Variants, NEW units \in FormStocks, updateVariant(v, units)
      PROVE  \E V \in SUBSET Variants : tx'[s] = Misses(tx[s], V)
  BY <1>4 DEF updateVariant
<1>5. tx'[s] = tx[s] \/ \E V \in SUBSET Variants : tx'[s] = Misses(tx[s], V)
  BY <1>1, <1>2, <1>3, <1>4 DEF Next, vars
<1>6. QED
  BY <1>0, <1>5, MissesKeeps

LEMMA WaitStep == TypeInv /\ TypeInv' /\ WaitInv /\ [Next]_vars => WaitInv'
<1> SUFFICES ASSUME TypeInv, TypeInv', WaitInv, [Next]_vars, NEW s \in Sessions
             PROVE  LocksInOrder(tx'[s]) /\ AlertsStayOpen(tx[s])'
  BY DEF WaitInv
<1>1. LocksInOrder(tx[s]) /\ AlertsStayOpen(tx[s])
  BY DEF WaitInv
<1>2. CASE SessionStep(s)
  BY <1>1, <1>2, WaitOwnStep
<1>3. CASE ~ SessionStep(s)
  <2>1. /\ tx'[s].pc = tx[s].pc /\ tx'[s].op = tx[s].op /\ tx'[s].rows = tx[s].rows
        /\ tx'[s].shared = tx[s].shared /\ tx'[s].locked = tx[s].locked
        /\ tx'[s].alerted = tx[s].alerted
    BY <1>3, OthersStay
  <2>2. QED
    BY <1>1, <2>1, WaitKept
<1>4. QED
  BY <1>2, <1>3

LEMMA WaitInvariant == Spec => [](SafeInv /\ WaitInv)
<1>1. SafeInv /\ SafeInv' /\ WaitInv /\ [Next]_vars => WaitInv'
  BY WaitStep DEF SafeInv
<1>2. QED
  BY <1>1, WaitInit, SafeInvariant, PTL DEF Spec

\* Transactions that only lock FOR UPDATE never wait for each other in a circle,
\* for any number of sessions and lines: of two that did, each would be waiting
\* for a row above those it has.
THEOREM SortedLocks == Spec => []SortedLocksNeverCross
<1>1. SafeInv /\ WaitInv => SortedLocksNeverCross
  <2> SUFFICES ASSUME SafeInv, WaitInv, NEW s \in Sessions, NEW t \in Sessions,
                      WaitsFor(s, t), WaitsFor(t, s),
                      tx[s].op # "place", tx[t].op # "place"
               PROVE  FALSE
    BY DEF SortedLocksNeverCross
  <2>1. /\ LocksInOrder(tx[s]) /\ LocksInOrder(tx[t])
        /\ tx[s].pc = "lock" /\ tx[t].pc = "lock"
    BY DEF WaitInv, WaitsFor
  <2>2. PICK v \in tx[t].locked : IsLowest(v, tx[s].rows \ tx[s].locked)
    BY <2>1 DEF WaitsFor, LocksInOrder
  <2>3. PICK w \in tx[s].locked : IsLowest(w, tx[t].rows \ tx[t].locked)
    BY <2>1 DEF WaitsFor, LocksInOrder
  <2>4. w < v /\ v < w
    BY <2>1, <2>2, <2>3 DEF LocksInOrder, IsLowest
  <2>5. v \in Nat /\ w \in Nat
    BY <2>2, <2>3, InventoryAssumption DEF SafeInv, TypeInv, Txs, Tx, InventoryAssumption
  <2>6. QED
    BY <2>4, <2>5
<1>2. QED
  BY <1>1, WaitInvariant, PTL

\* The low-stock notification of a checkout is never lost, on every server, though
\* the checkout looked for one, and at the stock, before it held the row.
THEOREM CheckoutsFlagLowStock == Spec => LowStockFlagged
<1>1. ASSUME SafeInv, WaitInv, [Next]_vars, NEW v \in Variants, NEW o \in Orders,
             reservation[o][v] = "NONE", reservation'[o][v] # "NONE",
             stock'[v] <= LowStockThreshold
      PROVE  alerts'[v] > 0
  <2>0. /\ \A s \in Sessions : tx[s] \in Txs
        /\ alerts \in [Variants -> Nat] /\ stock \in [Variants -> Int]
        /\ Basket[o][v] \in Nat
    BY <1>1, ConstantTypes DEF SafeInv, TypeInv, TypeOK
  <2>1. ASSUME NEW s \in Sessions, NEW status \in {"ACTIVE", "COMMITTED"},
               reserveForOrder(s, status)
        PROVE  alerts'[v] > 0
    <3>1. tx[s].op = "place" /\ tx[s].pc = "apply" /\ tx[s].order \in Orders
      BY <2>0, <2>1 DEF reserveForOrder, Txs, Shape
    <3>2. o = tx[s].order /\ v \in tx[s].rows
      BY <1>1, <2>1, <3>1 DEF reserveForOrder, SafeInv, TypeInv, TypeOK
    <3>3. tx[s].seen[v] = stock[v] /\ stock'[v] = stock[v] - Basket[o][v]
      BY <1>1, <2>1, <3>1, <3>2 DEF reserveForOrder, Taken, SafeInv, CheckoutInv, SnapshotFresh
    <3>4. CASE v \in tx[s].alerted
      <4>1. alerts[v] > 0
        BY <1>1, <3>1, <3>4 DEF WaitInv, AlertsStayOpen
      <4>2. QED
        BY <1>1, <4>1, AlertsGrow DEF SafeInv
    <3>5. CASE v \notin tx[s].alerted
      <4>1. RaisesAlert(s, v)
        BY <1>1, <3>2, <3>3, <3>5 DEF RaisesAlert
      <4>2. alerts'[v] = alerts[v] + 1
        BY <2>1, <4>1 DEF reserveForOrder
      <4>3. QED
        BY <2>0, <4>2
    <3>6. QED
      BY <3>4, <3>5
  <2>2. ASSUME NEW s \in Sessions, releaseReservations(s) PROVE FALSE
    <3>1. tx[s].op \in RestoreOps /\ tx[s].order \in Orders
      BY <2>0, <2>2 DEF releaseReservations, Txs, Shape, RestoreOps
    <3>2. o = tx[s].order /\ v \in tx[s].rows
      BY <1>1, <2>2, <3>1 DEF releaseReservations, SafeInv, TypeInv, TypeOK
    <3>3. QED
      BY <1>1, <3>1, <3>2 DEF SafeInv, RestoreInv
  <2>3. ASSUME NEW p \in Orders, commitReservations(p) PROVE FALSE
    BY <1>1, <2>3 DEF commitReservations, SafeInv, TypeInv, TypeOK
  <2>4. QED
    BY <1>1, <2>1, <2>2, <2>3, ReservationSteps
<1>2. SafeInv /\ WaitInv /\ [Next]_vars =>
        [\A v \in Variants, o \in Orders :
           (reservation[o][v] = "NONE" /\ reservation'[o][v] # "NONE"
              /\ stock'[v] <= LowStockThreshold)
              => alerts'[v] > 0]_vars
  BY <1>1
<1>3. QED
  BY <1>2, WaitInvariant, PTL DEF Spec, LowStockFlagged
=============================================================================
