--------------------------- MODULE ShoppingProofs ---------------------------
(***************************************************************************)
(* The shop, for any number of browsers, tabs and customers. However many  *)
(* pages are submitted while carts are edited and coupons are made and     *)
(* deleted: a page becomes one order at most, a coupon is counted for the  *)
(* orders it discounts and for no more than it may, and a page shows the   *)
(* profile that was saved last. No review form is offered in vain. Who     *)
(* reads a list to its last page has seen all of it but what changes hid.  *)
(***************************************************************************)
EXTENDS MCShopping, FiniteSetTheorems, NaturalsInduction, WellFoundedInduction, TLAPS

\* A request on its way knows its browser, cart and variant, a submit its page.
InFlight ==
    /\ \A e \in Edits : edit[e].at # "idle" =>
          edit[e].browser \in Browsers /\ edit[e].cart \in Carts /\ edit[e].variant \in Variants
    /\ \A s \in Submits : submit[s].at # "idle" =>
          submit[s].key \in Keys /\ submit[s].customer \in Browsers /\ submit[s].cart \in Carts
    /\ \A s \in Submits : submit[s].at = "redeem" => submit[s].coupon # None

TypeInv == TypeOK /\ InFlight

\* The key of a transaction has no order yet, and is nobody else's.
KeysAreHeld ==
    \A s \in Submits : HasKey(s) =>
       /\ ~ Placed(submit[s].key)
       /\ \A t \in Submits \ {s} : HasKey(t) => submit[t].key # submit[s].key

\* The coupon of a transaction is there, and who is past the redemption has the last use.
CouponsAreHeld ==
    \A s \in Submits : HasKey(s) /\ submit[s].coupon # None =>
       /\ submit[s].coupon = coupon
       /\ submit[s].at = "commit" =>
            /\ used[coupon] < UsageLimit
            /\ \A t \in Submits \ {s} : ~ SharesCoupon(t, coupon)

\* Orders refer to the coupon that is there, which counts them.
CouponIsCounted ==
    /\ \A o \in orders : o.coupon \in {None, coupon}
    /\ coupon # None =>
         /\ IsFiniteSet(Redeemed(coupon))
         /\ used[coupon] = Cardinality(Redeemed(coupon))
         /\ used[coupon] <= UsageLimit

OrderInv == OneOrderPerKey /\ KeysAreHeld /\ CouponsAreHeld /\ CouponIsCounted

IInv == TypeInv /\ OrderInv

----------------------------------------------------------------------------
(* Carts *)

\* The end of an edit leaves the others as they are.
LEMMA EditEnds ==
  ASSUME TypeInv, NEW e \in Edits, Ends(e)
  PROVE  /\ edit' \in [Edits -> Edit]
         /\ \A f \in Edits : edit'[f] = edit[f] \/ edit'[f] = IdleEdit
<1>1. IdleEdit \in Edit
  BY DEF IdleEdit, Edit
<1> QED
  BY <1>1 DEF TypeInv, TypeOK, CartTypeOK, Ends

\* Rows that are what they were, or idle, are in flight as before.
LEMMA EditsStay ==
  ASSUME TypeInv, UNCHANGED submit,
         \A f \in Edits : edit'[f] = edit[f] \/ edit'[f] = IdleEdit
  PROVE  InFlight'
<1>1. IdleEdit.at = "idle"
  BY DEF IdleEdit
<1>2. \A f \in Edits : edit'[f].at # "idle" => edit'[f] = edit[f]
  BY <1>1
<1> QED
  BY <1>2 DEF TypeInv, InFlight

\* An answer ends the edit, and may set the cookie of its browser.
LEMMA AnswerEnds ==
  ASSUME TypeInv, NEW e \in Edits, edit[e].at # "idle", Answered(e)
  PROVE  /\ cookie' \in [Browsers -> Carts \cup {None}]
         /\ edit' \in [Edits -> Edit]
         /\ \A f \in Edits : edit'[f] = edit[f] \/ edit'[f] = IdleEdit
<1>1. Ends(e)
  BY DEF Answered
<1>2. edit[e].cart \in Carts
  BY DEF TypeInv, InFlight
<1>3. cookie' \in [Browsers -> Carts \cup {None}]
  BY <1>2 DEF Answered, TypeInv, TypeOK, CartTypeOK
<1> QED
  BY <1>1, <1>3, EditEnds

\* A request that comes in is in flight.
LEMMA Begins ==
  ASSUME TypeInv, NEW e \in Edits, NEW at \in {"add", "update", "remove"},
         NEW b \in Browsers, NEW c \in Carts, NEW v \in Variants, NEW q \in Nat,
         Begin(e, at, b, c, v, q), UNCHANGED submit
  PROVE  edit' \in [Edits -> Edit] /\ InFlight'
<1> DEFINE new == [at |-> at, browser |-> b, cart |-> c, variant |-> v, quantity |-> q,
                   created |-> resolveCart(b) = None]
<1>1. edit' = [edit EXCEPT ![e] = new]
  BY DEF Begin
<1>2. new \in Edit
  <2>1. (resolveCart(b) = None) \in BOOLEAN
    OBVIOUS
  <2> QED
    BY <2>1 DEF Edit
<1>3. edit \in [Edits -> Edit]
  BY DEF TypeInv, TypeOK, CartTypeOK
<1>4. /\ new.at = at /\ new.browser = b /\ new.cart = c /\ new.variant = v
  OBVIOUS
<1> HIDE DEF new
<1>5. /\ edit' \in [Edits -> Edit]
      /\ edit'[e] = new
      /\ \A f \in Edits \ {e} : edit'[f] = edit[f]
  BY <1>1, <1>2, <1>3
<1>6. InFlight'
  BY <1>4, <1>5 DEF TypeInv, InFlight
<1> QED
  BY <1>5, <1>6

\* The cart a browser's cookie leads to is a cart.
LEMMA Resolved ==
  ASSUME TypeInv, NEW b \in Browsers, resolveCart(b) # None
  PROVE  resolveCart(b) \in Carts
BY DEF TypeInv, TypeOK, CartTypeOK, resolveCart

\* Writing a quantity.
LEMMA WritesQuantity ==
  ASSUME TypeInv, NEW c \in Carts, NEW v \in Variants, NEW q \in Nat, SetQuantity(c, v, q)
  PROVE  items' \in [Carts -> [Variants -> Nat]]
<1>1. items \in [Carts -> [Variants -> Nat]]
  BY DEF TypeInv, TypeOK, CartTypeOK
<1>2. items' = [items EXCEPT ![c] = [items[c] EXCEPT ![v] = q]]
  BY <1>1 DEF SetQuantity
<1> QED
  BY <1>1, <1>2

\* Requests on carts keep the types of the rows.
LEMMA CartKeeps ==
  ASSUME TypeInv, CartStep
  PROVE  TypeInv'
<1> USE CartAssumption
<1>u. UNCHANGED <<pages, orderVars, submit>>
  BY DEF CartStep
<1>t. /\ cookie \in [Browsers -> Carts \cup {None}]
      /\ status \in [Carts -> CartStatus \cup {"ABSENT"}]
      /\ items \in [Carts -> [Variants -> Nat]]
      /\ stock \in [Variants -> Int]
      /\ edit \in [Edits -> Edit]
  BY DEF TypeInv, TypeOK, CartTypeOK
<1> SUFFICES /\ CartTypeOK'
             /\ InFlight'
  BY <1>u DEF TypeInv, TypeOK, orderVars
<1>1. ASSUME NEW c \in Carts, cleanCarts(c)
      PROVE  CartTypeOK' /\ InFlight'
  <2>1. status' \in [Carts -> CartStatus \cup {"ABSENT"}]
    BY <1>1, <1>t DEF cleanCarts, CartStatus
  <2>2. UNCHANGED <<cookie, items, stock, edit, submit>>
    BY <1>1, <1>u DEF cleanCarts
  <2>3. CartTypeOK'
    BY <2>1, <2>2 DEF CartTypeOK, TypeInv, TypeOK
  <2> QED
    BY <2>2, <2>3, EditsStay
<1>2. ASSUME NEW e \in Edits, NEW b \in Browsers, NEW v \in Variants, NEW q \in Nat,
             add(e, b, v, q) \/ CreateCart(e, b, v, q) \/ update(e, b, v, q) \/ remove(e, b, v)
      PROVE  CartTypeOK' /\ InFlight'
  <2>q. 0 \in Nat
    OBVIOUS
  <2>1. CASE add(e, b, v, q) \/ update(e, b, v, q) \/ remove(e, b, v)
    <3>1. resolveCart(b) \in Carts
      BY <2>1, Resolved DEF add, update, remove
    <3>2. edit' \in [Edits -> Edit] /\ InFlight'
      BY <1>u, <2>q, <2>1, <3>1, Begins DEF add, update, remove
    <3>3. UNCHANGED <<cookie, status, items, stock>>
      BY <2>1 DEF add, update, remove, cartRows
    <3> QED
      BY <1>t, <3>2, <3>3 DEF CartTypeOK
  <2>2. CASE CreateCart(e, b, v, q)
    <3>1. PICK c \in Carts : /\ status' = [status EXCEPT ![c] = "ACTIVE"]
                             /\ Begin(e, "add", b, c, v, q)
      BY <2>2 DEF CreateCart
    <3>2. edit' \in [Edits -> Edit] /\ InFlight'
      BY <1>u, <2>q, <3>1, Begins
    <3>3. status' \in [Carts -> CartStatus \cup {"ABSENT"}]
      BY <1>t, <3>1 DEF CartStatus
    <3>4. UNCHANGED <<cookie, items, stock>>
      BY <2>2 DEF CreateCart
    <3> QED
      BY <1>t, <3>2, <3>3, <3>4 DEF CartTypeOK
  <2> QED
    BY <1>2, <2>1, <2>2
<1>3. ASSUME NEW e \in Edits, addItem(e)
      PROVE  CartTypeOK' /\ InFlight'
  <2> DEFINE v == edit[e].variant
             newQty == items[edit[e].cart][v] + edit[e].quantity
  <2>u. UNCHANGED <<status, items, stock>>
    BY <1>3 DEF addItem, cartRows
  <2>1. CASE Within(v, newQty)
    <3>1. /\ edit' = [edit EXCEPT ![e].at = "addWrite", ![e].quantity = newQty]
          /\ UNCHANGED cookie
      BY <1>3, <2>1 DEF addItem
    <3>2. newQty \in Nat
      <4>1. edit[e].cart \in Carts /\ v \in Variants /\ edit[e].quantity \in Nat
        BY <1>3, <1>t DEF addItem, TypeInv, InFlight, Edit
      <4> QED
        BY <1>t, <2>1, <4>1 DEF Within
    <3> DEFINE new == [edit[e] EXCEPT !.at = "addWrite", !.quantity = newQty]
    <3>3. edit' = [edit EXCEPT ![e] = new]
      BY <3>1
    <3>4. /\ new \in Edit
          /\ new.at = "addWrite" /\ new.quantity = newQty
          /\ new.browser = edit[e].browser /\ new.cart = edit[e].cart /\ new.variant = v
      <4>1. edit[e] \in Edit
        BY <1>t
      <4> HIDE DEF newQty
      <4> QED
        BY <3>2, <4>1 DEF Edit
    <3>5. edit[e].browser \in Browsers /\ edit[e].cart \in Carts /\ v \in Variants
      BY <1>3 DEF addItem, TypeInv, InFlight
    <3> HIDE DEF new, newQty, v
    <3>6. /\ edit' \in [Edits -> Edit] /\ edit'[e] = new
          /\ \A f \in Edits \ {e} : edit'[f] = edit[f]
      BY <1>t, <3>3, <3>4
    <3>7. InFlight'
      BY <1>u, <3>4, <3>5, <3>6 DEF TypeInv, InFlight
    <3> QED
      BY <1>t, <2>u, <3>1, <3>6, <3>7 DEF CartTypeOK
  <2>2. CASE ~ Within(v, newQty)
    <3>1. Answered(e)
      BY <1>3, <2>2 DEF addItem
    <3>2. edit[e].at # "idle"
      BY <1>3 DEF addItem
    <3> QED
      BY <1>t, <1>u, <2>u, <3>1, <3>2, AnswerEnds, EditsStay DEF CartTypeOK
  <2> QED
    BY <2>1, <2>2
<1>4. ASSUME NEW e \in Edits, AddWrite(e)
      PROVE  CartTypeOK' /\ InFlight'
  <2>1. /\ edit[e].cart \in Carts /\ edit[e].variant \in Variants /\ edit[e].quantity \in Nat
    BY <1>4, <1>t DEF AddWrite, TypeInv, InFlight, Edit
  <2>2. items' \in [Carts -> [Variants -> Nat]]
    BY <1>4, <2>1, WritesQuantity DEF AddWrite
  <2>3. Answered(e) /\ edit[e].at # "idle" /\ UNCHANGED <<status, stock>>
    BY <1>4 DEF AddWrite
  <2> QED
    BY <1>t, <1>u, <2>2, <2>3, AnswerEnds, EditsStay DEF CartTypeOK
<1>5. ASSUME NEW e \in Edits, updateItem(e)
      PROVE  CartTypeOK' /\ InFlight'
  <2>u. UNCHANGED <<cookie, status, items, stock>>
    BY <1>5 DEF updateItem, cartRows
  <2>1. CASE Ends(e)
    BY <1>t, <1>u, <2>u, <2>1, EditEnds, EditsStay DEF CartTypeOK
  <2>2. CASE ~ Ends(e)
    <3>1. /\ edit' = [edit EXCEPT ![e].at = "updateWrite"]
          /\ edit[e].quantity = 0 \/ Within(edit[e].variant, edit[e].quantity)
      BY <1>5, <2>2 DEF updateItem
    <3> DEFINE new == [edit[e] EXCEPT !.at = "updateWrite"]
    <3>2. /\ new \in Edit
          /\ new.at = "updateWrite" /\ new.quantity = edit[e].quantity
          /\ new.browser = edit[e].browser /\ new.cart = edit[e].cart
          /\ new.variant = edit[e].variant
      BY <1>t DEF Edit
    <3>3. /\ edit[e].browser \in Browsers /\ edit[e].cart \in Carts
          /\ edit[e].variant \in Variants
      BY <1>5, <3>1 DEF updateItem, TypeInv, InFlight
    <3>4. edit' = [edit EXCEPT ![e] = new]
      BY <3>1
    <3> HIDE DEF new
    <3>5. /\ edit' \in [Edits -> Edit] /\ edit'[e] = new
          /\ \A f \in Edits \ {e} : edit'[f] = edit[f]
      BY <1>t, <3>2, <3>4
    <3>6. InFlight'
      BY <1>u, <3>2, <3>3, <3>5 DEF TypeInv, InFlight
    <3> QED
      BY <1>t, <2>u, <3>5, <3>6 DEF CartTypeOK
  <2> QED
    BY <2>1, <2>2
<1>6. ASSUME NEW e \in Edits, UpdateWrite(e) \/ removeItem(e)
      PROVE  CartTypeOK' /\ InFlight'
  <2>1. /\ edit[e].cart \in Carts /\ edit[e].variant \in Variants /\ edit[e].quantity \in Nat
    BY <1>6, <1>t DEF UpdateWrite, removeItem, TypeInv, InFlight, Edit
  <2>2. \/ SetQuantity(edit[e].cart, edit[e].variant, edit[e].quantity)
        \/ SetQuantity(edit[e].cart, edit[e].variant, 0)
        \/ UNCHANGED items
    BY <1>6 DEF UpdateWrite, removeItem
  <2>3. items' \in [Carts -> [Variants -> Nat]]
    BY <1>t, <2>1, <2>2, WritesQuantity
  <2>4. Ends(e) /\ UNCHANGED <<cookie, status, stock>>
    BY <1>6 DEF UpdateWrite, removeItem
  <2> QED
    BY <1>t, <1>u, <2>3, <2>4, EditEnds, EditsStay DEF CartTypeOK
<1>7. ASSUME NEW e \in Edits, EditFails(e)
      PROVE  CartTypeOK' /\ InFlight'
  <2>1. UNCHANGED <<status, items, stock>> /\ edit[e].at # "idle"
    BY <1>7 DEF EditFails, cartRows
  <2>2. Answered(e) \/ (Ends(e) /\ UNCHANGED cookie)
    BY <1>7 DEF EditFails
  <2> QED
    BY <1>t, <1>u, <2>1, <2>2, AnswerEnds, EditEnds, EditsStay
       DEF CartTypeOK
<1>8. CASE EditNext
  <2>1. PICK e \in Edits :
           \/ \E b \in Browsers, v \in Variants, q \in Quantities :
                add(e, b, v, q) \/ CreateCart(e, b, v, q) \/ update(e, b, v, q)
           \/ \E b \in Browsers, v \in Variants : remove(e, b, v)
           \/ addItem(e) \/ AddWrite(e) \/ updateItem(e) \/ UpdateWrite(e) \/ removeItem(e)
           \/ EditFails(e)
    BY <1>8 DEF EditNext
  <2> QED
    BY <2>1, <1>2, <1>3, <1>4, <1>5, <1>6, <1>7
<1> QED
  BY <1>1, <1>8 DEF CartStep

----------------------------------------------------------------------------
(* Submits *)

\* A submit that is answered is idle, and the others are where they were.
LEMMA SubmitAnswered ==
  ASSUME TypeInv, NEW s \in Submits, Answer(s)
  PROVE  /\ submit' \in [Submits -> Submit]
         /\ submit'[s] = IdleSubmit
         /\ IdleSubmit.at = "idle"
         /\ \A t \in Submits \ {s} : submit'[t] = submit[t]
<1>1. IdleSubmit \in Submit
  BY DEF IdleSubmit, Submit, Baskets
<1>2. IdleSubmit.at = "idle"
  BY DEF IdleSubmit
<1> HIDE DEF IdleSubmit
<1> QED
  BY <1>1, <1>2 DEF TypeInv, TypeOK, Answer

\* A submit that goes on keeps what it has.
LEMMA SubmitGoesOn ==
  ASSUME TypeInv, NEW s \in Submits,
         NEW at \in {"key", "items", "coupon", "create", "reserve", "redeem", "commit", "dup"},
         GoesOn(s, at)
  PROVE  /\ submit' \in [Submits -> Submit]
         /\ submit'[s].at = at
         /\ submit'[s].key = submit[s].key /\ submit'[s].customer = submit[s].customer
         /\ submit'[s].cart = submit[s].cart /\ submit'[s].items = submit[s].items
         /\ submit'[s].coupon = submit[s].coupon
         /\ \A t \in Submits \ {s} : submit'[t] = submit[t]
<1> DEFINE new == [submit[s] EXCEPT !.at = at]
<1>1. submit \in [Submits -> Submit]
  BY DEF TypeInv, TypeOK
<1>2. submit' = [submit EXCEPT ![s] = new]
  BY DEF GoesOn
<1>3. /\ new \in Submit /\ new.at = at
      /\ new.key = submit[s].key /\ new.customer = submit[s].customer
      /\ new.cart = submit[s].cart /\ new.items = submit[s].items
      /\ new.coupon = submit[s].coupon
  BY <1>1 DEF Submit
<1> HIDE DEF new
<1> QED
  BY <1>1, <1>2, <1>3

\* The steps that change only s's own row; what s may do next is the rest of the lemma.
LEMMA SubmitMoves ==
  ASSUME IInv, NEW s \in Submits,
         submit' \in [Submits -> Submit],
         \A t \in Submits \ {s} : submit'[t] = submit[t],
         UNCHANGED <<cartVars, stock, orderVars, pages>>,
         submit'[s].at # "idle" =>
            /\ submit'[s].key \in Keys /\ submit'[s].customer \in Browsers
            /\ submit'[s].cart \in Carts,
         submit'[s].at = "redeem" => submit'[s].coupon # None,
         HasKey(s)' =>
            /\ ~ Placed(submit'[s].key)
            /\ \A t \in Submits \ {s} : HasKey(t) => submit[t].key # submit'[s].key,
         HasKey(s)' /\ submit'[s].coupon # None =>
            /\ submit'[s].coupon = coupon
            /\ \A t \in Submits \ {s} : ~ OwnsCoupon(t, coupon)
            /\ submit'[s].at = "commit" =>
                 /\ used[coupon] < UsageLimit
                 /\ \A t \in Submits \ {s} : ~ SharesCoupon(t, coupon)
  PROVE  IInv'
<1>u. UNCHANGED <<cookie, status, items, stock, edit, orders, coupon, used, pages>>
  BY DEF cartVars, cartRows, orderVars
<1>1. TypeInv'
  BY <1>u DEF IInv, TypeInv, TypeOK, CartTypeOK, InFlight
<1>3. OneOrderPerKey' /\ CouponIsCounted'
  BY <1>u DEF IInv, OrderInv, OneOrderPerKey, CouponIsCounted, Redeemed
<1>4. KeysAreHeld'
  <2> SUFFICES ASSUME NEW r \in Submits, HasKey(r)'
               PROVE  /\ ~ Placed(submit[r].key)'
                      /\ \A t \in Submits \ {r} : HasKey(t)' => submit'[t].key # submit'[r].key
    BY DEF KeysAreHeld
  <2>1. CASE r = s
    BY <1>u, <2>1 DEF HasKey, Placed
  <2>2. CASE r # s
    BY <1>u, <2>2 DEF HasKey, Placed, IInv, OrderInv, KeysAreHeld
  <2> QED
    BY <2>1, <2>2
<1>5. CouponsAreHeld'
  <2> SUFFICES ASSUME NEW r \in Submits, HasKey(r)', submit'[r].coupon # None
               PROVE  /\ submit'[r].coupon = coupon
                      /\ submit'[r].at = "commit" =>
                           /\ used[coupon] < UsageLimit
                           /\ \A t \in Submits \ {r} : ~ SharesCoupon(t, coupon)'
    BY <1>u DEF CouponsAreHeld, SharesCoupon
  <2>1. CASE r = s
    BY <1>u, <2>1 DEF HasKey, SharesCoupon
  <2>2. CASE r # s
    <3>1. submit'[r] = submit[r] /\ HasKey(r)
      BY <2>2 DEF HasKey
    <3>2. /\ submit[r].coupon = coupon
          /\ submit[r].at = "commit" =>
               /\ used[coupon] < UsageLimit
               /\ \A t \in Submits \ {r} : ~ SharesCoupon(t, coupon)
      BY <3>1 DEF IInv, OrderInv, CouponsAreHeld
    <3>3. ASSUME submit[r].at = "commit" PROVE ~ SharesCoupon(s, coupon)'
      BY <1>u, <2>2, <3>1, <3>2, <3>3 DEF SharesCoupon, OwnsCoupon, HasKey
    <3> QED
      BY <1>u, <2>2, <3>1, <3>2, <3>3 DEF SharesCoupon, HasKey
  <2> QED
    BY <2>1, <2>2
<1> QED
  BY <1>1, <1>3, <1>4, <1>5 DEF IInv, OrderInv

\* An answer without an order gives every lock back.
LEMMA AnswerKeeps ==
  ASSUME IInv, NEW s \in Submits, Answer(s), UNCHANGED <<cartVars, stock, orderVars, pages>>
  PROVE  IInv'
<1>1. TypeInv
  BY DEF IInv
<1>2. /\ submit' \in [Submits -> Submit] /\ submit'[s].at = "idle"
      /\ \A t \in Submits \ {s} : submit'[t] = submit[t]
  BY <1>1, SubmitAnswered
<1>3. ~ HasKey(s)'
  BY <1>2 DEF HasKey
<1> QED
  BY <1>2, <1>3, SubmitMoves

\* So does one that has none yet and goes on to where it needs none.
LEMMA OnTheWayKeeps ==
  ASSUME IInv, NEW s \in Submits, submit[s].at # "idle",
         NEW at \in {"key", "items", "coupon", "create", "dup"}, GoesOn(s, at),
         UNCHANGED <<cartVars, stock, orderVars, pages>>
  PROVE  IInv'
<1>1. TypeInv
  BY DEF IInv
<1>2. /\ submit' \in [Submits -> Submit] /\ submit'[s].at = at
      /\ submit'[s].key = submit[s].key /\ submit'[s].customer = submit[s].customer
      /\ submit'[s].cart = submit[s].cart
      /\ \A t \in Submits \ {s} : submit'[t] = submit[t]
  BY <1>1, SubmitGoesOn
<1>3. submit[s].key \in Keys /\ submit[s].customer \in Browsers /\ submit[s].cart \in Carts
  BY <1>1 DEF TypeInv, InFlight
<1>4. ~ HasKey(s)'
  BY <1>2 DEF HasKey
<1> QED
  BY <1>2, <1>3, <1>4, SubmitMoves

----------------------------------------------------------------------------
(* The steps of a submit *)

LEMMA SubmitPageKeeps ==
  ASSUME IInv, NEW s \in Submits, NEW b \in Browsers, NEW k \in Keys, NEW wants \in BOOLEAN,
         SubmitPage(s, b, k, wants)
  PROVE  IInv'
<1>1. resolveCart(b) \in Carts
  BY Resolved DEF SubmitPage, IInv
<1> DEFINE new == [IdleSubmit EXCEPT !.at = "key", !.key = k,
                     !.customer = b, !.cart = resolveCart(b), !.wants = wants]
<1>2. /\ new \in Submit /\ new.at = "key" /\ new.key = k /\ new.customer = b
      /\ new.cart = resolveCart(b)
  BY <1>1 DEF IdleSubmit, Submit, Baskets
<1>3. submit' = [submit EXCEPT ![s] = new]
  BY DEF SubmitPage
<1>4. submit \in [Submits -> Submit]
  BY DEF IInv, TypeInv, TypeOK
<1> HIDE DEF new
<1>5. /\ submit' \in [Submits -> Submit] /\ submit'[s] = new
      /\ \A t \in Submits \ {s} : submit'[t] = submit[t]
  BY <1>2, <1>3, <1>4
<1>6. UNCHANGED <<cartVars, stock, orderVars, pages>>
  BY DEF SubmitPage
<1>7. ~ HasKey(s)'
  BY <1>2, <1>5 DEF HasKey
<1> QED
  BY <1>1, <1>2, <1>5, <1>6, <1>7, SubmitMoves

LEMMA ReadItemsKeeps ==
  ASSUME IInv, NEW s \in Submits, ReadItems(s)
  PROVE  IInv'
<1> DEFINE basket == items[submit[s].cart]
           at == IF submit[s].wants THEN "coupon" ELSE "create"
           new == [submit[s] EXCEPT !.items = basket, !.at = at]
<1>u. UNCHANGED <<cartVars, stock, orderVars, pages>>
  BY DEF ReadItems
<1>1. CASE Lines(basket) = {}
  BY <1>1, <1>u, AnswerKeeps DEF ReadItems
<1>2. CASE Lines(basket) # {}
  <2>1. submit' = [submit EXCEPT ![s] = new]
    BY <1>2 DEF ReadItems
  <2>2. submit \in [Submits -> Submit] /\ items \in [Carts -> [Variants -> Nat]]
    BY DEF IInv, TypeInv, TypeOK, CartTypeOK
  <2>3. submit[s].key \in Keys /\ submit[s].customer \in Browsers /\ submit[s].cart \in Carts
    BY DEF ReadItems, IInv, TypeInv, InFlight
  <2>4. basket \in Baskets /\ at \in {"coupon", "create"}
    BY <2>2, <2>3 DEF Baskets
  <2> HIDE DEF basket, at
  <2>5. /\ new \in Submit /\ new.at = at
        /\ new.key = submit[s].key /\ new.customer = submit[s].customer
        /\ new.cart = submit[s].cart
    BY <2>2, <2>4 DEF Submit
  <2> HIDE DEF new
  <2>6. /\ submit' \in [Submits -> Submit] /\ submit'[s] = new
        /\ \A t \in Submits \ {s} : submit'[t] = submit[t]
    BY <2>1, <2>2, <2>5
  <2>7. ~ HasKey(s)'
    BY <2>4, <2>5, <2>6 DEF HasKey
  <2> QED
    BY <1>u, <2>3, <2>4, <2>5, <2>6, <2>7, SubmitMoves
<1> QED
  BY <1>1, <1>2

LEMMA ValidateKeeps ==
  ASSUME IInv, NEW s \in Submits, validate(s)
  PROVE  IInv'
<1> DEFINE new == [submit[s] EXCEPT !.coupon = coupon, !.at = "create"]
<1>u. UNCHANGED <<cartVars, stock, orderVars, pages>>
  BY DEF validate
<1>1. CASE Answer(s)
  BY <1>1, <1>u, AnswerKeeps
<1>2. CASE ~ Answer(s)
  <2>1. submit' = [submit EXCEPT ![s] = new]
    BY <1>2 DEF validate
  <2>2. submit \in [Submits -> Submit] /\ coupon \in Coupons \cup {None}
    BY DEF IInv, TypeInv, TypeOK
  <2>3. submit[s].key \in Keys /\ submit[s].customer \in Browsers /\ submit[s].cart \in Carts
    BY DEF validate, IInv, TypeInv, InFlight
  <2>4. /\ new \in Submit /\ new.at = "create"
        /\ new.key = submit[s].key /\ new.customer = submit[s].customer
        /\ new.cart = submit[s].cart
    BY <2>2 DEF Submit
  <2> HIDE DEF new
  <2>5. /\ submit' \in [Submits -> Submit] /\ submit'[s] = new
        /\ \A t \in Submits \ {s} : submit'[t] = submit[t]
    BY <2>1, <2>2, <2>4
  <2>6. ~ HasKey(s)'
    BY <2>4, <2>5 DEF HasKey
  <2> QED
    BY <1>u, <2>3, <2>4, <2>5, <2>6, SubmitMoves
<1> QED
  BY <1>1, <1>2

LEMMA CreateOrderKeeps ==
  ASSUME IInv, NEW s \in Submits, CreateOrder(s)
  PROVE  IInv'
<1> DEFINE gone == submit[s].coupon \notin {None, coupon}
<1>u. UNCHANGED <<cartVars, stock, orderVars, pages>>
  BY DEF CreateOrder
<1>1. CASE Placed(submit[s].key) /\ GoesOn(s, "dup")
  BY <1>1, <1>u, OnTheWayKeeps DEF CreateOrder
<1>2. CASE Answer(s)
  BY <1>2, <1>u, AnswerKeeps
<1>3. CASE ~ Placed(submit[s].key) /\ ~ gone /\ GoesOn(s, "reserve")
  <2>1. /\ submit' \in [Submits -> Submit] /\ submit'[s].at = "reserve"
        /\ submit'[s].key = submit[s].key /\ submit'[s].customer = submit[s].customer
        /\ submit'[s].cart = submit[s].cart /\ submit'[s].coupon = submit[s].coupon
        /\ \A t \in Submits \ {s} : submit'[t] = submit[t]
    BY <1>3, SubmitGoesOn DEF IInv
  <2>2. submit[s].key \in Keys /\ submit[s].customer \in Browsers /\ submit[s].cart \in Carts
    BY DEF CreateOrder, IInv, TypeInv, InFlight
  <2>3. \A t \in Submits \ {s} :
          /\ HasKey(t) => submit[t].key # submit[s].key
          /\ submit[s].coupon # None => ~ OwnsCoupon(t, submit[s].coupon)
    BY DEF CreateOrder
  <2>4. submit[s].coupon # None => submit[s].coupon = coupon
    BY <1>3
  <2> QED
    BY <1>u, <1>3, <2>1, <2>2, <2>3, <2>4, SubmitMoves
<1> QED
  BY <1>1, <1>2, <1>3 DEF CreateOrder

\* What one in its transaction has when it goes on.
LEMMA HeldGoesOn ==
  ASSUME IInv, NEW s \in Submits, HasKey(s),
         NEW at \in {"redeem", "commit"}, GoesOn(s, at),
         at = "redeem" => submit[s].coupon # None,
         at = "commit" /\ submit[s].coupon # None =>
            /\ used[coupon] < UsageLimit
            /\ \A t \in Submits \ {s} : ~ SharesCoupon(t, coupon),
         UNCHANGED <<cartVars, stock, orderVars, pages>>
  PROVE  IInv'
<1>1. /\ submit' \in [Submits -> Submit] /\ submit'[s].at = at
      /\ submit'[s].key = submit[s].key /\ submit'[s].customer = submit[s].customer
      /\ submit'[s].cart = submit[s].cart /\ submit'[s].coupon = submit[s].coupon
      /\ \A t \in Submits \ {s} : submit'[t] = submit[t]
  BY SubmitGoesOn DEF IInv
<1>2. submit[s].key \in Keys /\ submit[s].customer \in Browsers /\ submit[s].cart \in Carts
  BY DEF HasKey, IInv, TypeInv, InFlight
<1>3. /\ ~ Placed(submit[s].key)
      /\ \A t \in Submits \ {s} : HasKey(t) => submit[t].key # submit[s].key
  BY DEF IInv, OrderInv, KeysAreHeld
<1>4. submit[s].coupon # None =>
         /\ submit[s].coupon = coupon
         /\ \A t \in Submits \ {s} : ~ OwnsCoupon(t, coupon)
  <2> SUFFICES ASSUME submit[s].coupon # None
               PROVE  /\ submit[s].coupon = coupon
                      /\ \A t \in Submits \ {s} : ~ OwnsCoupon(t, coupon)
    OBVIOUS
  <2>1. submit[s].coupon = coupon
    BY DEF IInv, OrderInv, CouponsAreHeld
  <2>2. ASSUME NEW t \in Submits \ {s}, OwnsCoupon(t, coupon) PROVE FALSE
    <3>1. HasKey(t) /\ submit[t].at = "commit" /\ submit[t].coupon # None
      BY <2>1, <2>2 DEF OwnsCoupon, HasKey
    <3>2. ~ SharesCoupon(s, coupon)
      BY <3>1 DEF IInv, OrderInv, CouponsAreHeld
    <3> QED
      BY <2>1, <3>2 DEF SharesCoupon
  <2> QED
    BY <2>1, <2>2
<1> QED
  BY <1>1, <1>2, <1>3, <1>4, SubmitMoves

LEMMA ReserveKeeps ==
  ASSUME IInv, NEW s \in Submits, Reserve(s)
  PROVE  IInv'
<1>u. UNCHANGED <<cartVars, stock, orderVars, pages>>
  BY DEF Reserve
<1>1. CASE Answer(s)
  BY <1>1, <1>u, AnswerKeeps
<1>2. CASE GoesOn(s, IF submit[s].coupon = None THEN "commit" ELSE "redeem")
  <2>1. HasKey(s)
    BY DEF Reserve, HasKey
  <2>2. CASE submit[s].coupon = None
    <3>1. GoesOn(s, "commit")
      BY <1>2, <2>2
    <3> QED
      BY <1>u, <2>1, <2>2, <3>1, HeldGoesOn
  <2>3. CASE submit[s].coupon # None
    <3>1. GoesOn(s, "redeem")
      BY <1>2, <2>3
    <3> QED
      BY <1>u, <2>1, <2>3, <3>1, HeldGoesOn
  <2> QED
    BY <2>2, <2>3
<1> QED
  BY <1>1, <1>2 DEF Reserve

LEMMA RedeemKeeps ==
  ASSUME IInv, NEW s \in Submits, redeemInTx(s)
  PROVE  IInv'
<1>u. UNCHANGED <<cartVars, stock, orderVars, pages>>
  BY DEF redeemInTx
<1>1. CASE Answer(s)
  BY <1>1, <1>u, AnswerKeeps
<1>2. CASE ~ Answer(s)
  <2>1. HasKey(s) /\ submit[s].coupon # None
    BY DEF redeemInTx, HasKey, IInv, TypeInv, InFlight
  <2>2. submit[s].coupon = coupon
    BY <2>1 DEF IInv, OrderInv, CouponsAreHeld
  <2>3. /\ GoesOn(s, "commit") /\ used[coupon] < UsageLimit
        /\ \A t \in Submits \ {s} : ~ SharesCoupon(t, coupon)
    BY <1>2, <2>2 DEF redeemInTx
  <2> QED
    BY <1>u, <2>1, <2>3, HeldGoesOn
<1> QED
  BY <1>1, <1>2

\* The commit: the order's key is new, and with a coupon its use is the last one checked.
LEMMA CommitKeeps ==
  ASSUME IInv, NEW s \in Submits, Commit(s)
  PROVE  IInv'
<1> USE CheckoutAssumption, CartAssumption
<1> DEFINE c == submit[s].coupon
<1>t. /\ submit \in [Submits -> Submit] /\ orders \subseteq Order
      /\ used \in [Coupons -> Nat] /\ coupon \in Coupons \cup {None}
      /\ status \in [Carts -> CartStatus \cup {"ABSENT"}] /\ stock \in [Variants -> Int]
  BY DEF IInv, TypeInv, TypeOK, CartTypeOK
<1>u. UNCHANGED <<cookie, items, edit, pages, coupon>>
  BY DEF Commit
<1>h. HasKey(s)
  BY DEF Commit, HasKey
<1>1. submit[s].key \in Keys /\ submit[s].customer \in Browsers /\ submit[s].cart \in Carts
  BY DEF Commit, IInv, TypeInv, InFlight
<1>2. /\ submit' \in [Submits -> Submit]
      /\ submit'[s].at = "idle"
      /\ \A t \in Submits \ {s} : submit'[t] = submit[t]
  BY SubmitAnswered DEF Commit, IInv
<1>3. ~ HasKey(s)'
  BY <1>2 DEF HasKey
<1>4. orders' = orders \cup {Written(s)}
  BY DEF Commit
<1>5. Written(s) \in Order /\ Written(s).key = submit[s].key /\ Written(s).coupon = c
  BY <1>t, <1>1 DEF Written, Order, Submit
<1>6. c # None => c = coupon
  BY <1>h DEF IInv, OrderInv, CouponsAreHeld
<1>7. /\ ~ Placed(submit[s].key)
      /\ \A t \in Submits \ {s} : HasKey(t) => submit[t].key # submit[s].key
  BY <1>h DEF IInv, OrderInv, KeysAreHeld
<1>8. Written(s) \notin orders
  BY <1>5, <1>7 DEF Placed
<1>9. used' \in [Coupons -> Nat]
  BY <1>t, <1>6 DEF Commit
<1>10. TypeInv'
  <2>1. stock' \in [Variants -> Int]
    BY <1>t DEF Commit, Submit, Baskets
  <2>2. status' \in [Carts -> CartStatus \cup {"ABSENT"}]
    BY <1>t DEF Commit, CartStatus
  <2>3. InFlight'
    BY <1>2, <1>u DEF IInv, TypeInv, InFlight
  <2> QED
    BY <1>t, <1>u, <1>2, <1>4, <1>5, <1>9, <2>1, <2>2, <2>3 DEF IInv, TypeInv, TypeOK, CartTypeOK
<1>12. OneOrderPerKey'
  BY <1>4, <1>5, <1>7 DEF IInv, OrderInv, OneOrderPerKey, Placed
<1>13. KeysAreHeld'
  BY <1>2, <1>3, <1>4, <1>5, <1>7 DEF IInv, OrderInv, KeysAreHeld, Placed, HasKey
<1>14. CASE c = None
  <2>1. used' = used
    BY <1>14 DEF Commit
  <2>2. CouponsAreHeld'
    BY <1>2, <1>3, <1>u, <2>1 DEF IInv, OrderInv, CouponsAreHeld, HasKey, SharesCoupon
  <2>3. coupon # None => Redeemed(coupon)' = Redeemed(coupon)
    BY <1>4, <1>5, <1>u, <1>14 DEF Redeemed
  <2>4. \A o \in orders' : o.coupon \in {None, coupon'}
    BY <1>4, <1>5, <1>u, <1>14 DEF IInv, OrderInv, CouponIsCounted
  <2>5. CouponIsCounted'
    BY <1>u, <2>1, <2>3, <2>4 DEF IInv, OrderInv, CouponIsCounted
  <2> QED
    BY <1>10, <1>12, <1>13, <2>2, <2>5 DEF IInv, OrderInv
<1>15. CASE c # None
  <2>1. c = coupon /\ coupon \in Coupons /\ coupon' = coupon
    BY <1>6, <1>15, <1>t, <1>u
  <2>2. used' = [used EXCEPT ![coupon] = @ + 1]
    BY <1>15, <2>1 DEF Commit
  <2>3. /\ used[coupon] < UsageLimit
        /\ \A t \in Submits \ {s} : ~ SharesCoupon(t, coupon)
    BY <1>h, <1>15 DEF IInv, OrderInv, CouponsAreHeld, Commit
  <2>4. used'[coupon] = used[coupon] + 1 /\ used[coupon] + 1 <= UsageLimit
    BY <1>t, <2>1, <2>2, <2>3
  <2>5. CouponsAreHeld'
    <3> SUFFICES ASSUME NEW r \in Submits, HasKey(r)', submit'[r].coupon # None
                 PROVE  FALSE
      BY DEF CouponsAreHeld
    <3>1. r # s /\ submit'[r] = submit[r] /\ HasKey(r)
      BY <1>2, <1>3 DEF HasKey
    <3>2. submit[r].coupon = coupon
      BY <3>1 DEF IInv, OrderInv, CouponsAreHeld
    <3> QED
      BY <2>3, <3>1, <3>2 DEF SharesCoupon
  <2>6. Redeemed(coupon)' = Redeemed(coupon) \cup {Written(s)}
    BY <1>4, <1>5, <2>1 DEF Redeemed
  <2>7. Written(s) \notin Redeemed(coupon)
    BY <1>8 DEF Redeemed
  <2>8. IsFiniteSet(Redeemed(coupon)) /\ used[coupon] = Cardinality(Redeemed(coupon))
    BY <1>15, <2>1 DEF IInv, OrderInv, CouponIsCounted
  <2>9. /\ IsFiniteSet(Redeemed(coupon)')
        /\ Cardinality(Redeemed(coupon)') = Cardinality(Redeemed(coupon)) + 1
    BY <2>6, <2>7, <2>8, FS_AddElement
  <2>10. \A o \in orders' : o.coupon \in {None, coupon'}
    BY <1>4, <1>5, <2>1 DEF IInv, OrderInv, CouponIsCounted
  <2>11. CouponIsCounted'
    BY <2>1, <2>4, <2>8, <2>9, <2>10 DEF CouponIsCounted
  <2> QED
    BY <1>10, <1>12, <1>13, <2>5, <2>11 DEF IInv, OrderInv
<1> QED
  BY <1>14, <1>15

----------------------------------------------------------------------------
(* Pages and coupons *)

LEMMA CreateCouponKeeps ==
  ASSUME IInv, NEW c \in Coupons, createCoupon(c)
  PROVE  IInv'
<1> USE CheckoutAssumption
<1>u. UNCHANGED <<cookie, status, items, stock, edit, orders, used, pages, submit>>
  BY DEF createCoupon, cartVars, cartRows
<1>1. coupon = None /\ coupon' = c /\ used[c] = 0
  BY DEF createCoupon
<1>2. TypeInv'
  BY <1>u, <1>1 DEF IInv, TypeInv, TypeOK, CartTypeOK, InFlight
<1>3. OneOrderPerKey' /\ KeysAreHeld'
  BY <1>u DEF IInv, OrderInv, OneOrderPerKey,
              KeysAreHeld, HasKey, Placed
<1>4. CouponsAreHeld'
  BY <1>u, <1>1 DEF IInv, OrderInv, CouponsAreHeld, HasKey, SharesCoupon
<1>5. CouponIsCounted'
  <2>1. \A o \in orders : o.coupon = None
    BY <1>1 DEF IInv, OrderInv, CouponIsCounted
  <2>2. Redeemed(coupon)' = {}
    BY <1>u, <1>1, <2>1 DEF Redeemed
  <2> QED
    BY <1>u, <1>1, <2>1, <2>2, FS_EmptySet DEF CouponIsCounted
<1> QED
  BY <1>2, <1>3, <1>4, <1>5 DEF IInv, OrderInv

LEMMA RemoveCouponKeeps ==
  ASSUME IInv, removeCoupon
  PROVE  IInv'
<1> USE CheckoutAssumption
<1> DEFINE Cleared(o) == [o EXCEPT !.coupon = IF @ = coupon THEN None ELSE @]
<1>u. UNCHANGED <<cookie, status, items, stock, edit, used, pages, submit>>
  BY DEF removeCoupon, cartVars, cartRows
<1>1. coupon # None /\ coupon' = None /\ orders' = {Cleared(o) : o \in orders}
  BY DEF removeCoupon
<1>2. \A o \in Order : Cleared(o) \in Order /\ Cleared(o).key = o.key
  BY DEF Order
<1>3. \A o \in orders : o \in Order /\ o.coupon \in {None, coupon}
  BY DEF IInv, TypeInv, TypeOK, OrderInv, CouponIsCounted
<1>4. \A o \in orders : Cleared(o).coupon = None
  BY <1>1, <1>3 DEF Order
<1> HIDE DEF Cleared
<1>5. TypeInv'
  BY <1>u, <1>1, <1>2, <1>3 DEF IInv, TypeInv, TypeOK, CartTypeOK, InFlight
<1>7. OneOrderPerKey'
  <2> SUFFICES ASSUME NEW o \in orders, NEW p \in orders, Cleared(o).key = Cleared(p).key
               PROVE  Cleared(o) = Cleared(p)
    BY <1>1 DEF OneOrderPerKey
  <2> QED
    BY <1>2, <1>3 DEF IInv, OrderInv, OneOrderPerKey
<1>8. \A k : Placed(k)' <=> Placed(k)
  BY <1>1, <1>2, <1>3 DEF Placed
<1>9. KeysAreHeld'
  BY <1>u, <1>8 DEF IInv, OrderInv, KeysAreHeld, HasKey
<1>10. CouponsAreHeld'
  <2> SUFFICES ASSUME NEW r \in Submits, HasKey(r), submit[r].coupon # None PROVE FALSE
    BY <1>u DEF CouponsAreHeld, HasKey
  <2>1. submit[r].coupon = coupon
    BY DEF IInv, OrderInv, CouponsAreHeld
  <2> QED
    BY <2>1 DEF removeCoupon, SharesCoupon
<1>11. CouponIsCounted'
  BY <1>1, <1>4 DEF CouponIsCounted
<1> QED
  BY <1>5, <1>7, <1>9, <1>10, <1>11 DEF IInv, OrderInv

LEMMA FormKeeps ==
  ASSUME IInv, NEW b \in Browsers, NEW k \in Keys, form(b, k)
  PROVE  IInv'
<1>1. pages' \in [Browsers -> SUBSET Keys]
  BY DEF form, IInv, TypeInv, TypeOK
<1>2. UNCHANGED <<cookie, status, items, stock, edit, orders, coupon, used, submit>>
  BY DEF form, cartVars, cartRows, orderVars
<1> QED
  BY <1>1, <1>2
     DEF IInv, TypeInv, TypeOK, CartTypeOK, InFlight,
         OrderInv, OneOrderPerKey, KeysAreHeld, CouponsAreHeld, CouponIsCounted, HasKey,
         Placed, SharesCoupon, Redeemed

LEMMA CartStepKeeps ==
  ASSUME IInv, CartStep
  PROVE  IInv'
<1>1. TypeInv'
  BY CartKeeps DEF IInv
<1>2. UNCHANGED <<orders, coupon, used, submit>>
  BY DEF CartStep, orderVars
<1>3. OrderInv'
  BY <1>2 DEF IInv, OrderInv, OneOrderPerKey, KeysAreHeld, CouponsAreHeld, CouponIsCounted,
              HasKey, Placed, SharesCoupon, Redeemed
<1> QED
  BY <1>1, <1>3 DEF IInv

----------------------------------------------------------------------------
(* Theorems *)

LEMMA Initially == Init => IInv
<1> SUFFICES ASSUME Init PROVE IInv
  OBVIOUS
<1> USE CheckoutAssumption, CartAssumption
<1>1. IdleSubmit \in Submit /\ IdleSubmit.at = "idle"
  BY DEF IdleSubmit, Submit, Baskets
<1>2. IdleEdit \in Edit /\ IdleEdit.at = "idle"
  BY DEF IdleEdit, Edit
<1>3. TypeInv
  BY <1>1, <1>2 DEF Init, CartInit, TypeInv, TypeOK, CartTypeOK, InFlight, CartStatus
<1>5. OrderInv
  BY <1>1 DEF Init, OrderInv, OneOrderPerKey, KeysAreHeld, CouponsAreHeld, CouponIsCounted, HasKey
<1> QED
  BY <1>3, <1>5 DEF IInv

LEMMA Inductive == IInv /\ [Next]_vars => IInv'
<1> SUFFICES ASSUME IInv, [Next]_vars PROVE IInv'
  OBVIOUS
<1>1. ASSUME NEW s \in Submits, SubmitStep(s) PROVE IInv'
  <2>1. CASE placeOrder(s)
    BY <2>1, AnswerKeeps, OnTheWayKeeps DEF placeOrder
  <2>2. CASE Duplicate(s) \/ SubmitFails(s)
    BY <2>2, AnswerKeeps DEF Duplicate, SubmitFails
  <2> QED
    BY <1>1, <2>1, <2>2, ReadItemsKeeps, ValidateKeeps, CreateOrderKeeps, ReserveKeeps,
       RedeemKeeps, CommitKeeps DEF SubmitStep
<1>2. CASE UNCHANGED vars
  BY <1>2
     DEF vars, cartRows, orderVars, IInv, TypeInv, TypeOK, CartTypeOK, InFlight,
         OrderInv, OneOrderPerKey, KeysAreHeld, CouponsAreHeld,
         CouponIsCounted, HasKey, Placed, SharesCoupon, Redeemed
<1> QED
  BY <1>1, <1>2, CartStepKeeps, FormKeeps, SubmitPageKeeps, CreateCouponKeeps, RemoveCouponKeeps
     DEF Next

LEMMA IInvImplies == IInv => TypeOK /\ OneOrderPerKey /\ CouponCounted
<1> SUFFICES ASSUME IInv PROVE CouponCounted
  BY DEF IInv, TypeInv, OrderInv
<1> QED
  BY DEF IInv, OrderInv, CouponIsCounted, CouponCounted, CouponWithinLimit, UsedCountExact

\* The rows have their types, and a request on its way knows its cart.
THEOREM CheckoutTypes == Spec => []TypeOK
<1> QED
  BY Initially, Inductive, IInvImplies, PTL DEF Spec

\* Submits of one page, however they overlap with others, fail and are repeated,
\* create one order (placeOrder and the unique idempotencyKey).
THEOREM OneOrderOfAPage == Spec => []OneOrderPerKey
<1> QED
  BY Initially, Inductive, IInvImplies, PTL DEF Spec

\* A coupon's usedCount is the number of orders it discounts, and within its limit, for
\* any number of submits at the same time (validate, redeemInTx).
THEOREM CouponsAreCounted == Spec => []CouponCounted
<1> QED
  BY Initially, Inductive, IInvImplies, PTL DEF Spec

----------------------------------------------------------------------------
(* The profile (Account) *)

\* Every address is a default one, and one that is alone has what was written last.
Addresses ==
    /\ DOMAIN address \subseteq Nat
    /\ DOMAIN address = {} => written = 0
    /\ \A a \in DOMAIN address : address[a].isDefault /\ address[a].at \in Nat
    /\ \A a \in DOMAIN address : DOMAIN address = {a} => address[a].at = written

Forms == [op : {"upload", "customer", "find", "redirect"}, save : Nat, file : BOOLEAN,
          line1 : BOOLEAN]
AddressWrites == [op : {"address", "redirect"}, save : Nat, row : Nat \cup {None}]
Reads == [op : {"page"}, asked : Nat, picture : Nat]

\* What a request goes by: the picture it will save is on the disk, and the address it has
\* found is there.
ProfileOK(s, disk, rows, last) ==
    \/ s = Profile!Idle
    \/ s \in Forms /\ (s.op = "customer" /\ s.file => s.save \in disk)
    \/ /\ s \in AddressWrites
       /\ s.op = "address" => s.row \in DOMAIN rows \cup {None}
    \/ s \in Reads /\ s.picture \in disk \cup {0} /\ s.asked <= last

AccountTypes ==
    /\ saves \in Nat /\ written \in Nat /\ picture \in Nat
    /\ saving = [t \in Tabs |-> saving[t]]
    /\ shown \in [Tabs -> [asked : Nat, picture : Nat, address : Nat]]

AccountInv ==
    /\ AccountTypes
    /\ Addresses
    /\ picture \in files \cup {0}
    /\ \A t \in Tabs : ProfileOK(saving[t], files, address, written)
    /\ Profile!SavedIsShown

\* What a request knows, by where it stands.
LEMMA ProfileShapes ==
    ASSUME NEW s, NEW disk, NEW rows, NEW last, ProfileOK(s, disk, rows, last)
    PROVE  /\ s.op \in {"upload", "customer", "find"} =>
                s \in Forms /\ (s.op = "customer" /\ s.file => s.save \in disk)
           /\ s.op = "address" =>
                s \in AddressWrites /\ s.row \in DOMAIN rows \cup {None}
           /\ s.op = "page" => s \in Reads /\ s.picture \in disk \cup {0} /\ s.asked <= last
<1>1. /\ s = Profile!Idle => s.op = "idle"
      /\ s \in Forms => s.op \in {"upload", "customer", "find", "redirect"}
      /\ s \in AddressWrites => s.op \in {"address", "redirect"}
      /\ s \in Reads => s.op = "page"
  BY DEF Profile!Idle, Forms, AddressWrites, Reads
<1>2. CASE s = Profile!Idle
  BY <1>1, <1>2
<1>3. CASE s \in Forms /\ (s.op = "customer" /\ s.file => s.save \in disk)
  BY <1>1, <1>3
<1>4. CASE s \in AddressWrites /\ (s.op = "address" => s.row \in DOMAIN rows \cup {None})
  BY <1>1, <1>4
<1>5. CASE s \in Reads /\ s.picture \in disk \cup {0} /\ s.asked <= last
  BY <1>1, <1>5
<1> QED
  BY <1>2, <1>3, <1>4, <1>5 DEF ProfileOK

LEMMA AccountInit == ASSUME Profile!Init PROVE AccountInv
<1> USE DEF Profile!Init
<1>1. AccountTypes /\ Addresses
  BY DEF AccountTypes, Addresses
<1>2. \A t \in Tabs : saving[t] = Profile!Idle
  OBVIOUS
<1>3. \A t \in Tabs : ProfileOK(saving[t], files, address, written)
  BY <1>2 DEF ProfileOK
<1>5. Profile!SavedIsShown
  BY DEF Profile!SavedIsShown
<1> QED
  BY <1>1, <1>3, <1>5 DEF AccountInv

LEMMA AccountUnchanged == ASSUME AccountInv, UNCHANGED accountVars PROVE AccountInv'
<1>1. /\ saves' = saves /\ picture' = picture /\ files' = files /\ address' = address
      /\ written' = written /\ saving' = saving /\ shown' = shown
  BY DEF accountVars
<1> QED
  BY <1>1 DEF AccountInv, AccountTypes, Addresses, ProfileOK, Profile!SavedIsShown,
              Profile!SingleDefault, Profile!Defaults

\* A step of a request that leaves the addresses alone and no less on the disk.
LEMMA AddressStays ==
    ASSUME AccountInv, NEW t \in Tabs, NEW s, Profile!Goes(t, s), ProfileOK(s, files', address', written'),
           UNCHANGED <<address, written, shown>>, saves' \in Nat, files \subseteq files',
           picture' \in Nat, picture' \in files' \cup {0}
    PROVE  AccountInv'
<1>1. /\ saving' = [u \in Tabs |-> IF u = t THEN s ELSE saving[u]]
      /\ address' = address /\ written' = written /\ shown' = shown
  BY DEF AccountInv, AccountTypes, Profile!Goes
<1>2. AccountTypes' /\ Addresses'
  BY <1>1 DEF AccountInv, AccountTypes, Addresses
<1>3. ASSUME NEW u \in Tabs PROVE ProfileOK(saving[u], files, address, written)'
  <2>1. CASE u = t
    BY <1>1, <2>1 DEF ProfileOK
  <2>2. CASE u # t
    BY <1>1, <2>2 DEF AccountInv, ProfileOK
  <2> QED
    BY <2>1, <2>2
<1>4. Profile!SavedIsShown'
  <2>1. Profile!SingleDefault' <=> Profile!SingleDefault
    BY <1>1 DEF Profile!SingleDefault, Profile!Defaults
  <2>2. ASSUME NEW u \in Tabs
        PROVE  /\ Profile!SingleDefault' => shown[u].address >= shown[u].asked
               /\ shown[u].picture \in files' \cup {0}
    BY <2>1 DEF AccountInv, Profile!SavedIsShown
  <2> QED
    BY <1>1, <2>2 DEF Profile!SavedIsShown
<1> QED
  BY <1>2, <1>3, <1>4 DEF AccountInv

LEMMA AccountStep == ASSUME AccountInv, Profile!Next PROVE AccountInv'
<1> USE DEF AccountTypes
<1>1. /\ AccountTypes /\ \A t \in Tabs : ProfileOK(saving[t], files, address, written)
      /\ picture \in files \cup {0} /\ AccountInv
  BY DEF AccountInv
<1>2. ASSUME NEW t \in Tabs, Profile!Goes(t, Profile!Idle),
             UNCHANGED <<saves, picture, files, address, written, shown>>
      PROVE  AccountInv'
  BY <1>1, <1>2, AddressStays DEF ProfileOK, Profile!Idle
<1>3. ASSUME NEW t \in Tabs, Profile!update(t) PROVE AccountInv'
  <2>1. PICK file \in BOOLEAN, line1 \in BOOLEAN :
          Profile!Goes(t, [op |-> IF file THEN "upload" ELSE "customer",
                           save |-> saves', file |-> file, line1 |-> line1])
    BY <1>3 DEF Profile!update
  <2> DEFINE s == [op |-> IF file THEN "upload" ELSE "customer",
                   save |-> saves', file |-> file, line1 |-> line1]
  <2>2. saves' \in Nat /\ UNCHANGED <<picture, files, address, written, shown>>
    BY <1>1, <1>3 DEF Profile!update
  <2>3. s \in Forms /\ (s.op = "customer" => ~s.file)
    <3>1. CASE file
      BY <2>2, <3>1 DEF Forms
    <3>2. CASE ~file
      BY <2>2, <3>2 DEF Forms
    <3> QED
      BY <3>1, <3>2
  <2>4. Profile!Goes(t, s)
    BY <2>1
  <2> HIDE DEF s
  <2>5. ProfileOK(s, files', address', written')
    BY <2>3 DEF ProfileOK
  <2> QED
    BY <2>2, <2>4, <2>5, <1>1, AddressStays
<1>4. ASSUME NEW t \in Tabs, saving[t].op \in {"upload", "customer", "find"}
      PROVE  /\ saving[t] \in Forms
             /\ (saving[t].op = "customer" /\ saving[t].file => saving[t].save \in files)
  BY <1>1, <1>4, ProfileShapes
<1>5. ASSUME NEW t \in Tabs, Profile!Upload(t) PROVE AccountInv'
  <2>1. CASE files' = files \cup {saving[t].save} /\ Profile!Step(t, "customer")
    <3> DEFINE s == [saving[t] EXCEPT !.op = "customer"]
    <3>1. s \in Forms /\ s.save \in files'
      BY <1>4, <1>5, <2>1 DEF Forms, Profile!Upload
    <3>2. Profile!Goes(t, s) /\ UNCHANGED <<saves, picture, address, written, shown>>
      BY <1>5, <2>1 DEF Profile!Upload, Profile!Step
    <3> HIDE DEF s
    <3>3. ProfileOK(s, files', address', written')
      BY <3>1 DEF ProfileOK
    <3> QED
      BY <2>1, <3>2, <3>3, <1>1, AddressStays
  <2>2. CASE Profile!Goes(t, Profile!Idle) /\ UNCHANGED files
    BY <1>2, <1>5, <2>2 DEF Profile!Upload
  <2> QED
    BY <1>5, <2>1, <2>2 DEF Profile!Upload
<1>6. ASSUME NEW t \in Tabs, Profile!UpdateCustomer(t) PROVE AccountInv'
  <2> DEFINE op == IF saving[t].line1 THEN "find" ELSE "redirect"
             s == [saving[t] EXCEPT !.op = op]
  <2>1. /\ saving[t] \in Forms /\ saving[t].op = "customer"
        /\ saving[t].file => saving[t].save \in files
    BY <1>4, <1>6 DEF Profile!UpdateCustomer
  <2>2. op \in {"find", "redirect"}
    OBVIOUS
  <2>3. Profile!Goes(t, s) /\ UNCHANGED <<saves, files, address, written, shown>>
    BY <1>6 DEF Profile!UpdateCustomer, Profile!Step
  <2> HIDE DEF op
  <2>4. s \in Forms /\ s.op = op
    BY <2>1, <2>2 DEF Forms
  <2> HIDE DEF s
  <2>5. ProfileOK(s, files', address', written')
    BY <2>2, <2>4 DEF ProfileOK
  <2>6. picture' \in Nat /\ picture' \in files' \cup {0}
    <3>1. picture' = IF saving[t].file THEN saving[t].save ELSE picture
      BY <1>6 DEF Profile!UpdateCustomer
    <3>2. saving[t].save \in Nat
      BY <2>1 DEF Forms
    <3> QED
      BY <1>1, <2>1, <2>3, <3>1, <3>2 DEF AccountInv
  <2> QED
    BY <1>1, <2>1, <2>3, <2>5, <2>6, AddressStays
<1>7. ASSUME NEW t \in Tabs, Profile!FindAddress(t) PROVE AccountInv'
  <2>1. PICK a \in IF Profile!Defaults = {} THEN {None} ELSE Profile!Defaults :
          Profile!Goes(t, [op |-> "address", save |-> saving[t].save, row |-> a])
    BY <1>7 DEF Profile!FindAddress
  <2> DEFINE s == [op |-> "address", save |-> saving[t].save, row |-> a]
  <2>2. saving[t].save \in Nat
    BY <1>4, <1>7 DEF Profile!FindAddress, Forms
  <2>4. a \in DOMAIN address \cup {None} /\ a \in Nat \cup {None}
    BY <1>1, <2>1 DEF Profile!Defaults, AccountInv, Addresses
  <2>5. s \in AddressWrites /\ s.op = "address" /\ s.row = a
    BY <2>2, <2>4 DEF AddressWrites
  <2>6. Profile!Goes(t, s) /\ UNCHANGED <<saves, picture, files, address, written, shown>>
    BY <1>7, <2>1 DEF Profile!FindAddress
  <2> HIDE DEF s
  <2>7. ProfileOK(s, files', address', written')
    BY <2>4, <2>5, <2>6 DEF ProfileOK
  <2> QED
    BY <1>1, <2>2, <2>6, <2>7, AddressStays
<1>8. ASSUME NEW t \in Tabs, Profile!WriteAddress(t) PROVE AccountInv'
  <2> DEFINE s == [saving[t] EXCEPT !.op = "redirect"]
             a == IF saving[t].row = None THEN saving[t].save ELSE saving[t].row
  <2>1. /\ saving[t] \in AddressWrites /\ saving[t].op = "address"
        /\ saving[t].row \in DOMAIN address \cup {None}
    BY <1>1, <1>8, ProfileShapes DEF Profile!WriteAddress
  <2>2. a \in Nat
    BY <2>1 DEF AddressWrites
  <2>3. s \in AddressWrites /\ s.op = "redirect"
    BY <2>1 DEF AddressWrites
  <2>4. /\ address' = [b \in DOMAIN address \cup {a} |-> IF b = a THEN Profile!Data ELSE address[b]]
        /\ written' = written + 1 /\ Profile!Goes(t, s)
        /\ saves' = saves /\ picture' = picture /\ files' = files /\ shown' = shown
    BY <1>8 DEF Profile!WriteAddress, Profile!Step
  <2> HIDE DEF s, a
  <2>5. /\ DOMAIN address' = DOMAIN address \cup {a}
        /\ address'[a].isDefault /\ address'[a].at = written'
        /\ \A b \in DOMAIN address : b # a => address'[b] = address[b]
        /\ written' \in Nat
    <3>1. DOMAIN address' = DOMAIN address \cup {a} /\ address'[a] = Profile!Data
      BY <2>4
    <3> QED
      BY <1>1, <2>4, <3>1 DEF Profile!Data
  <2>6. saving' = [u \in Tabs |-> IF u = t THEN s ELSE saving[u]]
    BY <1>1, <2>4 DEF Profile!Goes
  <2>7. AccountTypes'
    BY <1>1, <2>4, <2>5, <2>6
  <2>8. Addresses'
    BY <1>1, <2>2, <2>5 DEF Addresses, AccountInv
  <2>9. ASSUME NEW u \in Tabs PROVE ProfileOK(saving[u], files, address, written)'
    <3>1. CASE u = t
      BY <2>3, <2>6, <3>1 DEF ProfileOK
    <3>2. CASE u # t
      <4>1. saving'[u] = saving[u] /\ ProfileOK(saving[u], files, address, written)
        BY <1>1, <2>6, <3>2
      <4>2. CASE saving[u] \in AddressWrites
        BY <2>5, <4>1, <4>2 DEF ProfileOK, Profile!Idle, Forms, Reads, AddressWrites
      <4>3. CASE saving[u] \in Reads
        BY <1>1, <2>4, <4>1, <4>3 DEF ProfileOK, Reads, Profile!Idle, Forms, AddressWrites
      <4>4. CASE saving[u] \notin AddressWrites \cup Reads
        BY <2>4, <4>1, <4>4 DEF ProfileOK
      <4> QED
        BY <4>2, <4>3, <4>4
    <3> QED
      BY <3>1, <3>2
  <2>10. Profile!SavedIsShown'
    <3>1. Profile!SingleDefault' => Profile!SingleDefault
      <4>1. Profile!Defaults \subseteq Profile!Defaults'
        BY <2>5 DEF Profile!Defaults
      <4> QED
        BY <4>1 DEF Profile!SingleDefault
    <3> QED
      BY <2>4, <3>1 DEF AccountInv, Profile!SavedIsShown
  <2> QED
    BY <2>4, <2>7, <2>8, <2>9, <2>10 DEF AccountInv
<1>9. ASSUME NEW t \in Tabs, Profile!Visit(t) PROVE AccountInv'
  <2> DEFINE s == [op |-> "page", asked |-> written, picture |-> picture]
  <2>1. s \in Reads /\ s.picture = picture /\ s.asked = written /\ s.op = "page"
    BY <1>1 DEF Reads
  <2>2. Profile!Goes(t, s) /\ UNCHANGED <<saves, picture, files, address, written, shown>>
    BY <1>9 DEF Profile!Visit
  <2> HIDE DEF s
  <2>3. ProfileOK(s, files', address', written')
    BY <1>1, <2>1, <2>2 DEF ProfileOK, AccountInv
  <2> QED
    BY <1>1, <2>1, <2>2, <2>3, AddressStays
<1>10. ASSUME NEW t \in Tabs, Profile!getProfile(t) PROVE AccountInv'
  <2>1. PICK at \in IF Profile!First = {} THEN {0} ELSE {address[a].at : a \in Profile!First} :
          shown' = [shown EXCEPT ![t] =
             [asked |-> saving[t].asked, picture |-> saving[t].picture, address |-> at]]
    BY <1>10 DEF Profile!getProfile
  <2>2. /\ saving[t] \in Reads /\ saving[t].picture \in files \cup {0}
        /\ saving[t].asked <= written
    BY <1>1, <1>10, ProfileShapes DEF Profile!getProfile
  <2>3. Profile!SingleDefault => at = written
    <3>1. CASE DOMAIN address = {}
      <4>1. Profile!First = {} /\ written = 0
        BY <3>1 DEF Profile!First, Profile!Defaults, AccountInv, Addresses
      <4> QED
        BY <2>1, <4>1
    <3>2. CASE DOMAIN address # {}
      <4>1. Profile!First = DOMAIN address /\ Profile!Defaults = DOMAIN address
        BY <3>2 DEF Profile!First, Profile!Defaults, AccountInv, Addresses
      <4>2. PICK d \in DOMAIN address : at = address[d].at
        BY <2>1, <3>2, <4>1
      <4>3. Profile!SingleDefault => DOMAIN address = {d}
        BY <4>1 DEF Profile!SingleDefault
      <4> QED
        BY <4>2, <4>3 DEF AccountInv, Addresses
    <3> QED
      BY <3>1, <3>2
  <2>a. at \in Nat
    <3>1. Profile!First \subseteq DOMAIN address
      BY DEF Profile!First, Profile!Defaults
    <3> QED
      BY <2>1, <3>1 DEF AccountInv, Addresses
  <2> DEFINE page == [asked |-> saving[t].asked, picture |-> saving[t].picture, address |-> at]
  <2>4. /\ page \in [asked : Nat, picture : Nat, address : Nat]
        /\ Profile!SingleDefault => page.address >= page.asked
        /\ page.picture \in files \cup {0}
    BY <1>1, <2>2, <2>3, <2>a DEF Reads
  <2>5. shown' = [u \in Tabs |-> IF u = t THEN page ELSE shown[u]]
    BY <1>1, <2>1
  <2> HIDE DEF page
  <2>6. /\ saving' = [u \in Tabs |-> IF u = t THEN Profile!Idle ELSE saving[u]]
        /\ saves' = saves /\ picture' = picture /\ files' = files /\ address' = address
        /\ written' = written
    BY <1>1, <1>10 DEF Profile!getProfile, Profile!Goes
  <2>7. AccountTypes' /\ Addresses' /\ (picture \in files \cup {0})'
    BY <1>1, <2>4, <2>5, <2>6 DEF AccountInv, Addresses
  <2>8. \A u \in Tabs : ProfileOK(saving[u], files, address, written)'
    BY <1>1, <2>6 DEF ProfileOK
  <2>9. Profile!SavedIsShown'
    BY <2>4, <2>5, <2>6 DEF AccountInv, Profile!SavedIsShown, Profile!SingleDefault, Profile!Defaults
  <2> QED
    BY <2>7, <2>8, <2>9 DEF AccountInv
<1> QED
  BY <1>2, <1>3, <1>5, <1>6, <1>7, <1>8, <1>9, <1>10 DEF Profile!Next, Profile!Crash

\* However many tabs save the profile, and wherever they stop, a page shows a picture that is
\* on the disk, and the address that was saved last before it was asked for or a later one, for
\* as long as two first saves have not each made a default row (updateProfile, getProfile).
THEOREM SavedProfileIsShown == ShoppingSpec => []SavedIsShown
<1>1. ShoppingInit => AccountInv
  BY AccountInit DEF ShoppingInit
<1>2. AccountInv /\ [ShoppingNext]_<<vars, listVars, accountVars, reviewVars, about>> => AccountInv'
  <2> SUFFICES ASSUME AccountInv, [ShoppingNext]_<<vars, listVars, accountVars, reviewVars, about>>
               PROVE  AccountInv'
    OBVIOUS
  <2>1. Profile!Next \/ UNCHANGED accountVars
    BY DEF ShoppingNext
  <2> QED
    BY <2>1, AccountStep, AccountUnchanged
<1>3. AccountInv => SavedIsShown
  BY DEF AccountInv, SavedIsShown
<1> QED
  BY <1>1, <1>2, <1>3, PTL DEF ShoppingSpec

----------------------------------------------------------------------------
(* The reviews (Reviews) *)

\* The customer of a tab could write a review now.
MayReview(t) ==
    isActive /\ Reviewed!canReview(SignedIn[t]) /\ ~Reviewed!hasReviewed(SignedIn[t])

HasAnswered(s, question) == s.op = "reading" /\ question \in DOMAIN s.answers

\* What a tab has found out holds unless the right was lost since.
TabKnows(t) ==
    LET s == reviewing[t]
        c == SignedIn[t]
    IN  /\ s.op \in {"idle", "reading", "page", "check", "create", "refused"}
        /\ s.op = "reading" => DOMAIN s.answers \subseteq {"can", "has"}
        /\ t \notin late =>
             /\ s.op = "reading" => isActive
             /\ HasAnswered(s, "can") => (s.answers["can"] => Reviewed!canReview(c))
             /\ HasAnswered(s, "has") => (~s.answers["has"] => ~Reviewed!hasReviewed(c))
             /\ s.op = "page" /\ s.offers => MayReview(t)
             /\ s.op \in {"check", "create"} => MayReview(t)
        /\ s.op = "refused" => t \in late

ReviewInv ==
    /\ order \in [Buyers -> [status : {"none", "open", "bought", "over"}, variant : BOOLEAN]]
    /\ reviewing = [t \in Tabs |-> reviewing[t]]
    /\ \A t \in Tabs : TabKnows(t)

LEMMA ReviewInit == ASSUME Reviewed!Init PROVE ReviewInv
<1> USE DEF Reviewed!Init
<1>1. \A t \in Tabs : reviewing[t] = Reviewed!Idle
  OBVIOUS
<1>2. \A t \in Tabs : TabKnows(t)
  BY <1>1 DEF TabKnows, HasAnswered, Reviewed!Idle
<1> QED
  BY <1>2 DEF ReviewInv

\* Whoever keeps the right goes on knowing; a right is only lost with a note of it.
LEMMA StillKnows ==
    ASSUME NEW t \in Tabs, TabKnows(t), reviewing'[t] = reviewing[t], t \in late => t \in late',
           t \notin late' =>
             /\ isActive => isActive'
             /\ Reviewed!canReview(SignedIn[t]) => Reviewed!canReview(SignedIn[t])'
             /\ SignedIn[t] \in review' => SignedIn[t] \in review
    PROVE  TabKnows(t)'
<1> DEFINE c == SignedIn[t]
<1>1. SignedIn' = SignedIn
  BY DEF SignedIn
<1>2. /\ t \notin late' => (MayReview(t) => MayReview(t)')
      /\ t \notin late' => (~Reviewed!hasReviewed(c) => ~Reviewed!hasReviewed(c)')
  BY <1>1 DEF MayReview, Reviewed!hasReviewed
<1> HIDE DEF c
<1> QED
  BY <1>1, <1>2 DEF TabKnows, HasAnswered, c

LEMMA ReviewUnchanged == ASSUME ReviewInv, UNCHANGED reviewVars PROVE ReviewInv'
<1>1. /\ isActive' = isActive /\ order' = order /\ review' = review
      /\ reviewing' = reviewing /\ late' = late
  BY DEF reviewVars
<1>2. ASSUME NEW t \in Tabs PROVE TabKnows(t)'
  BY <1>1, StillKnows DEF ReviewInv, Reviewed!canReview
<1> QED
  BY <1>1, <1>2 DEF ReviewInv

\* What happens to orders and products.
LEMMA ReviewWorld ==
    ASSUME ReviewInv,
           \/ \E c \in Buyers : Reviewed!OrderMoves(c) \/ Reviewed!CashCollected(c)
           \/ Reviewed!RemoveVariant \/ Reviewed!Toggle \/ Reviewed!remove
    PROVE  ReviewInv'
<1> USE DEF ReviewInv
<1>1. ASSUME NEW t \in Tabs PROVE SignedIn[t] \in Buyers
  BY <1>1, ReviewsAssumption DEF Reviewed!ReviewsAssumption
<1>2. ASSUME NEW c \in Buyers, Reviewed!OrderMoves(c) PROVE ReviewInv'
  <2>1. PICK s \in {"open", "bought", "over"} :
          /\ <<order[c].status, s>> \in 
                {<<"none", "open">>, <<"none", "bought">>, <<"open", "bought">>, <<"open", "over">>,
                 <<"bought", "over">>, <<"over", "open">>, <<"over", "bought">>}
          /\ order' = [order EXCEPT ![c] =
               [status |-> s, variant |-> order[c].variant \/ order[c].status \in {"none", "over"}]]
    BY <1>2 DEF Reviewed!OrderMoves
  <2> DEFINE row == [status |-> s,
                 variant |-> order[c].variant \/ order[c].status \in {"none", "over"}]
  <2>2. row \in [status : {"none", "open", "bought", "over"}, variant : BOOLEAN] /\ row.status = s
    OBVIOUS
  <2>3. order' = [d \in Buyers |-> IF d = c THEN row ELSE order[d]]
    BY <2>1
  <2> HIDE DEF row
  <2>4. /\ isActive' = isActive /\ review' = review /\ reviewing' = reviewing
        /\ late' = IF s = "over" THEN late \cup {t \in Tabs : SignedIn[t] \in {c}} ELSE late
    BY <1>2, <2>2, <2>3 DEF Reviewed!OrderMoves, Reviewed!Lost
  <2>5. ASSUME NEW t \in Tabs PROVE TabKnows(t)'
    <3>1. t \notin late' /\ SignedIn[t] = c => order[c].status # "bought"
      BY <2>1, <2>4
    <3>2. t \notin late' => (Reviewed!canReview(SignedIn[t]) => Reviewed!canReview(SignedIn[t])')
      <4>1. SignedIn' = SignedIn
        BY DEF SignedIn
      <4> QED
        BY <1>1, <2>3, <3>1, <4>1 DEF Reviewed!canReview, Reviewed!PURCHASED_STATUSES
    <3> QED
      BY <2>1, <2>4, <3>2, StillKnows
  <2> QED
    BY <2>1, <2>2, <2>3, <2>4, <2>5
<1>3. CASE Reviewed!RemoveVariant
  <2>1. /\ isActive' = isActive /\ review' = review /\ reviewing' = reviewing
        /\ order' = [c \in Buyers |-> [order[c] EXCEPT !.variant = FALSE]]
        /\ Tabs \subseteq late' /\ late \subseteq late'
    BY <1>1, <1>3 DEF Reviewed!RemoveVariant, Reviewed!Lost
  <2>2. \A t \in Tabs : TabKnows(t)'
    BY <2>1, StillKnows
  <2> QED
    BY <2>1, <2>2
<1>4. CASE Reviewed!Toggle
  <2>1. /\ order' = order /\ review' = review /\ reviewing' = reviewing
        /\ isActive => Tabs \subseteq late'
        /\ late \subseteq late'
    BY <1>1, <1>4 DEF Reviewed!Toggle, Reviewed!Lost
  <2>2. \A t \in Tabs : TabKnows(t)'
    BY <2>1, StillKnows DEF Reviewed!canReview
  <2> QED
    BY <2>1, <2>2
<1>5. CASE Reviewed!remove
  <2>1. /\ isActive' = isActive /\ order' = order /\ reviewing' = reviewing
        /\ late' = late /\ review' \subseteq review
    BY <1>5 DEF Reviewed!remove
  <2>2. \A t \in Tabs : TabKnows(t)'
    BY <2>1, StillKnows DEF Reviewed!canReview
  <2> QED
    BY <2>1, <2>2
<1>6. ASSUME NEW c \in Buyers, Reviewed!CashCollected(c) PROVE ReviewInv'
  <2>1. UNCHANGED <<isActive, order, review, reviewing, late>>
    BY <1>6 DEF Reviewed!CashCollected
  <2>2. \A t \in Tabs : TabKnows(t)'
    BY <2>1, StillKnows DEF Reviewed!canReview
  <2> QED
    BY <2>1, <2>2
<1> QED
  BY <1>2, <1>3, <1>4, <1>5, <1>6

\* A step of a tab, after which the tab itself knows what it should.
LEMMA ReviewTabs ==
    ASSUME ReviewInv, NEW t \in Tabs, NEW s, Reviewed!Goes(t, s),
           UNCHANGED <<isActive, order>>,
           \A u \in Tabs \ {t} : u \in late => u \in late',
           \A u \in Tabs : u \notin late' => (SignedIn[u] \in review' => SignedIn[u] \in review),
           reviewing'[t] = s => TabKnows(t)'
    PROVE  ReviewInv'
<1>1. /\ reviewing' = [u \in Tabs |-> IF u = t THEN s ELSE reviewing[u]]
      /\ isActive' = isActive /\ order' = order
  BY DEF ReviewInv, Reviewed!Goes
<1>2. ASSUME NEW u \in Tabs, u # t PROVE TabKnows(u)'
  BY <1>1, <1>2, StillKnows DEF ReviewInv, Reviewed!canReview
<1>3. TabKnows(t)'
  BY <1>1
<1> QED
  BY <1>1, <1>2, <1>3 DEF ReviewInv

LEMMA ReviewPages ==
    ASSUME ReviewInv, NEW t \in Tabs,
           Reviewed!product(t) \/ Reviewed!Eligible(t) \/ Reviewed!Render(t)
    PROVE  ReviewInv'
<1> DEFINE c == SignedIn[t]
           now == reviewing[t]
<1>1. /\ TabKnows(t) /\ SignedIn' = SignedIn
      /\ now.op = "reading" => DOMAIN now.answers \subseteq {"can", "has"}
  BY DEF ReviewInv, SignedIn, TabKnows
<1>2. CASE Reviewed!product(t)
  <2> DEFINE s == [op |-> "reading", answers |-> <<>>]
  <2>1. /\ Reviewed!Goes(t, s) /\ UNCHANGED <<isActive, order, review>>
        /\ late' = late \ {t} /\ isActive
    BY <1>2 DEF Reviewed!product
  <2>2. s.op = "reading" /\ DOMAIN s.answers = {}
    OBVIOUS
  <2> HIDE DEF s
  <2>3. reviewing'[t] = s => TabKnows(t)'
    BY <2>1, <2>2 DEF TabKnows, HasAnswered
  <2> QED
    BY <1>1, <2>1, <2>3, ReviewTabs
<1>3. ASSUME NEW question \in {"can", "has"}, NEW yes \in BOOLEAN,
             Reviewed!Answer(t, question, yes),
             question = "can" => (yes => Reviewed!canReview(c)),
             question = "has" => (~yes => ~Reviewed!hasReviewed(c))
      PROVE  ReviewInv'
  <2> DEFINE answers == [q \in DOMAIN now.answers \cup {question} |->
                           IF q = question THEN yes ELSE now.answers[q]]
             s == [op |-> "reading", answers |-> answers]
  <2>1. /\ Reviewed!Goes(t, s) /\ UNCHANGED <<isActive, order, review, late>>
        /\ now.op = "reading" /\ question \notin DOMAIN now.answers
    BY <1>3 DEF Reviewed!Answer
  <2>2. /\ DOMAIN answers = DOMAIN now.answers \cup {question}
        /\ answers[question] = yes
        /\ \A q \in DOMAIN now.answers : answers[q] = now.answers[q]
    BY <2>1
  <2> HIDE DEF answers
  <2>3. s.op = "reading" /\ s.answers = answers
    OBVIOUS
  <2> HIDE DEF s
  <2>4. ASSUME reviewing'[t] = s PROVE TabKnows(t)'
    <3>1. late' = late /\ (t \notin late => isActive')
      BY <1>1, <2>1 DEF TabKnows
    <3>2. DOMAIN s.answers \subseteq {"can", "has"}
      BY <1>1, <2>1, <2>2, <2>3
    <3>3. ASSUME t \notin late, "can" \in DOMAIN answers, answers["can"]
          PROVE  Reviewed!canReview(c)'
      <4>1. CASE question = "can"
        BY <1>1, <1>3, <2>1, <2>2, <3>3, <4>1 DEF Reviewed!canReview
      <4>2. CASE question # "can"
        <5>1. "can" \in DOMAIN now.answers /\ now.answers["can"]
          BY <2>2, <3>3, <4>2
        <5>2. Reviewed!canReview(c)
          BY <1>1, <2>1, <3>3, <5>1 DEF TabKnows, HasAnswered
        <5> QED
          BY <1>1, <2>1, <5>2 DEF Reviewed!canReview
      <4> QED
        BY <4>1, <4>2
    <3>4. ASSUME t \notin late, "has" \in DOMAIN answers, ~answers["has"]
          PROVE  ~Reviewed!hasReviewed(c)'
      <4>1. CASE question = "has"
        BY <1>1, <1>3, <2>1, <2>2, <3>4, <4>1 DEF Reviewed!hasReviewed
      <4>2. CASE question # "has"
        <5>1. "has" \in DOMAIN now.answers /\ ~now.answers["has"]
          BY <2>2, <3>4, <4>2
        <5>2. ~Reviewed!hasReviewed(c)
          BY <1>1, <2>1, <3>4, <5>1 DEF TabKnows, HasAnswered
        <5> QED
          BY <1>1, <2>1, <5>2 DEF Reviewed!hasReviewed
      <4> QED
        BY <4>1, <4>2
    <3> QED
      BY <1>1, <2>3, <2>4, <3>1, <3>2, <3>3, <3>4 DEF TabKnows, HasAnswered
  <2> QED
    BY <1>1, <2>1, <2>4, ReviewTabs
<1>4. CASE Reviewed!Eligible(t)
  <2>1. Reviewed!canReview(c) \in BOOLEAN /\ Reviewed!hasReviewed(c) \in BOOLEAN
    BY DEF Reviewed!canReview, Reviewed!hasReviewed
  <2>2. CASE Reviewed!Answer(t, "can", Reviewed!canReview(c))
    BY <1>3, <2>1, <2>2
  <2>3. CASE Reviewed!Answer(t, "has", Reviewed!hasReviewed(c))
    BY <1>3, <2>1, <2>3
  <2> QED
    BY <1>4, <2>2, <2>3 DEF Reviewed!Eligible
<1>5. CASE Reviewed!Render(t)
  <2> DEFINE offers == now.answers["can"] /\ ~now.answers["has"]
             s == [op |-> "page", offers |-> offers]
  <2>1. /\ Reviewed!Goes(t, s) /\ UNCHANGED <<isActive, order, review, late>>
        /\ now.op = "reading" /\ DOMAIN now.answers = {"can", "has"}
    BY <1>5 DEF Reviewed!Render
  <2>2. t \notin late /\ offers => MayReview(t)
    BY <1>1, <2>1 DEF TabKnows, HasAnswered, MayReview
  <2> HIDE DEF offers
  <2>3. s.op = "page" /\ s.offers = offers
    OBVIOUS
  <2> HIDE DEF s
  <2>4. MayReview(t) => MayReview(t)'
    BY <1>1, <2>1 DEF MayReview, Reviewed!canReview, Reviewed!hasReviewed
  <2>5. reviewing'[t] = s => TabKnows(t)'
    BY <2>1, <2>2, <2>3, <2>4 DEF TabKnows, HasAnswered
  <2> QED
    BY <1>1, <2>1, <2>5, ReviewTabs
<1> QED
  BY <1>2, <1>4, <1>5

LEMMA ReviewSubmits ==
    ASSUME ReviewInv, NEW t \in Tabs,
           \/ Reviewed!Submit(t) \/ Reviewed!Check(t) \/ Reviewed!create(t)
           \/ Reviewed!Acknowledge(t)
    PROVE  ReviewInv'
<1> DEFINE c == SignedIn[t]
           now == reviewing[t]
<1>1. TabKnows(t) /\ SignedIn' = SignedIn /\ c \in Buyers
  BY ReviewsAssumption DEF ReviewInv, SignedIn, Reviewed!ReviewsAssumption
<1>2. ASSUME NEW op \in {"idle", "refused", "check", "create"}, Reviewed!Goes(t, [op |-> op]),
             UNCHANGED <<isActive, order, review, late>>,
             op = "refused" => t \in late,
             op \in {"check", "create"} => t \in late \/ MayReview(t)
      PROVE  ReviewInv'
  <2> DEFINE s == [op |-> op]
  <2>1. s.op = op /\ Reviewed!Goes(t, s)
    BY <1>2
  <2> HIDE DEF s
  <2>2. MayReview(t) => MayReview(t)'
    BY <1>1, <1>2 DEF MayReview, Reviewed!canReview, Reviewed!hasReviewed
  <2>3. reviewing'[t] = s => TabKnows(t)'
    BY <1>1, <1>2, <2>1, <2>2 DEF TabKnows, HasAnswered
  <2> QED
    BY <1>1, <1>2, <2>1, <2>3, ReviewTabs
<1>3. CASE Reviewed!Submit(t)
  <2>1. /\ now.op = "page" /\ now.offers /\ UNCHANGED <<isActive, order, review, late>>
        /\ IF isActive THEN Reviewed!Goes(t, [op |-> "check"]) ELSE Reviewed!Goes(t, [op |-> "refused"])
    BY <1>3 DEF Reviewed!Submit, Reviewed!Refuse
  <2>2. t \in late \/ MayReview(t)
    BY <1>1, <2>1 DEF TabKnows
  <2>3. ~isActive => t \in late
    BY <2>2 DEF MayReview
  <2> QED
    BY <1>2, <2>1, <2>2, <2>3
<1>4. CASE Reviewed!Check(t)
  <2>1. /\ now.op = "check" /\ UNCHANGED <<isActive, order, review, late>>
        /\ IF Reviewed!canReview(c) THEN Reviewed!Goes(t, [op |-> "create"])
                                    ELSE Reviewed!Goes(t, [op |-> "refused"])
    BY <1>4 DEF Reviewed!Check, Reviewed!Refuse
  <2>2. t \in late \/ MayReview(t)
    BY <1>1, <2>1 DEF TabKnows
  <2>3. ~Reviewed!canReview(c) => t \in late
    BY <2>2 DEF MayReview
  <2> QED
    BY <1>2, <2>1, <2>2, <2>3
<1>5. CASE Reviewed!create(t)
  <2>1. now.op = "create" /\ (t \in late \/ MayReview(t))
    BY <1>1, <1>5 DEF Reviewed!create, TabKnows
  <2>2. CASE c \in review
    <3>1. Reviewed!Goes(t, [op |-> "refused"]) /\ UNCHANGED <<isActive, order, review, late>>
      BY <1>5, <2>2 DEF Reviewed!create, Reviewed!Refuse
    <3>2. t \in late
      BY <2>1, <2>2 DEF MayReview, Reviewed!hasReviewed
    <3> QED
      BY <1>2, <3>1, <3>2
  <2>3. CASE c \notin review
    <3>1. /\ review' = review \cup {c} /\ late' = late \cup {u \in Tabs : SignedIn[u] \in {c}}
          /\ Reviewed!Goes(t, Reviewed!Idle) /\ UNCHANGED <<isActive, order>>
      BY <1>5, <2>3 DEF Reviewed!create, Reviewed!Lost
    <3>2. reviewing'[t] = Reviewed!Idle => TabKnows(t)'
      BY DEF TabKnows, HasAnswered, Reviewed!Idle
    <3>3. \A u \in Tabs : u \notin late' => (SignedIn[u] \in review' => SignedIn[u] \in review)
      BY <3>1
    <3> QED
      BY <1>1, <2>1, <3>1, <3>2, <3>3, ReviewTabs
  <2> QED
    BY <2>2, <2>3
<1>6. CASE Reviewed!Acknowledge(t)
  BY <1>2, <1>6 DEF Reviewed!Acknowledge, Reviewed!Idle
<1> QED
  BY <1>3, <1>4, <1>5, <1>6

\* Whoever was offered the form is refused only if the order, the variant or the product went,
\* or another tab was first, since the page was asked for; however many tabs and customers
\* (canReview, hasReviewed, create).
THEOREM OffersAreHonoured == ShoppingSpec => []OfferIsHonoured
<1>1. ShoppingInit => ReviewInv
  BY ReviewInit DEF ShoppingInit
<1>2. ReviewInv /\ [ShoppingNext]_<<vars, listVars, accountVars, reviewVars, about>> => ReviewInv'
  <2> SUFFICES ASSUME ReviewInv, [ShoppingNext]_<<vars, listVars, accountVars, reviewVars, about>>
               PROVE  ReviewInv'
    OBVIOUS
  <2>1. Reviewed!Next \/ UNCHANGED reviewVars
    BY DEF ShoppingNext
  <2>2. CASE Reviewed!Next
    BY <2>2, ReviewWorld, ReviewPages, ReviewSubmits DEF Reviewed!Next
  <2> QED
    BY <2>1, <2>2, ReviewUnchanged
<1>3. ReviewInv => OfferIsHonoured
  BY DEF ReviewInv, TabKnows, OfferIsHonoured, Reviewed!OfferIsHonoured
<1> QED
  BY <1>1, <1>2, <1>3, PTL DEF ShoppingSpec

----------------------------------------------------------------------------
(* The lists of products (Listing) *)

\* Sets and numbers of Listing are those of this module.
LEMMA ListSets ==
    \A S : Lists!Cardinality(S) = Cardinality(S) /\ (Lists!IsFiniteSet(S) <=> IsFiniteSet(S))
<1>1. \A S : Lists!Cardinality(S) = Cardinality(S)
  BY DEF Lists!Cardinality, Cardinality
<1>2. \A S : Lists!IsFiniteSet(S) <=> IsFiniteSet(S)
  BY DEF Lists!IsFiniteSet, IsFiniteSet, Lists!Seq, Lists!Range
<1> QED
  BY <1>1, <1>2

LEMMA ListConstants ==
    /\ ListedProducts \subseteq Nat /\ IsFiniteSet(ListedProducts) /\ ListedPrices \subseteq Nat
    /\ Relevance \in [ListedProducts -> Nat] /\ Limit \in Nat \ {0}
BY ListingAssumption, ListSets DEF Lists!ListingAssumption

\* The order of the list, and the products before one in it.
BeforeIn(rows, f, p, q) ==
    CASE f.sort = "newest" -> p > q
      [] f.sort = "price_asc" -> rows[p].price < rows[q].price
      [] f.sort = "price_desc" -> rows[p].price > rows[q].price
      [] f.sort = "search" -> Relevance[p] > Relevance[q]

AheadOf(rows, f, p) == {q \in Lists!MatchesIn(rows, f) : BeforeIn(rows, f, q, p)}

Sorts == {"newest", "price_asc", "price_desc", "search"}
ProductRow == [listed : BOOLEAN, inStock : BOOLEAN, price : ListedPrices]

LEMMA MatchesAreFinite ==
    ASSUME NEW rows, NEW f
    PROVE  /\ Lists!MatchesIn(rows, f) \subseteq ListedProducts
           /\ \A S \in SUBSET Lists!MatchesIn(rows, f) : IsFiniteSet(S) /\ Cardinality(S) \in Nat
<1>1. Lists!MatchesIn(rows, f) \subseteq ListedProducts
  BY DEF Lists!MatchesIn
<1> QED
  BY <1>1, ListConstants, FS_Subset, FS_CardinalityType

LEMMA BeforeIsStrict ==
    ASSUME NEW rows \in [ListedProducts -> ProductRow], NEW f, f.sort \in Sorts,
           NEW p \in ListedProducts, NEW q \in ListedProducts, BeforeIn(rows, f, p, q)
    PROVE  ~ BeforeIn(rows, f, q, p)
<1>1. p \in Nat /\ q \in Nat /\ rows[p].price \in Nat /\ rows[q].price \in Nat
      /\ Relevance[p] \in Nat /\ Relevance[q] \in Nat
  BY ListConstants DEF ProductRow
<1>2. CASE f.sort = "newest"
  BY <1>1, <1>2 DEF BeforeIn
<1>3. CASE f.sort = "price_asc"
  BY <1>1, <1>3 DEF BeforeIn
<1>4. CASE f.sort = "price_desc"
  BY <1>1, <1>4 DEF BeforeIn
<1>5. CASE f.sort = "search"
  BY <1>1, <1>5 DEF BeforeIn
<1> QED
  BY <1>2, <1>3, <1>4, <1>5 DEF Sorts

\* What the server answers is the list, each product once, in order.
LEMMA OrderOf ==
    ASSUME NEW f, NEW s \in Lists!Orders(f)
    PROVE  LET M == Lists!MatchesIn(product, f)
               n == Cardinality(M)
           IN  /\ n \in Nat /\ DOMAIN s = 1..n
               /\ \A i \in 1..n : s[i] \in M
               /\ \A p \in M : \E i \in 1..n : p = s[i]
               /\ \A i, j \in 1..n : i # j => s[i] # s[j]
               /\ \A i, j \in 1..n : i < j => ~ BeforeIn(product, f, s[j], s[i])
<1> DEFINE M == Lists!MatchesIn(product, f)
           n == Cardinality(M)
<1>1. Lists!Matches(f) = M /\ IsFiniteSet(M) /\ n \in Nat
  BY MatchesAreFinite DEF Lists!Matches
<1>2. /\ s \in [1..n -> M] /\ \A i, j \in 1..n : i # j => s[i] # s[j]
      /\ \A i, j \in DOMAIN s : i < j => ~ Lists!Before(f, s[j], s[i])
  BY <1>1, ListSets DEF Lists!Orders, Lists!SetToSeqs
<1> HIDE DEF M
<1>3. s \in Injection(1..n, M)
  BY <1>2 DEF Injection, IsInjective
<1>4. Cardinality(1..n) = n
  BY <1>1, FS_Interval
<1>5. s \in Surjection(1..n, M)
  BY <1>1, <1>3, <1>4, FS_Injection
<1>6. \A p \in M : \E i \in 1..n : p = s[i]
  BY <1>5 DEF Surjection
<1>7. \A i, j \in 1..n : i < j => ~ BeforeIn(product, f, s[j], s[i])
  BY <1>2 DEF BeforeIn, Lists!Before
<1>8. DOMAIN s = 1..n /\ \A i \in 1..n : s[i] \in M
  BY <1>2
<1> HIDE DEF n
<1> QED
  BY <1>1, <1>2, <1>6, <1>7, <1>8 DEF M, n

\* The products of an answer from one position to another.
Between(s, a, b) == {s[i] : i \in a..b}

\* As many products as positions.
LEMMA CountOf ==
    ASSUME NEW s, NEW a \in Int, NEW b \in Int,
           \A i, j \in a..b : i # j => s[i] # s[j]
    PROVE  Cardinality(Between(s, a, b)) = IF a > b THEN 0 ELSE b - a + 1
<1> DEFINE I == a..b
           R == {s[i] : i \in I}
           g == [i \in I |-> s[i]]
<1>1. IsFiniteSet(I) /\ Cardinality(I) = IF a > b THEN 0 ELSE b - a + 1
  BY FS_Interval
<1>2. \A i, j \in I : i # j => s[i] # s[j]
  OBVIOUS
<1> HIDE DEF I
<1>3. g \in Bijection(I, R)
  BY <1>2 DEF Bijection, Injection, Surjection, IsInjective
<1>4. Cardinality(R) = Cardinality(I)
  BY <1>1, <1>3, FS_Bijection DEF ExistsBijection
<1> QED
  BY <1>1, <1>4 DEF I, Between

\* A product of a list without ties has before it what is before it in the answer.
LEMMA RankOf ==
    ASSUME NEW f, f.sort \in Sorts, product \in [ListedProducts -> ProductRow],
           ~ Lists!Tied(f), NEW s \in Lists!Orders(f),
           NEW j \in 1..Cardinality(Lists!MatchesIn(product, f))
    PROVE  Cardinality(AheadOf(product, f, s[j])) = j - 1
<1> DEFINE M == Lists!MatchesIn(product, f)
           n == Cardinality(M)
<1>1. /\ n \in Nat /\ DOMAIN s = 1..n
      /\ \A i \in 1..n : s[i] \in M
      /\ \A p \in M : \E i \in 1..n : p = s[i]
      /\ \A i, k \in 1..n : i # k => s[i] # s[k]
      /\ \A i, k \in 1..n : i < k => ~ BeforeIn(product, f, s[k], s[i])
  BY OrderOf
<1>2. \A p, q \in M : p # q => BeforeIn(product, f, p, q) \/ BeforeIn(product, f, q, p)
  BY DEF Lists!Tied, Lists!Matches, Lists!Before, BeforeIn
<1>3. \A p \in M : ~ BeforeIn(product, f, p, p)
  BY BeforeIsStrict, MatchesAreFinite
<1>4. AheadOf(product, f, s[j]) = {q \in M : BeforeIn(product, f, q, s[j])}
  BY DEF AheadOf
<1> HIDE DEF M, n
<1>5. j \in 1..n
  BY DEF n, M
<1>6. \A i \in 1..n : BeforeIn(product, f, s[i], s[j]) <=> i < j
  <2> SUFFICES ASSUME NEW i \in 1..n PROVE BeforeIn(product, f, s[i], s[j]) <=> i < j
    OBVIOUS
  <2>1. CASE i = j
    BY <1>1, <1>3, <1>5, <2>1
  <2>2. CASE i < j
    BY <1>1, <1>2, <1>5, <2>2
  <2>3. CASE j < i
    BY <1>1, <1>5, <2>3
  <2> QED
    BY <1>5, <2>1, <2>2, <2>3
<1>7. AheadOf(product, f, s[j]) = Between(s, 1, j - 1)
  <2>1. 1..(j - 1) = {i \in 1..n : i < j}
    BY <1>1, <1>5
  <2> QED
    BY <1>1, <1>4, <1>6, <2>1 DEF Between
<1>8. \A i, k \in 1..(j - 1) : i # k => s[i] # s[k]
  BY <1>1, <1>5
<1>9. Cardinality(Between(s, 1, j - 1)) = IF 1 > j - 1 THEN 0 ELSE j - 1 - 1 + 1
  BY <1>5, <1>8, CountOf
<1>10. (IF 1 > j - 1 THEN 0 ELSE j - 1 - 1 + 1) = j - 1
  BY <1>1, <1>5
<1> QED
  BY <1>7, <1>9, <1>10

\* The least-number principle.
LEMMA LeastOf == ASSUME NEW T \in SUBSET Nat, T # {} PROVE \E n \in T : \A m \in T : n <= m
<1> DEFINE R == OpToRel(<, Nat)
<1>1. IsWellFoundedOn(R, Nat)
  BY NatLessThanWellFounded
<1>2. ASSUME NEW m \in Nat, NEW k \in Nat, m < k PROVE <<m, k>> \in R
  <2> DEFINE ss == <<m, k>>
  <2>1. ss \in Nat \X Nat /\ ss[1] < ss[2]
    BY <1>2
  <2>2. R = {t \in Nat \X Nat : t[1] < t[2]}
    BY DEF OpToRel
  <2> HIDE DEF ss, R
  <2>3. ss \in R
    BY <2>1, <2>2
  <2> QED
    BY <2>3 DEF ss
<1> HIDE DEF R
<1>3. PICK n \in T : \A m \in T : <<m, n>> \notin R
  BY <1>1, WFMin
<1>4. \A m \in T : ~ (m < n)
  BY <1>2, <1>3
<1> QED
  BY <1>3, <1>4

\* A finite set of numbers has a greatest one.
LEMMA GreatestOf ==
    ASSUME NEW S \in SUBSET Nat, IsFiniteSet(S), S # {} PROVE \E m \in S : \A n \in S : m >= n
<1> DEFINE Top(U) == \E m \in U : \A n \in U : m >= n
           Topless(k) == \E U \in SUBSET Nat : /\ IsFiniteSet(U) /\ U # {} /\ ~ Top(U)
                                              /\ k = Cardinality(U)
           T == {k \in Nat : Topless(k)}
<1>1. SUFFICES ASSUME ~ Top(S) PROVE FALSE
  OBVIOUS
<1>2. Cardinality(S) \in T
  BY <1>1, FS_CardinalityType
<1>3. PICK k \in T : \A j \in T : k <= j
  <2>1. T \in SUBSET Nat /\ T # {}
    BY <1>2
  <2> HIDE DEF T
  <2> QED
    BY <2>1, LeastOf
<1>4. PICK U \in SUBSET Nat : IsFiniteSet(U) /\ U # {} /\ ~ Top(U) /\ k = Cardinality(U)
  BY <1>3
<1>5. PICK x \in U : TRUE
  BY <1>4
<1> DEFINE V == U \ {x}
<1>6. IsFiniteSet(V) /\ Cardinality(V) = k - 1 /\ k \in Nat /\ Cardinality(V) \in Nat /\ V \in SUBSET Nat
  BY <1>3, <1>4, <1>5, FS_RemoveElement, FS_CardinalityType
<1>7. k - 1 \notin T
  BY <1>3, <1>6
<1>8. CASE V = {}
  BY <1>4, <1>5, <1>8
<1>9. CASE V # {}
  <2>1. Top(V)
    BY <1>6, <1>7, <1>9
  <2>2. PICK m \in V : \A n \in V : m >= n
    BY <2>1
  <2>3. m \in Nat /\ x \in Nat /\ m \in U /\ \A n \in U : n \in V \/ n = x
    BY <1>5
  <2>4. CASE m >= x
    BY <1>4, <2>2, <2>3, <2>4
  <2>5. CASE x >= m
    <3>1. \A n \in U : x >= n
      BY <2>2, <2>3, <2>5
    <3> QED
      BY <1>4, <1>5, <3>1
  <2> QED
    BY <2>3, <2>4, <2>5
<1> QED
  BY <1>8, <1>9

\* A unit goes k times into x, or fewer times.
LEMMA DivBound ==
    ASSUME NEW x \in Nat, NEW w \in Nat \ {0}, NEW k \in Int
    PROVE  /\ x \div w \in Nat
           /\ k * w <= x <=> k <= x \div w
           /\ x - (x % w) = (x \div w) * w
<1> DEFINE d == x \div w
<1>1. d \in Int
  OBVIOUS
<1>2. d >= 0
  OBVIOUS
<1>3. w * d <= x
  OBVIOUS
<1>4. x < w * d + w
  OBVIOUS
<1>5. x - (x % w) = w * d
  OBVIOUS
<1> HIDE DEF d
<1>6. k <= d => k * w <= d * w
  BY <1>1
<1>7. k >= d + 1 => k * w >= d * w + w
  BY <1>1
<1>8. w * d = d * w /\ k * w \in Int
  BY <1>1
<1>9. k * w <= x <=> k <= d
  BY <1>1, <1>3, <1>4, <1>6, <1>7, <1>8
<1>10. x - (x % w) = d * w
  BY <1>5, <1>8
<1> QED
  BY <1>1, <1>2, <1>9, <1>10 DEF d

\* Where a page begins and ends, and whether it is the last one.
LEMMA PageNumbers ==
    ASSUME NEW page \in Nat \ {0}, NEW total \in Nat
    PROVE  /\ (page - 1) * Limit \in Nat /\ page * Limit \in Nat
           /\ page * Limit = (page - 1) * Limit + Limit
           /\ (page = 1 => (page - 1) * Limit = 0) /\ (page + 1) - 1 = page
           /\ Lists!skip(page) = (page - 1) * Limit
           /\ Lists!hasNext(page, total) <=> page * Limit < total
<1>1. Limit \in Nat \ {0}
  BY ListConstants
<1>2. (page - 1) * Limit \in Nat /\ page * Limit \in Nat /\ page * Limit = (page - 1) * Limit + Limit
  BY <1>1
<1>3. Lists!skip(page) = (page - 1) * Limit
  BY DEF Lists!skip
<1>4. Lists!hasNext(page, total) <=> page * Limit < total
  <2>1. CASE total = 0
    BY <1>2, <2>1 DEF Lists!hasNext, Lists!totalPages
  <2>2. CASE total # 0
    <3> DEFINE x == total + Limit - 1
               d == x \div Limit
    <3>1. x \in Nat /\ (page + 1) \in Int
      BY <1>1
    <3>2. d \in Nat /\ ((page + 1) * Limit <= x <=> page + 1 <= d)
      <4> HIDE DEF x
      <4>1. x \div Limit \in Nat /\ ((page + 1) * Limit <= x <=> page + 1 <= x \div Limit)
        BY <1>1, <3>1, DivBound
      <4> QED
        BY <4>1
    <3>3. Lists!hasNext(page, total) <=> page < d
      BY <2>2 DEF Lists!hasNext, Lists!totalPages
    <3> HIDE DEF d
    <3>4. (page + 1) * Limit = page * Limit + Limit
      BY <1>1
    <3>5. page < d <=> page + 1 <= d
      BY <3>2
    <3>6. page * Limit + Limit <= total + Limit - 1 <=> page * Limit < total
      BY <1>1, <1>2
    <3> QED
      BY <3>2, <3>3, <3>4, <3>5, <3>6
  <2> QED
    BY <2>1, <2>2
<1>5. (page = 1 => (page - 1) * Limit = 0) /\ (page + 1) - 1 = page
  BY <1>1
<1> QED
  BY <1>2, <1>3, <1>4, <1>5

\* A slider that was not touched leaves nothing out.
LEMMA BoundsLeaveNothingOut ==
    ASSUME product \in [ListedProducts -> ProductRow], NEW p \in Lists!Listed
    PROVE  product[p].price \in (2 * Lists!priceBounds[1])..(2 * Lists!priceBounds[2])
<1> DEFINE prices == {product[q].price : q \in Lists!Listed}
           g == [q \in Lists!Listed |-> product[q].price]
           low == CHOOSE m \in prices : \A n \in prices : m <= n
           high == CHOOSE m \in prices : \A n \in prices : m >= n
           min == low \div 2
           max == (high + 1) \div 2
<1>1. Lists!Listed \subseteq ListedProducts /\ Lists!Listed # {}
  BY DEF Lists!Listed
<1>2. prices \in SUBSET Nat /\ prices # {} /\ product[p].price \in prices
  BY <1>1, ListConstants DEF ProductRow
<1>3. IsFiniteSet(prices)
  <2>1. IsFiniteSet(Lists!Listed)
    BY <1>1, ListConstants, FS_Subset
  <2>2. g \in Surjection(Lists!Listed, prices)
    BY DEF Surjection
  <2> QED
    BY <2>1, <2>2, FS_Surjection
<1>4. Lists!priceBounds = <<min, IF max > min THEN max ELSE min + 1>>
  BY <1>1 DEF Lists!priceBounds
<1> HIDE DEF prices
<1>5. low \in prices /\ \A n \in prices : low <= n
  BY <1>2, LeastOf
<1>6. high \in prices /\ \A n \in prices : high >= n
  BY <1>2, <1>3, GreatestOf
<1> HIDE DEF low, high
<1>7. low \in Nat /\ high \in Nat /\ product[p].price \in Nat /\ low <= product[p].price /\ product[p].price <= high
  BY <1>2, <1>5, <1>6
<1>8. min \in Nat /\ max \in Nat /\ 2 * min <= low /\ high <= 2 * max
  BY <1>7
<1> HIDE DEF min, max
<1>9. Lists!priceBounds[1] = min /\ Lists!priceBounds[2] = IF max > min THEN max ELSE min + 1
  BY <1>4
<1>10. 2 * min <= product[p].price /\ product[p].price <= 2 * (IF max > min THEN max ELSE min + 1)
  BY <1>7, <1>8
<1> QED
  BY <1>7, <1>8, <1>9, <1>10

\* What a page shows of the list: the products from its first position to its last.
LEMMA PageShows ==
    ASSUME NEW f, f.sort \in Sorts, product \in [ListedProducts -> ProductRow],
           NEW s \in Lists!Orders(f), NEW page \in Nat \ {0}
    PROVE  LET M == Lists!MatchesIn(product, f)
               n == Cardinality(M)
               k == (page - 1) * Limit
               rows == Lists!Rows(s, page)
           IN  /\ rows \subseteq M
               /\ Cardinality(rows) = IF n <= k THEN 0 ELSE IF k + Limit <= n THEN Limit ELSE n - k
               /\ rows = {} <=> n <= k
               /\ ~ Lists!Tied(f) => \A p \in M : \/ p \in rows
                                                  \/ Cardinality(AheadOf(product, f, p)) < k
                                                  \/ /\ k + Limit <= Cardinality(AheadOf(product, f, p))
                                                     /\ k + Limit < n
<1> DEFINE M == Lists!MatchesIn(product, f)
           n == Cardinality(M)
           k == (page - 1) * Limit
           rows == Lists!Rows(s, page)
           last == IF k + Limit <= n THEN k + Limit ELSE n
<1>1. k \in Nat /\ Lists!skip(page) = k /\ Limit \in Nat \ {0}
  BY PageNumbers, ListConstants
<1>2. /\ n \in Nat /\ DOMAIN s = 1..n
      /\ \A i \in 1..n : s[i] \in M
      /\ \A p \in M : \E i \in 1..n : p = s[i]
      /\ \A i, j \in 1..n : i # j => s[i] # s[j]
  BY OrderOf
<1>3. rows = {s[i] : i \in (1..n) \cap ((k + 1)..(k + Limit))}
  BY <1>1, <1>2 DEF Lists!Rows
<1>4. ~ Lists!Tied(f) => \A j \in 1..n : Cardinality(AheadOf(product, f, s[j])) = j - 1
  BY RankOf
<1> HIDE DEF M, n, k, rows
<1>5. (1..n) \cap ((k + 1)..(k + Limit)) = (k + 1)..last
  BY <1>1, <1>2
<1>6. rows = Between(s, k + 1, last)
  BY <1>3, <1>5 DEF Between
<1>7. last \in Int /\ (k + 1)..last \subseteq 1..n
  BY <1>1, <1>2, <1>5
<1>8. \A i, j \in (k + 1)..last : i # j => s[i] # s[j]
  BY <1>2, <1>7
<1>9. Cardinality(rows) = IF k + 1 > last THEN 0 ELSE last - (k + 1) + 1
  <2> HIDE DEF last
  <2> DEFINE a == k + 1
  <2>1. a \in Int
    BY <1>1
  <2> HIDE DEF a
  <2>2. Cardinality(Between(s, a, last)) = IF a > last THEN 0 ELSE last - a + 1
    BY <1>7, <1>8, <2>1, CountOf DEF a
  <2> QED
    BY <1>6, <2>2 DEF a
<1>10. Cardinality(rows) = IF n <= k THEN 0 ELSE IF k + Limit <= n THEN Limit ELSE n - k
  BY <1>1, <1>2, <1>9
<1>11. rows \subseteq M
  BY <1>2, <1>6, <1>7 DEF Between
<1>12. rows = {} <=> n <= k
  <2>1. n <= k => (k + 1)..last = {}
    BY <1>1, <1>2
  <2>2. ~ n <= k => k + 1 \in (k + 1)..last
    BY <1>1, <1>2
  <2> QED
    BY <1>6, <2>1, <2>2 DEF Between
<1>13. ASSUME ~ Lists!Tied(f), NEW p \in M
       PROVE  \/ p \in rows
              \/ Cardinality(AheadOf(product, f, p)) < k
              \/ /\ k + Limit <= Cardinality(AheadOf(product, f, p)) /\ k + Limit < n
  <2>1. PICK j \in 1..n : p = s[j]
    BY <1>2
  <2>2. Cardinality(AheadOf(product, f, p)) = j - 1
    BY <1>4, <1>13, <2>1
  <2>3. j \in Nat /\ j <= n
    BY <1>2
  <2>4. CASE j <= k
    BY <1>1, <2>2, <2>3, <2>4
  <2>5. CASE k < j /\ j <= k + Limit
    <3>1. j \in (1..n) \cap ((k + 1)..(k + Limit))
      BY <1>1, <1>2, <2>3, <2>5
    <3> QED
      BY <1>3, <2>1, <3>1
  <2>6. CASE k + Limit < j
    BY <1>1, <1>2, <2>2, <2>3, <2>6
  <2> QED
    BY <1>1, <2>3, <2>4, <2>5, <2>6
<1> QED
  BY <1>10, <1>11, <1>12, <1>13 DEF M, n, k, rows

\* What a change of a product does to the list: those behind it move up by one place at most.
LEMMA EditMovesByOne ==
    ASSUME NEW rows \in [ListedProducts -> ProductRow], NEW e \in ListedProducts, NEW r \in ProductRow,
           NEW f
    PROVE  LET after == [rows EXCEPT ![e] = r]
           IN  /\ Lists!MatchesIn(rows, f) \ {e} \subseteq Lists!MatchesIn(after, f)
               /\ e \notin Lists!MatchesIn(rows, f) /\ e \notin Lists!MatchesIn(after, f) =>
                    Lists!MatchesIn(after, f) = Lists!MatchesIn(rows, f)
               /\ \A p \in Lists!MatchesIn(rows, f) \ {e} :
                    /\ Cardinality(AheadOf(rows, f, p)) <= Cardinality(AheadOf(after, f, p)) + 1
                    /\ e \notin Lists!MatchesIn(rows, f) =>
                         Cardinality(AheadOf(rows, f, p)) <= Cardinality(AheadOf(after, f, p))
               /\ \A p, q \in ListedProducts \ {e} : BeforeIn(rows, f, p, q) => BeforeIn(after, f, p, q)
<1> DEFINE after == [rows EXCEPT ![e] = r]
<1>1. \A q \in ListedProducts \ {e} : after[q] = rows[q]
  OBVIOUS
<1> HIDE DEF after
<1>2. \A q \in ListedProducts \ {e} : q \in Lists!MatchesIn(rows, f) <=> q \in Lists!MatchesIn(after, f)
  BY <1>1 DEF Lists!MatchesIn
<1>3. Lists!MatchesIn(rows, f) \subseteq ListedProducts /\ Lists!MatchesIn(after, f) \subseteq ListedProducts
  BY MatchesAreFinite
<1>4. Lists!MatchesIn(rows, f) \ {e} \subseteq Lists!MatchesIn(after, f)
  BY <1>2, <1>3
<1>5. e \notin Lists!MatchesIn(rows, f) /\ e \notin Lists!MatchesIn(after, f) =>
        Lists!MatchesIn(after, f) = Lists!MatchesIn(rows, f)
  BY <1>2, <1>3
<1>6. \A p, q \in ListedProducts \ {e} : BeforeIn(rows, f, p, q) => BeforeIn(after, f, p, q)
  BY <1>1 DEF BeforeIn
<1>7. ASSUME NEW p \in Lists!MatchesIn(rows, f) \ {e}
      PROVE  /\ Cardinality(AheadOf(rows, f, p)) <= Cardinality(AheadOf(after, f, p)) + 1
             /\ e \notin Lists!MatchesIn(rows, f) =>
                  Cardinality(AheadOf(rows, f, p)) <= Cardinality(AheadOf(after, f, p))
  <2> DEFINE A == AheadOf(rows, f, p)
             B == AheadOf(after, f, p)
  <2>1. /\ IsFiniteSet(A) /\ Cardinality(A) \in Nat /\ A \subseteq Lists!MatchesIn(rows, f)
        /\ IsFiniteSet(B) /\ Cardinality(B) \in Nat
    BY MatchesAreFinite DEF AheadOf
  <2>2. A \ {e} \subseteq B
    BY <1>3, <1>4, <1>6 DEF AheadOf
  <2> HIDE DEF A, B
  <2>3. Cardinality(A \ {e}) <= Cardinality(B) /\ Cardinality(A \ {e}) \in Nat
    BY <2>1, <2>2, FS_Subset, FS_CardinalityType
  <2>4. Cardinality(A \ {e}) = IF e \in A THEN Cardinality(A) - 1 ELSE Cardinality(A)
    BY <2>1, FS_RemoveElement
  <2> QED
    BY <2>1, <2>3, <2>4 DEF A, B
<1> QED
  BY <1>4, <1>5, <1>6, <1>7 DEF after

LEMMA BeforeIsTransitive ==
    ASSUME NEW rows \in [ListedProducts -> ProductRow], NEW f, f.sort \in Sorts,
           NEW p \in ListedProducts, NEW q \in ListedProducts, NEW r \in ListedProducts,
           BeforeIn(rows, f, p, q), BeforeIn(rows, f, q, r)
    PROVE  BeforeIn(rows, f, p, r)
<1>1. /\ p \in Nat /\ q \in Nat /\ r \in Nat
      /\ rows[p].price \in Nat /\ rows[q].price \in Nat /\ rows[r].price \in Nat
      /\ Relevance[p] \in Nat /\ Relevance[q] \in Nat /\ Relevance[r] \in Nat
  BY ListConstants DEF ProductRow
<1>2. CASE f.sort = "newest"
  BY <1>1, <1>2 DEF BeforeIn
<1>3. CASE f.sort = "price_asc"
  BY <1>1, <1>3 DEF BeforeIn
<1>4. CASE f.sort = "price_desc"
  BY <1>1, <1>4 DEF BeforeIn
<1>5. CASE f.sort = "search"
  BY <1>1, <1>5 DEF BeforeIn
<1> QED
  BY <1>2, <1>3, <1>4, <1>5 DEF Sorts

\* How many products of the list come before one.
Rank(rows, f, p) == Cardinality(AheadOf(rows, f, p))

\* Whoever comes first has the smaller rank, and each rank is less than the size of the list.
LEMMA RanksGrow ==
    ASSUME NEW rows \in [ListedProducts -> ProductRow], NEW f, f.sort \in Sorts,
           NEW p \in Lists!MatchesIn(rows, f)
    PROVE  /\ Rank(rows, f, p) \in Nat
           /\ Rank(rows, f, p) < Cardinality(Lists!MatchesIn(rows, f))
           /\ \A q \in Lists!MatchesIn(rows, f) :
                BeforeIn(rows, f, p, q) => Rank(rows, f, p) < Rank(rows, f, q)
<1> DEFINE M == Lists!MatchesIn(rows, f)
<1>1. M \subseteq ListedProducts /\ \A S \in SUBSET M : IsFiniteSet(S) /\ Cardinality(S) \in Nat
  BY MatchesAreFinite
<1>2. \A q : AheadOf(rows, f, q) \in SUBSET M
  BY DEF AheadOf
<1>3. p \notin AheadOf(rows, f, p)
  BY <1>1, BeforeIsStrict DEF AheadOf
<1>4. ASSUME NEW S \in SUBSET M, AheadOf(rows, f, p) \subseteq S, p \in S
      PROVE  Cardinality(AheadOf(rows, f, p)) < Cardinality(S)
  <2> HIDE DEF M
  <2> QED
    BY <1>1, <1>2, <1>3, <1>4, FS_Subset
<1>5. Cardinality(AheadOf(rows, f, p)) < Cardinality(M)
  BY <1>2, <1>4
<1>6. ASSUME NEW q \in M, BeforeIn(rows, f, p, q) PROVE Rank(rows, f, p) < Rank(rows, f, q)
  <2>1. AheadOf(rows, f, p) \subseteq AheadOf(rows, f, q)
    BY <1>1, <1>6, BeforeIsTransitive DEF AheadOf
  <2>2. p \in AheadOf(rows, f, q)
    BY <1>6 DEF AheadOf
  <2> QED
    BY <1>2, <1>4, <2>1, <2>2 DEF Rank
<1> QED
  BY <1>1, <1>2, <1>5, <1>6 DEF Rank

\* The visit is not at its end.
Pending(v) == v.op # "page" \/ Lists!hasNext(v.page, v.total)

\* What should be seen and was not changed.
Owed(v) == v.start \ v.changed

\* Of what should be seen and is not among what was: what has come to stand among the first n.
Passed(rows, v, was, n) == {p \in Owed(v) \ was : Rank(rows, v.filters, p) < n}

Untied(rows, v) ==
    \A p, q \in Owed(v) : p # q => \/ BeforeIn(rows, v.filters, p, q)
                                   \/ BeforeIn(rows, v.filters, q, p)

\* No more has than there were changes to products of the list.
Beyond(rows, v, was, n) ==
    ~ v.tied /\ n # 0 => /\ Untied(rows, v)
                         /\ Cardinality(Passed(rows, v, was, n)) <= v.lost

\* As many rows were shown as the list has, or as n when it has more.
Counted(v, number, n) ==
    v.quiet => number = IF n <= Cardinality(v.start) THEN n ELSE Cardinality(v.start)

PendingOk(rows, v) ==
    Pending(v) => /\ Owed(v) \subseteq Lists!MatchesIn(rows, v.filters)
                  /\ v.quiet => v.start = Lists!MatchesIn(rows, v.filters)

AskedOk(rows, v) ==
    v.op = "asked" =>
      /\ Beyond(rows, v, v.seen, (v.page - 1) * Limit)
      /\ v.quiet => /\ v.shown = (v.page - 1) * Limit
                    /\ v.page = 1 \/ (v.page - 1) * Limit < Cardinality(v.start)

FoundOk(rows, v) ==
    v.op = "ids" =>
      /\ Beyond(rows, v, v.seen \cup v.ids, v.page * Limit)
      /\ Counted(v, v.shown + Cardinality(v.ids), v.page * Limit)
      /\ v.quiet => v.ids \subseteq v.start

AnsweredOk(rows, v) ==
    v.op \in {"bounds", "page"} =>
      /\ ~ v.tied /\ ~ v.page * Limit < v.total => Cardinality(Owed(v) \ v.seen) <= v.lost
      /\ Counted(v, v.shown, v.page * Limit)
      /\ v.quiet => v.total = Cardinality(v.start)
      /\ Pending(v) => Beyond(rows, v, v.seen, v.page * Limit)

\* A slider that was not touched leaves none out but what was changed since.
BoundsOk(rows, v) ==
    v.op = "page" /\ v.filters.sort # "search" =>
      \A p \in ListedProducts \ v.touched :
         rows[p].listed => rows[p].price \in (2 * v.bounds[1])..(2 * v.bounds[2])

VisitType(v) ==
    /\ v = [op |-> v.op, filters |-> v.filters, page |-> v.page, seen |-> v.seen, shown |-> v.shown,
            start |-> v.start, changed |-> v.changed, lost |-> v.lost, quiet |-> v.quiet,
            tied |-> v.tied, ids |-> v.ids, total |-> v.total, bounds |-> v.bounds,
            touched |-> v.touched]
    /\ v.op \in {"page", "asked", "bounds", "ids"} /\ v.filters.sort \in Sorts
    /\ v.page \in Nat \ {0} /\ v.shown \in Nat /\ v.lost \in Nat /\ v.total \in Nat
    /\ v.start \subseteq ListedProducts /\ v.ids \subseteq ListedProducts
    /\ v.op = "asked" => v.total = 0
    /\ v.op = "ids" => v.filters.sort = "search" /\ v.total = 0
    /\ v.op = "bounds" => v.filters.sort # "search"

ListInv ==
    /\ product \in [ListedProducts -> ProductRow]
    /\ VisitType(visit)
    /\ PendingOk(product, visit) /\ AskedOk(product, visit)
    /\ FoundOk(product, visit) /\ AnsweredOk(product, visit)
    /\ BoundsOk(product, visit)

\* What is owed, and each part of it, is finite.
LEMMA OwedIsFinite ==
    ASSUME NEW v, VisitType(v), NEW S \in SUBSET Owed(v)
    PROVE  /\ IsFiniteSet(S) /\ Cardinality(S) \in Nat
           /\ \A T \in SUBSET S : IsFiniteSet(T) /\ Cardinality(T) \in Nat /\ Cardinality(T) <= Cardinality(S)
<1>1. S \subseteq ListedProducts
  BY DEF Owed, VisitType
<1>2. IsFiniteSet(S)
  BY <1>1, ListConstants, FS_Subset
<1> QED
  BY <1>2, FS_Subset, FS_CardinalityType

LEMMA ListsCover == ListInv => PagesCoverTheList
<1> SUFFICES ASSUME ListInv, visit.op = "page", ~ Lists!hasNext(visit.page, visit.total), ~ visit.tied
             PROVE  /\ Cardinality(Owed(visit) \ visit.seen) <= visit.lost
                    /\ visit.quiet => visit.shown = Cardinality(visit.start)
  <2>1. Lists!Missed = Owed(visit) \ visit.seen
    BY DEF Lists!Missed, Owed
  <2> QED
    BY <2>1, ListSets DEF PagesCoverTheList, Lists!PagesCoverTheList, Lists!AtTheEnd
<1>1. visit.page \in Nat \ {0} /\ visit.total \in Nat /\ visit.page * Limit \in Nat
  BY PageNumbers DEF ListInv, VisitType
<1>2. ~ visit.page * Limit < visit.total
  BY <1>1, PageNumbers
<1>3. Cardinality(Owed(visit) \ visit.seen) <= visit.lost
  BY <1>2 DEF ListInv, AnsweredOk
<1>4. visit.quiet => visit.shown = Cardinality(visit.start)
  BY <1>1, <1>2 DEF ListInv, AnsweredOk, Counted
<1> QED
  BY <1>3, <1>4

LEMMA ListAsks ==
    ASSUME ListInv, NEW f, f.sort \in Sorts, NEW start \in SUBSET ListedProducts, NEW changed,
           start \ changed \subseteq Lists!MatchesIn(product, f),
           changed = {} => start = Lists!MatchesIn(product, f),
           visit' = Lists!Asked(f, start, changed), UNCHANGED <<product, edits>>
    PROVE  ListInv'
<1> DEFINE quiet == changed = {}
<1>1. visit' = [op |-> "asked", filters |-> f, page |-> 1, seen |-> {}, shown |-> 0, start |-> start,
                changed |-> changed, lost |-> 0, quiet |-> quiet, tied |-> FALSE, ids |-> {},
                total |-> 0, bounds |-> <<>>, touched |-> {}]
  BY DEF Lists!Asked
<1> HIDE DEF quiet
<1>2. VisitType(visit')
  BY <1>1 DEF VisitType
<1>3. PendingOk(product, visit')
  <2>1. visit'.quiet => changed = {}
    <3>1. visit'.quiet = quiet
      BY <1>1
    <3>2. quiet => changed = {}
      BY DEF quiet
    <3> QED
      BY <3>1, <3>2
  <2>2. visit'.start = start /\ visit'.changed = changed /\ visit'.filters = f
    BY <1>1
  <2> QED
    BY <2>1, <2>2 DEF PendingOk, Owed
<1>4. AskedOk(product, visit')
  <2>1. (1 - 1) * Limit = 0 /\ 1 \in Nat \ {0}
    BY ListConstants
  <2> QED
    BY <1>1, <2>1 DEF AskedOk, Beyond
<1>5. FoundOk(product, visit') /\ AnsweredOk(product, visit') /\ BoundsOk(product, visit')
  BY <1>1 DEF FoundOk, AnsweredOk, BoundsOk
<1> QED
  BY <1>2, <1>3, <1>4, <1>5 DEF ListInv

LEMMA ListOpens == ASSUME ListInv, Lists!Open PROVE ListInv'
<1>1. PICK f \in {Lists!All, [Lists!All EXCEPT !.sort = "search"]} :
        visit' = Lists!Asked(f, Lists!Matches(f), {})
  BY DEF Lists!Open
<1>2. f.sort \in Sorts
  BY DEF Lists!All, Sorts
<1>3. Lists!Matches(f) = Lists!MatchesIn(product, f) /\ Lists!Matches(f) \in SUBSET ListedProducts
  BY MatchesAreFinite DEF Lists!Matches
<1>4. UNCHANGED <<product, edits>>
  BY DEF Lists!Open
<1> QED
  BY <1>1, <1>2, <1>3, <1>4, ListAsks

LEMMA ListFilters == ASSUME ListInv, Lists!Apply PROVE ListInv'
<1>1. visit.op = "page" /\ visit.filters.sort # "search" /\ UNCHANGED <<product, edits>>
  BY DEF Lists!Apply
<1>2. PICK f \in [sort : {"newest", "price_asc", "price_desc"}, range : {visit.bounds}, inStock : BOOLEAN] :
        \/ visit' = Lists!Asked(f, Lists!Matches([f EXCEPT !.range = <<>>]), visit.touched)
        \/ LET g == [f EXCEPT !.range = <<f.range[1], f.range[2] - 1>>]
           IN  visit' = Lists!Asked(g, Lists!Matches(g), {})
  BY DEF Lists!Apply
<1>3. \A h : Lists!Matches(h) = Lists!MatchesIn(product, h) /\ Lists!MatchesIn(product, h) \in SUBSET ListedProducts
  BY MatchesAreFinite DEF Lists!Matches
<1>4. CASE visit' = Lists!Asked(f, Lists!Matches([f EXCEPT !.range = <<>>]), visit.touched)
  <2> DEFINE h == [f EXCEPT !.range = <<>>]
  <2>1. f.sort \in Sorts /\ f.range = visit.bounds /\ h.range = <<>> /\ h.inStock = f.inStock
    BY DEF Sorts
  <2> HIDE DEF h
  <2>2. \A p \in ListedProducts \ visit.touched :
          product[p].listed => product[p].price \in (2 * f.range[1])..(2 * f.range[2])
    BY <1>1, <2>1 DEF ListInv, BoundsOk
  <2>3. Lists!MatchesIn(product, h) \ visit.touched \subseteq Lists!MatchesIn(product, f)
    BY <2>1, <2>2 DEF Lists!MatchesIn
  <2>4. Lists!MatchesIn(product, f) \subseteq Lists!MatchesIn(product, h)
    BY <2>1 DEF Lists!MatchesIn
  <2>5. visit' = Lists!Asked(f, Lists!MatchesIn(product, h), visit.touched)
    BY <1>3, <1>4 DEF h
  <2>6. Lists!MatchesIn(product, h) \in SUBSET ListedProducts
    BY <1>3
  <2>7. visit.touched = {} => Lists!MatchesIn(product, h) = Lists!MatchesIn(product, f)
    BY <2>3, <2>4
  <2> QED
    BY <1>1, <2>1, <2>3, <2>5, <2>6, <2>7, ListAsks
<1>5. CASE LET g == [f EXCEPT !.range = <<f.range[1], f.range[2] - 1>>]
           IN  visit' = Lists!Asked(g, Lists!Matches(g), {})
  <2> DEFINE g == [f EXCEPT !.range = <<f.range[1], f.range[2] - 1>>]
  <2>1. g.sort \in Sorts
    BY DEF Sorts
  <2>2. visit' = Lists!Asked(g, Lists!Matches(g), {})
    BY <1>5
  <2> HIDE DEF g
  <2> QED
    BY <1>1, <1>3, <2>1, <2>2, ListAsks
<1> QED
  BY <1>2, <1>4, <1>5

LEMMA ListGoesOn == ASSUME ListInv, Lists!ClickNext PROVE ListInv'
<1> DEFINE v == visit'
<1>1. /\ visit.op = "page" /\ Lists!hasNext(visit.page, visit.total)
      /\ visit' = [visit EXCEPT !.op = "asked", !.page = @ + 1, !.total = 0, !.bounds = <<>>,
                            !.touched = {}]
      /\ product' = product /\ edits' = edits
  BY DEF Lists!ClickNext
<1>2. /\ VisitType(visit) /\ PendingOk(product, visit) /\ AnsweredOk(product, visit)
  BY DEF ListInv
<1>3. v = [op |-> "asked", filters |-> visit.filters, page |-> visit.page + 1, seen |-> visit.seen,
           shown |-> visit.shown, start |-> visit.start, changed |-> visit.changed, lost |-> visit.lost,
           quiet |-> visit.quiet, tied |-> visit.tied, ids |-> visit.ids, total |-> 0,
           bounds |-> <<>>, touched |-> {}]
  BY <1>1, <1>2 DEF VisitType
<1> HIDE DEF v
<1>4. /\ visit.page \in Nat \ {0} /\ visit.total \in Nat /\ visit.page * Limit \in Nat
      /\ (visit.page + 1) - 1 = visit.page /\ visit.page * Limit < visit.total
  <2>1. visit.page \in Nat \ {0} /\ visit.total \in Nat
    BY <1>2 DEF VisitType
  <2> QED
    BY <1>1, <2>1, PageNumbers
<1>5. VisitType(v)
  BY <1>2, <1>3, <1>4 DEF VisitType
<1>6. PendingOk(product, v)
  BY <1>1, <1>2, <1>3 DEF PendingOk, Pending, Owed
<1>7. AskedOk(product, v)
  <2>1. Beyond(product, v, v.seen, visit.page * Limit)
    BY <1>1, <1>2, <1>3 DEF AnsweredOk, Beyond, Passed, Untied, Owed, Pending
  <2>2. v.quiet => v.shown = visit.page * Limit /\ visit.page * Limit < Cardinality(v.start)
    BY <1>1, <1>2, <1>3, <1>4 DEF AnsweredOk, Counted
  <2>3. v.page - 1 = visit.page
    BY <1>3, <1>4
  <2> QED
    BY <2>1, <2>2, <2>3 DEF AskedOk
<1>8. FoundOk(product, v) /\ AnsweredOk(product, v) /\ BoundsOk(product, v)
  BY <1>3 DEF FoundOk, AnsweredOk, BoundsOk
<1> QED
  BY <1>1, <1>5, <1>6, <1>7, <1>8 DEF ListInv, v

\* What is true of a page that was asked for, whichever way it is read.
LEMMA PageReads ==
    ASSUME ListInv, visit.op = "asked", NEW s \in Lists!Orders(visit.filters)
    PROVE  LET M == Lists!MatchesIn(product, visit.filters)
               rows == Lists!Rows(s, visit.page)
               n == visit.page * Limit
               rest == Owed(visit) \ (visit.seen \cup rows)
           IN  /\ rows \subseteq M /\ M \subseteq ListedProducts /\ Owed(visit) \subseteq M
               /\ Cardinality(rows) \in Nat /\ Cardinality(M) \in Nat /\ n \in Nat
               /\ ~ visit.tied /\ ~ Lists!Tied(visit.filters) =>
                    /\ Beyond(product, visit, visit.seen \cup rows, n)
                    /\ ~ n < Cardinality(M) \/ rows = {} => Cardinality(rest) <= visit.lost
               /\ visit.quiet => /\ visit.start = M
                                 /\ visit.shown + Cardinality(rows) =
                                      IF n <= Cardinality(M) THEN n ELSE Cardinality(M)
                                 /\ rows = {} => Cardinality(M) = 0
<1> DEFINE f == visit.filters
           page == visit.page
           M == Lists!MatchesIn(product, f)
           rows == Lists!Rows(s, page)
           n == page * Limit
           k == (page - 1) * Limit
           size == Cardinality(M)
           rest == Owed(visit) \ (visit.seen \cup rows)
           passed == Passed(product, visit, visit.seen \cup rows, n)
<1>1. VisitType(visit) /\ PendingOk(product, visit) /\ AskedOk(product, visit)
      /\ product \in [ListedProducts -> ProductRow]
  BY DEF ListInv
<1>2. page \in Nat \ {0} /\ f.sort \in Sorts /\ visit.shown \in Nat /\ visit.lost \in Nat
  BY <1>1 DEF VisitType
<1>3. /\ k \in Nat /\ n \in Nat /\ n = k + Limit /\ (page = 1 => k = 0) /\ Limit \in Nat \ {0}
  BY <1>2, PageNumbers, ListConstants
<1>4. M \subseteq ListedProducts /\ size \in Nat
  BY MatchesAreFinite
<1>5. /\ rows \subseteq M
      /\ Cardinality(rows) = IF size <= k THEN 0 ELSE IF k + Limit <= size THEN Limit ELSE size - k
      /\ rows = {} <=> size <= k
      /\ ~ Lists!Tied(f) => \A p \in M : \/ p \in rows
                                         \/ Rank(product, f, p) < k
                                         \/ k + Limit <= Rank(product, f, p) /\ k + Limit < size
  BY <1>1, <1>2, PageShows DEF Rank
<1>6. Owed(visit) \subseteq M /\ (visit.quiet => visit.start = M)
  BY <1>1 DEF PendingOk, Pending
<1>7. /\ Beyond(product, visit, visit.seen, k)
      /\ visit.quiet => visit.shown = k /\ (page = 1 \/ k < Cardinality(visit.start))
  BY <1>1 DEF AskedOk
<1>8. \A p \in M : Rank(product, f, p) \in Nat /\ Rank(product, f, p) < size
  BY <1>1, <1>2, RanksGrow
<1>9. ~ Lists!Tied(f) => Untied(product, visit)
  <2>1. \A p, q \in M : p # q /\ ~ Lists!Tied(f) => Lists!Before(f, p, q) \/ Lists!Before(f, q, p)
    BY DEF Lists!Tied, Lists!Matches
  <2> QED
    BY <1>6, <2>1 DEF Untied, Lists!Before, BeforeIn
<1>10. passed \subseteq rest /\ passed = {p \in rest : Rank(product, f, p) < n}
  BY DEF Passed
<1>11. Passed(product, visit, visit.seen, k) = {p \in Owed(visit) \ visit.seen : Rank(product, f, p) < k}
  BY DEF Passed
<1>12. rest \subseteq Owed(visit) \ visit.seen
  OBVIOUS
<1>13. \A p \in rest : p \in M /\ p \in Owed(visit) \ visit.seen /\ p \notin rows
  BY <1>6
<1> HIDE DEF f, page, M, rows, n, k, size, rest, passed
<1>14. ASSUME ~ visit.tied, ~ Lists!Tied(f) PROVE Cardinality(passed) <= visit.lost
  <2>1. \A p \in passed : Rank(product, f, p) < k
    BY <1>3, <1>4, <1>5, <1>8, <1>10, <1>13, <1>14
  <2>2. CASE k = 0
    <3>1. passed = {}
      BY <1>8, <1>10, <1>13, <2>1, <2>2
    <3> QED
      BY <1>2, <3>1, FS_EmptySet
  <2>3. CASE k # 0
    <3>1. passed \subseteq Passed(product, visit, visit.seen, k)
      BY <1>10, <1>11, <1>12, <2>1
    <3>2. Passed(product, visit, visit.seen, k) \in SUBSET Owed(visit)
      BY <1>11
    <3>3. Cardinality(passed) <= Cardinality(Passed(product, visit, visit.seen, k))
          /\ Cardinality(passed) \in Nat /\ Cardinality(Passed(product, visit, visit.seen, k)) \in Nat
      BY <1>1, <3>1, <3>2, OwedIsFinite
    <3>4. Cardinality(Passed(product, visit, visit.seen, k)) <= visit.lost
      BY <1>7, <1>14, <2>3 DEF Beyond
    <3> QED
      BY <1>2, <3>3, <3>4
  <2> QED
    BY <2>2, <2>3
<1>15. ASSUME ~ visit.tied, ~ Lists!Tied(f) PROVE Beyond(product, visit, visit.seen \cup rows, n)
  BY <1>9, <1>14, <1>15 DEF Beyond, passed
<1>16. ASSUME ~ visit.tied, ~ Lists!Tied(f), ~ n < size \/ rows = {}
       PROVE  Cardinality(rest) <= visit.lost
  <2>1. \A p \in rest : Rank(product, f, p) < n
    BY <1>3, <1>4, <1>5, <1>8, <1>13, <1>16
  <2>2. rest = passed
    BY <1>10, <2>1
  <2> QED
    BY <1>14, <1>16, <2>2
<1>17. Cardinality(rows) \in Nat
  BY <1>3, <1>4, <1>5
<1>18. ASSUME visit.quiet
       PROVE  /\ visit.start = M
              /\ visit.shown + Cardinality(rows) = IF n <= size THEN n ELSE size
              /\ rows = {} => size = 0
  <2>1. visit.start = M /\ visit.shown = k /\ (page = 1 \/ k < size)
    BY <1>6, <1>7, <1>18 DEF size
  <2> QED
    BY <1>3, <1>4, <1>5, <2>1
<1> QED
  BY <1>3, <1>4, <1>5, <1>6, <1>15, <1>16, <1>17, <1>18 DEF f, page, M, rows, n, size, rest

LEMMA ListIsRead == ASSUME ListInv, Lists!listActive PROVE ListInv'
<1>1. /\ visit.op = "asked" /\ visit.filters.sort # "search"
      /\ product' = product /\ edits' = edits
  BY DEF Lists!listActive
<1> DEFINE f == visit.filters
           M == Lists!MatchesIn(product, f)
           n == visit.page * Limit
<1>2. PICK s \in Lists!Orders(f) :
        visit' = [visit EXCEPT !.op = "bounds", !.total = Lists!Cardinality(Lists!Matches(f)),
                               !.seen = @ \cup Lists!Rows(s, visit.page),
                               !.shown = @ + Lists!Cardinality(Lists!Rows(s, visit.page)),
                               !.tied = @ \/ Lists!Tied(f)]
  BY DEF Lists!listActive
<1> DEFINE rows == Lists!Rows(s, visit.page)
           tied == visit.tied \/ Lists!Tied(f)
           v == visit'
<1>3. visit' = [visit EXCEPT !.op = "bounds", !.total = Cardinality(M), !.seen = @ \cup rows,
                             !.shown = @ + Cardinality(rows), !.tied = tied]
  BY <1>2, ListSets DEF Lists!Matches
<1>4. VisitType(visit)
  BY DEF ListInv
<1>5. v = [op |-> "bounds", filters |-> f, page |-> visit.page, seen |-> visit.seen \cup rows,
           shown |-> visit.shown + Cardinality(rows), start |-> visit.start, changed |-> visit.changed,
           lost |-> visit.lost, quiet |-> visit.quiet, tied |-> tied, ids |-> visit.ids,
           total |-> Cardinality(M), bounds |-> visit.bounds, touched |-> visit.touched]
  <2> HIDE DEF rows, tied, M
  <2> QED
    BY <1>3, <1>4 DEF VisitType
<1>6. /\ rows \subseteq M /\ M \subseteq ListedProducts /\ Owed(visit) \subseteq M
      /\ Cardinality(rows) \in Nat /\ Cardinality(M) \in Nat /\ n \in Nat
      /\ ~ visit.tied /\ ~ Lists!Tied(visit.filters) =>
           /\ Beyond(product, visit, visit.seen \cup rows, n)
           /\ ~ n < Cardinality(M) \/ rows = {} =>
                Cardinality(Owed(visit) \ (visit.seen \cup rows)) <= visit.lost
      /\ visit.quiet => /\ visit.start = M
                        /\ visit.shown + Cardinality(rows) =
                             IF n <= Cardinality(M) THEN n ELSE Cardinality(M)
  BY <1>1, PageReads
<1>7. visit.page \in Nat \ {0} /\ visit.shown \in Nat
  BY <1>4 DEF VisitType
<1>8. ~ tied => ~ visit.tied /\ ~ Lists!Tied(visit.filters)
  OBVIOUS
<1> HIDE DEF rows, tied, M, v, n, f
<1>9. VisitType(v)
  BY <1>1, <1>4, <1>5, <1>6 DEF VisitType, f
<1>10. Owed(v) = Owed(visit)
  BY <1>5 DEF Owed
<1>11. PendingOk(product, v)
  BY <1>5, <1>6, <1>10 DEF PendingOk, M, f
<1>12. AnsweredOk(product, v)
  <2>1. Beyond(product, v, v.seen, n)
    BY <1>5, <1>6, <1>8, <1>10 DEF Beyond, Untied, Passed, f
  <2>2. ~ v.tied /\ ~ n < v.total => Cardinality(Owed(v) \ v.seen) <= v.lost
    BY <1>5, <1>6, <1>8, <1>10
  <2>3. v.quiet => v.start = M /\ v.total = Cardinality(M) /\ v.shown = IF n <= Cardinality(M) THEN n ELSE Cardinality(M)
    BY <1>5, <1>6
  <2>4. v.page * Limit = n
    BY <1>5 DEF n
  <2> QED
    BY <2>1, <2>2, <2>3, <2>4 DEF AnsweredOk, Counted
<1>13. AskedOk(product, v) /\ FoundOk(product, v) /\ BoundsOk(product, v)
  BY <1>5 DEF AskedOk, FoundOk, BoundsOk
<1> QED
  BY <1>1, <1>9, <1>11, <1>12, <1>13 DEF ListInv, v

LEMMA ListIsShown == ASSUME ListInv, Lists!shop PROVE ListInv'
<1> DEFINE v == visit'
           bounds == Lists!priceBounds
<1>1. /\ visit.op = "bounds" /\ product' = product /\ edits' = edits
      /\ visit' = [visit EXCEPT !.op = "page", !.bounds = bounds, !.touched = {}]
  BY DEF Lists!shop
<1>2. /\ VisitType(visit) /\ PendingOk(product, visit) /\ AnsweredOk(product, visit)
      /\ product \in [ListedProducts -> ProductRow]
  BY DEF ListInv
<1>3. \A p \in ListedProducts :
        product[p].listed => product[p].price \in (2 * bounds[1])..(2 * bounds[2])
  <2>1. \A p \in ListedProducts : product[p].listed => p \in Lists!Listed
    BY DEF Lists!Listed
  <2> QED
    BY <1>2, <2>1, BoundsLeaveNothingOut
<1> HIDE DEF bounds
<1>4. v = [op |-> "page", filters |-> visit.filters, page |-> visit.page, seen |-> visit.seen,
           shown |-> visit.shown, start |-> visit.start, changed |-> visit.changed,
           lost |-> visit.lost, quiet |-> visit.quiet, tied |-> visit.tied, ids |-> visit.ids,
           total |-> visit.total, bounds |-> bounds, touched |-> {}]
  BY <1>1, <1>2 DEF VisitType
<1> HIDE DEF v
<1>5. VisitType(v)
  BY <1>2, <1>4 DEF VisitType
<1>6. PendingOk(product, v)
  BY <1>1, <1>2, <1>4 DEF PendingOk, Pending, Owed
<1>7. AnsweredOk(product, v)
  BY <1>1, <1>2, <1>4 DEF AnsweredOk, Beyond, Untied, Passed, Owed, Counted, Pending
<1>8. AskedOk(product, v) /\ FoundOk(product, v)
  BY <1>4 DEF AskedOk, FoundOk
<1>9. BoundsOk(product, v)
  BY <1>3, <1>4 DEF BoundsOk
<1> QED
  BY <1>1, <1>2, <1>5, <1>6, <1>7, <1>8, <1>9 DEF ListInv, v

LEMMA SearchFinds == ASSUME ListInv, Lists!search PROVE ListInv'
<1>1. /\ visit.op = "asked" /\ visit.filters.sort = "search"
      /\ product' = product /\ edits' = edits
  BY DEF Lists!search
<1> DEFINE f == visit.filters
           M == Lists!MatchesIn(product, f)
           n == visit.page * Limit
<1>2. PICK s \in Lists!Orders(f) :
        visit' = [visit EXCEPT !.op = IF Lists!Rows(s, visit.page) = {} THEN "page" ELSE "ids",
                               !.ids = Lists!Rows(s, visit.page), !.tied = @ \/ Lists!Tied(f)]
  BY DEF Lists!search
<1> DEFINE rows == Lists!Rows(s, visit.page)
           tied == visit.tied \/ Lists!Tied(f)
           op == IF rows = {} THEN "page" ELSE "ids"
           v == visit'
<1>3. visit' = [visit EXCEPT !.op = op, !.ids = rows, !.tied = tied]
  BY <1>2
<1>4. VisitType(visit)
  BY DEF ListInv
<1>5. v = [op |-> op, filters |-> f, page |-> visit.page, seen |-> visit.seen,
           shown |-> visit.shown, start |-> visit.start, changed |-> visit.changed,
           lost |-> visit.lost, quiet |-> visit.quiet, tied |-> tied, ids |-> rows,
           total |-> visit.total, bounds |-> visit.bounds, touched |-> visit.touched]
  <2> HIDE DEF rows, tied, op
  <2> QED
    BY <1>3, <1>4 DEF VisitType
<1>6. /\ rows \subseteq M /\ M \subseteq ListedProducts /\ Owed(visit) \subseteq M
      /\ Cardinality(rows) \in Nat /\ Cardinality(M) \in Nat /\ n \in Nat
      /\ ~ visit.tied /\ ~ Lists!Tied(visit.filters) =>
           /\ Beyond(product, visit, visit.seen \cup rows, n)
           /\ ~ n < Cardinality(M) \/ rows = {} =>
                Cardinality(Owed(visit) \ (visit.seen \cup rows)) <= visit.lost
      /\ visit.quiet => /\ visit.start = M
                        /\ visit.shown + Cardinality(rows) =
                             IF n <= Cardinality(M) THEN n ELSE Cardinality(M)
                        /\ rows = {} => Cardinality(M) = 0
  BY <1>1, PageReads
<1>7. visit.page \in Nat \ {0} /\ visit.shown \in Nat /\ visit.total = 0
  BY <1>1, <1>4 DEF VisitType
<1>8. ~ tied => ~ visit.tied /\ ~ Lists!Tied(visit.filters)
  OBVIOUS
<1>9. (op = "page" /\ rows = {}) \/ (op = "ids" /\ rows # {})
  OBVIOUS
<1>10. Cardinality({}) = 0
  BY FS_EmptySet
<1> HIDE DEF rows, tied, op, M, v, n, f
<1>11. VisitType(v)
  BY <1>1, <1>4, <1>5, <1>6, <1>9 DEF VisitType, f
<1>12. Owed(v) = Owed(visit)
  BY <1>5 DEF Owed
<1>13. PendingOk(product, v)
  BY <1>5, <1>6, <1>12 DEF PendingOk, M, f
<1>14. v.page * Limit = n
  BY <1>5 DEF n
<1>15. CASE op = "ids"
  <2>1. Beyond(product, v, v.seen \cup v.ids, n)
    BY <1>5, <1>6, <1>8, <1>12 DEF Beyond, Untied, Passed, f
  <2>2. v.quiet => v.start = M /\ v.shown + Cardinality(v.ids) = IF n <= Cardinality(M) THEN n ELSE Cardinality(M)
    BY <1>5, <1>6
  <2>3. FoundOk(product, v)
    BY <1>5, <1>6, <1>14, <2>1, <2>2 DEF FoundOk, Counted
  <2>4. AskedOk(product, v) /\ AnsweredOk(product, v) /\ BoundsOk(product, v)
    BY <1>5, <1>15 DEF AskedOk, AnsweredOk, BoundsOk
  <2> QED
    BY <1>1, <1>11, <1>13, <2>3, <2>4 DEF ListInv, v
<1>16. CASE op = "page"
  <2>1. ~ v.tied => Cardinality(Owed(v) \ v.seen) <= v.lost
    <3>1. visit.seen \cup rows = visit.seen
      BY <1>9, <1>16
    <3> QED
      BY <1>5, <1>6, <1>8, <1>9, <1>12, <1>16, <3>1
  <2>2. ~ Pending(v)
    BY <1>5, <1>6, <1>7, <1>14, <1>16, PageNumbers DEF Pending
  <2>3. v.quiet => /\ v.start = M /\ Cardinality(M) = 0
                   /\ v.shown = IF n <= Cardinality(M) THEN n ELSE Cardinality(M)
    BY <1>5, <1>6, <1>7, <1>9, <1>10, <1>16
  <2>4. v.quiet => v.total = Cardinality(v.start)
    BY <1>5, <1>7, <2>3
  <2>5. AnsweredOk(product, v)
    BY <1>14, <2>1, <2>2, <2>3, <2>4 DEF AnsweredOk, Counted
  <2>6. AskedOk(product, v) /\ FoundOk(product, v) /\ BoundsOk(product, v)
    BY <1>1, <1>5, <1>16 DEF AskedOk, FoundOk, BoundsOk, f
  <2> QED
    BY <1>1, <1>11, <1>13, <2>5, <2>6 DEF ListInv, v
<1> QED
  BY <1>9, <1>15, <1>16

LEMMA SearchShows == ASSUME ListInv, Lists!searchPage PROVE ListInv'
<1> DEFINE f == visit.filters
           M == Lists!MatchesIn(product, f)
           n == visit.page * Limit
           v == visit'
<1>1. /\ visit.op = "ids" /\ product' = product /\ edits' = edits
  BY DEF Lists!searchPage
<1>2. PICK removed \in SUBSET (visit.ids \ Lists!Listed) :
        visit' = [visit EXCEPT !.op = "page", !.total = Lists!Cardinality(Lists!Matches(f)),
                               !.seen = @ \cup (visit.ids \ removed),
                               !.shown = @ + Lists!Cardinality(visit.ids \ removed), !.ids = {}]
  BY DEF Lists!searchPage
<1> DEFINE rows == visit.ids \ removed
<1>3. visit' = [visit EXCEPT !.op = "page", !.total = Cardinality(M), !.seen = @ \cup rows,
                             !.shown = @ + Cardinality(rows), !.ids = {}]
  BY <1>2, ListSets DEF Lists!Matches
<1>4. VisitType(visit) /\ PendingOk(product, visit) /\ FoundOk(product, visit)
      /\ product \in [ListedProducts -> ProductRow]
  BY DEF ListInv
<1>5. v = [op |-> "page", filters |-> f, page |-> visit.page, seen |-> visit.seen \cup rows,
           shown |-> visit.shown + Cardinality(rows), start |-> visit.start,
           changed |-> visit.changed, lost |-> visit.lost, quiet |-> visit.quiet,
           tied |-> visit.tied, ids |-> {}, total |-> Cardinality(M), bounds |-> visit.bounds,
           touched |-> visit.touched]
  <2> HIDE DEF rows, M
  <2> QED
    BY <1>3, <1>4 DEF VisitType
<1>6. /\ visit.page \in Nat \ {0} /\ visit.shown \in Nat /\ visit.ids \subseteq ListedProducts
      /\ f.sort = "search" /\ f.sort \in Sorts /\ n \in Nat /\ n # 0
  <2>1. visit.page \in Nat \ {0} /\ 0 \in Nat
    BY <1>4 DEF VisitType
  <2>2. n \in Nat /\ (visit.page - 1) * Limit \in Nat /\ n = (visit.page - 1) * Limit + Limit
    BY <2>1, PageNumbers
  <2>3. n # 0
    <3> HIDE DEF n
    <3> QED
      BY <2>2, ListConstants
  <2> QED
    BY <1>1, <1>4, <2>1, <2>2, <2>3 DEF VisitType
<1>7. /\ M \subseteq ListedProducts /\ M \subseteq Lists!Listed /\ IsFiniteSet(M) /\ Cardinality(M) \in Nat
  BY MatchesAreFinite DEF Lists!MatchesIn, Lists!Listed
<1>8. Cardinality(rows) \in Nat
  <2>1. rows \subseteq ListedProducts
    BY <1>6
  <2> QED
    BY <2>1, ListConstants, FS_Subset, FS_CardinalityType
<1>9. Owed(visit) \subseteq M /\ (visit.quiet => visit.start = M)
  BY <1>1, <1>4 DEF PendingOk, Pending
<1>10. Owed(visit) \ (visit.seen \cup rows) = Owed(visit) \ (visit.seen \cup visit.ids)
  BY <1>7, <1>9
<1>11. visit.quiet => rows = visit.ids
  BY <1>1, <1>4, <1>7, <1>9 DEF FoundOk
<1>12. /\ Beyond(product, visit, visit.seen \cup visit.ids, n)
       /\ Passed(product, visit, visit.seen \cup visit.ids, n)
            = {p \in Owed(visit) \ (visit.seen \cup rows) : Rank(product, f, p) < n}
  BY <1>1, <1>4, <1>10 DEF FoundOk, Passed
<1>13. \A p \in M : Rank(product, f, p) \in Nat /\ Rank(product, f, p) < Cardinality(M)
  BY <1>4, <1>6, RanksGrow
<1>14. visit.quiet => visit.shown + Cardinality(rows) = IF n <= Cardinality(M) THEN n ELSE Cardinality(M)
  BY <1>1, <1>4, <1>9, <1>11 DEF FoundOk, Counted
<1> HIDE DEF rows, M, v, n, f
<1>15. VisitType(v)
  BY <1>4, <1>5, <1>6, <1>7, <1>8 DEF VisitType, f
<1>16. Owed(v) = Owed(visit)
  BY <1>5 DEF Owed
<1>17. PendingOk(product, v)
  BY <1>5, <1>9, <1>16 DEF PendingOk, M, f
<1>18. AnsweredOk(product, v)
  <2>1. Beyond(product, v, v.seen, n)
    <3>1. Passed(product, v, v.seen, n) = Passed(product, visit, visit.seen \cup visit.ids, n)
      BY <1>5, <1>10, <1>16 DEF Passed, f
    <3> QED
      BY <1>5, <1>12, <1>16, <3>1 DEF Beyond, Untied, f
  <2>2. ASSUME ~ v.tied, ~ n < v.total PROVE Cardinality(Owed(v) \ v.seen) <= v.lost
    <3>1. \A p \in Owed(visit) \ (visit.seen \cup rows) : Rank(product, f, p) < n
      BY <1>5, <1>6, <1>7, <1>9, <1>13, <2>2
    <3>2. Passed(product, visit, visit.seen \cup visit.ids, n) = Owed(v) \ v.seen
      BY <1>5, <1>12, <1>16, <3>1
    <3>3. Cardinality(Passed(product, visit, visit.seen \cup visit.ids, n)) <= visit.lost
      BY <1>5, <1>6, <1>12, <2>2 DEF Beyond
    <3> QED
      BY <1>5, <3>2, <3>3
  <2>3. v.quiet => v.start = M /\ v.total = Cardinality(M) /\ v.shown = IF n <= Cardinality(M) THEN n ELSE Cardinality(M)
    BY <1>5, <1>9, <1>14
  <2>4. v.page * Limit = n
    BY <1>5 DEF n
  <2> QED
    BY <2>1, <2>2, <2>3, <2>4 DEF AnsweredOk, Counted
<1>19. AskedOk(product, v) /\ FoundOk(product, v) /\ BoundsOk(product, v)
  BY <1>5, <1>6 DEF AskedOk, FoundOk, BoundsOk
<1> QED
  BY <1>1, <1>4, <1>15, <1>17, <1>18, <1>19 DEF ListInv, v

LEMMA ListChanges == ASSUME ListInv, NEW e \in ListedProducts, Lists!Edit(e) PROVE ListInv'
<1> DEFINE f == visit.filters
           M == Lists!MatchesIn(product, f)
           matched == e \in M
           lost == IF matched THEN visit.lost + 1 ELSE visit.lost
           quiet == visit.quiet /\ ~ matched /\ e \notin Lists!MatchesIn(product', f)
           v == visit'
<1>1. PICK r \in ProductRow : product' = [product EXCEPT ![e] = r]
  BY DEF Lists!Edit, ProductRow
<1>2. visit' = [visit EXCEPT !.changed = @ \cup {e}, !.touched = @ \cup {e},
                             !.lost = lost, !.quiet = quiet]
  BY DEF Lists!Edit, Lists!Matches
<1>3. /\ product \in [ListedProducts -> ProductRow]
      /\ VisitType(visit) /\ PendingOk(product, visit) /\ AskedOk(product, visit)
      /\ FoundOk(product, visit) /\ AnsweredOk(product, visit)
      /\ BoundsOk(product, visit)
  BY DEF ListInv
<1>4. product' \in [ListedProducts -> ProductRow]
  BY <1>1, <1>3
<1>5. v = [op |-> visit.op, filters |-> f, page |-> visit.page, seen |-> visit.seen,
           shown |-> visit.shown, start |-> visit.start, changed |-> visit.changed \cup {e},
           lost |-> lost, quiet |-> quiet, tied |-> visit.tied, ids |-> visit.ids,
           total |-> visit.total, bounds |-> visit.bounds, touched |-> visit.touched \cup {e}]
  <2> HIDE DEF lost, quiet
  <2> QED
    BY <1>2, <1>3 DEF VisitType
<1>6. /\ visit.lost \in Nat /\ f.sort \in Sorts /\ visit.page \in Nat \ {0}
      /\ Owed(visit) \subseteq ListedProducts
  BY <1>3 DEF VisitType, Owed
<1>7. /\ lost \in Nat /\ visit.lost <= lost /\ (matched => lost = visit.lost + 1)
      /\ quiet => visit.quiet /\ ~ matched /\ e \notin Lists!MatchesIn(product', f)
  BY <1>6
<1>8. Owed(v) = Owed(visit) \ {e}
  <2> HIDE DEF lost, quiet
  <2> QED
    BY <1>5 DEF Owed
<1>9. /\ M \ {e} \subseteq Lists!MatchesIn(product', f)
      /\ ~ matched /\ e \notin Lists!MatchesIn(product', f) => Lists!MatchesIn(product', f) = M
      /\ \A p \in M \ {e} :
           /\ Rank(product, f, p) <= Rank(product', f, p) + 1
           /\ ~ matched => Rank(product, f, p) <= Rank(product', f, p)
      /\ \A p, q \in ListedProducts \ {e} : BeforeIn(product, f, p, q) => BeforeIn(product', f, p, q)
  BY <1>1, <1>3, EditMovesByOne DEF Rank
<1>10. /\ \A p \in M : /\ Rank(product, f, p) \in Nat
                       /\ \A q \in M : BeforeIn(product, f, p, q) =>
                            Rank(product, f, p) < Rank(product, f, q)
       /\ \A p \in Lists!MatchesIn(product', f) : Rank(product', f, p) \in Nat
  BY <1>3, <1>4, <1>6, RanksGrow
<1>11. \A rows : Lists!MatchesIn(rows, f) \subseteq ListedProducts
  BY MatchesAreFinite
<1>12. (visit.page - 1) * Limit \in Nat /\ visit.page * Limit \in Nat
  BY <1>6, PageNumbers, ListConstants
<1>13. Pending(visit) => Owed(visit) \subseteq M /\ (visit.quiet => visit.start = M)
  BY <1>3 DEF PendingOk
<1> HIDE DEF f, M, matched, lost, quiet, v
<1>14. VisitType(v)
  BY <1>3, <1>5, <1>7 DEF VisitType, f
<1>15. Pending(v) <=> Pending(visit)
  BY <1>5 DEF Pending
<1>16. PendingOk(product', v)
  BY <1>5, <1>7, <1>8, <1>9, <1>13, <1>15 DEF PendingOk, f
<1>17. ASSUME NEW was, NEW n \in Nat, Pending(visit), Beyond(product, visit, was, n)
       PROVE  Beyond(product', v, was, n)
  <2> DEFINE old == Passed(product, visit, was, n)
             new == Passed(product', v, was, n)
             edge == {p \in Owed(visit) : Rank(product, f, p) = n}
  <2> SUFFICES ASSUME ~ visit.tied, n # 0
               PROVE  Untied(product', v) /\ Cardinality(new) <= lost
    BY <1>5 DEF Beyond
  <2>1. Untied(product, visit) /\ Cardinality(old) <= visit.lost
    BY <1>17 DEF Beyond
  <2>2. Owed(visit) \subseteq M
    BY <1>13, <1>17
  <2>3. Untied(product', v)
    BY <1>5, <1>6, <1>8, <1>9, <2>1 DEF Untied, f
  <2>4. /\ old = {p \in Owed(visit) \ was : Rank(product, f, p) < n}
        /\ new = {p \in (Owed(visit) \ {e}) \ was : Rank(product', f, p) < n}
    BY <1>5, <1>8 DEF Passed, f
  <2>5. old \in SUBSET Owed(visit)
    BY <2>4
  <2>6. IsFiniteSet(old) /\ Cardinality(old) \in Nat
    BY <1>3, <2>5, OwedIsFinite
  <2>7. \A p \in new : /\ p \in M \ {e} /\ Rank(product, f, p) \in Nat /\ Rank(product', f, p) \in Nat
                       /\ Rank(product', f, p) < n
    BY <1>9, <1>10, <2>2, <2>4
  <2> HIDE DEF old, new
  <2>8. CASE ~ matched
    <3>1. new \subseteq old
      <4> SUFFICES ASSUME NEW p \in new PROVE p \in old
        OBVIOUS
      <4>1. Rank(product, f, p) < n
        BY <1>9, <2>7, <2>8
      <4> QED
        BY <2>4, <4>1
    <3>2. Cardinality(new) <= Cardinality(old) /\ Cardinality(new) \in Nat
      BY <2>6, <3>1, FS_Subset, FS_CardinalityType
    <3> QED
      BY <1>6, <1>7, <2>1, <2>3, <2>6, <3>2
  <2>9. CASE matched
    <3>1. new \subseteq old \cup edge
      <4> SUFFICES ASSUME NEW p \in new PROVE p \in old \cup edge
        OBVIOUS
      <4>1. Rank(product, f, p) < n \/ Rank(product, f, p) = n
        BY <1>9, <2>7
      <4> QED
        BY <2>4, <4>1
    <3>2. \A p, q \in edge : p = q
      <4> SUFFICES ASSUME NEW p \in edge, NEW q \in edge, p # q PROVE FALSE
        OBVIOUS
      <4>1. BeforeIn(product, f, p, q) \/ BeforeIn(product, f, q, p)
        BY <2>1 DEF Untied, f
      <4>2. Rank(product, f, p) < Rank(product, f, q) \/ Rank(product, f, q) < Rank(product, f, p)
        BY <1>10, <2>2, <4>1
      <4> QED
        BY <4>2
    <3>3. Cardinality(old \cup edge) <= Cardinality(old) + 1 /\ IsFiniteSet(old \cup edge)
          /\ Cardinality(old \cup edge) \in Nat
      <4> HIDE DEF edge
      <4>1. CASE edge = {}
        <5>1. old \cup edge = old
          BY <4>1
        <5>2. Cardinality(old) <= Cardinality(old) + 1
          BY <2>6
        <5> QED
          BY <2>6, <5>1, <5>2
      <4>2. CASE edge # {}
        <5>1. PICK x \in edge : TRUE
          BY <4>2
        <5>2. old \cup edge = old \cup {x}
          BY <3>2, <5>1
        <5>3. IsFiniteSet(old \cup {x}) /\ Cardinality(old \cup {x}) = IF x \in old THEN Cardinality(old) ELSE Cardinality(old) + 1
          BY <2>6, FS_AddElement
        <5> QED
          BY <2>6, <5>2, <5>3
      <4> QED
        BY <4>1, <4>2
    <3>4. Cardinality(new) <= Cardinality(old \cup edge) /\ Cardinality(new) \in Nat
      BY <3>1, <3>3, FS_Subset, FS_CardinalityType
    <3> QED
      BY <1>6, <1>7, <2>1, <2>3, <2>6, <2>9, <3>3, <3>4
  <2> QED
    BY <2>8, <2>9
<1>18. AskedOk(product', v)
  BY <1>3, <1>5, <1>7, <1>12, <1>17 DEF AskedOk, Pending
<1>19. FoundOk(product', v)
  BY <1>3, <1>5, <1>7, <1>12, <1>17 DEF FoundOk, Pending, Counted
<1>20. AnsweredOk(product', v)
  <2>1. Pending(v) /\ visit.op \in {"bounds", "page"} => Beyond(product', v, visit.seen, visit.page * Limit)
    BY <1>3, <1>12, <1>15, <1>17 DEF AnsweredOk
  <2>2. /\ Cardinality(Owed(v) \ v.seen) <= Cardinality(Owed(visit) \ visit.seen)
        /\ Cardinality(Owed(v) \ v.seen) \in Nat /\ Cardinality(Owed(visit) \ visit.seen) \in Nat
    <3>1. Owed(v) \ v.seen \in SUBSET (Owed(visit) \ visit.seen)
      BY <1>5, <1>8
    <3>2. Owed(visit) \ visit.seen \in SUBSET Owed(visit)
      OBVIOUS
    <3> QED
      BY <1>3, <3>1, <3>2, OwedIsFinite
  <2>3. ASSUME visit.op \in {"bounds", "page"}, ~ v.tied, ~ v.page * Limit < v.total
        PROVE  Cardinality(Owed(v) \ v.seen) <= v.lost
    <3>1. Cardinality(Owed(visit) \ visit.seen) <= visit.lost
      BY <1>3, <1>5, <2>3 DEF AnsweredOk
    <3> QED
      BY <1>5, <1>6, <1>7, <2>2, <3>1
  <2> QED
    BY <1>3, <1>5, <1>7, <2>1, <2>3 DEF AnsweredOk, Counted
<1>21. BoundsOk(product', v)
  <2>1. \A p \in ListedProducts \ {e} : product'[p] = product[p]
    BY <1>1, <1>3
  <2> QED
    BY <1>3, <1>5, <2>1 DEF BoundsOk, f
<1> QED
  BY <1>4, <1>14, <1>16, <1>18, <1>19, <1>20, <1>21 DEF ListInv, v

LEMMA ListBegins == Lists!Init => ListInv
<1> SUFFICES ASSUME Lists!Init PROVE ListInv
  OBVIOUS
<1>1. product \in [ListedProducts -> ProductRow]
  BY DEF Lists!Init, ProductRow
<1>2. visit = [op |-> "page", filters |-> Lists!All, page |-> 1, seen |-> {}, shown |-> 0,
               start |-> {}, changed |-> {}, lost |-> 0, quiet |-> {} = {}, tied |-> FALSE,
               ids |-> {}, total |-> 0, bounds |-> Lists!priceBounds, touched |-> {}]
  BY DEF Lists!Init, Lists!Asked
<1>3. Lists!All.sort = "newest"
  BY DEF Lists!All
<1>4. VisitType(visit)
  BY <1>2, <1>3 DEF VisitType, Sorts
<1>5. ~ Lists!hasNext(1, 0) /\ 1 * Limit \in Nat
  <2>1. 1 \in Nat \ {0} /\ 0 \in Nat
    OBVIOUS
  <2>2. 1 * Limit \in Nat /\ (Lists!hasNext(1, 0) <=> 1 * Limit < 0)
    BY <2>1, PageNumbers
  <2> QED
    BY <2>2
<1>6. ~ Pending(visit)
  BY <1>2, <1>5 DEF Pending
<1>7. Cardinality({}) = 0 /\ visit.page * Limit \in Nat /\ Owed(visit) \ visit.seen = {}
  BY <1>2, <1>5, FS_EmptySet DEF Owed
<1>8. AnsweredOk(product, visit)
  <2>1. Cardinality(Owed(visit) \ visit.seen) <= visit.lost
    <3>1. visit.lost = 0
      BY <1>2
    <3>2. Cardinality(Owed(visit) \ visit.seen) = 0
      BY <1>7
    <3> QED
      BY <3>1, <3>2
  <2>2. Counted(visit, visit.shown, visit.page * Limit)
    BY <1>2, <1>7 DEF Counted
  <2>3. visit.total = Cardinality(visit.start)
    BY <1>2, <1>7
  <2> QED
    BY <1>6, <2>1, <2>2, <2>3 DEF AnsweredOk
<1>9. PendingOk(product, visit) /\ AskedOk(product, visit) /\ FoundOk(product, visit)
  BY <1>2, <1>6 DEF PendingOk, AskedOk, FoundOk
<1>10. BoundsOk(product, visit)
  <2>1. \A p \in ListedProducts : product[p].listed => p \in Lists!Listed
    BY DEF Lists!Listed
  <2> QED
    BY <1>1, <1>2, <2>1, BoundsLeaveNothingOut DEF BoundsOk
<1> QED
  BY <1>1, <1>4, <1>8, <1>9, <1>10 DEF ListInv

\* Whoever reads a list to its last page, without two rows that compare equal, has missed no
\* more of the products that matched and were not changed than there were changes to products of
\* the list meanwhile: none when others were only published, and each is seen once when nothing
\* happened, on pages of any size (listActive, search, parsePage, buildPageMeta, priceBounds).
THEOREM PagesCover == ShoppingSpec => []PagesCoverTheList
<1>1. ShoppingInit => ListInv
  BY ListBegins DEF ShoppingInit
<1>2. ListInv /\ [ShoppingNext]_<<vars, listVars, accountVars, reviewVars, about>> => ListInv'
  <2> SUFFICES ASSUME ListInv, Lists!Next \/ UNCHANGED listVars PROVE ListInv'
    BY DEF ShoppingNext
  <2>1. CASE UNCHANGED listVars
    <3>1. product' = product /\ edits' = edits /\ visit' = visit
      BY <2>1 DEF listVars
    <3> QED
      BY <3>1 DEF ListInv
  <2>2. CASE Lists!Next
    BY <2>2, ListOpens, ListFilters, ListGoesOn, ListIsRead, ListIsShown, SearchFinds, SearchShows,
       ListChanges DEF Lists!Next
  <2> QED
    BY <2>1, <2>2
<1> QED
  BY <1>1, <1>2, ListsCover, PTL DEF ShoppingSpec

============================================================================
