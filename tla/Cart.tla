-------------------------------- MODULE Cart --------------------------------
(***************************************************************************)
(* CartService and CartController.  A browser owns its cart through a      *)
(* cookie; every request resolves the cart first, then reads, then writes, *)
(* and other requests of the same browser come in between.  A row of       *)
(* CartItem is its quantity here, 0: no row; price snapshots are left out  *)
(* (Pricing.tla has the prices).                                           *)
(***************************************************************************)
EXTENDS Integers

CONSTANTS Browsers,     \* clients that keep cookies
          Carts,        \* ids of the carts that may be created
          None,         \* no cart, no variant, no browser
          Variants,     \* of one product
          Backorder,    \* variants whose product has allowBackorder
          MaxPerOrder,  \* product.maxPerOrder, 0: no limit
          Quantities,   \* inputs: quantities of the forms
          Edits         \* requests that change a cart, at the same time

ASSUME CartAssumption ==
    /\ None \notin Browsers \cup Carts \cup Variants
    /\ Backorder \subseteq Variants
    /\ MaxPerOrder \in Nat
    /\ Quantities \subseteq Nat

VARIABLES
    cookie,   \* the cart whose token a browser's sv_cart cookie holds
    status,   \* Cart.status, "ABSENT": no row
    items,    \* CartItem.quantity per cart and variant
    stock,    \* ProductVariant.stock
    edit      \* the requests in flight

cartRows == <<status, items>>
cartVars == <<cookie, cartRows, edit>>

CartStatus == {"ACTIVE", "CONVERTED", "ABANDONED"}

Edit == [at : {"idle", "add", "addWrite", "update", "updateWrite", "remove"},
         browser : Browsers \cup {None}, cart : Carts \cup {None},
         variant : Variants \cup {None}, quantity : Nat,
         created : BOOLEAN]    \* the cart is new, and the answer sets the cookie

IdleEdit == [at |-> "idle", browser |-> None, cart |-> None, variant |-> None,
             quantity |-> 0, created |-> FALSE]

\* The ACTIVE cart of b's cookie.
resolveCart(b) == IF cookie[b] # None /\ status[cookie[b]] = "ACTIVE" THEN cookie[b] ELSE None

\* Of one row of a cart, whatever else of the product the cart has.
Within(v, q) ==
    /\ MaxPerOrder = 0 \/ q <= MaxPerOrder
    /\ v \in Backorder \/ q <= stock[v]

SetQuantity(c, v, q) == items' = [items EXCEPT ![c][v] = q]

Ends(e) == edit' = [edit EXCEPT ![e] = IdleEdit]

----------------------------------------------------------------------------

\* A request to change a cart comes in and resolves it.  Only add creates one.
Begin(e, at, b, c, v, q) ==
    /\ edit[e] = IdleEdit
    /\ edit' = [edit EXCEPT ![e] =
                   [at |-> at, browser |-> b, cart |-> c, variant |-> v, quantity |-> q,
                    created |-> resolveCart(b) = None]]

add(e, b, v, q) ==
    /\ q > 0
    /\ resolveCart(b) # None
    /\ Begin(e, "add", b, resolveCart(b), v, q)
    /\ UNCHANGED <<cookie, cartRows, stock>>

CreateCart(e, b, v, q) ==
    /\ q > 0
    /\ resolveCart(b) = None
    /\ \E c \in Carts :
         /\ status[c] = "ABSENT"
         /\ status' = [status EXCEPT ![c] = "ACTIVE"]
         /\ Begin(e, "add", b, c, v, q)
    /\ UNCHANGED <<cookie, items, stock>>

update(e, b, v, q) ==
    /\ resolveCart(b) # None
    /\ Begin(e, "update", b, resolveCart(b), v, q)
    /\ UNCHANGED <<cookie, cartRows, stock>>

remove(e, b, v) ==
    /\ resolveCart(b) # None
    /\ Begin(e, "remove", b, resolveCart(b), v, 0)
    /\ UNCHANGED <<cookie, cartRows, stock>>

\* The browser gets the cookie of a new cart with the answer, whatever it says.
Answered(e) ==
    /\ cookie' = IF edit[e].created
                    THEN [cookie EXCEPT ![edit[e].browser] = edit[e].cart] ELSE cookie
    /\ Ends(e)

\* addItem adds to the quantity it finds; the limits are checked on the sum.
addItem(e) ==
    /\ edit[e].at = "add"
    /\ LET v == edit[e].variant
           newQty == items[edit[e].cart][v] + edit[e].quantity
       IN  IF Within(v, newQty)
             THEN /\ edit' = [edit EXCEPT ![e].at = "addWrite", ![e].quantity = newQty]
                  /\ UNCHANGED cookie
             ELSE Answered(e)
    /\ UNCHANGED <<cartRows, stock>>

\* ... and writes the sum, to a cart of any status.
AddWrite(e) ==
    /\ edit[e].at = "addWrite"
    /\ SetQuantity(edit[e].cart, edit[e].variant, edit[e].quantity)
    /\ Answered(e)
    /\ UNCHANGED <<status, stock>>

updateItem(e) ==
    /\ edit[e].at = "update"
    /\ LET v == edit[e].variant
           q == edit[e].quantity
       IN  IF items[edit[e].cart][v] > 0 /\ (q = 0 \/ Within(v, q))
             THEN edit' = [edit EXCEPT ![e].at = "updateWrite"]
             ELSE Ends(e)
    /\ UNCHANGED <<cookie, cartRows, stock>>

\* The row is deleted or updated by its id; without the row the statement throws.
UpdateWrite(e) ==
    /\ edit[e].at = "updateWrite"
    /\ IF items[edit[e].cart][edit[e].variant] > 0
         THEN SetQuantity(edit[e].cart, edit[e].variant, edit[e].quantity)
         ELSE UNCHANGED items
    /\ Ends(e)
    /\ UNCHANGED <<cookie, status, stock>>

removeItem(e) ==
    /\ edit[e].at = "remove"
    /\ SetQuantity(edit[e].cart, edit[e].variant, 0)
    /\ Ends(e)
    /\ UNCHANGED <<cookie, status, stock>>

\* A statement of the request throws, or the worker is restarted and the
\* browser gets no answer.
EditFails(e) ==
    /\ edit[e].at # "idle"
    /\ Answered(e) \/ (Ends(e) /\ UNCHANGED cookie)
    /\ UNCHANGED <<cartRows, stock>>

\* The cron gives up on a cart that nobody has changed for a while.
cleanCarts(c) ==
    /\ status[c] = "ACTIVE"
    /\ status' = [status EXCEPT ![c] = "ABANDONED"]
    /\ UNCHANGED <<cookie, items, stock, edit>>

----------------------------------------------------------------------------

CartInit ==
    /\ cookie = [b \in Browsers |-> None]
    /\ status = [c \in Carts |-> "ABSENT"]
    /\ items = [c \in Carts |-> [v \in Variants |-> 0]]
    /\ edit = [e \in Edits |-> IdleEdit]

EditNext ==
    \E e \in Edits :
       \/ \E b \in Browsers, v \in Variants, q \in Quantities :
            add(e, b, v, q) \/ CreateCart(e, b, v, q) \/ update(e, b, v, q)
       \/ \E b \in Browsers, v \in Variants : remove(e, b, v)
       \/ addItem(e) \/ AddWrite(e) \/ updateItem(e) \/ UpdateWrite(e) \/ removeItem(e)
       \/ EditFails(e)

CartTypeOK ==
    /\ cookie \in [Browsers -> Carts \cup {None}]
    /\ status \in [Carts -> CartStatus \cup {"ABSENT"}]
    /\ items \in [Carts -> [Variants -> Nat]]
    /\ stock \in [Variants -> Int]
    /\ edit \in [Edits -> Edit]
=============================================================================
