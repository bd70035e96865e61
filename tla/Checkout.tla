------------------------------ MODULE Checkout ------------------------------
(***************************************************************************)
(* CheckoutController and CheckoutService over the carts of Cart.tla, with *)
(* the coupons of CouponsService.  A submit reads the order of its key,    *)
(* the cart's items and the coupon outside of the transaction, and creates *)
(* the order, reserves the stock, redeems the coupon and converts the cart *)
(* inside of it.                                                           *)
(*                                                                         *)
(* A submit in its transaction has the steps at which it may wait for      *)
(* another one; what it writes is visible at the commit, and a rollback    *)
(* leaves nothing.  InnoDB's locks are implied by how far it is: the       *)
(* unique key from the insert on, the variants and the coupon shared from  *)
(* the insert on (foreign keys), the variants exclusive from the           *)
(* reservation on, the coupon exclusive from the redemption on.            *)
(* Inventory.tla has the reservations in detail; here they see the stock   *)
(* as committed and take it.                                               *)
(* Money is left out: a coupon whose dates or minimum do not fit may be    *)
(* refused at any time.                                                    *)
(***************************************************************************)
EXTENDS Cart, FiniteSets

CONSTANTS Submits,       \* requests that place orders, at the same time
          Keys,          \* idempotency keys the checkout pages may get
          Coupons,       \* ids of the coupon rows of the one code
          UsageLimit,    \* Coupon.usageLimit
          InitialStock

ASSUME CheckoutAssumption ==
    /\ None \notin Keys \cup Coupons
    /\ UsageLimit \in Nat
    /\ InitialStock \in [Variants -> Nat]

VARIABLES
    pages,    \* keys of the checkout pages a browser has open, in any tab
    orders,   \* the Order rows with their items
    coupon,   \* the row that has the code now
    used,     \* Coupon.usedCount
    submit    \* the submits in flight

orderVars == <<orders, coupon, used>>
vars == <<cookie, status, items, stock, edit, pages, orders, coupon, used, submit>>

Baskets == [Variants -> Nat]

Order == [by : Submits,          \* stands for orderNumber: who created it
          key : Keys, customer : Browsers, cart : Carts, items : Baskets,
          coupon : Coupons \cup {None}]

Submit == [at : {"idle", "key", "items", "coupon", "create", "reserve", "redeem",
                 "commit", "dup"},
           key : Keys \cup {None}, customer : Browsers \cup {None},
           cart : Carts \cup {None}, items : Baskets, wants : BOOLEAN,
           coupon : Coupons \cup {None}]

IdleSubmit == [at |-> "idle", key |-> None, customer |-> None, cart |-> None,
               items |-> [v \in Variants |-> 0], wants |-> FALSE, coupon |-> None]

GoesOn(s, at) == submit' = [submit EXCEPT ![s].at = at]

\* The request is answered: with an order, a redirect to the cart or an error.
Answer(s) == submit' = [submit EXCEPT ![s] = IdleSubmit]

Lines(basket) == {v \in Variants : basket[v] > 0}

\* Locks that s holds in its transaction.
HasKey(s) == submit[s].at \in {"reserve", "redeem", "commit"}
SharesVariant(s, v) == HasKey(s) /\ v \in Lines(submit[s].items)
OwnsVariant(s, v) == submit[s].at \in {"redeem", "commit"} /\ v \in Lines(submit[s].items)
SharesCoupon(s, c) == HasKey(s) /\ submit[s].coupon = c
OwnsCoupon(s, c) == submit[s].at = "commit" /\ submit[s].coupon = c

----------------------------------------------------------------------------

\* The checkout page is rendered with a key of its own.
form(b, k) ==
    /\ resolveCart(b) # None
    /\ Lines(items[resolveCart(b)]) # {}
    /\ \A c \in Browsers : k \notin pages[c]
    /\ pages' = [pages EXCEPT ![b] = @ \cup {k}]
    /\ UNCHANGED <<cartVars, stock, orderVars, submit>>

\* One of the pages is submitted, with a coupon code or without.
SubmitPage(s, b, k, wants) ==
    /\ submit[s].at = "idle"
    /\ k \in pages[b]
    /\ resolveCart(b) # None
    /\ submit' = [submit EXCEPT ![s] = [IdleSubmit EXCEPT !.at = "key", !.key = k,
                     !.customer = b, !.cart = resolveCart(b), !.wants = wants]]
    /\ UNCHANGED <<cartVars, stock, orderVars, pages>>

Placed(k) == \E o \in orders : o.key = k

\* placeOrder: an order of this key is the answer.
placeOrder(s) ==
    /\ submit[s].at = "key"
    /\ IF Placed(submit[s].key) THEN Answer(s) ELSE GoesOn(s, "items")
    /\ UNCHANGED <<cartVars, stock, orderVars, pages>>

ReadItems(s) ==
    /\ submit[s].at = "items"
    /\ LET basket == items[submit[s].cart]
       IN  IF Lines(basket) = {}
             THEN Answer(s)
             ELSE submit' = [submit EXCEPT ![s].items = basket,
                        ![s].at = IF submit[s].wants THEN "coupon" ELSE "create"]
    /\ UNCHANGED <<cartVars, stock, orderVars, pages>>

\* The code is valid now; how often this customer has used it is not asked, as
\* placeOrder does not say who the customer is.
validate(s) ==
    /\ submit[s].at = "coupon"
    /\ \/ /\ coupon # None
          /\ used[coupon] < UsageLimit
          /\ submit' = [submit EXCEPT ![s].coupon = coupon, ![s].at = "create"]
       \/ Answer(s)
    /\ UNCHANGED <<cartVars, stock, orderVars, pages>>

\* Mutant: the key is not unique.
CreateOrderAnyway(s) ==
    /\ submit[s].at = "create"
    /\ GoesOn(s, "reserve")
    /\ UNCHANGED <<cartVars, stock, orderVars, pages>>

\* The transaction begins with the insert of the order and its items: it waits
\* for a transaction that has the key, and for exclusive locks on what it refers
\* to; an order of the key is a P2002; without the coupon's row it fails.
CreateOrder(s) ==
    /\ submit[s].at = "create"
    /\ \A t \in Submits \ {s} :
          /\ HasKey(t) => submit[t].key # submit[s].key
          /\ \A v \in Lines(submit[s].items) : ~ OwnsVariant(t, v)
          /\ submit[s].coupon # None => ~ OwnsCoupon(t, submit[s].coupon)
    /\ LET gone == submit[s].coupon \notin {None, coupon}
       IN  \/ Placed(submit[s].key) /\ GoesOn(s, "dup")
           \/ gone /\ Answer(s)
           \/ ~ Placed(submit[s].key) /\ ~ gone /\ GoesOn(s, "reserve")
    /\ UNCHANGED <<cartVars, stock, orderVars, pages>>

\* The variant rows are locked, then every line is checked; a failure rolls back.
Reserve(s) ==
    /\ submit[s].at = "reserve"
    /\ \A t \in Submits \ {s}, v \in Lines(submit[s].items) : ~ SharesVariant(t, v)
    /\ IF \A v \in Lines(submit[s].items) : Within(v, submit[s].items[v])
         THEN GoesOn(s, IF submit[s].coupon = None THEN "commit" ELSE "redeem")
         ELSE Answer(s)
    /\ UNCHANGED <<cartVars, stock, orderVars, pages>>

\* Mutant: the update has no condition.
RedeemAnyway(s) ==
    /\ submit[s].at = "redeem"
    /\ \A t \in Submits \ {s} : ~ SharesCoupon(t, submit[s].coupon)
    /\ GoesOn(s, "commit")
    /\ UNCHANGED <<cartVars, stock, orderVars, pages>>

\* The conditional update of usedCount: it sees what others have committed.
redeemInTx(s) ==
    /\ submit[s].at = "redeem"
    /\ \A t \in Submits \ {s} : ~ SharesCoupon(t, submit[s].coupon)
    /\ IF used[submit[s].coupon] < UsageLimit THEN GoesOn(s, "commit") ELSE Answer(s)
    /\ UNCHANGED <<cartVars, stock, orderVars, pages>>

Written(s) == [by |-> s, key |-> submit[s].key, customer |-> submit[s].customer,
               cart |-> submit[s].cart, items |-> submit[s].items,
               coupon |-> submit[s].coupon]

\* The payment is created, the cart converted whatever its status, and all of it
\* committed.
Commit(s) ==
    /\ submit[s].at = "commit"
    /\ orders' = orders \cup {Written(s)}
    /\ stock' = [v \in Variants |-> stock[v] - submit[s].items[v]]
    /\ used' = IF submit[s].coupon = None THEN used
               ELSE [used EXCEPT ![submit[s].coupon] = @ + 1]
    /\ status' = [status EXCEPT ![submit[s].cart] = "CONVERTED"]
    /\ Answer(s)
    /\ UNCHANGED <<cookie, items, edit, pages, coupon>>

\* After a P2002 the order of the key is the answer; a P2002 of another column,
\* which finds none, is thrown.
Duplicate(s) ==
    /\ submit[s].at = "dup"
    /\ Answer(s)
    /\ UNCHANGED <<cartVars, stock, orderVars, pages>>

\* The submit fails at any step: a deadlock victim, a timeout, a lost connection,
\* a collision of order numbers, a restart.  Its transaction is rolled back.
SubmitFails(s) ==
    /\ submit[s].at # "idle"
    /\ Answer(s)
    /\ UNCHANGED <<cartVars, stock, orderVars, pages>>

\* An admin makes a coupon of the code, or deletes it; the orders stay.
createCoupon(c) ==
    /\ coupon = None
    /\ used[c] = 0                               \* a new id
    /\ \A s \in Submits : submit[s].coupon # c
    /\ coupon' = c
    /\ UNCHANGED <<cartVars, stock, orders, used, pages, submit>>

removeCoupon ==
    /\ coupon # None
    /\ \A s \in Submits : ~ SharesCoupon(s, coupon)
    /\ coupon' = None
    /\ orders' = {[o EXCEPT !.coupon = IF @ = coupon THEN None ELSE @] : o \in orders}
    /\ UNCHANGED <<cartVars, stock, used, pages, submit>>

----------------------------------------------------------------------------

Init ==
    /\ CartInit
    /\ stock = InitialStock
    /\ pages = [b \in Browsers |-> {}]
    /\ orders = {}
    /\ coupon = None
    /\ used = [c \in Coupons |-> 0]
    /\ submit = [s \in Submits |-> IdleSubmit]

CartStep ==
    /\ EditNext \/ \E c \in Carts : cleanCarts(c)
    /\ UNCHANGED <<pages, orderVars, submit>>

SubmitStep(s) ==
    \/ placeOrder(s) \/ ReadItems(s) \/ validate(s)
    \/ CreateOrder(s) \/ Reserve(s) \/ redeemInTx(s) \/ Commit(s)
    \/ Duplicate(s) \/ SubmitFails(s)

Next ==
    \/ CartStep
    \/ \E b \in Browsers, k \in Keys :
         \/ form(b, k)
         \/ \E s \in Submits, wants \in BOOLEAN : SubmitPage(s, b, k, wants)
    \/ \E s \in Submits : SubmitStep(s)
    \/ (\E c \in Coupons : createCoupon(c)) \/ removeCoupon

Spec == Init /\ [][Next]_vars

----------------------------------------------------------------------------
(* Properties *)

TypeOK ==
    /\ CartTypeOK
    /\ pages \in [Browsers -> SUBSET Keys]
    /\ orders \subseteq Order
    /\ coupon \in Coupons \cup {None}
    /\ used \in [Coupons -> Nat]
    /\ submit \in [Submits -> Submit]

\* "a double-submit can't create two paid orders": submits of one page, however
\* they overlap, create one order.
OneOrderPerKey == \A o, p \in orders : o.key = p.key => o = p

Redeemed(c) == {o \in orders : o.coupon = c}

\* The global cap of a coupon holds though validate read its count before the
\* transaction: overlapping checkouts do not discount more orders.
CouponWithinLimit ==
    coupon # None => Cardinality(Redeemed(coupon)) <= UsageLimit

\* usedCount is the number of orders that have the coupon's discount: a rollback
\* leaves no use behind, and no order is discounted for free.
UsedCountExact ==
    coupon # None => used[coupon] = Cardinality(Redeemed(coupon))

\* A coupon is counted for as many orders as it discounts, and for no more than it may.
CouponCounted == CouponWithinLimit /\ UsedCountExact

\* "Limit is ... per order", of a product (assertWithinLimits, reserveForOrder): two of
\* its variants do not make an order that has more of it.
OrderWithinMax ==
    MaxPerOrder # 0 =>
      \A o \in orders, v, w \in Variants : v # w => o.items[v] + o.items[w] <= MaxPerOrder

\* A cart becomes one order, also when it is submitted from two tabs.
OneOrderPerCart == \A o, p \in orders : o.cart = p.cart => o = p

\* "You have already used this coupon": with a usageLimitPerCustomer of 1, a customer who
\* is signed in uses a coupon for one order (validate).
OncePerCustomer ==
    coupon # None => \A o, p \in Redeemed(coupon) : o.customer = p.customer => o = p
=============================================================================
