------------------------------ MODULE Pricing ------------------------------
(***************************************************************************)
(* What a product costs: its base price, a standing sale price, a flash    *)
(* deal that is live for a while, and a variant that may have a price of   *)
(* its own.  Prices resolve against the clock on every request, so nothing *)
(* has to run when a deal begins or ends.                                  *)
(*                                                                         *)
(* Amounts are whole paisa (all the columns are Decimal(12, 2)), a coupon's*)
(* percentage counts in hundredths of a percent.                           *)
(***************************************************************************)
EXTENDS Integers

CONSTANTS NULL,        \* an empty column
          Prices,      \* prices the admin's forms offer
          Times,       \* times of flash deals
          LastTime,    \* the clock stops here
          Coupons,     \* coupons a customer may enter
          Quantities   \* quantities of the cart line

ASSUME PricingAssumption ==
    /\ Prices \subseteq Nat
    /\ Times \subseteq Nat
    /\ LastTime \in Nat
    /\ Quantities \subseteq Nat \ {0}
    /\ NULL \notin Int
    /\ Coupons \subseteq [type : {"PERCENT", "FIXED"}, value : Nat, maxDiscount : Nat \cup {NULL}]

VARIABLES
    product,  \* the price columns of Product
    variant,  \* those of its ProductVariant
    now,      \* the clock
    order     \* the totals of the last order of this variant, or NULL

vars == <<product, variant, now, order>>

Nullable(S) == S \cup {NULL}
Products == [basePrice : Prices, salePrice : Nullable(Prices), flashPrice : Nullable(Prices),
             flashStartAt : Nullable(Times), flashEndAt : Nullable(Times)]
Variants == [price : Nullable(Prices), salePrice : Nullable(Prices)]

----------------------------------------------------------------------------
(* common/pricing.ts *)

isFlashActive(p, t) ==
    /\ p.flashPrice # NULL
    /\ p.flashEndAt # NULL /\ t < p.flashEndAt
    /\ p.flashStartAt # NULL => t >= p.flashStartAt

\* Mutant: while a deal is live the standing sale price no longer counts.
FlashReplacesSale(p, t) ==
    [basePrice |-> p.basePrice,
     salePrice |-> IF isFlashActive(p, t) THEN p.flashPrice ELSE p.salePrice]

\* A live deal below the base price takes the place of a dearer sale price.
resolveProductPricing(p, t) ==
    [basePrice |-> p.basePrice,
     salePrice |-> IF /\ isFlashActive(p, t)
                      /\ p.flashPrice < p.basePrice
                      /\ p.salePrice # NULL => ~(p.salePrice < p.flashPrice)
                   THEN p.flashPrice ELSE p.salePrice]

onSaleWhere(p, t) ==
    \/ p.salePrice # NULL
    \/ /\ p.flashPrice # NULL
       /\ p.flashEndAt # NULL /\ p.flashEndAt > t
       /\ p.flashStartAt # NULL => p.flashStartAt <= t

IfLower(sale, regular) == IF sale # NULL /\ sale < regular THEN sale ELSE regular

\* A variant with a price of its own ignores the product's prices.
variantCurrent(v, pricing) ==
    IF v.price # NULL THEN IfLower(v.salePrice, v.price)
                      ELSE IfLower(pricing.salePrice, pricing.basePrice)

\* The price of a card, of the page's headline and of the page's JSON-LD.
productCurrent(pricing) == IfLower(pricing.salePrice, pricing.basePrice)

UnitPrice == variantCurrent(variant, resolveProductPricing(product, now))

----------------------------------------------------------------------------
(* CouponsService.computeDiscount *)

\* Hundredths of a percent of an amount come in units of 1/Scale paisa.
Scale == 10000

AtMost(limit, d) == IF limit # NULL /\ d > limit * Scale THEN limit * Scale ELSE d

\* Mutant: nothing keeps the discount below the subtotal.
DiscountUncapped(coupon, subtotal) ==
    LET discount == IF coupon.type = "PERCENT"
                    THEN AtMost(coupon.maxDiscount, subtotal * coupon.value)
                    ELSE coupon.value * Scale
    IN  (discount + Scale \div 2) \div Scale

\* A percentage has a maximum of its own; toDecimalPlaces(2) rounds half up.
computeDiscount(coupon, subtotal) ==
    LET discount == IF coupon.type = "PERCENT"
                    THEN AtMost(coupon.maxDiscount, subtotal * coupon.value)
                    ELSE coupon.value * Scale
    IN  (AtMost(subtotal, discount) + Scale \div 2) \div Scale

----------------------------------------------------------------------------

\* scalarData: a deal needs an end, and the end comes after the start.
ValidForm(p) ==
    /\ p.flashPrice # NULL => p.flashEndAt # NULL
    /\ p.flashStartAt # NULL /\ p.flashEndAt # NULL => p.flashStartAt < p.flashEndAt

SaveProduct ==
    /\ product' \in {p \in Products : ValidForm(p)}
    /\ UNCHANGED <<variant, now, order>>

SaveVariant ==
    /\ variant' \in Variants
    /\ UNCHANGED <<product, now, order>>

\* Mutant: deals that have started are cleared, not those that have ended.
ExpireStarted ==
    /\ product.flashStartAt # NULL /\ product.flashStartAt < now
    /\ product' = [product EXCEPT !.flashPrice = NULL, !.flashStartAt = NULL, !.flashEndAt = NULL]
    /\ UNCHANGED <<variant, now, order>>

\* The optional tidy-up script.
expireFlashDeals ==
    /\ product.flashEndAt # NULL /\ product.flashEndAt < now
    /\ product' = [product EXCEPT !.flashPrice = NULL, !.flashStartAt = NULL, !.flashEndAt = NULL]
    /\ UNCHANGED <<variant, now, order>>

Tick ==
    /\ now < LastTime
    /\ now' = now + 1
    /\ UNCHANGED <<product, variant, order>>

\* placeOrder recomputes every price; shipping and tax are zero.
placeOrder(quantity, coupon) ==
    /\ LET subtotal == UnitPrice * quantity
           discount == IF coupon = NULL THEN 0 ELSE computeDiscount(coupon, subtotal)
       IN  order' = [subtotal |-> subtotal, discountTotal |-> discount,
                     grandTotal |-> subtotal - discount]
    /\ UNCHANGED <<product, variant, now>>

Init ==
    /\ product \in {p \in Products : ValidForm(p)}
    /\ variant = [price |-> NULL, salePrice |-> NULL]
    /\ now = 0
    /\ order = NULL

Next ==
    \/ SaveProduct \/ SaveVariant
    \/ expireFlashDeals
    \/ Tick
    \/ \E quantity \in Quantities, coupon \in Nullable(Coupons) : placeOrder(quantity, coupon)

Spec == Init /\ [][Next]_vars

----------------------------------------------------------------------------
(* Properties *)

TypeOK ==
    /\ product \in Products
    /\ product.flashPrice # NULL => product.flashEndAt # NULL
    /\ variant \in Variants
    /\ now \in 0..LastTime
    /\ \/ order = NULL
       \/ order \in [subtotal : Nat, discountTotal : Nat, grandTotal : Nat]

\* The prices a customer could argue for at this moment.
Applicable ==
    (IF variant.price # NULL
     THEN {variant.price, variant.salePrice}
     ELSE {product.basePrice, product.salePrice}
          \cup {x \in {product.flashPrice} :
                  /\ product.flashEndAt # NULL /\ product.flashEndAt > now
                  /\ product.flashStartAt # NULL => product.flashStartAt <= now})
    \ {NULL}

\* "If a standing salePrice is even cheaper, the customer keeps the cheaper one":
\* whatever is charged is one of the applicable prices, and none of them is lower.
CheapestApplies ==
    /\ UnitPrice \in Applicable
    /\ \A x \in Applicable : UnitPrice <= x

\* A product shown with a discount is in the list of products on sale.
SaleIsListed ==
    productCurrent(resolveProductPricing(product, now)) < product.basePrice
        => onSaleWhere(product, now)

\* What is charged, what is shown and what is listed follow from the same prices and the
\* same windows, though each is computed by code of its own, at every moment.
PricesAgree == CheapestApplies /\ SaleIsListed

\* "purely OPTIONAL tidy-up": the script changes neither a price nor a list.
ScriptIsInvisible ==
    [][expireFlashDeals => /\ UnitPrice' = UnitPrice
                           /\ onSaleWhere(product, now)' = onSaleWhere(product, now)]_vars

\* No order costs less than nothing, and its totals add up.
TotalsAddUp ==
    order # NULL => /\ 0 <= order.grandTotal /\ order.grandTotal <= order.subtotal
                    /\ order.grandTotal + order.discountTotal = order.subtotal

\* "Advertise the price actually charged": for the only variant of a product.
AdvertisedIsCharged == productCurrent(resolveProductPricing(product, now)) = UnitPrice

\* "The flash price must be lower than the base price to show as a deal."
DealIsCheaper == isFlashActive(product, now) => product.flashPrice < product.basePrice
=============================================================================
