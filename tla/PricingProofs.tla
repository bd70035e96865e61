--------------------------- MODULE PricingProofs ---------------------------
(***************************************************************************)
(* Proofs about Pricing, for any prices, times and coupons.                *)
(***************************************************************************)
EXTENDS Pricing, TLAPS

\* A discount is never negative and never above the subtotal, after rounding too.
LEMMA DiscountBounds ==
    ASSUME NEW coupon \in Coupons, NEW subtotal \in Nat
    PROVE  /\ computeDiscount(coupon, subtotal) \in Nat
           /\ computeDiscount(coupon, subtotal) <= subtotal
<1> DEFINE raw == IF coupon.type = "PERCENT"
                  THEN AtMost(coupon.maxDiscount, subtotal * coupon.value)
                  ELSE coupon.value * Scale
           capped == AtMost(subtotal, raw)
<1>1. coupon.value \in Nat /\ coupon.maxDiscount \in Nat \cup {NULL}
  BY PricingAssumption
<1>2. subtotal * coupon.value \in Nat
  BY <1>1
<1>3. raw \in Nat
  BY <1>1, <1>2 DEF AtMost, Scale
<1>4. capped \in Nat /\ capped <= subtotal * 10000
  <2> HIDE DEF raw
  <2>1. subtotal # NULL
    BY PricingAssumption
  <2> QED
    BY <1>3, <2>1 DEF AtMost, Scale
<1>5. computeDiscount(coupon, subtotal) = (capped + 5000) \div 10000
  <2>1. computeDiscount(coupon, subtotal) = (capped + 10000 \div 2) \div 10000
    BY DEF computeDiscount, Scale
  <2>2. 10000 \div 2 = 5000
    OBVIOUS
  <2> QED
    BY <2>1, <2>2
<1> HIDE DEF capped
<1> QED
  BY <1>4, <1>5

\* Every price that resolves from numbers is a number.
LEMMA UnitPriceIsPrice ==
    ASSUME product \in Products, variant \in Variants
    PROVE  UnitPrice \in Prices
BY DEF UnitPrice, variantCurrent, IfLower, resolveProductPricing, Products, Variants, Nullable

\* The columns hold numbers or nothing, and nothing is not a number.
LEMMA Columns ==
    ASSUME TypeOK
    PROVE  /\ product.basePrice \in Nat /\ product.salePrice \in Nat \cup {NULL}
           /\ product.flashPrice \in Nat \cup {NULL}
           /\ product.flashStartAt \in Nat \cup {NULL} /\ product.flashEndAt \in Nat \cup {NULL}
           /\ variant.price \in Nat \cup {NULL} /\ variant.salePrice \in Nat \cup {NULL}
           /\ now \in Nat /\ NULL \notin Int
<1>1. product \in Products /\ variant \in Variants /\ now \in 0..LastTime
  BY DEF TypeOK
<1>2. Prices \subseteq Nat /\ Times \subseteq Nat /\ LastTime \in Nat /\ NULL \notin Int
  BY PricingAssumption
<1>3. /\ product.basePrice \in Prices /\ product.salePrice \in Nullable(Prices)
      /\ product.flashPrice \in Nullable(Prices)
      /\ product.flashStartAt \in Nullable(Times) /\ product.flashEndAt \in Nullable(Times)
  BY <1>1 DEF Products
<1>4. variant.price \in Nullable(Prices) /\ variant.salePrice \in Nullable(Prices)
  BY <1>1 DEF Variants
<1>5. Nullable(Prices) \subseteq Nat \cup {NULL} /\ Nullable(Times) \subseteq Nat \cup {NULL}
  BY <1>2 DEF Nullable
<1>6. now \in Nat
  BY <1>1, <1>2
<1> QED
  BY <1>2, <1>3, <1>4, <1>5, <1>6

----------------------------------------------------------------------------

\* The state keeps its types, and no deal is without an end.
THEOREM TypeCorrect == Spec => []TypeOK
<1>1. Init => TypeOK
  BY PricingAssumption DEF Init, TypeOK, ValidForm, Variants, Nullable
<1>2. TypeOK /\ [Next]_vars => TypeOK'
  <2> SUFFICES ASSUME TypeOK, [Next]_vars PROVE TypeOK'
    OBVIOUS
  <2> USE DEF TypeOK
  <2>1. CASE SaveProduct
    BY <2>1 DEF SaveProduct, ValidForm
  <2>2. CASE SaveVariant
    BY <2>2 DEF SaveVariant
  <2>3. CASE expireFlashDeals
    BY <2>3 DEF expireFlashDeals, Products, Nullable
  <2>4. CASE Tick
    BY <2>4, PricingAssumption DEF Tick
  <2>5. ASSUME NEW quantity \in Quantities, NEW coupon \in Nullable(Coupons),
               placeOrder(quantity, coupon)
        PROVE  TypeOK'
    <3> DEFINE subtotal == UnitPrice * quantity
               discount == IF coupon = NULL THEN 0 ELSE computeDiscount(coupon, subtotal)
    <3>1. subtotal \in Nat
      <4>1. UnitPrice \in Nat /\ quantity \in Nat
        BY UnitPriceIsPrice, PricingAssumption
      <4> HIDE DEF UnitPrice
      <4> QED
        BY <4>1
    <3>2. discount \in Nat /\ discount <= subtotal
      <4> HIDE DEF subtotal
      <4> QED
        BY <3>1, DiscountBounds DEF Nullable
    <3>3. order' = [subtotal |-> subtotal, discountTotal |-> discount,
                    grandTotal |-> subtotal - discount]
      BY <2>5 DEF placeOrder
    <3>4. order' \in [subtotal : Nat, discountTotal : Nat, grandTotal : Nat]
      <4> HIDE DEF subtotal, discount
      <4> QED
        BY <3>1, <3>2, <3>3
    <3> QED
      BY <2>5, <3>4 DEF placeOrder
  <2>6. CASE UNCHANGED vars
    BY <2>6 DEF vars
  <2> QED
    BY <2>1, <2>2, <2>3, <2>4, <2>5, <2>6 DEF Next
<1> QED
  BY <1>1, <1>2, PTL DEF Spec

\* Whatever the prices and the windows, the cheapest applicable price is charged.
THEOREM ChargesCheapest == Spec => []CheapestApplies
<1>1. TypeOK => CheapestApplies
  <2> SUFFICES ASSUME TypeOK PROVE CheapestApplies
    OBVIOUS
  <2>1. /\ product.basePrice \in Nat /\ product.salePrice \in Nat \cup {NULL}
        /\ product.flashPrice \in Nat \cup {NULL}
        /\ product.flashStartAt \in Nat \cup {NULL} /\ product.flashEndAt \in Nat \cup {NULL}
        /\ variant.price \in Nat \cup {NULL} /\ variant.salePrice \in Nat \cup {NULL}
        /\ now \in Nat /\ NULL \notin Int
    BY Columns
  <2>2. CASE variant.price # NULL
    BY <2>1, <2>2 DEF CheapestApplies, Applicable, UnitPrice, variantCurrent, IfLower
  <2>3. CASE variant.price = NULL
    <3> DEFINE live == isFlashActive(product, now)
    <3>1. Applicable = ({product.basePrice, product.salePrice}
                        \cup (IF live THEN {product.flashPrice} ELSE {})) \ {NULL}
      BY <2>1, <2>3 DEF Applicable, isFlashActive
    <3>2. live => product.flashPrice # NULL
      BY DEF isFlashActive
    <3>3. UnitPrice = IfLower(IF /\ live
                                 /\ product.flashPrice < product.basePrice
                                 /\ product.salePrice # NULL => ~(product.salePrice < product.flashPrice)
                              THEN product.flashPrice ELSE product.salePrice, product.basePrice)
      BY <2>3 DEF UnitPrice, variantCurrent, resolveProductPricing
    <3> HIDE DEF live
    <3> QED
      BY <2>1, <3>1, <3>2, <3>3 DEF CheapestApplies, IfLower
  <2> QED
    BY <2>2, <2>3
<1> QED
  BY <1>1, TypeCorrect, PTL

\* Every product that shows a discount is listed among those on sale.
THEOREM DiscountsAreListed == Spec => []SaleIsListed
<1>1. TypeOK => SaleIsListed
  <2> SUFFICES ASSUME TypeOK PROVE SaleIsListed
    OBVIOUS
  <2>1. /\ product.basePrice \in Nat /\ now \in Nat
        /\ product.flashStartAt \in Nat \cup {NULL} /\ product.flashEndAt \in Nat \cup {NULL}
    BY Columns
  <2> QED
    BY <2>1 DEF SaleIsListed, productCurrent, IfLower, resolveProductPricing,
                isFlashActive, onSaleWhere
<1> QED
  BY <1>1, TypeCorrect, PTL

\* The two together, of what is charged, shown and listed.
THEOREM AgreeAlways == Spec => []PricesAgree
BY ChargesCheapest, DiscountsAreListed, PTL DEF PricesAgree

\* No coupon takes an order below zero, and the totals add up.
THEOREM TotalsCorrect == Spec => []TotalsAddUp
<1>1. Init => TotalsAddUp
  BY DEF Init, TotalsAddUp
<1>2. TypeOK /\ TotalsAddUp /\ [Next]_vars => TotalsAddUp'
  <2> SUFFICES ASSUME TypeOK, TotalsAddUp, [Next]_vars PROVE TotalsAddUp'
    OBVIOUS
  <2>1. ASSUME NEW quantity \in Quantities, NEW coupon \in Nullable(Coupons),
               placeOrder(quantity, coupon)
        PROVE  TotalsAddUp'
    <3> DEFINE subtotal == UnitPrice * quantity
               discount == IF coupon = NULL THEN 0 ELSE computeDiscount(coupon, subtotal)
    <3>1. subtotal \in Nat
      <4>1. UnitPrice \in Nat /\ quantity \in Nat
        BY UnitPriceIsPrice, PricingAssumption DEF TypeOK
      <4> HIDE DEF UnitPrice
      <4> QED
        BY <4>1
    <3>2. discount \in Nat /\ discount <= subtotal
      <4> HIDE DEF subtotal
      <4> QED
        BY <3>1, DiscountBounds DEF Nullable
    <3>3. order' = [subtotal |-> subtotal, discountTotal |-> discount,
                    grandTotal |-> subtotal - discount]
      BY <2>1 DEF placeOrder
    <3> HIDE DEF subtotal, discount
    <3> QED
      BY <3>1, <3>2, <3>3 DEF TotalsAddUp
  <2>2. CASE UNCHANGED order
    BY <2>2 DEF TotalsAddUp
  <2>3. SaveProduct \/ SaveVariant \/ expireFlashDeals \/ Tick \/ UNCHANGED vars => UNCHANGED order
    BY DEF SaveProduct, SaveVariant, expireFlashDeals, Tick, vars
  <2> QED
    BY <2>1, <2>2, <2>3 DEF Next
<1> QED
  BY <1>1, <1>2, TypeCorrect, PTL DEF Spec

\* The tidy-up script changes neither what is charged nor what is listed.
THEOREM ScriptTidiesOnly == Spec => ScriptIsInvisible
<1>1. TypeOK /\ expireFlashDeals
        => UnitPrice' = UnitPrice /\ onSaleWhere(product, now)' = onSaleWhere(product, now)
  <2> SUFFICES ASSUME TypeOK, expireFlashDeals
               PROVE  /\ UnitPrice' = UnitPrice
                      /\ onSaleWhere(product, now)' = onSaleWhere(product, now)
    OBVIOUS
  <2>1. /\ product \in Products /\ now \in Nat /\ now' = now /\ variant' = variant
        /\ product.flashEndAt \in Nat /\ product.flashEndAt < now
    BY PricingAssumption DEF TypeOK, expireFlashDeals, Products, Nullable
  <2>2. product' = [product EXCEPT !.flashPrice = NULL, !.flashStartAt = NULL, !.flashEndAt = NULL]
    BY DEF expireFlashDeals
  <2>3. /\ product'.basePrice = product.basePrice /\ product'.salePrice = product.salePrice
        /\ product'.flashPrice = NULL
    BY <2>1, <2>2 DEF Products
  <2>4. ~isFlashActive(product, now) /\ ~isFlashActive(product', now')
    BY <2>1, <2>3 DEF isFlashActive
  <2>5. UnitPrice' = UnitPrice
    BY <2>1, <2>3, <2>4 DEF UnitPrice, resolveProductPricing, variantCurrent
  <2>6. onSaleWhere(product, now)' = onSaleWhere(product, now)
    BY <2>1, <2>3 DEF onSaleWhere
  <2> QED
    BY <2>5, <2>6
<1>2. TypeOK /\ [Next]_vars
        => [expireFlashDeals => /\ UnitPrice' = UnitPrice
                                /\ onSaleWhere(product, now)' = onSaleWhere(product, now)]_vars
  BY <1>1
<1> QED
  BY <1>2, TypeCorrect, PTL DEF Spec, ScriptIsInvisible
=============================================================================
