----------------------------- MODULE MCPricing -----------------------------
(***************************************************************************)
(* Small instances of Pricing.                                             *)
(***************************************************************************)
EXTENDS Pricing

Percent(value, max) == [type |-> "PERCENT", value |-> value, maxDiscount |-> max]
Fixed(value) == [type |-> "FIXED", value |-> value, maxDiscount |-> NULL]

\* Half, a third, more than everything, a small and a zero maximum; two fixed ones.
SomeCoupons ==
    {Percent(5000, NULL), Percent(3333, NULL), Percent(15000, NULL),
     Percent(5000, 1), Percent(5000, 0), Fixed(2), Fixed(9)}
=============================================================================
