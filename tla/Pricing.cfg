\* Every combination of prices and windows over a short clock, with coupons of every kind.
SPECIFICATION Spec
CONSTANTS
    NULL = NULL
    Prices = {0, 1, 3}
    Times = {1, 3}
    LastTime = 4
    Coupons <- SomeCoupons
    Quantities = {3}
INVARIANTS
    PricesAgree
    TotalsAddUp
PROPERTIES
    ScriptIsInvisible
