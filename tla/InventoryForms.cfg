\* An old snapshot may lock and write, and the variant form writes the stock.
SPECIFICATION Spec
CONSTANTS
    Variants = {1, 2}
    Orders = {o1, o2}
    Basket <- MCBasket
    InitialStock <- MCInitialStock
    Backorder = {2}
    LowStockThreshold = 0
    Sessions = {s1, s2}
    NoOrder = NoOrder
    SnapshotIsolation = FALSE
    Deltas <- NoInputs
    AdjustLimit = 1
    FormStocks <- MCFormStocks
SYMMETRY Symmetry
INVARIANTS
    SortedLocksNeverCross
PROPERTIES
    NoOversell
    LowStockFlagged
\* The orders of an instance are finitely many: it may come to rest.
CHECK_DEADLOCK FALSE
