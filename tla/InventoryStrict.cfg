\* A server that fails a lock on a row changed since the snapshot.
SPECIFICATION Spec
CONSTANTS
    Variants = {1, 2}
    Orders = {o1, o2}
    Basket <- MCBasket
    InitialStock <- MCInitialStock
    Backorder = {2}
    LowStockThreshold = 0
    Sessions = {s1, s2}
    NoOrder = NoOrder
    SnapshotIsolation = TRUE
    Deltas <- MCDeltas
    AdjustLimit = 1
    FormStocks <- NoInputs
SYMMETRY Symmetry
INVARIANTS
    RestockedOnce
PROPERTIES
    CommittedStaysSold
    ImplementsLedger
\* The orders of an instance are finitely many: it may come to rest.
CHECK_DEADLOCK FALSE
