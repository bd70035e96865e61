\* Two drains at the same time, refusals, lost answers and crashes; two orders that
\* outnumber the batches.
SPECIFICATION WorkerSpec
CONSTANTS
    Jobs = {j1, jx}
    Unknown = {jx}
    Drainers = {d1, d2}
    NoJob = NoJob
    MaxAttempts = 2
    Limit = 2
    Crashes = TRUE
    Refusals = TRUE
    Orders = {1, 2}
    TakeReconcile = 1
    TakeExpire = 1
    Captures = {"completed", "otherAmount"}
INVARIANTS
    OncePerAttempt
PROPERTIES
    ImplementsDelivery
    EveryJobEnds
    UnpaidLetsGo
\* Every order may be settled, and the crons find nothing.
CHECK_DEADLOCK FALSE
