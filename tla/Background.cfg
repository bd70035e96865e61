\* Two calls that share the token; one payment with lost answers and crashes; variants that outnumber the scan; two edits.
SPECIFICATION BackgroundSpec
CONSTANTS
    NULL = NULL
    Calls = {c1, c2}
    MaxGrants = 2
    ExpiresIn = 3
    Margin = 2
    Handler = a1
    PaymentIDs = {p1}
    NoID = NoID
    Variants = {v1, v2}
    Ordered = {v1}
    Scans = {s1, s2}
    Take = 1
    MaxRefills = 1
    Crashes = TRUE
    MaxEdits = 2
    Refreshes = {i, j}
INVARIANTS
    ActedOnce
    CachedIsAccepted
PROPERTIES
    OpenSessionIsSettled
    LowIsFlagged
    MenuCatchesUp
\* The customer may be through with the order, and every variant may have its notification.
CHECK_DEADLOCK FALSE
