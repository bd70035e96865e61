\* Two handlers at the same time, and two sessions: callbacks, crons, clicks and refunds.
SPECIFICATION Spec
CONSTANTS
    Actors = {a1, a2}
    Providers = {"bkash", "cod"}
    PaymentIDs = {p1, p2}
    NoID = NoID
    Redirects = {"success", "cancel", "failure"}
    Captures = {"completed", "otherAmount", "otherInvoice"}
    Crons = {"expire", "reconcile"}
    Buttons = {"processing", "shipped", "delivered", "cancelOrder", "approveReview", "refundOrder"}
    MayCrash = {}
    MaxConfirmations = 1
SYMMETRY Symmetry
INVARIANTS
    ClosedIsSettled
    
    
PROPERTIES
    PaidStaysPaid
\* The customer may be through with the order: it may come to rest.
CHECK_DEADLOCK FALSE
