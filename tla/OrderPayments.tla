--------------------------- MODULE OrderPayments ---------------------------
(***************************************************************************)
(* The life of one order and its payment row: the bKash session, the       *)
(* browser's callback, Execute and Query, the two crons that clean up, and *)
(* the admin's buttons.  Every request, cron call or click is served by an *)
(* actor, a handler of one of the Node workers; its steps are the points   *)
(* between two awaits at which it touches the database or bKash, so that   *)
(* another handler may come in between and a crash may cut it off.         *)
(* Orders share nothing here but stock, which Inventory.tla models; the    *)
(* reservations of an order change together, as StockLedger.tla has it.    *)
(*                                                                         *)
(* bKash and the customer on its page are external: a payment is initiated *)
(* by Create, authorised, cancelled or failed by the customer, captured by *)
(* Execute once it is authorised, and refunded at most once.               *)
(***************************************************************************)
EXTENDS Naturals, FiniteSets

CONSTANTS Actors,           \* handlers that may run at the same time
          Providers,        \* Payment.provider the order was placed with
          PaymentIDs,       \* ids bKash may issue; bounds the sessions created
          NoID,             \* bkashPaymentID or bkashTrxID is null
          Redirects,        \* statuses the browser may come back with
          Captures,         \* what a captured payment looks like when queried
          Crons,            \* the crons that run
          Buttons,          \* the admin's buttons that are clicked
          MayCrash,         \* handlers that may end between two of their steps
          MaxConfirmations  \* bound: confirmations of a cash-on-delivery order

ASSUME OrderPaymentsAssumption ==
    /\ Providers \subseteq {"bkash", "cod"}
    /\ NoID \notin PaymentIDs
    /\ Redirects \subseteq {"success", "cancel", "failure"}
    /\ Captures \subseteq {"completed", "otherAmount", "otherInvoice"}
    /\ Crons \subseteq {"expire", "reconcile"}
    /\ Buttons \subseteq {"processing", "shipped", "delivered", "cancelOrder",
                          "approveReview", "refundOrder"}
    /\ MayCrash \subseteq Actors
    /\ MaxConfirmations \in Nat

VARIABLES
    provider,       \* Payment.provider
    order,          \* Order.status
    payment,        \* the Payment row: status, bkashPaymentID, bkashTrxID
    reservation,    \* status of the order's InventoryReservation rows
    shipments,      \* number of Shipment rows
    confirmations,  \* number of email.order_confirmation jobs enqueued
    gateway,        \* bKash's record of each payment
    refunded,       \* payments bKash has refunded
    task            \* what each actor is in the middle of

rows == <<provider, order, payment, reservation, shipments, confirmations>>
bkash == <<gateway, refunded>>
vars == <<rows, bkash, task>>

OrderStatus == {"AWAITING_PAYMENT", "PAYMENT_REVIEW", "PAID", "PROCESSING", "SHIPPED",
                "DELIVERED", "CANCELLED", "FAILED", "EXPIRED", "REFUNDED"}

PaymentStatus == {"PENDING", "SESSION_CREATED", "PAID", "FAILED", "CANCELLED",
                  "REFUNDED", "PAYMENT_REVIEW"}

Payment == [status : PaymentStatus,
            bkashPaymentID : PaymentIDs \cup {NoID},
            bkashTrxID : PaymentIDs \cup {NoID}]

GatewayState == {"none", "initiated", "authorised", "cancelled", "failed"} \cup Captures

Captured(p) == gateway[p] \in Captures

----------------------------------------------------------------------------
(* Handlers *)

Task == [at : {"idle", "save", "execute", "query", "reconcile", "markPaid",
               "markReview", "confirm", "terminal", "terminalOrder", "release",
               "refund", "claim", "restock", "expire", "expireOrder", "findShipment",
               "createShipment", "deliver", "cancelled", "cancelPayment"} \cup Buttons,
         id : PaymentIDs \cup {NoID},                \* the paymentID it goes by
         status : {"CANCELLED", "FAILED", "none"}]   \* markTerminal's reason

Idle == [at |-> "idle", id |-> NoID, status |-> "none"]

At(at, id) == [Idle EXCEPT !.at = at, !.id = id]

Terminal(status, id) == [at |-> "terminal", id |-> id, status |-> status]

\* Actor a goes on with t.
Become(a, t) == task' = [task EXCEPT ![a] = t]

\* A step that touches neither a row nor bKash.
OnlyTask == UNCHANGED <<rows, bkash>>

SetPayment(status) == payment' = [payment EXCEPT !.status = status]

----------------------------------------------------------------------------
(* The customer at the bKash page (external) *)

CustomerActs(p) ==
    /\ gateway[p] = "initiated"
    /\ \E g \in {"authorised", "cancelled", "failed"} : gateway' = [gateway EXCEPT ![p] = g]
    /\ UNCHANGED <<rows, refunded, task>>

----------------------------------------------------------------------------
(* PaymentsService: session and callback *)

\* Submitting the checkout, again with the same idempotency key too: bKash issues
\* a payment for the order.  When it fails, or the answer is lost, nothing is saved.
createPaymentSession(a) ==
    /\ task[a].at = "idle"
    /\ \E p \in PaymentIDs :
         /\ gateway[p] = "none"
         /\ gateway' = [gateway EXCEPT ![p] = "initiated"]
         /\ Become(a, At("save", p)) \/ Become(a, Idle)
    /\ UNCHANGED <<rows, refunded>>

\* The row takes the new session, whatever its status has become.
SaveSession(a) ==
    /\ task[a].at = "save"
    /\ payment' = [payment EXCEPT !.status = "SESSION_CREATED", !.bkashPaymentID = task[a].id]
    /\ Become(a, Idle)
    /\ UNCHANGED <<provider, order, reservation, shipments, confirmations, bkash>>

\* Submitting a cash-on-delivery checkout confirms at once.
confirmCodOrder(a) ==
    /\ task[a].at = "idle"
    /\ provider = "cod"
    /\ confirmations < MaxConfirmations
    /\ Become(a, At("confirm", NoID))
    /\ OnlyTask

\* The statuses that handleCallback takes for settled.
Settled(status) == status \in {"PAID", "PAYMENT_REVIEW"}

\* The browser comes back with a paymentID bKash issued and any status, in any
\* order and any number of times.  An id no row holds changes nothing.
handleCallback(a, p, status) ==
    /\ task[a].at = "idle"
    /\ status \in Redirects
    /\ payment.bkashPaymentID = p
    /\ ~ Settled(payment.status)
    /\ Become(a, CASE status = "success" -> At("execute", p)
                   [] status = "cancel" -> Terminal("CANCELLED", NoID)
                   [] OTHER -> Terminal("FAILED", NoID))
    /\ OnlyTask

\* What settle does next, by the transaction that bKash reports.
verify(g) ==
    CASE g = "completed" -> "markPaid"
      [] g = "otherAmount" -> "markReview"
      [] OTHER -> "terminal"     \* not completed, or another invoice

\* Mutant: settle believes the redirect.
SettleAsPaid(a, p, g) == Become(a, At("markPaid", p))

\* An answer that reports g is verified; a Completed one carries the trxID.
settle(a, p, g) ==
    Become(a, IF verify(g) = "terminal"
                THEN Terminal("FAILED", IF g \in Captures THEN p ELSE NoID)
                ELSE At(verify(g), p))

\* Execute captures an authorised payment, or is refused.  The answer may be lost:
\* the fetch throws and the handler ends.  An answer that says anything but
\* Completed (executed before, an error) has settle query.
executePayment(a) ==
    /\ task[a].at = "execute"
    /\ LET p == task[a].id
       IN  \/ /\ gateway[p] = "authorised"
              /\ \E g \in Captures :
                   /\ gateway' = [gateway EXCEPT ![p] = g]
                   /\ settle(a, p, g) \/ Become(a, At("query", p)) \/ Become(a, Idle)
           \/ /\ Become(a, At("query", p)) \/ Become(a, Idle)
              /\ UNCHANGED gateway
    /\ UNCHANGED <<rows, refunded>>

\* settle asks bKash again.
queryPayment(a) ==
    /\ task[a].at = "query"
    /\ \/ settle(a, task[a].id, gateway[task[a].id])
       \/ Become(a, Idle)
    /\ OnlyTask

----------------------------------------------------------------------------
(* PaymentsService: state transitions *)

\* Mutant: an update without the status condition.
ClaimableAlways == TRUE

\* What markPaid and an admin's cancel may overwrite.
Claimable == payment.status \notin {"PAID", "REFUNDED"}

\* One transaction: payment, order and reservations.
markPaid(a) ==
    /\ task[a].at = "markPaid"
    /\ IF Claimable
         THEN /\ payment' = [payment EXCEPT !.status = "PAID", !.bkashTrxID = task[a].id]
              /\ order' = "PAID"
              /\ reservation' = IF reservation = "ACTIVE" THEN "COMMITTED" ELSE reservation
              /\ Become(a, At("confirm", NoID))
         ELSE /\ UNCHANGED <<payment, order, reservation>>
              /\ Become(a, Idle)
    /\ UNCHANGED <<provider, shipments, confirmations, bkash>>

\* The confirmation email is enqueued after the transaction.
EnqueueConfirmation(a) ==
    /\ task[a].at = "confirm"
    /\ confirmations' = confirmations + 1
    /\ Become(a, Idle)
    /\ UNCHANGED <<provider, order, payment, reservation, shipments, bkash>>

\* One transaction; the reservations stay as they are.
markReview(a) ==
    /\ task[a].at = "markReview"
    /\ IF payment.status # "PAID"
         THEN /\ payment' = [payment EXCEPT !.status = "PAYMENT_REVIEW",
                                            !.bkashTrxID = task[a].id]
              /\ order' = "PAYMENT_REVIEW"
         ELSE UNCHANGED <<payment, order>>
    /\ Become(a, Idle)
    /\ UNCHANGED <<provider, reservation, shipments, confirmations, bkash>>

\* Mutant: the update has no status condition.
MarkTerminalAlways(a) ==
    /\ task[a].at = "terminal"
    /\ SetPayment(task[a].status)
    /\ Become(a, [task[a] EXCEPT !.at = "terminalOrder"])
    /\ UNCHANGED <<provider, order, reservation, shipments, confirmations, bkash>>

\* markTerminal is three statements of their own: the payment ...
markTerminal(a) ==
    /\ task[a].at = "terminal"
    /\ IF payment.status # "PAID"
         THEN /\ payment' = [payment EXCEPT !.status = task[a].status,
                                            !.bkashTrxID = IF task[a].id = NoID THEN @ ELSE task[a].id]
              /\ Become(a, [task[a] EXCEPT !.at = "terminalOrder"])
         ELSE /\ Become(a, Idle)
              /\ UNCHANGED payment
    /\ UNCHANGED <<provider, order, reservation, shipments, confirmations, bkash>>

\* Mutant: a failed order keeps its reservations.
TerminalOrderOnly(a) ==
    /\ task[a].at = "terminalOrder"
    /\ order' = task[a].status
    /\ Become(a, IF task[a].status = "FAILED" THEN Idle ELSE At("release", NoID))
    /\ UNCHANGED <<provider, payment, reservation, shipments, confirmations, bkash>>

\* ... the order ...
TerminalOrder(a) ==
    /\ task[a].at = "terminalOrder"
    /\ order' = task[a].status
    /\ Become(a, At("release", NoID))
    /\ UNCHANGED <<provider, payment, reservation, shipments, confirmations, bkash>>

\* ... and releaseReservations, of the ACTIVE ones.
Release(a) ==
    /\ task[a].at = "release"
    /\ reservation' = IF reservation = "ACTIVE" THEN "RELEASED" ELSE reservation
    /\ Become(a, Idle)
    /\ UNCHANGED <<provider, order, payment, shipments, confirmations, bkash>>

----------------------------------------------------------------------------
(* The crons *)

\* Mutant: only orders that still wait for their payment are reconciled.
ReconcileAwaiting(a) ==
    /\ task[a].at = "idle"
    /\ "reconcile" \in Crons
    /\ order = "AWAITING_PAYMENT"
    /\ payment.status = "SESSION_CREATED"
    /\ payment.bkashPaymentID # NoID
    /\ Become(a, At("reconcile", payment.bkashPaymentID))
    /\ OnlyTask

\* reconcile takes a payment whose session is old enough ...
reconcile(a) ==
    /\ task[a].at = "idle"
    /\ "reconcile" \in Crons
    /\ payment.status = "SESSION_CREATED"
    /\ payment.bkashPaymentID # NoID
    /\ Become(a, At("reconcile", payment.bkashPaymentID))
    /\ OnlyTask

\* ... and goes by what bKash reports of it now: a completed one is settled, a
\* cancelled or failed one is closed, and one still open is left alone, as is one
\* whose answer is lost.
ReconcileAnswer(a, answered) ==
    /\ task[a].at = "reconcile"
    /\ LET p == task[a].id
       IN  CASE answered /\ Captured(p) -> settle(a, p, gateway[p])
             [] answered /\ gateway[p] \in {"cancelled", "failed"} ->
                    Become(a, Terminal("FAILED", NoID))
             [] OTHER -> Become(a, Idle)
    /\ OnlyTask

\* Mutant: the cron goes by the reservations alone.
ExpireAnyStatus(a) ==
    /\ task[a].at = "idle"
    /\ "expire" \in Crons
    /\ reservation = "ACTIVE"
    /\ Become(a, At("expire", NoID))
    /\ OnlyTask

\* expireUnpaidOrders finds an order whose reservations are past their TTL ...
expireUnpaidOrders(a) ==
    /\ task[a].at = "idle"
    /\ "expire" \in Crons
    /\ order = "AWAITING_PAYMENT"
    /\ reservation = "ACTIVE"
    /\ Become(a, At("expire", NoID))
    /\ OnlyTask

\* ... releases them ...
ExpireReservations(a) ==
    /\ task[a].at = "expire"
    /\ reservation' = IF reservation = "ACTIVE" THEN "EXPIRED" ELSE reservation
    /\ Become(a, At("expireOrder", NoID))
    /\ UNCHANGED <<provider, order, payment, shipments, confirmations, bkash>>

\* ... and marks the order, whatever its status has become.
ExpireOrder(a) ==
    /\ task[a].at = "expireOrder"
    /\ order' = "EXPIRED"
    /\ Become(a, Idle)
    /\ UNCHANGED <<provider, payment, reservation, shipments, confirmations, bkash>>

----------------------------------------------------------------------------
(* The admin: AdminOrdersService behind the buttons of the order page *)

Refundable == provider = "bkash" /\ payment.status = "PAID"

\* The buttons that the page shows.
Shown(button) ==
    CASE button = "approveReview" -> order = "PAYMENT_REVIEW"
      [] button = "processing" -> order = "PAID"
      [] button = "shipped" -> order = "PROCESSING"
      [] button = "delivered" -> order = "SHIPPED"
      [] button = "cancelOrder" ->
            order \notin {"CANCELLED", "REFUNDED", "FAILED", "EXPIRED", "DELIVERED"}
      [] button = "refundOrder" ->
            Refundable /\ order \in {"PAID", "PROCESSING", "SHIPPED", "DELIVERED"}

\* An admin opens the page and will click: the page may be out of date by then.
OpenPage(a, button) ==
    /\ task[a].at = "idle"
    /\ button \in Buttons
    /\ Shown(button)
    /\ Become(a, At(button, NoID))
    /\ OnlyTask

\* markStatus writes the status without looking at the present one.
markStatus(a) ==
    /\ \/ /\ task[a].at = "processing"
          /\ order' = "PROCESSING"
          /\ Become(a, Idle)
       \/ /\ task[a].at = "shipped"
          /\ order' = "SHIPPED"
          /\ Become(a, At("findShipment", NoID))
       \/ /\ task[a].at = "delivered"
          /\ order' = "DELIVERED"
          /\ Become(a, At("deliver", NoID))
    /\ UNCHANGED <<provider, payment, reservation, shipments, confirmations, bkash>>

FindShipment(a) ==
    /\ task[a].at = "findShipment"
    /\ Become(a, IF shipments = 0 THEN At("createShipment", NoID) ELSE Idle)
    /\ OnlyTask

CreateShipment(a) ==
    /\ task[a].at = "createShipment"
    /\ shipments' = shipments + 1
    /\ Become(a, Idle)
    /\ UNCHANGED <<provider, order, payment, reservation, confirmations, bkash>>

\* On delivery the cash is collected: a pending cash-on-delivery payment is paid.
CollectCash(a) ==
    /\ task[a].at = "deliver"
    /\ IF provider = "cod" /\ payment.status = "PENDING"
         THEN SetPayment("PAID")
         ELSE UNCHANGED payment
    /\ Become(a, Idle)
    /\ UNCHANGED <<provider, order, reservation, shipments, confirmations, bkash>>

\* cancel is three statements of its own: restockOrder ...
cancel(a) ==
    /\ task[a].at = "cancelOrder"
    /\ reservation' = IF reservation \in {"ACTIVE", "COMMITTED"} THEN "RELEASED"
                                                               ELSE reservation
    /\ Become(a, At("cancelled", NoID))
    /\ UNCHANGED <<provider, order, payment, shipments, confirmations, bkash>>

\* ... the order ...
CancelOrder(a) ==
    /\ task[a].at = "cancelled"
    /\ order' = "CANCELLED"
    /\ Become(a, At("cancelPayment", NoID))
    /\ UNCHANGED <<provider, payment, reservation, shipments, confirmations, bkash>>

\* ... and the payment.
CancelPayment(a) ==
    /\ task[a].at = "cancelPayment"
    /\ IF Claimable THEN SetPayment("CANCELLED") ELSE UNCHANGED payment
    /\ Become(a, Idle)
    /\ UNCHANGED <<provider, order, reservation, shipments, confirmations, bkash>>

\* One transaction, and no look at the order's status.
approveReview(a) ==
    /\ task[a].at = "approveReview"
    /\ order' = "PAID"
    /\ IF payment.status = "PAYMENT_REVIEW" THEN SetPayment("PAID") ELSE UNCHANGED payment
    /\ reservation' = IF reservation = "ACTIVE" THEN "COMMITTED" ELSE reservation
    /\ Become(a, Idle)
    /\ UNCHANGED <<provider, shipments, confirmations, bkash>>

\* refund reads the captured payment; without one, or without its bKash ids, it
\* is done.  bKash refuses a trxID that is not of the paymentID.
refund(a) ==
    /\ task[a].at = "refundOrder"
    /\ Become(a, IF payment.status = "PAID" /\ payment.bkashTrxID # NoID
                    /\ payment.bkashPaymentID = payment.bkashTrxID
                   THEN At("refund", payment.bkashPaymentID)
                   ELSE Idle)
    /\ OnlyTask

\* bKash refunds a captured payment once; the answer may be lost.
GatewayRefund(a) ==
    /\ task[a].at = "refund"
    /\ \/ /\ task[a].id \notin refunded
          /\ refunded' = refunded \cup {task[a].id}
          /\ Become(a, At("claim", NoID)) \/ Become(a, Idle)
       \/ /\ Become(a, Idle)
          /\ UNCHANGED refunded
    /\ UNCHANGED <<rows, gateway>>

\* One transaction: the payment, if it is still PAID, and the order.
ClaimRefund(a) ==
    /\ task[a].at = "claim"
    /\ IF payment.status = "PAID"
         THEN /\ SetPayment("REFUNDED")
              /\ order' = "REFUNDED"
              /\ Become(a, At("restock", NoID))
         ELSE /\ Become(a, Idle)
              /\ UNCHANGED <<payment, order>>
    /\ UNCHANGED <<provider, reservation, shipments, confirmations, bkash>>

\* restockOrder, after the claim has committed.
RestockRefunded(a) ==
    /\ task[a].at = "restock"
    /\ reservation' = IF reservation \in {"ACTIVE", "COMMITTED"} THEN "RELEASED"
                                                               ELSE reservation
    /\ Become(a, Idle)
    /\ UNCHANGED <<provider, order, payment, shipments, confirmations, bkash>>

----------------------------------------------------------------------------

\* The handler ends early: the worker is restarted, or a statement throws.
Crash(a) ==
    /\ task[a].at \notin {"idle"} \cup Buttons
    /\ Become(a, Idle)
    /\ OnlyTask

\* placeOrder has committed.
Init ==
    /\ provider \in Providers
    /\ order = IF provider = "cod" THEN "PROCESSING" ELSE "AWAITING_PAYMENT"
    /\ payment = [status |-> "PENDING", bkashPaymentID |-> NoID, bkashTrxID |-> NoID]
    /\ reservation = IF provider = "cod" THEN "COMMITTED" ELSE "ACTIVE"
    /\ shipments = 0
    /\ confirmations = 0
    /\ gateway = [p \in PaymentIDs |-> "none"]
    /\ refunded = {}
    /\ task = [a \in Actors |-> Idle]

\* A handler goes on with what it has begun.
Continue(a) ==
    \/ SaveSession(a) \/ executePayment(a) \/ queryPayment(a)
    \/ markPaid(a) \/ EnqueueConfirmation(a) \/ markReview(a)
    \/ markTerminal(a) \/ TerminalOrder(a) \/ Release(a)
    \/ \E answered \in BOOLEAN : ReconcileAnswer(a, answered)
    \/ ExpireReservations(a) \/ ExpireOrder(a)
    \/ markStatus(a) \/ FindShipment(a) \/ CreateShipment(a) \/ CollectCash(a)
    \/ cancel(a) \/ CancelOrder(a) \/ CancelPayment(a)
    \/ approveReview(a)
    \/ refund(a) \/ GatewayRefund(a) \/ ClaimRefund(a) \/ RestockRefunded(a)

\* A request, a cron call or an admin's visit begins.
Begin(a) ==
    \/ createPaymentSession(a)
    \/ confirmCodOrder(a)
    \/ \E p \in PaymentIDs, status \in Redirects : handleCallback(a, p, status)
    \/ reconcile(a)
    \/ expireUnpaidOrders(a)
    \/ \E button \in Buttons : OpenPage(a, button)

Next ==
    \/ \E p \in PaymentIDs : CustomerActs(p)
    \/ \E a \in Actors : Begin(a) \/ Continue(a)
    \/ \E a \in MayCrash : Crash(a)

Spec == Init /\ [][Next]_vars

\* Handlers do not stop halfway for good, the cron calls keep coming, and neither
\* a lost answer nor a crash meets every attempt at the same step.
Fairness ==
    /\ \A a \in Actors : WF_vars(Continue(a))
    /\ SF_vars(\E a \in Actors : reconcile(a))
    /\ SF_vars(\E a \in Actors : ReconcileAnswer(a, TRUE))
    /\ SF_vars(\E a \in Actors : markPaid(a))
    /\ SF_vars(\E a \in Actors : markReview(a))

FairSpec == Spec /\ Fairness

----------------------------------------------------------------------------
(* Properties *)

TypeOK ==
    /\ provider \in Providers
    /\ order \in OrderStatus
    /\ payment \in Payment
    /\ reservation \in {"ACTIVE", "COMMITTED", "RELEASED", "EXPIRED"}
    /\ shipments \in Nat
    /\ confirmations \in Nat
    /\ gateway \in [PaymentIDs -> GatewayState]
    /\ refunded \subseteq PaymentIDs
    /\ task \in [Actors -> Task]

Charged == \E p \in PaymentIDs : Captured(p)

\* The trust boundary: whatever statuses the browser comes back with, whichever
\* handlers overlap and crash, and however stale the page an admin approves from,
\* a bKash order counts as paid, refunded or in review, has its stock sold or the
\* customer told so only if bKash has captured a payment for it.
PaidIsCaptured ==
    (provider = "bkash"
       /\ \/ payment.status \in {"PAID", "PAYMENT_REVIEW", "REFUNDED"}
          \/ reservation = "COMMITTED"
          \/ confirmations > 0)
      => Charged

\* A payment made with bKash is not taken back by a late or repeated callback of any of
\* its sessions, the crons, or an admin's cancel (the claims of markPaid, markReview,
\* markTerminal and cancel against each other).  What does take it back is the claim of a
\* refund, and the checkout submitted again, which puts a session of its own over the row
\* whatever its status (SaveSession; ChargedOnce is what becomes of it).
PaidStaysPaid ==
    [][provider = "bkash" /\ payment.status = "PAID" /\ payment'.status # "PAID"
         => \E a \in Actors :
              \/ task[a].at = "claim" /\ payment'.status = "REFUNDED"
              \/ /\ task[a].at = "save" /\ payment'.status = "SESSION_CREATED"
                 /\ payment'.bkashPaymentID = task[a].id
                 /\ task[a].id # payment.bkashPaymentID]_vars

\* bKash has issued one payment for the order at most.
OneSession == \A p, q \in PaymentIDs : gateway[p] # "none" /\ gateway[q] # "none" => p = q

\* "Enqueue the confirmation email only if THIS call won the claim": the callbacks
\* and the reconciliation of one payment confirm the order once between them.
\* (After a refund the payment can be claimed again: see RefundedStaysRefunded.  A
\* further session that is put over the row is another payment, and confirmed too.)
ConfirmedOnce == provider = "bkash" /\ refunded = {} /\ OneSession => confirmations <= 1

\* Stock is not left reserved for a dead order: once the handlers that close it
\* are done, an order that was cancelled, failed, expired or refunded has no
\* ACTIVE reservation; no cron would ever look at it again.
NoStockStranded ==
    (/\ order \in {"CANCELLED", "FAILED", "EXPIRED", "REFUNDED"}
     /\ \A a \in Actors : task[a].at \notin {"release", "restock"})
      => reservation # "ACTIVE"

\* "On success: payment -> REFUNDED, order -> REFUNDED, stock restocked": when the
\* refund is through, nothing of the order is still kept off the shelf.
RefundRestocks ==
    (payment.status = "REFUNDED" /\ \A a \in Actors : task[a].at # "restock")
      => reservation \notin {"ACTIVE", "COMMITTED"}

\* The books and bKash agree: a payment is REFUNDED here only if the transaction
\* it records was refunded there, though the claim comes after the call.  (A session
\* opened in between replaces the transaction: see ChargedOnce.)
RefundedAtBkash ==
    payment.status = "REFUNDED" /\ OneSession => payment.bkashTrxID \in refunded

\* An order that is closed, or refunded, is settled on every side: nothing of it is kept
\* off the shelf, and bKash has given back what the books say it has, though each of
\* markTerminal, cancel and refund takes several statements that others overlap.
ClosedIsSettled == NoStockStranded /\ RefundRestocks /\ RefundedAtBkash

\* "Hold for a human": an order in review leaves it by an admin's click.  The crons
\* that look for its ACTIVE reservations and for payments to settle leave it alone, as do
\* callbacks that come after the review; a handler that began before it does not.
ReviewWaitsForHuman ==
    [][order = "PAYMENT_REVIEW" /\ order' # order
         => \E a \in Actors : task[a].at \in {"approveReview", "cancelled", "processing",
                                            "shipped", "delivered"}]_vars

\* A confirmed payment is a committed sale: a paid order has its units.
PaidHasStock ==
    (provider = "bkash" /\ order = "PAID" /\ payment.status = "PAID")
      => reservation = "COMMITTED"

\* The cron expires unpaid orders.
ExpiredIsUnpaid == order = "EXPIRED" => payment.status # "PAID"

\* "Terminal payments short-circuit": a refunded payment is not opened again.
RefundedStaysRefunded ==
    [][payment.status = "REFUNDED" => payment'.status = "REFUNDED"]_vars

\* "So a double-submit can't create two paid orders": nor is one order paid twice.
ChargedOnce == Cardinality({p \in PaymentIDs : Captured(p)}) <= 1

\* The safety net of reconcilePayments, where it reaches: a payment that bKash
\* captured while its session is on record is settled in the end, though the
\* answer of Execute was lost or the handler crashed.
OpenSessionIsSettled ==
    (payment.status = "SESSION_CREATED" /\ payment.bkashPaymentID # NoID
       /\ \E p \in PaymentIDs : p = payment.bkashPaymentID /\ Captured(p))
      ~> payment.status \in {"PAID", "PAYMENT_REVIEW"}

\* What its comment promises: "the safety net for customer paid but
\* Execute/callback never completed".
ChargedIsSettled ==
    Charged ~> payment.status \in {"PAID", "PAYMENT_REVIEW", "REFUNDED"}
=============================================================================
