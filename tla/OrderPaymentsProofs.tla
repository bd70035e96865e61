------------------------ MODULE OrderPaymentsProofs ------------------------
(***************************************************************************)
(* The trust boundary for every set of handlers, payments, redirects and   *)
(* crons, with crashes and without.  PaidIsCaptured is not inductive: what *)
(* a handler is about to do was decided by an answer it got earlier.  The  *)
(* strengthening says so of every handler in flight, also of an admin who  *)
(* is about to approve from a page rendered earlier.                       *)
(***************************************************************************)
EXTENDS OrderPayments, TLAPS

\* A handler that goes by a payment has one, and markTerminal has a reason.
Grounded(t) ==
    /\ t.at \in {"save", "execute", "query", "reconcile", "markPaid", "markReview", "refund"}
          => t.id \in PaymentIDs
    /\ t.at \in {"terminal", "terminalOrder"} => t.status \in {"CANCELLED", "FAILED"}

TaskOK == \A a \in Actors : task[a] \in Task /\ Grounded(task[a])

\* What only a captured payment leads to.
Decided == {"markPaid", "markReview", "confirm", "approveReview"}

Claims ==
    \/ payment.status \in {"PAID", "PAYMENT_REVIEW", "REFUNDED"}
    \/ reservation = "COMMITTED"
    \/ confirmations > 0
    \/ order = "PAYMENT_REVIEW"
    \/ \E a \in Actors : task[a].at \in Decided

ClaimsAreCaptured == (provider = "bkash" /\ Claims) => Charged

IInv == TypeOK /\ TaskOK /\ ClaimsAreCaptured

\* The ids and the gateway's states are told apart.
LEMMA Constants ==
    /\ NoID \notin PaymentIDs
    /\ \A g \in Captures : g \notin {"none", "initiated", "authorised", "cancelled", "failed"}
    /\ Captures \subseteq {"completed", "otherAmount", "otherInvoice"}
    /\ Buttons \cap {"idle", "save", "execute", "query", "reconcile", "markPaid", "markReview",
                     "confirm", "terminal", "terminalOrder", "refund"} = {}
BY OrderPaymentsAssumption DEF OrderPaymentsAssumption

\* Only a captured payment is verified.
LEMMA VerifyCaptured ==
    ASSUME NEW g \in GatewayState
    PROVE  /\ verify(g) \in {"markPaid", "markReview", "terminal"}
           /\ verify(g) # "terminal" => g \in Captures
BY Constants DEF verify, GatewayState

\* The records a handler goes on with.
LEMMA AtType ==
    ASSUME NEW at \in {"idle", "save", "execute", "query", "reconcile", "markPaid",
               "markReview", "confirm", "release",
               "refund", "claim", "restock", "expire", "expireOrder", "findShipment",
               "createShipment", "deliver", "cancelled", "cancelPayment"} \cup Buttons,
           NEW id \in PaymentIDs \cup {NoID}
    PROVE  At(at, id) \in Task /\ At(at, id).at = at /\ At(at, id).id = id
BY DEF At, Idle, Task

LEMMA IdleType == Idle \in Task /\ Grounded(Idle) /\ Idle.at = "idle"
BY DEF Idle, Task, Grounded

LEMMA TerminalType ==
    ASSUME NEW status \in {"CANCELLED", "FAILED"}, NEW id \in PaymentIDs \cup {NoID}
    PROVE  /\ Terminal(status, id) \in Task
           /\ Grounded(Terminal(status, id))
           /\ Terminal(status, id).at = "terminal"
BY DEF Terminal, Task, Grounded

\* One handler goes on with a proper task.
LEMMA BecomeOK ==
    ASSUME TypeOK, TaskOK, NEW a \in Actors, NEW t \in Task, Grounded(t), Become(a, t)
    PROVE  /\ task' \in [Actors -> Task]
           /\ TaskOK'
           /\ task'[a] = t
           /\ \A b \in Actors : b # a => task'[b] = task[b]
BY DEF TypeOK, TaskOK, Become, Grounded

Reservations == {"ACTIVE", "COMMITTED", "RELEASED", "EXPIRED"}

\* A step of one handler that leaves bKash's record of the payments alone is
\* sound if what it newly claims was claimed before or is captured.
LEMMA StepOK ==
    ASSUME IInv, NEW a \in Actors, NEW t \in Task, Grounded(t), Become(a, t),
           provider' = provider, gateway' = gateway,
           order' \in OrderStatus, payment' \in Payment, reservation' \in Reservations,
           shipments' \in Nat, confirmations' \in Nat, refunded' \subseteq PaymentIDs,
           (/\ provider = "bkash"
            /\ \/ payment'.status \in {"PAID", "PAYMENT_REVIEW", "REFUNDED"}
               \/ reservation' = "COMMITTED"
               \/ confirmations' > 0
               \/ order' = "PAYMENT_REVIEW"
               \/ t.at \in Decided) => (Claims \/ Charged)
    PROVE  IInv'
<1>1. /\ task' \in [Actors -> Task]
      /\ TaskOK'
      /\ task'[a] = t
      /\ \A b \in Actors : b # a => task'[b] = task[b]
    BY BecomeOK DEF IInv
<1>2. TypeOK'
    BY <1>1 DEF IInv, TypeOK, Reservations
<1>3. Charged' <=> Charged
    BY DEF Charged, Captured
<1>4. (\E b \in Actors : task'[b].at \in Decided)
        => (t.at \in Decided \/ \E b \in Actors : task[b].at \in Decided)
    BY <1>1
<1>5. (provider' = "bkash" /\ Claims') => (Claims \/ Charged)
    BY <1>4 DEF Claims, Decided
<1>6. ClaimsAreCaptured'
    BY <1>3, <1>5 DEF ClaimsAreCaptured, IInv
<1> QED
    BY <1>1, <1>2, <1>6 DEF IInv

\* A step that only moves its handler on.
LEMMA OnlyTaskOK ==
    ASSUME IInv, NEW a \in Actors, NEW t \in Task, Grounded(t), Become(a, t), OnlyTask,
           (provider = "bkash" /\ t.at \in Decided) => (Claims \/ Charged)
    PROVE  IInv'
<1>1. /\ provider' = provider /\ order' = order /\ payment' = payment
      /\ reservation' = reservation /\ shipments' = shipments
      /\ confirmations' = confirmations /\ gateway' = gateway /\ refunded' = refunded
    BY DEF OnlyTask, rows, bkash
<1>2. /\ order' \in OrderStatus /\ payment' \in Payment /\ reservation' \in Reservations
      /\ shipments' \in Nat /\ confirmations' \in Nat /\ refunded' \subseteq PaymentIDs
    BY <1>1 DEF IInv, TypeOK, Reservations
<1>3. (/\ provider = "bkash"
       /\ \/ payment'.status \in {"PAID", "PAYMENT_REVIEW", "REFUNDED"}
          \/ reservation' = "COMMITTED"
          \/ confirmations' > 0
          \/ order' = "PAYMENT_REVIEW"
          \/ t.at \in Decided) => (Claims \/ Charged)
    BY <1>1 DEF Claims
<1> QED
    BY <1>1, <1>2, <1>3, StepOK

\* What IInv says of a handler and of the rows.
LEMMA Known ==
    ASSUME IInv, NEW a \in Actors
    PROVE  /\ task[a] \in Task /\ Grounded(task[a])
           /\ order \in OrderStatus /\ payment \in Payment /\ reservation \in Reservations
           /\ shipments \in Nat /\ confirmations \in Nat /\ refunded \subseteq PaymentIDs
           /\ provider = "bkash" /\ task[a].at \in Decided => Charged
           /\ provider = "bkash" /\ Claims => Charged
           /\ \A p \in PaymentIDs : gateway[p] \in GatewayState
           /\ payment.status \in PaymentStatus
           /\ payment.bkashPaymentID \in PaymentIDs \cup {NoID}
           /\ payment.bkashTrxID \in PaymentIDs \cup {NoID}
    BY DEF IInv, TypeOK, TaskOK, ClaimsAreCaptured, Claims, Reservations, Payment

\* The payment after an update of its status, and of its session or transaction.
LEMMA StatusType ==
    ASSUME payment \in Payment, NEW status \in PaymentStatus
    PROVE  /\ [payment EXCEPT !.status = status] \in Payment
           /\ [payment EXCEPT !.status = status].status = status
    BY DEF Payment

LEMMA SessionType ==
    ASSUME payment \in Payment, NEW status \in PaymentStatus,
           NEW p \in PaymentIDs \cup {NoID}
    PROVE  /\ [payment EXCEPT !.status = status, !.bkashPaymentID = p] \in Payment
           /\ [payment EXCEPT !.status = status, !.bkashPaymentID = p].status = status
    BY DEF Payment

LEMMA TransactionType ==
    ASSUME payment \in Payment, NEW status \in PaymentStatus,
           NEW p \in PaymentIDs \cup {NoID}
    PROVE  /\ [payment EXCEPT !.status = status, !.bkashTrxID = p] \in Payment
           /\ [payment EXCEPT !.status = status, !.bkashTrxID = p].status = status
    BY DEF Payment

\* settle hands a payment on to markPaid or markReview only if it is captured.
LEMMA SettleOK ==
    ASSUME NEW a \in Actors, NEW p \in PaymentIDs, NEW g \in GatewayState, settle(a, p, g)
    PROVE  \E t \in Task : /\ Grounded(t)
                           /\ Become(a, t)
                           /\ t.at \in Decided => g \in Captures
<1>1. CASE verify(g) = "terminal"
    <2>1. PICK q \in PaymentIDs \cup {NoID} : Become(a, Terminal("FAILED", q))
        BY <1>1 DEF settle
    <2>2. /\ Terminal("FAILED", q) \in Task
          /\ Grounded(Terminal("FAILED", q))
          /\ Terminal("FAILED", q).at \notin Decided
        BY TerminalType DEF Decided
    <2> QED BY <2>1, <2>2
<1>2. CASE verify(g) # "terminal"
    <2>1. verify(g) \in {"markPaid", "markReview"} /\ g \in Captures
        BY <1>2, VerifyCaptured
    <2>2. Become(a, At(verify(g), p))
        BY <1>2 DEF settle
    <2>3. At(verify(g), p) \in Task /\ Grounded(At(verify(g), p))
        BY <2>1, AtType DEF Grounded
    <2> QED BY <2>1, <2>2, <2>3
<1> QED BY <1>1, <1>2

\* A step of one handler that only moves bKash's record, and captures or keeps.
LEMMA GatewayStepOK ==
    ASSUME IInv, NEW a \in Actors, NEW t \in Task, Grounded(t), Become(a, t),
           UNCHANGED <<rows, refunded>>,
           gateway' \in [PaymentIDs -> GatewayState],
           \A p \in PaymentIDs : gateway[p] \in Captures => gateway'[p] \in Captures,
           t.at \in Decided => \E p \in PaymentIDs : gateway'[p] \in Captures
    PROVE  IInv'
<1>1. /\ task' \in [Actors -> Task]
      /\ TaskOK'
      /\ task'[a] = t
      /\ \A b \in Actors : b # a => task'[b] = task[b]
    BY BecomeOK DEF IInv
<1>2. /\ provider' = provider /\ order' = order /\ payment' = payment
      /\ reservation' = reservation /\ shipments' = shipments
      /\ confirmations' = confirmations /\ refunded' = refunded
    BY DEF rows
<1>3. TypeOK'
    BY <1>1, <1>2 DEF IInv, TypeOK
<1>4. (Charged => Charged') /\ (t.at \in Decided => Charged')
    BY DEF Charged, Captured
<1>5. (\E b \in Actors : task'[b].at \in Decided)
        => (t.at \in Decided \/ \E b \in Actors : task[b].at \in Decided)
    BY <1>1
<1>6. Claims' => (Claims \/ Charged')
    BY <1>2, <1>4, <1>5 DEF Claims
<1>7. ClaimsAreCaptured'
    BY <1>2, <1>4, <1>6 DEF ClaimsAreCaptured, IInv
<1> QED
    BY <1>1, <1>3, <1>7 DEF IInv

----------------------------------------------------------------------------
(* The initial states, and every action *)

LEMMA InitOK == Init => IInv
<1> SUFFICES ASSUME Init PROVE IInv
    OBVIOUS
<1>1. \A a \in Actors : task[a] = Idle
    BY DEF Init
<1>2. TaskOK
    BY <1>1, IdleType DEF TaskOK
<1>3. payment \in Payment /\ payment.status = "PENDING"
    BY DEF Init, Payment, PaymentStatus
<1>4. TypeOK
    <2>1. provider \in {"bkash", "cod"} /\ provider \in Providers
        BY OrderPaymentsAssumption DEF Init, OrderPaymentsAssumption
    <2>2. order \in OrderStatus /\ reservation \in {"ACTIVE", "COMMITTED", "RELEASED", "EXPIRED"}
        BY DEF Init, OrderStatus
    <2>3. task \in [Actors -> Task]
        BY IdleType DEF Init
    <2>4. gateway \in [PaymentIDs -> GatewayState]
        BY DEF Init, GatewayState
    <2>5. shipments \in Nat /\ confirmations \in Nat /\ refunded \subseteq PaymentIDs
        BY DEF Init
    <2> QED BY <1>3, <2>1, <2>2, <2>3, <2>4, <2>5 DEF TypeOK
<1>5. \A a \in Actors : task[a].at \notin Decided
    BY <1>1, IdleType DEF Decided
<1>6. ClaimsAreCaptured
    BY <1>3, <1>5 DEF Init, ClaimsAreCaptured, Claims
<1> QED BY <1>2, <1>4, <1>6 DEF IInv

LEMMA CustomerActsOK ==
    ASSUME IInv, NEW p \in PaymentIDs, CustomerActs(p)
    PROVE  IInv'
<1>1. PICK g \in {"authorised", "cancelled", "failed"} :
        gateway' = [gateway EXCEPT ![p] = g]
    BY DEF CustomerActs
<1>2. /\ gateway' \in [PaymentIDs -> GatewayState]
      /\ \A q \in PaymentIDs : gateway[q] \in Captures => gateway'[q] \in Captures
    BY <1>1, Constants DEF IInv, TypeOK, CustomerActs, GatewayState
<1>3. UNCHANGED <<rows, refunded, task>>
    BY DEF CustomerActs
<1>4. TypeOK' /\ TaskOK'
    BY <1>2, <1>3 DEF IInv, TypeOK, TaskOK, rows, Grounded
<1>5. (Charged => Charged') /\ (Claims' <=> Claims) /\ provider' = provider
    BY <1>2, <1>3 DEF Charged, Captured, Claims, rows
<1>6. ClaimsAreCaptured'
    BY <1>5 DEF IInv, ClaimsAreCaptured
<1> QED BY <1>4, <1>6 DEF IInv

LEMMA CreateSessionOK ==
    ASSUME IInv, NEW a \in Actors, createPaymentSession(a)
    PROVE  IInv'
<1>1. PICK p \in PaymentIDs :
        /\ gateway[p] = "none"
        /\ gateway' = [gateway EXCEPT ![p] = "initiated"]
        /\ Become(a, At("save", p)) \/ Become(a, Idle)
    BY DEF createPaymentSession
<1>2. /\ gateway' \in [PaymentIDs -> GatewayState]
      /\ \A q \in PaymentIDs : gateway[q] \in Captures => gateway'[q] \in Captures
    BY <1>1, Constants DEF IInv, TypeOK, GatewayState
<1>3. UNCHANGED <<rows, refunded>>
    BY DEF createPaymentSession
<1>4. At("save", p) \in Task /\ Grounded(At("save", p)) /\ At("save", p).at \notin Decided
    BY AtType DEF Grounded, Decided
<1>5. Idle.at \notin Decided
    BY IdleType DEF Decided
<1>6. CASE Become(a, At("save", p))
    BY <1>2, <1>3, <1>4, <1>6, GatewayStepOK
<1>7. CASE Become(a, Idle)
    BY <1>2, <1>3, <1>5, <1>7, IdleType, GatewayStepOK
<1> QED BY <1>1, <1>6, <1>7

LEMMA ExecuteOK ==
    ASSUME IInv, NEW a \in Actors, executePayment(a)
    PROVE  IInv'
<1> DEFINE p == task[a].id
<1>1. p \in PaymentIDs /\ UNCHANGED <<rows, refunded>>
    BY Known DEF executePayment, Grounded
<1>2. /\ At("query", p) \in Task /\ Grounded(At("query", p))
      /\ At("query", p).at \notin Decided
    BY <1>1, AtType DEF Grounded, Decided
<1>3. Idle.at \notin Decided
    BY IdleType DEF Decided
<1>4. CASE \E g \in Captures :
             /\ gateway' = [gateway EXCEPT ![p] = g]
             /\ settle(a, p, g) \/ Become(a, At("query", p)) \/ Become(a, Idle)
    <2>1. PICK g \in Captures :
             /\ gateway' = [gateway EXCEPT ![p] = g]
             /\ settle(a, p, g) \/ Become(a, At("query", p)) \/ Become(a, Idle)
        BY <1>4
    <2>2. g \in GatewayState
        BY DEF GatewayState
    <2>3. /\ gateway' \in [PaymentIDs -> GatewayState]
          /\ \A q \in PaymentIDs : gateway[q] \in Captures => gateway'[q] \in Captures
          /\ \E q \in PaymentIDs : gateway'[q] \in Captures
        BY <1>1, <2>1, <2>2 DEF IInv, TypeOK
    <2>4. CASE settle(a, p, g)
        BY <1>1, <2>2, <2>3, <2>4, SettleOK, GatewayStepOK
    <2>5. CASE Become(a, At("query", p))
        BY <1>1, <1>2, <2>3, <2>5, GatewayStepOK
    <2>6. CASE Become(a, Idle)
        BY <1>1, <1>3, <2>3, <2>6, IdleType, GatewayStepOK
    <2> QED BY <2>1, <2>4, <2>5, <2>6
<1>5. CASE /\ Become(a, At("query", p)) \/ Become(a, Idle)
           /\ UNCHANGED gateway
    <2>1. /\ gateway' \in [PaymentIDs -> GatewayState]
          /\ \A q \in PaymentIDs : gateway[q] \in Captures => gateway'[q] \in Captures
        BY <1>5 DEF IInv, TypeOK
    <2>2. CASE Become(a, At("query", p))
        BY <1>1, <1>2, <2>1, <2>2, GatewayStepOK
    <2>3. CASE Become(a, Idle)
        BY <1>1, <1>3, <2>1, <2>3, IdleType, GatewayStepOK
    <2> QED BY <1>5, <2>2, <2>3
<1> QED BY <1>4, <1>5 DEF executePayment

\* The tasks without a payment are grounded, and decide nothing.
LEMMA Harmless ==
    ASSUME NEW at \in {"release", "claim", "restock", "expire", "expireOrder", "findShipment",
                       "createShipment", "deliver", "cancelled", "cancelPayment"}
    PROVE  /\ At(at, NoID) \in Task /\ Grounded(At(at, NoID))
           /\ At(at, NoID).at \notin Decided
<1>1. At(at, NoID) \in Task /\ At(at, NoID).at = at
    BY AtType
<1> QED BY <1>1 DEF Grounded, Decided

LEMMA IdleHarmless == Idle \in Task /\ Grounded(Idle) /\ Idle.at \notin Decided
BY IdleType DEF Decided

LEMMA ConfirmType ==
    /\ At("confirm", NoID) \in Task /\ Grounded(At("confirm", NoID))
    /\ At("confirm", NoID).at = "confirm"
BY AtType DEF Grounded

\* Handlers that begin, and those that only look.
LEMMA BeginOK ==
    ASSUME IInv, NEW a \in Actors, Begin(a)
    PROVE  IInv'
<1>1. CASE createPaymentSession(a)
    BY <1>1, CreateSessionOK
<1>2. CASE confirmCodOrder(a)
    <2>1. provider # "bkash" /\ Become(a, At("confirm", NoID)) /\ OnlyTask
        BY <1>2 DEF confirmCodOrder
    <2> QED BY <2>1, ConfirmType, OnlyTaskOK
<1>3. CASE \E p \in PaymentIDs, status \in Redirects : handleCallback(a, p, status)
    <2>1. PICK p \in PaymentIDs, status \in Redirects : handleCallback(a, p, status)
        BY <1>3
    <2>2. OnlyTask
        BY <2>1 DEF handleCallback
    <2>3. /\ At("execute", p) \in Task /\ Grounded(At("execute", p))
          /\ At("execute", p).at \notin Decided
        BY AtType DEF Grounded, Decided
    <2>4. \A s \in {"CANCELLED", "FAILED"} :
            /\ Terminal(s, NoID) \in Task /\ Grounded(Terminal(s, NoID))
            /\ Terminal(s, NoID).at \notin Decided
        BY TerminalType DEF Decided
    <2>5. \/ Become(a, At("execute", p))
          \/ \E s \in {"CANCELLED", "FAILED"} : Become(a, Terminal(s, NoID))
        BY <2>1 DEF handleCallback
    <2> QED BY <2>2, <2>3, <2>4, <2>5, OnlyTaskOK
<1>4. CASE reconcile(a)
    <2>1. payment.bkashPaymentID \in PaymentIDs
        BY <1>4, Known DEF reconcile
    <2>2. /\ At("reconcile", payment.bkashPaymentID) \in Task
          /\ Grounded(At("reconcile", payment.bkashPaymentID))
          /\ At("reconcile", payment.bkashPaymentID).at \notin Decided
        BY <2>1, AtType DEF Grounded, Decided
    <2>3. Become(a, At("reconcile", payment.bkashPaymentID)) /\ OnlyTask
        BY <1>4 DEF reconcile
    <2> QED BY <2>2, <2>3, OnlyTaskOK
<1>5. CASE expireUnpaidOrders(a)
    <2>1. Become(a, At("expire", NoID)) /\ OnlyTask
        BY <1>5 DEF expireUnpaidOrders
    <2> QED BY <2>1, Harmless, OnlyTaskOK
<1>6. CASE \E button \in Buttons : OpenPage(a, button)
    <2>1. PICK button \in Buttons : OpenPage(a, button)
        BY <1>6
    <2>2. At(button, NoID) \in Task /\ At(button, NoID).at = button
        BY AtType
    <2>3. Grounded(At(button, NoID))
        BY <2>2, Constants DEF Grounded
    <2>4. button \in Decided => button = "approveReview"
        BY Constants DEF Decided
    <2>5. button = "approveReview" => order = "PAYMENT_REVIEW"
        BY <2>1 DEF OpenPage, Shown
    <2>6. button \in Decided => Claims
        BY <2>4, <2>5 DEF Claims
    <2>7. Become(a, At(button, NoID)) /\ OnlyTask
        BY <2>1 DEF OpenPage
    <2> QED BY <2>2, <2>3, <2>6, <2>7, OnlyTaskOK
<1> QED BY <1>1, <1>2, <1>3, <1>4, <1>5, <1>6 DEF Begin

LEMMA LookOK ==
    ASSUME IInv, NEW a \in Actors,
           \/ queryPayment(a)
           \/ \E answered \in BOOLEAN : ReconcileAnswer(a, answered)
           \/ FindShipment(a)
           \/ refund(a)
           \/ Crash(a)
    PROVE  IInv'
<1>1. CASE queryPayment(a)
    <2>1. task[a].id \in PaymentIDs /\ gateway[task[a].id] \in GatewayState
        BY <1>1, Known DEF queryPayment, Grounded
    <2>2. OnlyTask
        BY <1>1 DEF queryPayment
    <2>3. CASE settle(a, task[a].id, gateway[task[a].id])
        BY <2>1, <2>2, <2>3, SettleOK, OnlyTaskOK DEF Charged, Captured
    <2>4. CASE Become(a, Idle)
        BY <2>2, <2>4, IdleHarmless, OnlyTaskOK
    <2> QED BY <1>1, <2>3, <2>4 DEF queryPayment
<1>2. CASE \E answered \in BOOLEAN : ReconcileAnswer(a, answered)
    <2>1. task[a].id \in PaymentIDs /\ gateway[task[a].id] \in GatewayState
        BY <1>2, Known DEF ReconcileAnswer, Grounded
    <2>2. OnlyTask
        BY <1>2 DEF ReconcileAnswer
    <2>3. \/ settle(a, task[a].id, gateway[task[a].id])
          \/ Become(a, Terminal("FAILED", NoID))
          \/ Become(a, Idle)
        BY <1>2 DEF ReconcileAnswer
    <2>4. CASE settle(a, task[a].id, gateway[task[a].id])
        BY <2>1, <2>2, <2>4, SettleOK, OnlyTaskOK DEF Charged, Captured
    <2>5. CASE Become(a, Terminal("FAILED", NoID))
        <3>1. Terminal("FAILED", NoID).at \notin Decided
            BY TerminalType DEF Decided
        <3> QED BY <2>2, <2>5, <3>1, TerminalType, OnlyTaskOK
    <2>6. CASE Become(a, Idle)
        BY <2>2, <2>6, IdleHarmless, OnlyTaskOK
    <2> QED BY <2>3, <2>4, <2>5, <2>6
<1>3. CASE FindShipment(a)
    BY <1>3, Harmless, IdleHarmless, OnlyTaskOK DEF FindShipment
<1>4. CASE refund(a)
    <2>1. OnlyTask
        BY <1>4 DEF refund
    <2>2. CASE /\ payment.bkashPaymentID # NoID
               /\ Become(a, At("refund", payment.bkashPaymentID))
        <3>1. payment.bkashPaymentID \in PaymentIDs
            BY <2>2, Known
        <3>2. /\ At("refund", payment.bkashPaymentID) \in Task
              /\ Grounded(At("refund", payment.bkashPaymentID))
              /\ At("refund", payment.bkashPaymentID).at \notin Decided
            BY <3>1, AtType DEF Grounded, Decided
        <3> QED BY <2>1, <2>2, <3>2, OnlyTaskOK
    <2>3. CASE Become(a, Idle)
        BY <2>1, <2>3, IdleHarmless, OnlyTaskOK
    <2> QED BY <1>4, <2>2, <2>3 DEF refund
<1>5. CASE Crash(a)
    BY <1>5, IdleHarmless, OnlyTaskOK DEF Crash
<1> QED BY <1>1, <1>2, <1>3, <1>4, <1>5

\* The updates of the payment.
LEMMA PaymentStepOK ==
    ASSUME IInv, NEW a \in Actors,
           \/ SaveSession(a) \/ markPaid(a) \/ markReview(a) \/ markTerminal(a)
           \/ CollectCash(a) \/ CancelPayment(a) \/ approveReview(a) \/ ClaimRefund(a)
    PROVE  IInv'
<1>1. /\ order \in OrderStatus /\ payment \in Payment /\ reservation \in Reservations
      /\ shipments \in Nat /\ confirmations \in Nat /\ refunded \subseteq PaymentIDs
      /\ task[a] \in Task /\ Grounded(task[a])
    BY Known
<1>2. (provider = "bkash" /\ task[a].at \in Decided) => Charged
    BY Known
<1>3. CASE SaveSession(a)
    <2>1. /\ UNCHANGED <<provider, order, reservation, shipments, confirmations, bkash>>
          /\ Become(a, Idle)
          /\ task[a].id \in PaymentIDs
        BY <1>1, <1>3 DEF SaveSession, Grounded
    <2>2. payment' \in Payment /\ payment'.status = "SESSION_CREATED"
        <3>1. payment' = [payment EXCEPT !.status = "SESSION_CREATED",
                                         !.bkashPaymentID = task[a].id]
            BY <1>3 DEF SaveSession
        <3>2. "SESSION_CREATED" \in PaymentStatus
            BY DEF PaymentStatus
        <3> QED BY <1>1, <2>1, <3>1, <3>2, SessionType
    <2>3. (/\ provider = "bkash"
           /\ \/ payment'.status \in {"PAID", "PAYMENT_REVIEW", "REFUNDED"}
              \/ reservation' = "COMMITTED"
              \/ confirmations' > 0
              \/ order' = "PAYMENT_REVIEW"
              \/ Idle.at \in Decided) => (Claims \/ Charged)
        BY <2>1, <2>2, IdleHarmless DEF Claims
    <2> QED BY <1>1, <2>1, <2>2, <2>3, IdleHarmless, StepOK DEF bkash
<1>4. CASE markPaid(a)
    <2>1. /\ UNCHANGED <<provider, shipments, confirmations, bkash>>
          /\ task[a].at \in Decided /\ task[a].id \in PaymentIDs
        BY <1>1, <1>4 DEF markPaid, Grounded, Decided
    <2>2. provider = "bkash" => Charged
        BY <1>2, <2>1
    <2>3. CASE Claimable
        <3>1. payment' \in Payment
            <4>1. payment' = [payment EXCEPT !.status = "PAID", !.bkashTrxID = task[a].id]
                BY <1>4, <2>3 DEF markPaid
            <4>2. "PAID" \in PaymentStatus
                BY DEF PaymentStatus
            <4> QED BY <1>1, <2>1, <4>1, <4>2, TransactionType
        <3>2. /\ order' \in OrderStatus /\ reservation' \in Reservations
              /\ Become(a, At("confirm", NoID))
            BY <1>1, <1>4, <2>3 DEF markPaid, OrderStatus, Reservations
        <3> QED BY <1>1, <2>1, <2>2, <3>1, <3>2, ConfirmType, StepOK DEF bkash
    <2>4. CASE ~Claimable
        <3>1. UNCHANGED <<payment, order, reservation>> /\ Become(a, Idle)
            BY <1>4, <2>4 DEF markPaid
        <3>2. (/\ provider = "bkash"
               /\ \/ payment'.status \in {"PAID", "PAYMENT_REVIEW", "REFUNDED"}
                  \/ reservation' = "COMMITTED"
                  \/ confirmations' > 0
                  \/ order' = "PAYMENT_REVIEW"
                  \/ Idle.at \in Decided) => (Claims \/ Charged)
            BY <2>2
        <3> QED BY <1>1, <2>1, <3>1, <3>2, IdleHarmless, StepOK DEF bkash
    <2> QED BY <2>3, <2>4
<1>5. CASE markReview(a)
    <2>1. /\ UNCHANGED <<provider, reservation, shipments, confirmations, bkash>>
          /\ task[a].at \in Decided /\ task[a].id \in PaymentIDs
          /\ Become(a, Idle)
        BY <1>1, <1>5 DEF markReview, Grounded, Decided
    <2>2. provider = "bkash" => Charged
        BY <1>2, <2>1
    <2>3. payment' \in Payment
        <3>1. \/ payment' = [payment EXCEPT !.status = "PAYMENT_REVIEW",
                                            !.bkashTrxID = task[a].id]
              \/ payment' = payment
            BY <1>5 DEF markReview
        <3>2. "PAYMENT_REVIEW" \in PaymentStatus
            BY DEF PaymentStatus
        <3>3. [payment EXCEPT !.status = "PAYMENT_REVIEW", !.bkashTrxID = task[a].id] \in Payment
            BY <1>1, <2>1, <3>2, TransactionType
        <3> QED BY <1>1, <3>1, <3>3
    <2>4. order' \in OrderStatus
        BY <1>1, <1>5 DEF markReview, OrderStatus
    <2>5. (/\ provider = "bkash"
           /\ \/ payment'.status \in {"PAID", "PAYMENT_REVIEW", "REFUNDED"}
              \/ reservation' = "COMMITTED"
              \/ confirmations' > 0
              \/ order' = "PAYMENT_REVIEW"
              \/ Idle.at \in Decided) => (Claims \/ Charged)
        BY <2>2
    <2> QED BY <1>1, <2>1, <2>3, <2>4, <2>5, IdleHarmless, StepOK DEF bkash
<1>6. CASE markTerminal(a)
    <2>1. /\ UNCHANGED <<provider, order, reservation, shipments, confirmations, bkash>>
          /\ task[a].status \in {"CANCELLED", "FAILED"}
        BY <1>1, <1>6 DEF markTerminal, Grounded
    <2>2. CASE payment.status # "PAID"
        <3> DEFINE trx == IF task[a].id = NoID THEN payment.bkashTrxID ELSE task[a].id
                   t == [task[a] EXCEPT !.at = "terminalOrder"]
        <3>1. trx \in PaymentIDs \cup {NoID} /\ task[a].status \in PaymentStatus
            BY <1>1, <2>1 DEF Task, Payment, PaymentStatus
        <3>2. payment' = [payment EXCEPT !.status = task[a].status, !.bkashTrxID = trx]
            BY <1>6, <2>2 DEF markTerminal
        <3>3. payment' \in Payment /\ payment'.status = task[a].status
            BY <1>1, <3>1, <3>2, TransactionType
        <3>4. t \in Task /\ Grounded(t) /\ t.at \notin Decided
            BY <1>1, <2>1 DEF Task, Grounded, Decided
        <3>5. Become(a, t)
            BY <1>6, <2>2 DEF markTerminal
        <3> QED BY <1>1, <2>1, <3>3, <3>4, <3>5, StepOK DEF bkash, Claims
    <2>3. CASE payment.status = "PAID"
        <3>1. UNCHANGED payment /\ Become(a, Idle)
            BY <1>6, <2>3 DEF markTerminal
        <3> QED BY <1>1, <2>1, <3>1, IdleHarmless, StepOK DEF bkash, Claims
    <2> QED BY <2>2, <2>3
<1>7. CASE CollectCash(a)
    <2>1. /\ UNCHANGED <<provider, order, reservation, shipments, confirmations, bkash>>
          /\ Become(a, Idle)
        BY <1>7 DEF CollectCash
    <2>2. payment' \in Payment
        BY <1>1, <1>7, StatusType DEF CollectCash, SetPayment, PaymentStatus
    <2>3. provider = "bkash" => UNCHANGED payment
        BY <1>7 DEF CollectCash
    <2>4. (provider = "bkash" /\ payment'.status \in {"PAID", "PAYMENT_REVIEW", "REFUNDED"})
            => Claims
        BY <2>3 DEF Claims
    <2> QED BY <1>1, <2>1, <2>2, <2>4, IdleHarmless, StepOK DEF bkash, Claims
<1>8. CASE CancelPayment(a)
    <2>1. /\ UNCHANGED <<provider, order, reservation, shipments, confirmations, bkash>>
          /\ Become(a, Idle)
        BY <1>8 DEF CancelPayment
    <2>2. payment' \in Payment /\ (payment'.status = "CANCELLED" \/ UNCHANGED payment)
        <3>1. "CANCELLED" \in PaymentStatus
            BY DEF PaymentStatus
        <3>2. payment' = [payment EXCEPT !.status = "CANCELLED"] \/ payment' = payment
            BY <1>8 DEF CancelPayment, SetPayment
        <3> QED BY <1>1, <3>1, <3>2, StatusType
    <2>3. (/\ provider = "bkash"
           /\ \/ payment'.status \in {"PAID", "PAYMENT_REVIEW", "REFUNDED"}
              \/ reservation' = "COMMITTED"
              \/ confirmations' > 0
              \/ order' = "PAYMENT_REVIEW"
              \/ Idle.at \in Decided) => (Claims \/ Charged)
        BY <2>1, <2>2, IdleHarmless DEF Claims
    <2> QED BY <1>1, <2>1, <2>2, <2>3, IdleHarmless, StepOK DEF bkash
<1>9. CASE approveReview(a)
    <2>1. /\ UNCHANGED <<provider, shipments, confirmations, bkash>>
          /\ task[a].at \in Decided
          /\ Become(a, Idle)
        BY <1>9 DEF approveReview, Decided
    <2>2. provider = "bkash" => Charged
        BY <1>2, <2>1
    <2>3. payment' \in Payment
        BY <1>1, <1>9, StatusType DEF approveReview, SetPayment, PaymentStatus
    <2>4. order' \in OrderStatus /\ reservation' \in Reservations
        BY <1>1, <1>9 DEF approveReview, OrderStatus, Reservations
    <2> QED BY <1>1, <2>1, <2>2, <2>3, <2>4, IdleHarmless, StepOK DEF bkash
<1>10. CASE ClaimRefund(a)
    <2>1. UNCHANGED <<provider, reservation, shipments, confirmations, bkash>>
        BY <1>10 DEF ClaimRefund
    <2>2. CASE payment.status = "PAID"
        <3>1. payment' \in Payment
            BY <1>1, <1>10, <2>2, StatusType DEF ClaimRefund, SetPayment, PaymentStatus
        <3>2. order' \in OrderStatus /\ Become(a, At("restock", NoID))
            BY <1>10, <2>2 DEF ClaimRefund, OrderStatus
        <3>3. Claims
            BY <2>2 DEF Claims
        <3> QED BY <1>1, <2>1, <3>1, <3>2, <3>3, Harmless, StepOK DEF bkash
    <2>3. CASE payment.status # "PAID"
        <3>1. UNCHANGED <<payment, order>> /\ Become(a, Idle)
            BY <1>10, <2>3 DEF ClaimRefund
        <3> QED BY <1>1, <2>1, <3>1, IdleHarmless, StepOK DEF bkash, Claims
    <2> QED BY <2>2, <2>3
<1> QED BY <1>3, <1>4, <1>5, <1>6, <1>7, <1>8, <1>9, <1>10

\* The updates of the order, its reservations and its shipments, and bKash's refund.
LEMMA OrderStepOK ==
    ASSUME IInv, NEW a \in Actors,
           \/ TerminalOrder(a) \/ ExpireOrder(a) \/ CancelOrder(a) \/ markStatus(a)
           \/ Release(a) \/ ExpireReservations(a) \/ cancel(a) \/ RestockRefunded(a)
           \/ EnqueueConfirmation(a) \/ CreateShipment(a) \/ GatewayRefund(a)
    PROVE  IInv'
<1>1. /\ order \in OrderStatus /\ payment \in Payment /\ reservation \in Reservations
      /\ shipments \in Nat /\ confirmations \in Nat /\ refunded \subseteq PaymentIDs
      /\ task[a] \in Task /\ Grounded(task[a])
    BY Known
<1>2. (provider = "bkash" /\ task[a].at \in Decided) => Charged
    BY Known
<1>3. CASE TerminalOrder(a) \/ ExpireOrder(a) \/ CancelOrder(a) \/ markStatus(a)
    <2>1. /\ UNCHANGED <<provider, payment, reservation, shipments, confirmations, bkash>>
          /\ \/ Become(a, Idle)
             \/ \E at \in {"release", "findShipment", "deliver", "cancelPayment"} :
                    Become(a, At(at, NoID))
        BY <1>3 DEF TerminalOrder, ExpireOrder, CancelOrder, markStatus
    <2>2. order' \in OrderStatus \ {"PAYMENT_REVIEW"}
        BY <1>1, <1>3 DEF TerminalOrder, ExpireOrder, CancelOrder, markStatus, Grounded, OrderStatus
    <2> QED BY <1>1, <2>1, <2>2, Harmless, IdleHarmless, StepOK DEF bkash, Claims
<1>4. CASE Release(a) \/ ExpireReservations(a) \/ cancel(a) \/ RestockRefunded(a)
    <2>1. /\ UNCHANGED <<provider, order, payment, shipments, confirmations, bkash>>
          /\ \/ Become(a, Idle)
             \/ \E at \in {"expireOrder", "cancelled"} : Become(a, At(at, NoID))
        BY <1>4 DEF Release, ExpireReservations, cancel, RestockRefunded
    <2>2. /\ reservation' \in Reservations
          /\ reservation' = "COMMITTED" => reservation = "COMMITTED"
        BY <1>1, <1>4 DEF Release, ExpireReservations, cancel, RestockRefunded, Reservations
    <2> QED BY <1>1, <2>1, <2>2, Harmless, IdleHarmless, StepOK DEF bkash, Claims
<1>5. CASE EnqueueConfirmation(a)
    <2>1. /\ UNCHANGED <<provider, order, payment, reservation, shipments, bkash>>
          /\ Become(a, Idle) /\ confirmations' \in Nat /\ task[a].at \in Decided
        BY <1>1, <1>5 DEF EnqueueConfirmation, Decided
    <2> QED BY <1>1, <1>2, <2>1, IdleHarmless, StepOK DEF bkash
<1>6. CASE CreateShipment(a)
    <2>1. /\ UNCHANGED <<provider, order, payment, reservation, confirmations, bkash>>
          /\ Become(a, Idle) /\ shipments' \in Nat
        BY <1>1, <1>6 DEF CreateShipment
    <2> QED BY <1>1, <2>1, IdleHarmless, StepOK DEF bkash, Claims
<1>7. CASE GatewayRefund(a)
    <2>1. /\ provider' = provider /\ order' = order /\ payment' = payment
          /\ reservation' = reservation /\ shipments' = shipments
          /\ confirmations' = confirmations /\ gateway' = gateway
        BY <1>7 DEF GatewayRefund, rows
    <2>2. task[a].id \in PaymentIDs
        BY <1>1, <1>7 DEF GatewayRefund, Grounded
    <2>3. /\ refunded' \subseteq PaymentIDs
          /\ Become(a, Idle) \/ Become(a, At("claim", NoID))
        BY <1>1, <1>7, <2>2 DEF GatewayRefund
    <2> QED BY <1>1, <2>1, <2>3, Harmless, IdleHarmless, StepOK DEF Claims
<1> QED BY <1>3, <1>4, <1>5, <1>6, <1>7

----------------------------------------------------------------------------

LEMMA NextOK == IInv /\ [Next]_vars => IInv'
<1> SUFFICES ASSUME IInv, [Next]_vars PROVE IInv'
    OBVIOUS
<1>1. CASE \E p \in PaymentIDs : CustomerActs(p)
    BY <1>1, CustomerActsOK
<1>2. ASSUME NEW a \in Actors, Begin(a) PROVE IInv'
    BY <1>2, BeginOK
<1>3. ASSUME NEW a \in Actors, Continue(a) PROVE IInv'
    <2>1. CASE executePayment(a)
        BY <2>1, ExecuteOK
    <2>2. CASE ~ executePayment(a)
        BY <1>3, <2>2, LookOK, PaymentStepOK, OrderStepOK DEF Continue
    <2> QED BY <2>1, <2>2
<1>4. ASSUME NEW a \in MayCrash, Crash(a) PROVE IInv'
    BY <1>4, LookOK, OrderPaymentsAssumption
<1>5. CASE UNCHANGED vars
    BY <1>5 DEF vars, rows, bkash, IInv, TypeOK, TaskOK, Grounded, ClaimsAreCaptured, Claims,
                Charged, Captured
<1> QED BY <1>1, <1>2, <1>3, <1>4, <1>5 DEF Next

LEMMA Invariance == Spec => []IInv
<1>1. Init => IInv
    BY InitOK
<1>2. IInv /\ [Next]_vars => IInv'
    BY NextOK
<1> QED BY <1>1, <1>2, PTL DEF Spec

\* Every step of every handler keeps the rows, bKash's record and the handlers in
\* their types: no update writes a status the schema does not have.
THEOREM PaymentTypes == Spec => []TypeOK
<1>1. IInv => TypeOK
    BY DEF IInv
<1> QED BY <1>1, Invariance, PTL

\* The trust boundary of handleCallback and settle holds for any number of
\* handlers, sessions and repeated redirects, in any order, and through crashes.
THEOREM TrustBoundary == Spec => []PaidIsCaptured
<1>1. IInv => PaidIsCaptured
    BY DEF IInv, ClaimsAreCaptured, Claims, PaidIsCaptured
<1> QED BY <1>1, Invariance, PTL

----------------------------------------------------------------------------
(* Where a handler goes *)

\* A handler that goes by what bKash says goes on to write it down.
LEMMA SettleGoes ==
    ASSUME NEW a \in Actors, NEW p \in PaymentIDs, NEW g \in GatewayState, settle(a, p, g)
    PROVE  \E t \in Task : /\ Become(a, t)
                           /\ t.at \in {"markPaid", "markReview", "terminal"}
                           /\ t.id \in {NoID, p}
<1>1. CASE verify(g) = "terminal"
    <2>1. PICK q \in {NoID, p} : Become(a, Terminal("FAILED", q))
        BY <1>1 DEF settle
    <2>2. Terminal("FAILED", q).id = q
        BY DEF Terminal
    <2> QED BY <2>1, <2>2, TerminalType
<1>2. CASE verify(g) # "terminal"
    <2>1. Become(a, At(verify(g), p)) /\ verify(g) \in {"markPaid", "markReview"}
        BY <1>2, VerifyCaptured DEF settle
    <2>2. At(verify(g), p) \in Task /\ At(verify(g), p).at = verify(g) /\ At(verify(g), p).id = p
        BY <2>1, AtType
    <2> QED BY <2>1, <2>2
<1> QED BY <1>1, <1>2

\* The records of the handlers that go by no payment.
LEMMA Goes ==
    /\ \A at \in {"query", "confirm", "release", "claim", "restock", "expire", "expireOrder",
                  "findShipment", "createShipment", "deliver", "cancelled", "cancelPayment"} :
         At(at, NoID) \in Task /\ At(at, NoID).at = at /\ At(at, NoID).id = NoID
    /\ Idle \in Task /\ Idle.at = "idle" /\ Idle.id = NoID
BY AtType, IdleType DEF Idle

\* A step that leaves the order, the payment and the reservations alone, by a handler
\* that is not about to give units back and goes on to read or to ask.
OnlyLooks(a) ==
    /\ task[a].at \notin {"release", "restock"}
    /\ UNCHANGED <<order, payment, reservation>>
    /\ \E t \in Task : Become(a, t) /\ t.at \notin {"cancelled", "cancelPayment", "expireOrder"}

LEMMA AskingLooks ==
    ASSUME IInv, NEW a \in Actors,
           executePayment(a) \/ queryPayment(a) \/ \E answered \in BOOLEAN : ReconcileAnswer(a, answered)
    PROVE  OnlyLooks(a)
<1>1. /\ task[a].at \in {"execute", "query", "reconcile"}
      /\ task[a].id \in PaymentIDs
      /\ gateway[task[a].id] \in GatewayState
      /\ Captures \subseteq GatewayState
      /\ UNCHANGED <<order, payment, reservation>>
    BY Known DEF executePayment, queryPayment, ReconcileAnswer, Grounded, GatewayState,
                 OnlyTask, rows
<1>2. \/ \E g \in GatewayState : settle(a, task[a].id, g)
      \/ Become(a, At("query", task[a].id))
      \/ Become(a, Terminal("FAILED", NoID))
      \/ Become(a, Idle)
    BY <1>1 DEF executePayment, queryPayment, ReconcileAnswer
<1>3. /\ At("query", task[a].id) \in Task /\ At("query", task[a].id).at = "query"
      /\ Terminal("FAILED", NoID) \in Task /\ Terminal("FAILED", NoID).at = "terminal"
    BY <1>1, AtType, TerminalType
<1>4. \E t \in Task : Become(a, t) /\ t.at \notin {"cancelled", "cancelPayment", "expireOrder"}
    BY <1>1, <1>2, <1>3, Goes, SettleGoes
<1> QED BY <1>1, <1>4 DEF OnlyLooks

LEMMA BeginLooks ==
    ASSUME IInv, NEW a \in Actors, Begin(a)
    PROVE  OnlyLooks(a)
<1>1. task[a].at = "idle" /\ UNCHANGED <<order, payment, reservation>>
    BY DEF Begin, createPaymentSession, confirmCodOrder, handleCallback, reconcile,
           expireUnpaidOrders, OpenPage, OnlyTask, rows
<1>2. \/ \E at \in {"save", "execute", "reconcile"}, p \in PaymentIDs : Become(a, At(at, p))
      \/ \E at \in {"confirm", "expire"} \cup Buttons : Become(a, At(at, NoID))
      \/ \E status \in {"CANCELLED", "FAILED"} : Become(a, Terminal(status, NoID))
      \/ Become(a, Idle)
    <2>1. payment.bkashPaymentID # NoID => payment.bkashPaymentID \in PaymentIDs
        BY Known
    <2> QED BY <2>1 DEF Begin, createPaymentSession, confirmCodOrder, handleCallback, reconcile,
                        expireUnpaidOrders, OpenPage
<1>3. /\ \A at \in {"save", "execute", "reconcile"}, p \in PaymentIDs :
           At(at, p) \in Task /\ At(at, p).at = at
      /\ \A at \in {"confirm", "expire"} \cup Buttons :
           At(at, NoID) \in Task /\ At(at, NoID).at = at
    BY AtType
<1>4. Buttons \cap {"cancelled", "cancelPayment", "expireOrder"} = {}
    BY OrderPaymentsAssumption DEF OrderPaymentsAssumption
<1>5. \E t \in Task : Become(a, t) /\ t.at \notin {"cancelled", "cancelPayment", "expireOrder"}
    BY <1>2, <1>3, <1>4, Goes, TerminalType
<1> QED BY <1>1, <1>5 DEF OnlyLooks

LEMMA RestLooks ==
    ASSUME IInv, NEW a \in Actors,
           \/ EnqueueConfirmation(a) \/ FindShipment(a) \/ CreateShipment(a)
           \/ refund(a) \/ GatewayRefund(a)
    PROVE  OnlyLooks(a)
<1>1. /\ task[a].at \in {"confirm", "findShipment", "createShipment", "refundOrder", "refund"}
      /\ UNCHANGED <<order, payment, reservation>>
    BY DEF EnqueueConfirmation, FindShipment, CreateShipment, refund, GatewayRefund, OnlyTask, rows
<1>2. \/ \E at \in {"createShipment", "claim"} : Become(a, At(at, NoID))
      \/ Become(a, Idle)
      \/ \E p \in PaymentIDs : Become(a, At("refund", p))
    <2>1. payment.bkashPaymentID \in PaymentIDs \cup {NoID}
        BY Known
    <2> QED BY <2>1 DEF EnqueueConfirmation, FindShipment, CreateShipment, refund, GatewayRefund
<1>3. \A p \in PaymentIDs : At("refund", p) \in Task /\ At("refund", p).at = "refund"
    BY AtType
<1>4. \E t \in Task : Become(a, t) /\ t.at \notin {"cancelled", "cancelPayment", "expireOrder"}
    BY <1>2, <1>3, Goes
<1> QED BY <1>1, <1>4 DEF OnlyLooks

----------------------------------------------------------------------------
(* The stock of a closed order, as long as no handler is cut off *)

\* Some handler is at one of these stages.
Someone(stages) == \E a \in Actors : task[a].at \in stages

Closed == {"CANCELLED", "FAILED", "EXPIRED", "REFUNDED"}

\* A handler that will cancel or expire the order has let go of its units already; one
\* that has failed or refunded it is about to.
StockInv ==
    /\ Someone({"cancelled", "cancelPayment", "expireOrder"}) => reservation # "ACTIVE"
    /\ order \in Closed /\ reservation = "ACTIVE" => Someone({"release", "restock"})
    /\ payment.status = "REFUNDED" /\ reservation \in {"ACTIVE", "COMMITTED"}
         => Someone({"restock"})

\* A step keeps this if it takes no units, leaves none behind, and closes the order or the
\* payment only on the way to letting its units go, or when they are gone.
LEMMA StockKept ==
    ASSUME IInv, StockInv, NEW a \in Actors, NEW t \in Task, Become(a, t),
           reservation' = "ACTIVE" => reservation = "ACTIVE",
           reservation' \in {"ACTIVE", "COMMITTED"} => reservation \in {"ACTIVE", "COMMITTED"},
           task[a].at = "release" => reservation' # "ACTIVE",
           task[a].at = "restock" => reservation' \notin {"ACTIVE", "COMMITTED"},
           order' \in Closed => \/ order \in Closed
                                \/ t.at \in {"release", "restock"}
                                \/ reservation' # "ACTIVE",
           payment'.status = "REFUNDED" => payment.status = "REFUNDED" \/ t.at = "restock",
           t.at \in {"cancelled", "cancelPayment", "expireOrder"} => reservation' # "ACTIVE"
    PROVE  StockInv'
<1>1. task'[a] = t /\ \A b \in Actors \ {a} : task'[b] = task[b]
    BY DEF IInv, TypeOK, Become
<1>2. \A stages \in SUBSET {"cancelled", "cancelPayment", "expireOrder", "release", "restock"} :
        Someone(stages)' <=> t.at \in stages \/ \E b \in Actors \ {a} : task[b].at \in stages
    BY <1>1 DEF Someone
<1>3. (Someone({"cancelled", "cancelPayment", "expireOrder"}) => reservation # "ACTIVE")'
    BY <1>2 DEF StockInv, Someone
<1>4. (order \in Closed /\ reservation = "ACTIVE" => Someone({"release", "restock"}))'
    BY <1>2 DEF StockInv, Someone
<1>5. (payment.status = "REFUNDED" /\ reservation \in {"ACTIVE", "COMMITTED"}
         => Someone({"restock"}))'
    BY <1>2 DEF StockInv, Someone
<1> QED BY <1>3, <1>4, <1>5 DEF StockInv

LEMMA LooksKeepStock ==
    ASSUME IInv, StockInv, NEW a \in Actors, OnlyLooks(a)
    PROVE  StockInv'
BY StockKept DEF OnlyLooks

LEMMA StockInit == Init => StockInv
<1> SUFFICES ASSUME Init PROVE StockInv
    OBVIOUS
<1>1. \A a \in Actors : task[a].at = "idle"
    BY IdleType DEF Init
<1> QED BY <1>1 DEF Init, StockInv, Someone, Closed

\* The updates of the payment and of the order.
LEMMA PaymentKeepsStock ==
    ASSUME IInv, StockInv, NEW a \in Actors,
           \/ SaveSession(a) \/ markReview(a) \/ markTerminal(a) \/ CollectCash(a)
           \/ CancelPayment(a) \/ markStatus(a) \/ markPaid(a) \/ approveReview(a)
    PROVE  StockInv'
<1>1. payment \in Payment /\ task[a] \in Task /\ Grounded(task[a])
    BY Known
<1>2. task[a].at \notin {"release", "restock"}
    BY DEF SaveSession, markReview, markTerminal, CollectCash, CancelPayment, markStatus,
           markPaid, approveReview
<1>3. CASE SaveSession(a) \/ CollectCash(a) \/ CancelPayment(a) \/ markReview(a) \/ approveReview(a)
    <2>1. Become(a, Idle) /\ (payment'.status = "REFUNDED" => payment.status = "REFUNDED")
        <3>1. CASE SaveSession(a)
            BY <1>1, <3>1 DEF SaveSession, Payment
        <3>2. CASE markReview(a)
            BY <1>1, <3>2 DEF markReview, Payment
        <3>3. CASE CollectCash(a) \/ CancelPayment(a) \/ approveReview(a)
            BY <1>1, <3>3 DEF CollectCash, CancelPayment, approveReview, SetPayment, Payment
        <3> QED BY <1>3, <3>1, <3>2, <3>3
    <2>2. order' \in {order, "PAYMENT_REVIEW", "PAID"}
        BY <1>3 DEF SaveSession, CollectCash, CancelPayment, markReview, approveReview
    <2>3. reservation' = reservation \/ (reservation' = "COMMITTED" /\ reservation = "ACTIVE")
        <3>1. CASE approveReview(a)
            BY <3>1 DEF approveReview
        <3>2. CASE SaveSession(a) \/ CollectCash(a) \/ CancelPayment(a) \/ markReview(a)
            BY <3>2 DEF SaveSession, CollectCash, CancelPayment, markReview
        <3> QED BY <1>3, <3>1, <3>2
    <2>4. order' \in Closed => order \in Closed
        BY <2>2 DEF Closed
    <2> QED BY <1>2, <2>1, <2>3, <2>4, Goes, StockKept
<1>4. CASE markPaid(a)
    <2>1. Become(a, At("confirm", NoID)) \/ Become(a, Idle)
        BY <1>4 DEF markPaid
    <2>2. payment'.status = "REFUNDED" => payment.status = "REFUNDED"
        BY <1>1, <1>4 DEF markPaid, Payment
    <2>3. order' \in {order, "PAID"}
        BY <1>4 DEF markPaid
    <2>4. reservation' = reservation \/ (reservation' = "COMMITTED" /\ reservation = "ACTIVE")
        BY <1>4 DEF markPaid
    <2>5. order' \in Closed => order \in Closed
        BY <2>3 DEF Closed
    <2> QED BY <1>2, <2>1, <2>2, <2>4, <2>5, Goes, StockKept
<1>5. CASE markTerminal(a)
    <2> DEFINE t == [task[a] EXCEPT !.at = "terminalOrder"]
    <2>1. t \in Task /\ t.at = "terminalOrder" /\ task[a].status \in {"CANCELLED", "FAILED"}
        BY <1>1, <1>5 DEF Task, Grounded, markTerminal
    <2>2. /\ payment'.status = "REFUNDED" => payment.status = "REFUNDED"
          /\ Become(a, t) \/ Become(a, Idle)
          /\ order' = order /\ reservation' = reservation
        BY <1>1, <1>5, <2>1 DEF markTerminal, Payment
    <2> HIDE DEF t
    <2> QED BY <1>2, <2>1, <2>2, Goes, StockKept
<1>6. CASE markStatus(a)
    <2>1. /\ payment' = payment /\ reservation' = reservation /\ order' \notin Closed
          /\ \/ Become(a, Idle)
             \/ \E at \in {"findShipment", "deliver"} : Become(a, At(at, NoID))
        BY <1>6 DEF markStatus, Closed
    <2> QED BY <1>2, <2>1, Goes, StockKept
<1> QED BY <1>3, <1>4, <1>5, <1>6

\* The steps that close the order, and those that let its units go.
LEMMA ClosingKeepsStock ==
    ASSUME IInv, StockInv, NEW a \in Actors,
           \/ TerminalOrder(a) \/ Release(a) \/ ExpireReservations(a) \/ ExpireOrder(a)
           \/ cancel(a) \/ CancelOrder(a) \/ ClaimRefund(a) \/ RestockRefunded(a)
    PROVE  StockInv'
<1>1. payment \in Payment
    BY Known
<1>2. CASE TerminalOrder(a)
    <2>1. /\ task[a].at = "terminalOrder" /\ payment' = payment /\ reservation' = reservation
          /\ Become(a, At("release", NoID))
        BY <1>2 DEF TerminalOrder
    <2> QED BY <2>1, Goes, StockKept
<1>3. CASE Release(a) \/ RestockRefunded(a)
    <2>1. /\ task[a].at \in {"release", "restock"} /\ payment' = payment /\ order' = order
          /\ Become(a, Idle)
          /\ reservation' \in {reservation, "RELEASED"} /\ reservation' # "ACTIVE"
          /\ task[a].at = "restock" => reservation' # "COMMITTED"
        BY <1>3 DEF Release, RestockRefunded
    <2> QED BY <2>1, Goes, StockKept
<1>4. CASE ExpireReservations(a) \/ cancel(a)
    <2>1. /\ task[a].at \notin {"release", "restock"} /\ payment' = payment /\ order' = order
          /\ \E at \in {"expireOrder", "cancelled"} : Become(a, At(at, NoID))
          /\ reservation' \in {reservation, "EXPIRED", "RELEASED"} /\ reservation' # "ACTIVE"
        BY <1>4 DEF ExpireReservations, cancel
    <2> QED BY <2>1, Goes, StockKept
<1>5. CASE ExpireOrder(a) \/ CancelOrder(a)
    <2>1. /\ task[a].at \in {"expireOrder", "cancelled"} /\ payment' = payment
          /\ reservation' = reservation
          /\ Become(a, Idle) \/ Become(a, At("cancelPayment", NoID))
        BY <1>5 DEF ExpireOrder, CancelOrder
    <2>2. reservation' # "ACTIVE"
        BY <2>1 DEF StockInv, Someone
    <2> QED BY <2>1, <2>2, Goes, StockKept
<1>6. CASE ClaimRefund(a)
    <2>1. /\ task[a].at = "claim" /\ reservation' = reservation
          /\ \/ Become(a, At("restock", NoID))
             \/ Become(a, Idle) /\ order' = order /\ payment' = payment
        BY <1>6 DEF ClaimRefund
    <2> QED BY <2>1, Goes, StockKept
<1> QED BY <1>2, <1>3, <1>4, <1>5, <1>6

LEMMA StockStep ==
    ASSUME MayCrash = {}
    PROVE  IInv /\ StockInv /\ [Next]_vars => StockInv'
<1> SUFFICES ASSUME IInv, StockInv, [Next]_vars PROVE StockInv'
    OBVIOUS
<1>1. CASE UNCHANGED <<order, payment, reservation, task>>
    BY <1>1 DEF StockInv, Someone
<1>2. CASE \E p \in PaymentIDs : CustomerActs(p)
    BY <1>1, <1>2 DEF CustomerActs, rows
<1>3. ASSUME NEW a \in Actors, Begin(a) PROVE StockInv'
    BY <1>3, BeginLooks, LooksKeepStock
<1>4. ASSUME NEW a \in Actors, Continue(a) PROVE StockInv'
    <2>1. CASE executePayment(a) \/ queryPayment(a)
               \/ \E answered \in BOOLEAN : ReconcileAnswer(a, answered)
        BY <2>1, AskingLooks, LooksKeepStock
    <2>2. CASE \/ EnqueueConfirmation(a) \/ FindShipment(a) \/ CreateShipment(a)
               \/ refund(a) \/ GatewayRefund(a)
        BY <2>2, RestLooks, LooksKeepStock
    <2> QED BY <1>4, <2>1, <2>2, PaymentKeepsStock, ClosingKeepsStock DEF Continue
<1> QED BY <1>1, <1>2, <1>3, <1>4 DEF Next, vars, rows

LEMMA StockInvariant == MayCrash = {} => (Spec => []StockInv)
<1> SUFFICES ASSUME MayCrash = {} PROVE Spec => []StockInv
    OBVIOUS
<1>1. IInv /\ StockInv /\ [Next]_vars => StockInv'
    BY StockStep
<1> QED BY <1>1, StockInit, Invariance, PTL DEF Spec

\* No units stay reserved for a dead order, and a refund restocks, for any handlers,
\* sessions and clicks, as long as no handler is cut off between two statements.
THEOREM ClosedLetsGo == MayCrash = {} => (Spec => [](NoStockStranded /\ RefundRestocks))
<1> SUFFICES ASSUME MayCrash = {} PROVE Spec => [](NoStockStranded /\ RefundRestocks)
    OBVIOUS
<1>1. StockInv => NoStockStranded /\ RefundRestocks
    BY DEF StockInv, Someone, Closed, NoStockStranded, RefundRestocks
<1>2. Spec => []StockInv
    BY StockInvariant
<1> QED BY <1>1, <1>2, PTL

----------------------------------------------------------------------------
(* A payment that is PAID, whatever sessions are opened *)

\* The ids that the row, the handlers and the refunds go by.
Noted(p) ==
    \/ p \in {payment.bkashPaymentID, payment.bkashTrxID} \cup refunded
    \/ \E a \in Actors : p = task[a].id

\* All were issued by bKash, and those about to be saved are not the row's, nor each
\* other's.
NewSessions ==
    /\ \A p \in PaymentIDs : Noted(p) => gateway[p] # "none"
    /\ \A a, b \in Actors : task[a].at = "save" =>
         /\ task[a].id # payment.bkashPaymentID
         /\ task[b].at = "save" /\ task[b].id = task[a].id => a = b

\* A step that opens no session and saves none.
LEMMA SessionsStay ==
    ASSUME NewSessions, UNCHANGED payment.bkashPaymentID,
           \A p \in PaymentIDs : gateway[p] # "none" => gateway'[p] # "none",
           \A p \in PaymentIDs : Noted(p)' => Noted(p),
           \A a \in Actors : task'[a].at = "save" => task'[a] = task[a]
    PROVE  NewSessions'
<1>1. \A p \in PaymentIDs : Noted(p)' => gateway'[p] # "none"
    BY DEF NewSessions
<1>2. ASSUME NEW a \in Actors, NEW b \in Actors, task'[a].at = "save"
      PROVE  /\ task'[a].id # payment'.bkashPaymentID
             /\ task'[b].at = "save" /\ task'[b].id = task'[a].id => a = b
    BY <1>2 DEF NewSessions
<1> QED BY <1>1, <1>2 DEF NewSessions

\* What a handler under way does to the payment, unless it saves a session.
Settles(a) ==
    /\ payment'.bkashPaymentID = payment.bkashPaymentID
    /\ \A p \in PaymentIDs : gateway[p] # "none" => gateway'[p] # "none"
    /\ provider = "bkash" /\ payment.status = "PAID"
         => payment'.status = "PAID" \/ (task[a].at = "claim" /\ payment'.status = "REFUNDED")
    /\ payment'.bkashTrxID \in {payment.bkashTrxID, task[a].id}
    /\ refunded' \subseteq refunded \cup {task[a].id}
    /\ \E t \in Task : /\ Become(a, t) /\ t.at # "save"
                       /\ t.id \in {NoID, task[a].id, payment.bkashPaymentID}

\* It goes by no id but those that are there.
LEMMA SettlesStay ==
    ASSUME IInv, NewSessions, NEW a \in Actors, Settles(a)
    PROVE  NewSessions'
<1>1. PICK t \in Task : /\ Become(a, t) /\ t.at # "save"
                        /\ t.id \in {NoID, task[a].id, payment.bkashPaymentID}
    BY DEF Settles
<1>2. task'[a] = t /\ \A b \in Actors : b # a => task'[b] = task[b]
    BY <1>1 DEF IInv, TypeOK, Become
<1>3. ASSUME NEW p \in PaymentIDs, Noted(p)' PROVE Noted(p)
    <2>1. \/ p \in {payment.bkashPaymentID, payment.bkashTrxID, task[a].id} \cup refunded
          \/ \E b \in Actors : p = task'[b].id
        BY <1>3 DEF Noted, Settles
    <2>2. p # NoID
        BY Constants
    <2> QED BY <1>1, <1>2, <2>1, <2>2 DEF Noted
<1>4. \A b \in Actors : task'[b].at = "save" => task'[b] = task[b]
    BY <1>1, <1>2
<1> QED BY <1>3, <1>4, SessionsStay DEF Settles

LEMMA AskingSettles ==
    ASSUME IInv, NEW a \in Actors,
           executePayment(a) \/ queryPayment(a) \/ \E answered \in BOOLEAN : ReconcileAnswer(a, answered)
    PROVE  Settles(a)
<1>1. /\ task[a].id \in PaymentIDs
      /\ gateway[task[a].id] \in GatewayState
      /\ Captures \subseteq GatewayState
      /\ UNCHANGED <<payment, refunded>>
    BY Known DEF executePayment, queryPayment, ReconcileAnswer, Grounded, GatewayState,
                 OnlyTask, rows, bkash
<1>2. \/ \E g \in GatewayState : settle(a, task[a].id, g)
      \/ Become(a, At("query", task[a].id))
      \/ Become(a, Terminal("FAILED", NoID))
      \/ Become(a, Idle)
    BY <1>1 DEF executePayment, queryPayment, ReconcileAnswer
<1>3. /\ At("query", task[a].id) \in Task /\ At("query", task[a].id).at = "query"
      /\ At("query", task[a].id).id = task[a].id
      /\ Terminal("FAILED", NoID) \in Task /\ Terminal("FAILED", NoID).at = "terminal"
      /\ Terminal("FAILED", NoID).id = NoID
    BY <1>1, AtType, TerminalType DEF Terminal
<1>4. \E t \in Task : Become(a, t) /\ t.at # "save" /\ t.id \in {NoID, task[a].id}
    BY <1>1, <1>2, <1>3, Goes, SettleGoes
<1>5. \A p \in PaymentIDs : gateway[p] # "none" => gateway'[p] # "none"
    <2>1. CASE executePayment(a)
        BY <2>1, <1>1, Constants DEF executePayment, IInv, TypeOK
    <2>2. CASE queryPayment(a) \/ \E answered \in BOOLEAN : ReconcileAnswer(a, answered)
        BY <2>2 DEF queryPayment, ReconcileAnswer, OnlyTask, bkash
    <2> QED BY <2>1, <2>2
<1> QED BY <1>1, <1>4, <1>5 DEF Settles

LEMMA WritingSettles ==
    ASSUME IInv, NEW a \in Actors,
           \/ markPaid(a) \/ markReview(a) \/ markTerminal(a)
           \/ CollectCash(a) \/ CancelPayment(a) \/ approveReview(a) \/ ClaimRefund(a)
    PROVE  Settles(a)
<1>1. payment \in Payment /\ task[a] \in Task
    BY Known
<1>2. /\ payment'.bkashPaymentID = payment.bkashPaymentID
      /\ payment'.bkashTrxID \in {payment.bkashTrxID, task[a].id}
      /\ provider = "bkash" /\ payment.status = "PAID"
           => payment'.status = "PAID" \/ (task[a].at = "claim" /\ payment'.status = "REFUNDED")
    <2>1. CASE markPaid(a)
        BY <1>1, <2>1 DEF markPaid, Payment
    <2>2. CASE markReview(a)
        BY <1>1, <2>2 DEF markReview, Payment
    <2>3. CASE markTerminal(a)
        BY <1>1, <2>3 DEF markTerminal, Payment
    <2>4. CASE CollectCash(a)
        BY <1>1, <2>4 DEF CollectCash, SetPayment, Payment
    <2>5. CASE CancelPayment(a)
        BY <1>1, <2>5 DEF CancelPayment, Claimable, SetPayment, Payment
    <2>6. CASE approveReview(a)
        BY <1>1, <2>6 DEF approveReview, SetPayment, Payment
    <2>7. CASE ClaimRefund(a)
        BY <1>1, <2>7 DEF ClaimRefund, SetPayment, Payment
    <2> QED BY <2>1, <2>2, <2>3, <2>4, <2>5, <2>6, <2>7
<1>3. UNCHANGED <<gateway, refunded>>
    BY DEF markPaid, markReview, markTerminal, CollectCash, CancelPayment, approveReview,
           ClaimRefund, bkash
<1>4. \/ Become(a, Idle)
      \/ \E at \in {"confirm", "restock"} : Become(a, At(at, NoID))
      \/ Become(a, [task[a] EXCEPT !.at = "terminalOrder"])
    BY DEF markPaid, markReview, markTerminal, CollectCash, CancelPayment, approveReview,
           ClaimRefund
<1>5. [task[a] EXCEPT !.at = "terminalOrder"] \in Task
      /\ [task[a] EXCEPT !.at = "terminalOrder"].at = "terminalOrder"
      /\ [task[a] EXCEPT !.at = "terminalOrder"].id = task[a].id
    BY <1>1 DEF Task
<1> QED BY <1>2, <1>3, <1>4, <1>5, Goes DEF Settles

LEMMA RestSettles ==
    ASSUME IInv, NEW a \in Actors,
           \/ TerminalOrder(a) \/ Release(a) \/ ExpireReservations(a) \/ ExpireOrder(a)
           \/ markStatus(a) \/ FindShipment(a) \/ CreateShipment(a)
           \/ cancel(a) \/ CancelOrder(a) \/ RestockRefunded(a)
           \/ EnqueueConfirmation(a) \/ refund(a) \/ GatewayRefund(a)
    PROVE  Settles(a)
<1>1. UNCHANGED <<payment, gateway>> /\ refunded' \subseteq refunded \cup {task[a].id}
    BY DEF TerminalOrder, Release, ExpireReservations, ExpireOrder, markStatus, FindShipment,
           CreateShipment, cancel, CancelOrder, RestockRefunded, EnqueueConfirmation, refund,
           GatewayRefund, OnlyTask, rows, bkash
<1>2. \/ Become(a, Idle)
      \/ \E at \in {"release", "expireOrder", "findShipment", "deliver", "createShipment",
                    "cancelled", "cancelPayment", "claim"} : Become(a, At(at, NoID))
      \/ payment.bkashPaymentID \in PaymentIDs /\ Become(a, At("refund", payment.bkashPaymentID))
    <2>1. payment.bkashPaymentID \in PaymentIDs \cup {NoID}
        BY Known
    <2> QED BY <2>1 DEF TerminalOrder, Release, ExpireReservations, ExpireOrder, markStatus,
              FindShipment, CreateShipment, cancel, CancelOrder, RestockRefunded,
              EnqueueConfirmation, refund, GatewayRefund
<1>3. \A p \in PaymentIDs : /\ At("refund", p) \in Task
                            /\ At("refund", p).at = "refund" /\ At("refund", p).id = p
    BY AtType
<1>4. \E t \in Task : /\ Become(a, t) /\ t.at # "save"
                      /\ t.id \in {NoID, task[a].id, payment.bkashPaymentID}
    BY <1>2, <1>3, Goes
<1> QED BY <1>1, <1>4 DEF Settles

LEMMA ContinueSettles ==
    ASSUME IInv, NEW a \in Actors, Continue(a), ~ SaveSession(a)
    PROVE  Settles(a)
BY AskingSettles, WritingSettles, RestSettles DEF Continue

\* What begins opens a session or does nothing to any.
LEMMA BeginOpens ==
    ASSUME IInv, NewSessions, NEW a \in Actors, Begin(a)
    PROVE  NewSessions' /\ \A p \in PaymentIDs : gateway[p] # "none" => gateway'[p] # "none"
<1>1. UNCHANGED <<payment, refunded>>
    BY DEF Begin, createPaymentSession, confirmCodOrder, handleCallback, reconcile,
           expireUnpaidOrders, OpenPage, OnlyTask, rows, bkash
<1>2. CASE createPaymentSession(a)
    <2>1. PICK p \in PaymentIDs : /\ gateway[p] = "none"
                                  /\ gateway' = [gateway EXCEPT ![p] = "initiated"]
                                  /\ Become(a, At("save", p)) \/ Become(a, Idle)
        BY <1>2 DEF createPaymentSession
    <2>2. /\ gateway'[p] # "none"
          /\ \A q \in PaymentIDs : gateway[q] # "none" => gateway'[q] # "none"
        BY <2>1 DEF IInv, TypeOK
    <2>3. PICK t : /\ task'[a] = t /\ t \in {At("save", p), Idle}
                   /\ \A b \in Actors : b # a => task'[b] = task[b]
        BY <2>1 DEF IInv, TypeOK, Become
    <2>4. /\ t.at = "save" => t.id = p
          /\ t.id \in {NoID, p}
        BY <2>3, AtType, Goes
    <2>5. \A q \in PaymentIDs : Noted(q)' => q = p \/ Noted(q)
        <3>1. \A q \in PaymentIDs : Noted(q)' =>
                 \/ q \in {payment.bkashPaymentID, payment.bkashTrxID} \cup refunded
                 \/ q = t.id \/ \E b \in Actors \ {a} : q = task[b].id
            BY <1>1, <2>3 DEF Noted
        <3>2. NoID \notin PaymentIDs
            BY Constants
        <3> QED BY <2>4, <3>1, <3>2 DEF Noted
    <2>6. \A q \in PaymentIDs : Noted(q)' => gateway'[q] # "none"
        BY <2>2, <2>5 DEF NewSessions
    <2>7. payment.bkashPaymentID # p /\ \A b \in Actors : task[b].id # p
        BY <2>1 DEF NewSessions, Noted
    <2>8. ASSUME NEW b \in Actors, NEW c \in Actors, task'[b].at = "save"
          PROVE  /\ task'[b].id # payment'.bkashPaymentID
                 /\ task'[c].at = "save" /\ task'[c].id = task'[b].id => b = c
        BY <1>1, <2>3, <2>4, <2>7, <2>8 DEF NewSessions
    <2> QED BY <2>2, <2>6, <2>8 DEF NewSessions
<1>3. CASE ~ createPaymentSession(a)
    <2>1. UNCHANGED gateway
        BY <1>3 DEF Begin, confirmCodOrder, handleCallback, reconcile, expireUnpaidOrders,
                    OpenPage, OnlyTask, bkash
    <2>2. \/ /\ payment.bkashPaymentID \in PaymentIDs
             /\ \E at \in {"execute", "reconcile"} : Become(a, At(at, payment.bkashPaymentID))
          \/ \E at \in {"confirm", "expire"} \cup Buttons : Become(a, At(at, NoID))
          \/ \E status \in {"CANCELLED", "FAILED"} : Become(a, Terminal(status, NoID))
        <3>1. payment.bkashPaymentID # NoID => payment.bkashPaymentID \in PaymentIDs
            BY Known
        <3> QED BY <1>3, <3>1 DEF Begin, confirmCodOrder, handleCallback, reconcile,
                                  expireUnpaidOrders, OpenPage
    <2>3. /\ \A at \in {"execute", "reconcile"}, p \in PaymentIDs :
               At(at, p) \in Task /\ At(at, p).at = at /\ At(at, p).id = p
          /\ \A at \in {"confirm", "expire"} \cup Buttons :
               At(at, NoID) \in Task /\ At(at, NoID).at = at /\ At(at, NoID).id = NoID
          /\ "save" \notin Buttons
        BY AtType, Constants
    <2>4. \A status \in {"CANCELLED", "FAILED"} :
             /\ Terminal(status, NoID) \in Task /\ Terminal(status, NoID).at = "terminal"
             /\ Terminal(status, NoID).id = NoID
        BY TerminalType DEF Terminal
    <2>5. \E t \in Task : /\ Become(a, t) /\ t.at # "save"
                          /\ t.id \in {NoID, task[a].id, payment.bkashPaymentID}
        BY <2>2, <2>3, <2>4
    <2>6. Settles(a)
        BY <1>1, <2>1, <2>5 DEF Settles
    <2> QED BY <2>1, <2>6, SettlesStay
<1> QED BY <1>2, <1>3

\* A saved session is the row's, and the others that are about to be saved are others.
LEMMA SaveIsNew ==
    ASSUME IInv, NewSessions, NEW a \in Actors, SaveSession(a)
    PROVE  /\ NewSessions'
           /\ UNCHANGED gateway
           /\ task[a].at = "save" /\ task[a].id # payment.bkashPaymentID
           /\ payment'.status = "SESSION_CREATED" /\ payment'.bkashPaymentID = task[a].id
<1>1. payment \in Payment
    BY Known
<1>2. /\ task[a].at = "save" /\ UNCHANGED <<gateway, refunded>>
      /\ payment'.status = "SESSION_CREATED" /\ payment'.bkashPaymentID = task[a].id
      /\ payment'.bkashTrxID = payment.bkashTrxID
    BY <1>1 DEF SaveSession, bkash, Payment
<1>3. task'[a] = Idle /\ \A b \in Actors : b # a => task'[b] = task[b]
    BY DEF SaveSession, IInv, TypeOK, Become
<1>4. \A b \in Actors : task'[b].at = "save" => b # a /\ task'[b] = task[b]
    BY <1>3, Goes
<1>5. \A p \in PaymentIDs : Noted(p)' => Noted(p)
    <2>1. NoID \notin PaymentIDs /\ Idle.id = NoID
        BY Constants, Goes
    <2> QED BY <1>2, <1>3, <2>1 DEF Noted
<1>6. \A p \in PaymentIDs : Noted(p)' => gateway'[p] # "none"
    BY <1>2, <1>5 DEF NewSessions
<1>7. ASSUME NEW b \in Actors, NEW c \in Actors, task'[b].at = "save"
      PROVE  /\ task'[b].id # payment'.bkashPaymentID
             /\ task'[c].at = "save" /\ task'[c].id = task'[b].id => b = c
    BY <1>2, <1>4, <1>7 DEF NewSessions
<1>8. NewSessions'
    BY <1>6, <1>7 DEF NewSessions
<1> QED BY <1>2, <1>8 DEF NewSessions

\* A session that was opened stays so.
LEMMA NewSessionsStep ==
    IInv /\ NewSessions /\ [Next]_vars
      => NewSessions' /\ \A p \in PaymentIDs : gateway[p] # "none" => gateway'[p] # "none"
<1> DEFINE Grows == \A p \in PaymentIDs : gateway[p] # "none" => gateway'[p] # "none"
<1> SUFFICES ASSUME IInv, NewSessions, [Next]_vars PROVE NewSessions' /\ Grows
    OBVIOUS
<1>1. CASE UNCHANGED vars
    BY <1>1 DEF vars, rows, bkash, NewSessions, Noted
<1>2. ASSUME NEW p \in PaymentIDs, CustomerActs(p) PROVE NewSessions' /\ Grows
    <2>1. UNCHANGED <<payment, task, refunded>>
        BY <1>2 DEF CustomerActs, rows
    <2>2. Grows
        BY <1>2 DEF CustomerActs, IInv, TypeOK
    <2>3. \A q \in PaymentIDs : Noted(q)' => Noted(q)
        BY <2>1 DEF Noted
    <2> QED BY <2>1, <2>2, <2>3, SessionsStay
<1>3. ASSUME NEW a \in Actors, Continue(a), ~ SaveSession(a) PROVE NewSessions' /\ Grows
    BY <1>3, ContinueSettles, SettlesStay DEF Settles
<1>4. ASSUME NEW a \in MayCrash, Crash(a) PROVE NewSessions' /\ Grows
    <2>1. UNCHANGED <<payment, gateway, refunded>> /\ Become(a, Idle) /\ a \in Actors
        BY <1>4, OrderPaymentsAssumption DEF Crash, OnlyTask, rows, bkash, OrderPaymentsAssumption
    <2>2. Settles(a)
        BY <2>1, Goes DEF Settles
    <2> QED BY <2>1, <2>2, SettlesStay
<1>5. ASSUME NEW a \in Actors, SaveSession(a) PROVE NewSessions' /\ Grows
    BY <1>5, SaveIsNew
<1> QED BY <1>1, <1>2, <1>3, <1>4, <1>5, BeginOpens DEF Next

LEMMA SessionsInvariant == Spec => []NewSessions
<1>1. Init => NewSessions
    <2> SUFFICES ASSUME Init PROVE NewSessions
        OBVIOUS
    <2>1. \A a \in Actors : task[a].at = "idle" /\ task[a].id = NoID
        BY Goes DEF Init
    <2>2. \A p \in PaymentIDs : ~ Noted(p)
        BY <2>1, Constants DEF Init, Noted
    <2> QED BY <2>1, <2>2 DEF NewSessions
<1> QED BY <1>1, NewSessionsStep, Invariance, PTL DEF Spec

\* However many sessions are opened, handlers overlap and are cut off: callbacks, the crons
\* and an admin's cancel leave a payment PAID.  A refund takes it back, and so does a
\* session that is not the row's own.
THEOREM PaymentStaysPaid == Spec => PaidStaysPaid
<1>1. ASSUME IInv, NewSessions, [Next]_vars, provider = "bkash", payment.status = "PAID",
             payment'.status # "PAID"
      PROVE  \E a \in Actors :
                \/ task[a].at = "claim" /\ payment'.status = "REFUNDED"
                \/ /\ task[a].at = "save" /\ payment'.status = "SESSION_CREATED"
                   /\ payment'.bkashPaymentID = task[a].id
                   /\ task[a].id # payment.bkashPaymentID
    <2>1. \E a \in Actors : Continue(a)
        <3>1. ~ UNCHANGED payment
            BY <1>1
        <3>2. \A a \in Actors : Begin(a) => UNCHANGED payment
            BY DEF Begin, createPaymentSession, confirmCodOrder, handleCallback, reconcile,
                   expireUnpaidOrders, OpenPage, OnlyTask, rows
        <3> QED BY <1>1, <3>1, <3>2 DEF Next, vars, rows, CustomerActs, Crash, OnlyTask
    <2>2. PICK a \in Actors : Continue(a)
        BY <2>1
    <2>3. CASE SaveSession(a)
        BY <1>1, <2>3, SaveIsNew
    <2>4. CASE ~ SaveSession(a)
        BY <1>1, <2>2, <2>4, ContinueSettles DEF Settles
    <2> QED BY <2>3, <2>4
<1>2. IInv /\ NewSessions /\ [Next]_vars
        => [provider = "bkash" /\ payment.status = "PAID" /\ payment'.status # "PAID"
              => \E a \in Actors :
                   \/ task[a].at = "claim" /\ payment'.status = "REFUNDED"
                   \/ /\ task[a].at = "save" /\ payment'.status = "SESSION_CREATED"
                      /\ payment'.bkashPaymentID = task[a].id
                      /\ task[a].id # payment.bkashPaymentID]_vars
    BY <1>1
<1> QED BY <1>2, SessionsInvariant, Invariance, PTL DEF Spec, PaidStaysPaid

----------------------------------------------------------------------------
(* As long as the order has one session *)

\* The stages of a handler that goes by a session of the row.
InSession == {"execute", "query", "reconcile", "markPaid", "markReview"}

Kept == {"PAID", "PAYMENT_REVIEW", "REFUNDED"}

\* The session that is about to be saved is the first, and whatever goes by a session
\* comes after it was saved.
SessionInv ==
    /\ \A a \in Actors : task[a].at = "save" =>
         /\ payment.bkashPaymentID = NoID
         /\ gateway[task[a].id] # "none"
         /\ \A b \in Actors : task[b].at = "save" => a = b
    /\ payment.bkashPaymentID # NoID => gateway[payment.bkashPaymentID] # "none"
    /\ Someone(InSession) => payment.bkashPaymentID # NoID
    /\ provider = "bkash" /\ payment.status \in Kept => payment.bkashPaymentID # NoID

\* A transaction is on record before it is refunded, and it stays on record.
RefundInv ==
    /\ Someone({"refund", "claim"}) => payment.bkashTrxID # NoID
    /\ Someone({"claim"}) => refunded # {}
    /\ payment.status = "REFUNDED" => payment.bkashTrxID # NoID /\ refunded # {}

\* The handler whose claim made the payment PAID is the one that confirms the order.
ConfirmInv ==
    provider = "bkash" /\ refunded = {} =>
      /\ confirmations > 0 \/ Someone({"confirm"}) => payment.status = "PAID"
      /\ confirmations > 0 => ~ Someone({"confirm"})
      /\ \A a, b \in Actors : task[a].at = "confirm" /\ task[b].at = "confirm" => a = b
      /\ confirmations <= 1

OnceInv == SessionInv /\ RefundInv /\ ConfirmInv

\* The second session may change all that: SaveSession puts it over a row that is paid.
OnceIfOne == OneSession => OnceInv

\* What most steps do to the payment: they keep its session and its transaction, take
\* no PAID back, refund nothing and confirm nothing.
Plain(a, t) ==
    /\ Become(a, t)
    /\ UNCHANGED <<provider, confirmations, refunded>>
    /\ payment'.bkashPaymentID = payment.bkashPaymentID
    /\ payment.bkashTrxID # NoID => payment'.bkashTrxID # NoID
    /\ payment.status = "PAID" => payment'.status = "PAID"
    /\ payment'.status = "REFUNDED" => payment.status = "REFUNDED"
    /\ provider = "bkash" /\ payment'.status \in Kept
         => payment.status \in Kept \/ payment.bkashPaymentID # NoID
    /\ \A p \in PaymentIDs : gateway[p] # "none" => gateway'[p] # "none"
    /\ t.at \notin {"save", "refund", "claim"}
    /\ t.at \in InSession => payment.bkashPaymentID # NoID
    /\ t.at = "confirm" => provider # "bkash"

LEMMA PlainKeeps ==
    ASSUME IInv, OnceInv, NEW a \in Actors, NEW t \in Task, Plain(a, t)
    PROVE  OnceInv'
<1>1. task'[a] = t /\ \A b \in Actors \ {a} : task'[b] = task[b]
    BY DEF IInv, TypeOK, Plain, Become
<1>2. /\ \A b \in Actors : task[b].at = "save" => task[b].id \in PaymentIDs
      /\ payment.bkashPaymentID \in PaymentIDs \cup {NoID}
    BY Known DEF Grounded
<1>3. \A b \in Actors : task'[b].at \in {"save", "refund", "claim"} => b # a /\ task'[b] = task[b]
    BY <1>1 DEF Plain
<1>4. SessionInv'
    <2>1. \A b \in Actors : task'[b].at = "save" =>
            /\ payment'.bkashPaymentID = NoID
            /\ gateway'[task'[b].id] # "none"
            /\ \A c \in Actors : task'[c].at = "save" => b = c
        BY <1>2, <1>3 DEF OnceInv, SessionInv, Plain
    <2>2. payment'.bkashPaymentID # NoID => gateway'[payment'.bkashPaymentID] # "none"
        BY <1>2 DEF OnceInv, SessionInv, Plain
    <2>3. Someone(InSession)' => payment'.bkashPaymentID # NoID
        BY <1>1 DEF OnceInv, SessionInv, Plain, Someone
    <2>4. provider' = "bkash" /\ payment'.status \in Kept => payment'.bkashPaymentID # NoID
        BY DEF OnceInv, SessionInv, Plain
    <2> QED BY <2>1, <2>2, <2>3, <2>4 DEF SessionInv
<1>5. RefundInv'
    BY <1>3 DEF OnceInv, RefundInv, Plain, Someone
<1>6. ConfirmInv'
    <2> SUFFICES ASSUME provider' = "bkash", refunded' = {}
                 PROVE  /\ confirmations' > 0 \/ Someone({"confirm"})' => payment'.status = "PAID"
                        /\ confirmations' > 0 => ~ Someone({"confirm"})'
                        /\ \A b, c \in Actors :
                             task'[b].at = "confirm" /\ task'[c].at = "confirm" => b = c
                        /\ confirmations' <= 1
        BY DEF ConfirmInv
    <2>1. \A b \in Actors : task'[b].at = "confirm" => b # a /\ task'[b] = task[b]
        BY <1>1 DEF Plain
    <2>2. provider = "bkash" /\ refunded = {} /\ confirmations' = confirmations
        BY DEF Plain
    <2> QED BY <2>1, <2>2 DEF OnceInv, ConfirmInv, Plain, Someone
<1> QED BY <1>4, <1>5, <1>6 DEF OnceInv

\* A step that leaves the rows alone and takes no payment back to "none" is plain, if it
\* does not begin to save, to refund or to confirm.
LEMMA PlainTask ==
    ASSUME NEW a \in Actors, NEW t \in Task, Become(a, t), UNCHANGED <<rows, refunded>>,
           \A p \in PaymentIDs : gateway[p] # "none" => gateway'[p] # "none",
           t.at \notin {"save", "refund", "claim", "confirm"},
           t.at \in InSession => payment.bkashPaymentID # NoID
    PROVE  \E u \in Task : Plain(a, u)
<1>1. Plain(a, t)
    BY DEF Plain, rows
<1> QED BY <1>1

LEMMA AskingIsPlain ==
    ASSUME IInv, OnceInv, NEW a \in Actors,
           executePayment(a) \/ queryPayment(a) \/ \E answered \in BOOLEAN : ReconcileAnswer(a, answered)
    PROVE  \E t \in Task : Plain(a, t)
<1>1. /\ task[a].at \in {"execute", "query", "reconcile"}
      /\ task[a].id \in PaymentIDs
      /\ Captures \subseteq GatewayState
      /\ gateway[task[a].id] \in GatewayState
      /\ UNCHANGED <<rows, refunded>>
    BY Known DEF executePayment, queryPayment, ReconcileAnswer, Grounded, GatewayState,
                 OnlyTask, bkash
<1>2. payment.bkashPaymentID # NoID
    BY <1>1 DEF OnceInv, SessionInv, Someone, InSession
<1>3. \A p \in PaymentIDs : gateway[p] # "none" => gateway'[p] # "none"
    <2>1. CASE executePayment(a)
        BY <2>1, <1>1, Constants DEF executePayment, IInv, TypeOK
    <2>2. CASE queryPayment(a) \/ \E answered \in BOOLEAN : ReconcileAnswer(a, answered)
        BY <2>2 DEF queryPayment, ReconcileAnswer, OnlyTask, bkash
    <2> QED BY <2>1, <2>2
<1>4. \/ \E g \in GatewayState : settle(a, task[a].id, g)
      \/ Become(a, At("query", task[a].id))
      \/ Become(a, Terminal("FAILED", NoID))
      \/ Become(a, Idle)
    BY <1>1 DEF executePayment, queryPayment, ReconcileAnswer
<1>5. /\ At("query", task[a].id) \in Task /\ At("query", task[a].id).at = "query"
      /\ Terminal("FAILED", NoID) \in Task /\ Terminal("FAILED", NoID).at = "terminal"
    BY <1>1, AtType, TerminalType
<1>6. PICK t \in Task : /\ Become(a, t)
                        /\ t.at \in {"markPaid", "markReview", "terminal", "query", "idle"}
    BY <1>1, <1>4, <1>5, Goes, SettleGoes
<1> QED BY <1>1, <1>2, <1>3, <1>6, PlainTask

\* What begins, but for a new session.
LEMMA BeginIsPlain ==
    ASSUME IInv, OnceInv, NEW a \in Actors, Begin(a), ~ createPaymentSession(a)
    PROVE  \E t \in Task : Plain(a, t)
<1>1. task[a].at = "idle" /\ UNCHANGED <<rows, bkash>>
    BY DEF Begin, confirmCodOrder, handleCallback, reconcile, expireUnpaidOrders, OpenPage,
           OnlyTask
<1>2. \A p \in PaymentIDs : gateway[p] # "none" => gateway'[p] # "none"
    BY <1>1 DEF bkash
<1>3. CASE confirmCodOrder(a)
    <2>1. Plain(a, At("confirm", NoID))
        BY <1>1, <1>2, <1>3, Goes DEF confirmCodOrder, Plain, rows, bkash, InSession
    <2> QED BY <2>1, Goes
<1>4. CASE ~ confirmCodOrder(a)
    <2>1. \/ payment.bkashPaymentID \in PaymentIDs
             /\ \E at \in {"execute", "reconcile"} : Become(a, At(at, payment.bkashPaymentID))
          \/ \E at \in {"expire"} \cup Buttons : Become(a, At(at, NoID))
          \/ \E status \in {"CANCELLED", "FAILED"} : Become(a, Terminal(status, NoID))
        <3>1. payment.bkashPaymentID # NoID => payment.bkashPaymentID \in PaymentIDs
            BY Known
        <3> QED BY <1>4, <3>1 DEF Begin, handleCallback, reconcile, expireUnpaidOrders, OpenPage
    <2>2. NoID \notin PaymentIDs
        BY Constants
    <2>3. Buttons \cap (InSession \cup {"save", "refund", "claim", "confirm"}) = {}
        BY OrderPaymentsAssumption DEF OrderPaymentsAssumption, InSession
    <2>4. CASE \/ payment.bkashPaymentID \in PaymentIDs
                  /\ \E at \in {"execute", "reconcile"} : Become(a, At(at, payment.bkashPaymentID))
        <3>1. PICK at \in {"execute", "reconcile"} : Become(a, At(at, payment.bkashPaymentID))
            BY <2>4
        <3>2. At(at, payment.bkashPaymentID) \in Task /\ At(at, payment.bkashPaymentID).at = at
            BY <2>4, AtType
        <3> QED BY <1>1, <1>2, <2>2, <2>4, <3>1, <3>2, PlainTask DEF bkash
    <2>5. CASE \E at \in {"expire"} \cup Buttons : Become(a, At(at, NoID))
        <3>1. PICK at \in {"expire"} \cup Buttons : Become(a, At(at, NoID))
            BY <2>5
        <3>2. At(at, NoID) \in Task /\ At(at, NoID).at = at
            BY AtType
        <3> QED BY <1>1, <1>2, <2>3, <3>1, <3>2, PlainTask DEF bkash, InSession
    <2>6. CASE \E status \in {"CANCELLED", "FAILED"} : Become(a, Terminal(status, NoID))
        BY <1>1, <1>2, <2>6, TerminalType, PlainTask DEF bkash, InSession
    <2> QED BY <2>1, <2>4, <2>5, <2>6
<1> QED BY <1>3, <1>4

\* The updates of the payment that neither claim it nor take it back.
LEMMA UpdatesArePlain ==
    ASSUME IInv, OnceInv, NEW a \in Actors,
           markReview(a) \/ markTerminal(a) \/ CollectCash(a) \/ CancelPayment(a) \/ approveReview(a)
    PROVE  \E t \in Task : Plain(a, t)
<1>1. payment \in Payment /\ task[a] \in Task /\ Grounded(task[a]) /\ NoID \notin PaymentIDs
    BY Known, Constants
<1>2. /\ UNCHANGED <<provider, confirmations, refunded, gateway>>
      /\ payment'.bkashPaymentID = payment.bkashPaymentID
      /\ payment.bkashTrxID # NoID => payment'.bkashTrxID # NoID
      /\ payment.status = "PAID" => payment'.status = "PAID"
      /\ payment'.status = "REFUNDED" => payment.status = "REFUNDED"
      /\ provider = "bkash" /\ payment'.status \in Kept
           => payment.status \in Kept \/ payment.bkashPaymentID # NoID
    <2>1. CASE markReview(a)
        <3>1. payment.bkashPaymentID # NoID
            BY <2>1 DEF markReview, OnceInv, SessionInv, Someone, InSession
        <3> QED BY <1>1, <2>1, <3>1 DEF markReview, Payment, Grounded, bkash
    <2>2. CASE markTerminal(a)
        BY <1>1, <2>2 DEF markTerminal, Payment, Grounded, bkash, Kept
    <2>3. CASE CollectCash(a)
        BY <1>1, <2>3 DEF CollectCash, SetPayment, Payment, bkash
    <2>4. CASE CancelPayment(a)
        BY <1>1, <2>4 DEF CancelPayment, Claimable, SetPayment, Payment, bkash, Kept
    <2>5. CASE approveReview(a)
        BY <1>1, <2>5 DEF approveReview, SetPayment, Payment, bkash, Kept
    <2> QED BY <2>1, <2>2, <2>3, <2>4, <2>5
<1>3. \E t \in Task : Become(a, t) /\ t.at \in {"idle", "terminalOrder"}
    <2>1. [task[a] EXCEPT !.at = "terminalOrder"] \in Task
          /\ [task[a] EXCEPT !.at = "terminalOrder"].at = "terminalOrder"
        BY <1>1 DEF Task
    <2>2. \/ Become(a, Idle)
          \/ Become(a, [task[a] EXCEPT !.at = "terminalOrder"])
        BY DEF markReview, markTerminal, CollectCash, CancelPayment, approveReview
    <2> QED BY <2>1, <2>2, Goes
<1> QED BY <1>2, <1>3 DEF Plain, InSession

\* The steps that leave the payment alone.
LEMMA OthersArePlain ==
    ASSUME IInv, OnceInv, NEW a \in Actors,
           \/ TerminalOrder(a) \/ Release(a) \/ ExpireReservations(a) \/ ExpireOrder(a)
           \/ markStatus(a) \/ FindShipment(a) \/ CreateShipment(a)
           \/ cancel(a) \/ CancelOrder(a) \/ RestockRefunded(a)
    PROVE  \E t \in Task : Plain(a, t)
<1>1. UNCHANGED <<provider, payment, confirmations, bkash>>
    BY DEF TerminalOrder, Release, ExpireReservations, ExpireOrder, markStatus, FindShipment,
           CreateShipment, cancel, CancelOrder, RestockRefunded, OnlyTask, rows
<1>2. \/ Become(a, Idle)
      \/ \E at \in {"release", "expireOrder", "findShipment", "deliver", "createShipment",
                    "cancelled", "cancelPayment"} : Become(a, At(at, NoID))
    BY DEF TerminalOrder, Release, ExpireReservations, ExpireOrder, markStatus, FindShipment,
           CreateShipment, cancel, CancelOrder, RestockRefunded
<1>3. PICK t \in Task : /\ Become(a, t)
                        /\ t.at \in {"idle", "release", "expireOrder", "findShipment", "deliver",
                                     "createShipment", "cancelled", "cancelPayment"}
    BY <1>2, Goes
<1>4. Plain(a, t)
    BY <1>1, <1>3 DEF Plain, InSession, bkash
<1> QED BY <1>4

\* A new session is the first one: no payment is on record, and none is about to be.
LEMMA FirstSession ==
    ASSUME OneSession', IInv, OnceInv, NEW a \in Actors, createPaymentSession(a)
    PROVE  OnceInv'
<1>1. PICK p \in PaymentIDs : /\ gateway[p] = "none"
                              /\ gateway' = [gateway EXCEPT ![p] = "initiated"]
                              /\ Become(a, At("save", p)) \/ Become(a, Idle)
    BY DEF createPaymentSession
<1>2. UNCHANGED <<provider, payment, confirmations, refunded>> /\ NoID \notin PaymentIDs
    BY Constants DEF createPaymentSession, rows
<1>3. /\ gateway'[p] # "none"
      /\ \A q \in PaymentIDs : gateway[q] = "none"
    <2>1. gateway'[p] # "none" /\ \A q \in PaymentIDs \ {p} : gateway'[q] = gateway[q]
        BY <1>1 DEF IInv, TypeOK
    <2> QED BY <1>1, <2>1 DEF OneSession
<1>4. CASE Become(a, Idle)
    <2>1. Plain(a, Idle)
        BY <1>2, <1>3, <1>4, Goes DEF Plain, InSession
    <2> QED BY <2>1, Goes, PlainKeeps
<1>5. CASE Become(a, At("save", p))
    <2>1. At("save", p) \in Task /\ At("save", p).at = "save" /\ At("save", p).id = p
        BY AtType
    <2>2. /\ task'[a].at = "save" /\ task'[a].id = p
          /\ \A b \in Actors \ {a} : task'[b] = task[b]
        BY <1>5, <2>1 DEF IInv, TypeOK, Become
    <2>3. payment.bkashPaymentID = NoID /\ \A b \in Actors : task[b].at # "save"
        <3>1. /\ payment.bkashPaymentID \in PaymentIDs \cup {NoID}
              /\ \A b \in Actors : task[b].at = "save" => task[b].id \in PaymentIDs
            BY Known DEF Grounded
        <3> QED BY <1>1, <1>3, <3>1 DEF OnceInv, SessionInv
    <2>4. SessionInv'
        <3>1. \A b \in Actors : task'[b].at \in InSession => task[b].at \in InSession
            BY <2>2 DEF InSession
        <3>2. \A b \in Actors : task'[b].at = "save" => b = a
            BY <2>2, <2>3
        <3> QED BY <1>2, <1>3, <2>2, <2>3, <3>1, <3>2 DEF OnceInv, SessionInv, Someone
    <2>5. \A b \in Actors : task'[b].at \in {"refund", "claim", "confirm"}
                              => b # a /\ task'[b] = task[b]
        BY <2>2
    <2>6. RefundInv'
        BY <1>2, <2>5 DEF OnceInv, RefundInv, Someone
    <2>7. ConfirmInv'
        BY <1>2, <2>5 DEF OnceInv, ConfirmInv, Someone
    <2> QED BY <2>4, <2>6, <2>7 DEF OnceInv
<1> QED BY <1>1, <1>4, <1>5

\* Saving it finds the payment as the order placed it.
LEMMA SaveKeeps ==
    ASSUME IInv, OnceInv, NEW a \in Actors, SaveSession(a)
    PROVE  OnceInv'
<1>1. payment \in Payment /\ task[a].id \in PaymentIDs /\ NoID \notin PaymentIDs
    BY Known, Constants DEF SaveSession, Grounded
<1>2. /\ UNCHANGED <<provider, confirmations, gateway, refunded>>
      /\ payment'.status = "SESSION_CREATED"
      /\ payment'.bkashPaymentID = task[a].id
      /\ payment'.bkashTrxID = payment.bkashTrxID
    BY <1>1 DEF SaveSession, bkash, Payment
<1>3. task'[a] = Idle /\ \A b \in Actors \ {a} : task'[b] = task[b]
    BY DEF SaveSession, IInv, TypeOK, Become
<1>4. /\ payment.bkashPaymentID = NoID /\ gateway[task[a].id] # "none"
      /\ \A b \in Actors \ {a} : task[b].at # "save"
    BY DEF SaveSession, OnceInv, SessionInv
<1>5. \A b \in Actors : task'[b].at # "idle" => b # a /\ task'[b] = task[b]
    BY <1>3, Goes
<1>6. SessionInv'
    BY <1>1, <1>2, <1>4, <1>5 DEF OnceInv, SessionInv, Someone, InSession, Kept
<1>7. RefundInv'
    BY <1>2, <1>5 DEF OnceInv, RefundInv, Someone
<1>8. ConfirmInv'
    <2>1. provider = "bkash" => payment.status \notin Kept
        BY <1>4 DEF OnceInv, SessionInv
    <2>2. provider = "bkash" /\ refunded = {}
            => ~ (confirmations > 0) /\ \A b \in Actors : task[b].at # "confirm"
        BY <2>1 DEF OnceInv, ConfirmInv, Someone, Kept
    <2> QED BY <1>2, <1>5, <2>2 DEF OnceInv, ConfirmInv, Someone
<1> QED BY <1>6, <1>7, <1>8 DEF OnceInv

\* The claim that makes the payment PAID finds it neither confirmed nor refunded.
LEMMA ClaimKeeps ==
    ASSUME IInv, OnceInv, NEW a \in Actors, markPaid(a)
    PROVE  OnceInv'
<1>1. /\ payment \in Payment /\ task[a].id \in PaymentIDs /\ NoID \notin PaymentIDs
      /\ confirmations \in Nat
    BY Known, Constants DEF markPaid, Grounded
<1>2. payment.bkashPaymentID # NoID
    BY DEF markPaid, OnceInv, SessionInv, Someone, InSession
<1>3. CASE ~ Claimable
    <2>1. Plain(a, Idle)
        BY <1>3, Goes DEF markPaid, Plain, InSession, bkash
    <2> QED BY <2>1, Goes, PlainKeeps
<1>4. CASE Claimable
    <2>1. /\ UNCHANGED <<provider, confirmations, gateway, refunded>>
          /\ payment.status \notin {"PAID", "REFUNDED"} /\ payment'.status = "PAID"
          /\ payment'.bkashPaymentID = payment.bkashPaymentID
          /\ payment'.bkashTrxID # NoID
        BY <1>1, <1>4 DEF markPaid, Claimable, bkash, Payment
    <2>2. /\ task'[a].at = "confirm"
          /\ \A b \in Actors \ {a} : task'[b] = task[b]
        BY <1>4, Goes DEF markPaid, IInv, TypeOK, Become
    <2>3. \A b \in Actors : task'[b].at # "confirm" => b # a /\ task'[b] = task[b]
        BY <2>2
    <2>4. SessionInv'
        BY <1>2, <2>1, <2>2, <2>3 DEF OnceInv, SessionInv, Someone, InSession
    <2>5. RefundInv'
        BY <2>1, <2>2, <2>3 DEF OnceInv, RefundInv, Someone
    <2>6. ConfirmInv'
        <3>1. provider = "bkash" /\ refunded = {}
                => ~ (confirmations > 0) /\ \A b \in Actors : task[b].at # "confirm"
            BY <2>1 DEF OnceInv, ConfirmInv, Someone
        <3> QED BY <2>1, <2>2, <3>1, <1>1 DEF OnceInv, ConfirmInv, Someone
    <2> QED BY <2>4, <2>5, <2>6 DEF OnceInv
<1> QED BY <1>3, <1>4

LEMMA ConfirmKeeps ==
    ASSUME IInv, OnceInv, NEW a \in Actors, EnqueueConfirmation(a)
    PROVE  OnceInv'
<1>1. confirmations \in Nat
    BY Known
<1>2. /\ UNCHANGED <<provider, payment, gateway, refunded>>
      /\ confirmations' = confirmations + 1
    BY DEF EnqueueConfirmation, bkash
<1>3. task'[a] = Idle /\ \A b \in Actors \ {a} : task'[b] = task[b]
    BY DEF EnqueueConfirmation, IInv, TypeOK, Become
<1>4. \A b \in Actors : task'[b].at # "idle" => b # a /\ task'[b] = task[b]
    BY <1>3, Goes
<1>5. SessionInv'
    BY <1>2, <1>4 DEF OnceInv, SessionInv, Someone, InSession
<1>6. RefundInv'
    BY <1>2, <1>4 DEF OnceInv, RefundInv, Someone
<1>7. ConfirmInv'
    <2>1. provider = "bkash" /\ refunded = {} => /\ payment.status = "PAID"
                                                 /\ confirmations = 0
                                                 /\ \A b \in Actors \ {a} : task[b].at # "confirm"
        BY <1>1 DEF EnqueueConfirmation, OnceInv, ConfirmInv, Someone
    <2>2. provider = "bkash" /\ refunded = {} => \A b \in Actors : task'[b].at # "confirm"
        BY <1>4, <2>1
    <2> QED BY <1>2, <2>1, <2>2 DEF ConfirmInv, Someone
<1> QED BY <1>5, <1>6, <1>7 DEF OnceInv

\* Refunding: the call, bKash's answer and the claim.
LEMMA RefundKeeps ==
    ASSUME IInv, OnceInv, NEW a \in Actors, refund(a) \/ GatewayRefund(a) \/ ClaimRefund(a)
    PROVE  OnceInv'
<1>1. /\ payment \in Payment /\ NoID \notin PaymentIDs
      /\ payment.bkashPaymentID \in PaymentIDs \cup {NoID}
    BY Known, Constants
<1>2. /\ UNCHANGED <<provider, confirmations, gateway>>
      /\ payment'.bkashPaymentID = payment.bkashPaymentID
      /\ payment'.bkashTrxID = payment.bkashTrxID
      /\ refunded \subseteq refunded'
      /\ payment'.status = payment.status
         \/ /\ payment.status = "PAID" /\ payment'.status = "REFUNDED"
            /\ task[a].at = "claim"
    BY <1>1 DEF refund, GatewayRefund, ClaimRefund, SetPayment, OnlyTask, rows, bkash, Payment
<1>3. PICK t \in Task :
        /\ Become(a, t)
        /\ t.at \in {"idle", "refund", "claim", "restock"}
        /\ t.at \in {"refund", "claim"} => payment.bkashTrxID # NoID
        /\ t.at = "claim" => refunded' # {}
    <2>1. CASE refund(a)
        <3>1. \/ Become(a, Idle)
              \/ /\ payment.bkashTrxID # NoID /\ payment.bkashPaymentID \in PaymentIDs
                 /\ Become(a, At("refund", payment.bkashPaymentID))
            BY <1>1, <2>1 DEF refund
        <3>2. payment.bkashPaymentID \in PaymentIDs
                => /\ At("refund", payment.bkashPaymentID) \in Task
                   /\ At("refund", payment.bkashPaymentID).at = "refund"
            BY AtType
        <3> QED BY <3>1, <3>2, Goes
    <2>2. CASE GatewayRefund(a)
        <3>1. payment.bkashTrxID # NoID
            BY <2>2 DEF GatewayRefund, OnceInv, RefundInv, Someone
        <3>2. Become(a, Idle) \/ (Become(a, At("claim", NoID)) /\ task[a].id \in refunded')
            BY <2>2 DEF GatewayRefund
        <3>3. task[a].id \in refunded' => refunded' # {}
            OBVIOUS
        <3> QED BY <3>1, <3>2, <3>3, Goes
    <2>3. CASE ClaimRefund(a)
        <3>1. Become(a, Idle) \/ Become(a, At("restock", NoID))
            BY <2>3 DEF ClaimRefund
        <3> QED BY <3>1, Goes
    <2> QED BY <2>1, <2>2, <2>3
<1>4. task'[a] = t /\ \A b \in Actors \ {a} : task'[b] = task[b]
    BY <1>3 DEF IInv, TypeOK, Become
<1>5. SessionInv'
    <2>1. \A b \in Actors : task'[b].at \in InSession \cup {"save"} => b # a /\ task'[b] = task[b]
        BY <1>3, <1>4 DEF InSession
    <2>2. payment'.status \in Kept => payment.status \in Kept
        BY <1>2 DEF Kept
    <2> QED BY <1>2, <2>1, <2>2 DEF OnceInv, SessionInv, Someone
<1>6. RefundInv'
    <2>1. task[a].at = "claim" => payment.bkashTrxID # NoID /\ refunded # {}
        BY DEF OnceInv, RefundInv, Someone
    <2>2. refunded # {} => refunded' # {}
        BY <1>2
    <2> QED BY <1>2, <1>3, <1>4, <2>1, <2>2 DEF OnceInv, RefundInv, Someone
<1>7. ConfirmInv'
    <2>1. \A b \in Actors : task'[b].at = "confirm" => b # a /\ task'[b] = task[b]
        BY <1>3, <1>4
    <2>2. refunded' = {} => refunded = {} /\ payment'.status = payment.status
        BY <1>2 DEF OnceInv, RefundInv, Someone
    <2> QED BY <1>2, <2>1, <2>2 DEF OnceInv, ConfirmInv, Someone
<1> QED BY <1>5, <1>6, <1>7 DEF OnceInv

LEMMA OnceInit == Init => OnceInv
<1> SUFFICES ASSUME Init PROVE OnceInv
    OBVIOUS
<1>1. \A a \in Actors : task[a].at = "idle"
    BY IdleType DEF Init
<1> QED BY <1>1 DEF Init, OnceInv, SessionInv, RefundInv, ConfirmInv, Someone, InSession, Kept

\* A step of a handler is one of those above.
LEMMA ContinueIsPlain ==
    ASSUME IInv, OnceInv, NEW a \in Actors, Continue(a)
    PROVE  \/ \E t \in Task : Plain(a, t)
           \/ SaveSession(a) \/ markPaid(a) \/ EnqueueConfirmation(a)
           \/ refund(a) \/ GatewayRefund(a) \/ ClaimRefund(a)
BY AskingIsPlain, UpdatesArePlain, OthersArePlain DEF Continue

LEMMA CrashIsPlain ==
    ASSUME IInv, OnceInv, NEW a \in Actors, Crash(a)
    PROVE  \E t \in Task : Plain(a, t)
BY Goes, PlainTask DEF Crash, OnlyTask, bkash, InSession

LEMMA CustomerKeeps ==
    ASSUME IInv, OnceInv, NEW p \in PaymentIDs, CustomerActs(p)
    PROVE  OnceInv'
<1>1. UNCHANGED <<provider, payment, confirmations, refunded, task>>
    BY DEF CustomerActs, rows
<1>2. \A q \in PaymentIDs : gateway[q] # "none" => gateway'[q] # "none"
    BY DEF CustomerActs, IInv, TypeOK
<1>3. /\ \A b \in Actors : task[b].at = "save" => task[b].id \in PaymentIDs
      /\ payment.bkashPaymentID # NoID => payment.bkashPaymentID \in PaymentIDs
    BY DEF IInv, TypeOK, TaskOK, Grounded, Payment
<1>4. SessionInv'
    BY <1>1, <1>2, <1>3 DEF OnceInv, SessionInv, Someone
<1>5. RefundInv' /\ ConfirmInv'
    BY <1>1 DEF OnceInv, RefundInv, ConfirmInv, Someone
<1> QED BY <1>4, <1>5 DEF OnceInv

LEMMA OnceStep == IInv /\ NewSessions /\ OnceIfOne /\ [Next]_vars => OnceIfOne'
<1> SUFFICES ASSUME IInv, NewSessions, OnceIfOne, [Next]_vars, OneSession' PROVE OnceInv'
    BY DEF OnceIfOne
<1>0. OnceInv
    BY NewSessionsStep DEF OnceIfOne, OneSession
<1>1. CASE UNCHANGED vars
    BY <1>0, <1>1 DEF vars, rows, bkash, OnceInv, SessionInv, RefundInv, ConfirmInv, Someone
<1>2. CASE \E p \in PaymentIDs : CustomerActs(p)
    BY <1>0, <1>2, CustomerKeeps
<1>3. ASSUME NEW a \in Actors, Begin(a) PROVE OnceInv'
    BY <1>0, <1>3, BeginIsPlain, PlainKeeps, FirstSession
<1>4. ASSUME NEW a \in Actors, Continue(a) PROVE OnceInv'
    BY <1>0, <1>4, ContinueIsPlain, PlainKeeps, SaveKeeps, ClaimKeeps, ConfirmKeeps, RefundKeeps
<1>5. ASSUME NEW a \in MayCrash, Crash(a) PROVE OnceInv'
    <2>1. a \in Actors
        BY OrderPaymentsAssumption DEF OrderPaymentsAssumption
    <2> QED BY <1>0, <2>1, <1>5, CrashIsPlain, PlainKeeps
<1> QED BY <1>1, <1>2, <1>3, <1>4, <1>5 DEF Next

LEMMA OnceInvariant == Spec => []OnceIfOne
<1>1. Init => OnceIfOne
    BY OnceInit DEF OnceIfOne
<1> QED BY <1>1, OnceStep, SessionsInvariant, Invariance, PTL DEF Spec

\* The books and bKash agree on what was refunded: a payment is REFUNDED here only if
\* the transaction it records was refunded there, whatever overlaps the refund and
\* wherever a handler is cut off.
THEOREM RefundedAgrees == Spec => []RefundedAtBkash
<1>1. IInv /\ NewSessions /\ OnceIfOne => RefundedAtBkash
    <2> SUFFICES ASSUME IInv, NewSessions, OnceIfOne, OneSession, payment.status = "REFUNDED"
                 PROVE  payment.bkashTrxID \in refunded
        BY DEF RefundedAtBkash
    <2>1. payment.bkashTrxID \in PaymentIDs /\ refunded \subseteq PaymentIDs
        BY DEF IInv, TypeOK, OnceIfOne, OnceInv, RefundInv, Payment
    <2>2. PICK p \in PaymentIDs : p \in refunded
        BY <2>1 DEF OnceIfOne, OnceInv, RefundInv
    <2>3. gateway[p] # "none" /\ gateway[payment.bkashTrxID] # "none"
        BY <2>1, <2>2 DEF NewSessions, Noted
    <2> QED BY <2>1, <2>2, <2>3 DEF OneSession
<1> QED BY <1>1, Invariance, SessionsInvariant, OnceInvariant, PTL

\* A closed order is settled on every side, for every set of handlers, sessions,
\* redirects, crons and clicks: its units are let go and its refund is at bKash, as long
\* as no handler is cut off between two of its statements.
THEOREM ClosedSettled == MayCrash = {} => (Spec => []ClosedIsSettled)
<1> SUFFICES ASSUME MayCrash = {} PROVE Spec => []ClosedIsSettled
    OBVIOUS
<1>1. Spec => [](NoStockStranded /\ RefundRestocks)
    BY ClosedLetsGo
<1>2. Spec => []RefundedAtBkash
    BY RefundedAgrees
<1>3. (NoStockStranded /\ RefundRestocks) /\ RefundedAtBkash => ClosedIsSettled
    BY DEF ClosedIsSettled
<1> QED BY <1>1, <1>2, <1>3, PTL

\* The handlers that race to settle a payment confirm the order once between them, and
\* those that are cut off not at all.
THEOREM OrderConfirmedOnce == Spec => []ConfirmedOnce
<1>1. OnceIfOne => ConfirmedOnce
    BY DEF OnceIfOne, OnceInv, ConfirmInv, ConfirmedOnce
<1> QED BY <1>1, OnceInvariant, PTL
=============================================================================
