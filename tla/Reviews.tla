------------------------------ MODULE Reviews ------------------------------
(***************************************************************************)
(* The reviews of one product: the product's page, which offers the form   *)
(* to who may write one (CatalogController), the submit (ReviewsController,*)
(* ReviewsService), the list's removals (AdminReviewsController), while    *)
(* orders are placed, paid, refunded, and their variants removed.          *)
(***************************************************************************)
CONSTANTS Customers, Tabs,
          Owner  \* the customer a tab is signed in as

ReviewsAssumption == Owner \in [Tabs -> Customers]

VARIABLES
    isActive,  \* the product is shown
    order,     \* each customer's order: its status, and whether its item still has its variant
    review,    \* the rows, by author
    tab,       \* where each request stands, and what its page offers
    paid,      \* history: customers an order of whom was once paid
    late       \* history: tabs whose customer lost the right since their page was read

vars == <<isActive, order, review, tab, paid, late>>

Idle == [op |-> "idle"]
Goes(t, state) == tab' = [tab EXCEPT ![t] = state]

\* These customers may no longer write one; their pages and submits may not know.
Lost(C) == late' = late \cup {t \in Tabs : Owner[t] \in C}

----------------------------------------------------------------------------
(* Orders, products and the admin *)

\* AWAITING_PAYMENT and PAYMENT_REVIEW are open, PAID to DELIVERED bought; the rest,
\* PARTIALLY_REFUNDED too, is over, and a further order may come.  With bKash an order is
\* open until it is paid; cash on delivery is bought as it is placed.
OrderMoves(c) ==
    /\ \E s \in {"open", "bought", "over"} :
         /\ <<order[c].status, s>> \in
              {<<"none", "open">>, <<"none", "bought">>, <<"open", "bought">>, <<"open", "over">>,
               <<"bought", "over">>, <<"over", "open">>, <<"over", "bought">>}
         /\ order' = [order EXCEPT ![c] =
              [status |-> s, variant |-> @.variant \/ @.status \in {"none", "over"}]]
         /\ paid' = IF order[c].status = "open" /\ s = "bought" THEN paid \cup {c} ELSE paid
    /\ IF order'[c].status = "over" THEN Lost({c}) ELSE UNCHANGED late
    /\ UNCHANGED <<isActive, review, tab>>

\* markStatus: the cash of an order is collected when it is delivered.
CashCollected(c) ==
    /\ order[c].status = "bought"
    /\ paid' = paid \cup {c}
    /\ UNCHANGED <<isActive, order, review, tab, late>>

\* removeVariant: the items of orders lose it (SetNull).
RemoveVariant ==
    /\ order' = [c \in Customers |-> [order[c] EXCEPT !.variant = FALSE]]
    /\ Lost(Customers)
    /\ UNCHANGED <<isActive, review, tab, paid>>

Toggle ==
    /\ isActive' = ~isActive
    /\ Lost(IF isActive THEN Customers ELSE {})
    /\ UNCHANGED <<order, review, tab, paid>>

remove ==
    /\ \E c \in review : review' = review \ {c}
    /\ UNCHANGED <<isActive, order, tab, paid, late>>

----------------------------------------------------------------------------
(* The page *)

PURCHASED_STATUSES == {"bought"}

canReview(c) == order[c].status \in PURCHASED_STATUSES /\ order[c].variant

\* Mutant: whoever has bought is offered the form again.
NeverReviewed(c) == FALSE

hasReviewed(c) == c \in review

product(t) ==
    /\ tab[t].op \in {"idle", "page"} /\ isActive
    /\ Goes(t, [op |-> "reading", answers |-> <<>>])
    /\ late' = late \ {t}
    /\ UNCHANGED <<isActive, order, review, paid>>

Answer(t, question, yes) ==
    /\ tab[t].op = "reading" /\ question \notin DOMAIN tab[t].answers
    /\ Goes(t, [op |-> "reading",
                answers |-> [q \in DOMAIN tab[t].answers \cup {question} |->
                               IF q = question THEN yes ELSE tab[t].answers[q]]])
    /\ UNCHANGED <<isActive, order, review, paid, late>>

\* The two questions are asked at the same time and answered in any order.
Eligible(t) ==
    \/ Answer(t, "can", canReview(Owner[t]))
    \/ Answer(t, "has", hasReviewed(Owner[t]))

\* "canReview and not hasReviewed": the page has the form.
Render(t) ==
    /\ tab[t].op = "reading" /\ DOMAIN tab[t].answers = {"can", "has"}
    /\ Goes(t, [op |-> "page", offers |-> tab[t].answers["can"] /\ ~tab[t].answers["has"]])
    /\ UNCHANGED <<isActive, order, review, paid, late>>

----------------------------------------------------------------------------
(* The submit *)

Refuse(t) ==
    /\ Goes(t, [op |-> "refused"])
    /\ UNCHANGED <<review, late>>

\* The controller's findFirst; a hidden product is not found.
Submit(t) ==
    /\ tab[t].op = "page" /\ tab[t].offers
    /\ IF isActive THEN Goes(t, [op |-> "check"]) /\ UNCHANGED <<review, late>>
                   ELSE Refuse(t)
    /\ UNCHANGED <<isActive, order, paid>>

Check(t) ==
    /\ tab[t].op = "check"
    /\ IF canReview(Owner[t]) THEN Goes(t, [op |-> "create"]) /\ UNCHANGED <<review, late>>
                              ELSE Refuse(t)
    /\ UNCHANGED <<isActive, order, paid>>

\* A second review meets the unique index.
create(t) ==
    /\ tab[t].op = "create"
    /\ IF Owner[t] \in review
       THEN Refuse(t)
       ELSE /\ review' = review \cup {Owner[t]}
            /\ Lost({Owner[t]})
            /\ Goes(t, Idle)
    /\ UNCHANGED <<isActive, order, paid>>

\* The message is read, and the page is there again.
Acknowledge(t) ==
    /\ tab[t].op = "refused"
    /\ Goes(t, Idle)
    /\ UNCHANGED <<isActive, order, review, paid, late>>

----------------------------------------------------------------------------

Init ==
    /\ isActive = TRUE
    /\ order = [c \in Customers |-> [status |-> "none", variant |-> FALSE]]
    /\ review = {}
    /\ tab = [t \in Tabs |-> Idle]
    /\ paid = {} /\ late = {}

Next ==
    \/ \E c \in Customers : OrderMoves(c) \/ CashCollected(c)
    \/ RemoveVariant \/ Toggle \/ remove
    \/ \E t \in Tabs :
         \/ product(t) \/ Eligible(t) \/ Render(t)
         \/ Submit(t) \/ Check(t) \/ create(t) \/ Acknowledge(t)

Spec == Init /\ [][Next]_vars

----------------------------------------------------------------------------
(* Properties *)

TypeOK ==
    /\ isActive \in BOOLEAN
    /\ order \in [Customers -> [status : {"none", "open", "bought", "over"}, variant : BOOLEAN]]
    /\ review \subseteq Customers
    /\ \A t \in Tabs : tab[t].op \in {"idle", "reading", "page", "check", "create", "refused"}
    /\ paid \subseteq Customers /\ late \subseteq Tabs

\* Whoever is offered the form gets the review in, unless the order, the variant or the
\* product went, or the customer's other tab was first, after the page was asked for.
OfferIsHonoured == \A t \in Tabs : tab[t].op = "refused" => t \in late

\* canReview: "True if the customer has a paid+ order containing a variant of this product".
ReviewsArePaidFor == review \subseteq paid
=============================================================================
