---------------------------- MODULE ProductForm ----------------------------
(***************************************************************************)
(* The product form of the back office, from the page to the row: the tabs *)
(* it is open in, the validation that may refuse it, the two ways it comes *)
(* back with an error, and the transaction that replaces the categories of *)
(* a product, with the locks it takes and the deadlocks that are retried.  *)
(***************************************************************************)
EXTENDS Naturals, FiniteSets

CONSTANTS Tabs,
          Products,
          Boxes,       \* the checkboxes of a product
          Categories,
          MaxAttempts, \* retries of a write
          NULL, GONE

\* NULL and GONE are no product, and no row of one.
ProductFormAssumption ==
    /\ MaxAttempts \in Nat /\ NULL # GONE /\ {NULL, GONE} \cap Products = {}
    /\ {NULL, GONE} \cap [boxes : SUBSET Boxes, form : SUBSET Categories] = {}

VARIABLES
    row,    \* the products: boxes, and (history) the categories of the form saved last
    links,  \* CategoryProduct: the categories of each product
    tab     \* the form in each tab: its product, boxes and categories, and its save

vars == <<row, links, tab>>

Closed == [op |-> "closed"]
Goes(t, state) == tab' = [tab EXCEPT ![t] = state]
Step(t, op) == Goes(t, [tab[t] EXCEPT !.op = op])
Exists(p) == row[p] \notin {NULL, GONE}
Rows == {p \in Products : Exists(p)}

\* A page; `sent` is the form it answers, if any.
Page(id, boxes, categories, sent) ==
    [op |-> "page", id |-> id, boxes |-> boxes, categories |-> categories, sent |-> sent]

----------------------------------------------------------------------------
(* The pages *)

newForm(t) ==
    /\ tab[t].op \in {"closed", "page"}
    /\ Goes(t, Page(NULL, {}, {}, NULL))
    /\ UNCHANGED <<row, links>>

editForm(t, p) ==
    /\ tab[t].op \in {"closed", "page"} /\ Exists(p)
    /\ Goes(t, Page(p, row[p].boxes, links[p], NULL))
    /\ UNCHANGED <<row, links>>

\* The admin ticks what they like; a box that is not ticked is not sent.
Submit(t) ==
    /\ tab[t].op = "page"
    /\ \E boxes \in SUBSET Boxes, categories \in SUBSET Categories :
         Goes(t, [op |-> "validate", id |-> tab[t].id, boxes |-> boxes,
                  categories |-> categories, attempt |-> 0])
    /\ UNCHANGED <<row, links>>

\* The other fields are right, or not.
Validate(t) ==
    /\ tab[t].op = "validate"
    /\ \E op \in {"filter", "save"} : Step(t, op)
    /\ UNCHANGED <<row, links>>

\* {...existing, ...body}: what the body does not name is the saved product's.
Filtered(t) == IF tab[t].id \in Rows THEN row[tab[t].id].boxes \cup tab[t].boxes ELSE tab[t].boxes

\* AdminFormExceptionFilter, for what the ValidationPipe refused.
catch(t) ==
    /\ tab[t].op = "filter"
    /\ Goes(t, Page(tab[t].id, Filtered(t), tab[t].categories, tab[t]))
    /\ UNCHANGED <<row, links>>

\* dtoToFormProduct: the controller, for what the service refused.
Rerender(t) ==
    /\ tab[t].op = "refused"
    /\ Goes(t, Page(tab[t].id, tab[t].boxes, tab[t].categories, tab[t]))
    /\ UNCHANGED <<row, links>>

----------------------------------------------------------------------------
(* The service *)

Saved(t) == [boxes |-> tab[t].boxes, form |-> tab[t].categories]

\* A bad flash deal, or a key in use: an update finds out in its transaction, which is
\* rolled back.
Refuse(t) ==
    /\ \/ tab[t].op = "write"
       \/ tab[t].op = "save" /\ tab[t].id = NULL
    /\ Step(t, "refused")
    /\ UNCHANGED <<row, links>>

create(t) ==
    /\ tab[t].op = "save" /\ tab[t].id = NULL
    /\ \E p \in Products :
         /\ row[p] = NULL
         /\ row' = [row EXCEPT ![p] = Saved(t)]
         /\ links' = [links EXCEPT ![p] = tab[t].categories]
    /\ Goes(t, Closed)

\* Not found.
update(t) ==
    /\ tab[t].op = "save" /\ tab[t].id # NULL
    /\ IF Exists(tab[t].id) THEN Step(t, "delete") ELSE Goes(t, Closed)
    /\ UNCHANGED <<row, links>>

\* Mutant: two statements of their own, with no transaction around them.
NoTransaction(t) == {}

\* The others whose transaction on the same product has deleted its links.
InTransaction(t) == {u \in Tabs \ {t} : tab[u].op = "write" /\ tab[u].id = tab[t].id}

\* The links another one deleted are locked; where there were none only the gap is, and
\* gap locks do not exclude each other.
deleteMany(t) ==
    /\ tab[t].op = "delete"
    /\ InTransaction(t) = {} \/ links[tab[t].id] = {}
    /\ Goes(t, [op |-> "write", id |-> tab[t].id, boxes |-> tab[t].boxes,
                categories |-> tab[t].categories, attempt |-> tab[t].attempt,
                deleted |-> links[tab[t].id]])
    /\ UNCHANGED <<row, links>>

\* The product and its new links, and the commit.  Links go into a gap nobody else holds.
\* A product that is gone is not found.
Write(t) ==
    /\ tab[t].op = "write"
    /\ LET p == tab[t].id IN
       IF ~Exists(p) THEN UNCHANGED <<row, links>>
       ELSE /\ InTransaction(t) = {} \/ tab[t].categories = {}
            /\ row' = [row EXCEPT ![p] = Saved(t)]
            /\ links' = [links EXCEPT ![p] = (@ \ tab[t].deleted) \cup tab[t].categories]
    /\ Goes(t, Closed)

\* One has the row and waits for the gap of the other, who waits for the row: one of them
\* is rolled back, waits a little and tries again; the last time it fails.
Deadlock(t) ==
    /\ tab[t].op = "write"
    /\ \E u \in InTransaction(t) : tab[t].categories # {} \/ tab[u].categories # {}
    /\ IF tab[t].attempt < MaxAttempts
       THEN Goes(t, [op |-> "delete", id |-> tab[t].id, boxes |-> tab[t].boxes,
                     categories |-> tab[t].categories, attempt |-> tab[t].attempt + 1])
       ELSE Goes(t, Closed)
    /\ UNCHANGED <<row, links>>

\* The links go with the product; a transaction that has deleted them holds it up.
remove(p) ==
    /\ Exists(p)
    /\ \A t \in Tabs : tab[t].op = "write" /\ tab[t].id = p => tab[t].deleted = {}
    /\ row' = [row EXCEPT ![p] = GONE]
    /\ links' = [links EXCEPT ![p] = {}]
    /\ UNCHANGED tab

----------------------------------------------------------------------------

Init ==
    /\ row = [p \in Products |-> NULL]
    /\ links = [p \in Products |-> {}]
    /\ tab = [t \in Tabs |-> Closed]

Next ==
    \/ \E t \in Tabs :
         \/ newForm(t) \/ (\E p \in Products : editForm(t, p)) \/ Submit(t)
         \/ Validate(t) \/ catch(t) \/ Rerender(t) \/ Refuse(t)
         \/ create(t) \/ update(t) \/ deleteMany(t) \/ Write(t) \/ Deadlock(t)
    \/ \E p \in Products : remove(p)

Spec == Init /\ [][Next]_vars

----------------------------------------------------------------------------
(* Properties *)

TypeOK ==
    /\ \A p \in Products : Exists(p) => row[p].boxes \subseteq Boxes /\ row[p].form \subseteq Categories
    /\ links \in [Products -> SUBSET Categories]
    /\ \A t \in Tabs : tab[t].op \in
         {"closed", "page", "validate", "filter", "save", "refused", "delete", "write"}

\* Two tabs that save a product at the same time leave the categories of the one that was
\* saved last, the same whose other fields it has: not those of both (update).
CategoriesOfTheLastSave == \A p \in Rows : links[p] = row[p].form

\* "re-renders the originating form with the submitted values and the error, so the admin
\* can simply fix the flagged field" (AdminFormExceptionFilter).
SubmittedIsShown ==
    \A t \in Tabs : tab[t].op = "page" => tab[t].sent = NULL \/ tab[t].boxes = tab[t].sent.boxes
=============================================================================
