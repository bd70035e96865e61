------------------------------ MODULE Listing ------------------------------
(***************************************************************************)
(* The pages that list products: the shop, a category, the search          *)
(* (CatalogController with ProductsService, SearchService, pagination and  *)
(* product-filters).  A customer sets filters, reads page after page with  *)
(* Next, and applies the filter form again, while products change.         *)
(***************************************************************************)
EXTENDS Integers, SequencesExt

CONSTANTS Products,  \* by createdAt
          Prices,    \* basePrice, in halves of a taka
          Relevance, \* of each product to the words that are searched
          Limit,     \* products on a page
          MaxEdits   \* bound: changes to the products

ListingAssumption ==
    /\ Products \subseteq Nat /\ IsFiniteSet(Products) /\ Prices \subseteq Nat
    /\ Relevance \in [Products -> Nat]
    /\ Limit \in Nat \ {0} /\ MaxEdits \in Nat

VARIABLES
    product,  \* isActive and publishedAt, inStock, basePrice
    edits,    \* how many changes there were
    visit     \* what the customer asked for and has seen, and the rows the pages had

vars == <<product, edits, visit>>

----------------------------------------------------------------------------
(* Filters and orders *)

All == [sort |-> "newest", range |-> <<>>, inStock |-> FALSE]

Listed == {p \in Products : product[p].listed}

\* priceMin and priceMax are whole takas; onSale is a filter like inStock.
MatchesIn(rows, f) ==
    {p \in Products :
        /\ rows[p].listed
        /\ f.range # <<>> => rows[p].price \in (2 * f.range[1])..(2 * f.range[2])
        /\ f.inStock => rows[p].inStock}
Matches(f) == MatchesIn(product, f)

Before(f, p, q) ==
    CASE f.sort = "newest" -> p > q
      [] f.sort = "price_asc" -> product[p].price < product[q].price
      [] f.sort = "price_desc" -> product[p].price > product[q].price
      [] f.sort = "search" -> Relevance[p] > Relevance[q]

Tied(f) == \E p, q \in Matches(f) : p # q /\ ~Before(f, p, q) /\ ~Before(f, q, p)

\* The server may return rows that compare equal in any order, each time in another one.
Orders(f) ==
    {s \in SetToSeqs(Matches(f)) : \A i, j \in DOMAIN s : i < j => ~Before(f, s[j], s[i])}

\* Mutant: pages counted from 0.
SkipsFirst(page) == page * Limit

skip(page) == (page - 1) * Limit

Rows(s, page) == {s[i] : i \in DOMAIN s \cap (skip(page) + 1)..(skip(page) + Limit)}

totalPages(total) == IF total = 0 THEN 1 ELSE (total + Limit - 1) \div Limit
hasNext(page, total) == page < totalPages(total)

\* Floor and ceiling in takas, and never an empty slider.
priceBounds ==
    IF Listed = {} THEN <<0, 1>>
    ELSE LET prices == {product[p].price : p \in Listed}
             min == (CHOOSE m \in prices : \A n \in prices : m <= n) \div 2
             max == ((CHOOSE m \in prices : \A n \in prices : m >= n) + 1) \div 2
         IN  <<min, IF max > min THEN max ELSE min + 1>>

----------------------------------------------------------------------------
(* What is asked for *)

\* start: what should be seen; changed: what was changed since, or since the bounds were
\* read that a slider sends; lost: how many changes were of products that matched; quiet:
\* nothing has happened to what matches; tied: rows that were read compared equal; touched:
\* what was changed since the page's bounds were read.
Asked(f, start, changed) ==
    [op |-> "asked", filters |-> f, page |-> 1, seen |-> {}, shown |-> 0, start |-> start,
     changed |-> changed, lost |-> 0, quiet |-> changed = {}, tied |-> FALSE, ids |-> {},
     total |-> 0, bounds |-> <<>>, touched |-> {}]

\* A link to the shop or a category, or a search.
Open ==
    /\ visit.op = "page"
    /\ \E f \in {All, [All EXCEPT !.sort = "search"]} : visit' = Asked(f, Matches(f), {})
    /\ UNCHANGED <<product, edits>>

\* The filter form: a slider that was not touched should leave nothing out.
Apply ==
    /\ visit.op = "page" /\ visit.filters.sort # "search"
    /\ \E f \in [sort : {"newest", "price_asc", "price_desc"}, range : {visit.bounds},
                 inStock : BOOLEAN] :
         \/ visit' = Asked(f, Matches([f EXCEPT !.range = <<>>]), visit.touched)
         \/ LET g == [f EXCEPT !.range = <<f.range[1], f.range[2] - 1>>]
            IN  visit' = Asked(g, Matches(g), {})
    /\ UNCHANGED <<product, edits>>

ClickNext ==
    /\ visit.op = "page" /\ hasNext(visit.page, visit.total)
    /\ visit' = [visit EXCEPT !.op = "asked", !.page = @ + 1, !.total = 0, !.bounds = <<>>,
                            !.touched = {}]
    /\ UNCHANGED <<product, edits>>

----------------------------------------------------------------------------
(* What is answered *)

\* Rows and count in one transaction.
listActive ==
    /\ visit.op = "asked" /\ visit.filters.sort # "search"
    /\ \E s \in Orders(visit.filters) :
         LET rows == Rows(s, visit.page)
         IN  visit' = [visit EXCEPT !.op = "bounds", !.total = Cardinality(Matches(visit.filters)),
                                    !.seen = @ \cup rows, !.shown = @ + Cardinality(rows),
                                    !.tied = @ \/ Tied(visit.filters)]
    /\ UNCHANGED <<product, edits>>

\* The other half of the page, read at the same time in a query of its own.
shop ==
    /\ visit.op = "bounds"
    /\ visit' = [visit EXCEPT !.op = "page", !.bounds = priceBounds, !.touched = {}]
    /\ UNCHANGED <<product, edits>>

\* The ids of the page; without any there is nothing to read or to count.
search ==
    /\ visit.op = "asked" /\ visit.filters.sort = "search"
    /\ \E s \in Orders(visit.filters) :
         LET rows == Rows(s, visit.page)
         IN  visit' = [visit EXCEPT !.op = IF rows = {} THEN "page" ELSE "ids", !.ids = rows,
                                    !.tied = @ \/ Tied(visit.filters)]
    /\ UNCHANGED <<product, edits>>

\* The rows are found by id whatever has become of them, but those that were removed; what
\* matches is counted.
searchPage ==
    /\ visit.op = "ids"
    /\ \E removed \in SUBSET (visit.ids \ Listed) :
         LET rows == visit.ids \ removed
         IN  visit' = [visit EXCEPT !.op = "page", !.total = Cardinality(Matches(visit.filters)),
                                    !.seen = @ \cup rows, !.shown = @ + Cardinality(rows),
                                    !.ids = {}]
    /\ UNCHANGED <<product, edits>>

----------------------------------------------------------------------------
(* The catalogue *)

\* A product is published, hidden or removed, sold out or refilled, or its price changes.
Edit(p) ==
    /\ edits < MaxEdits
    /\ edits' = edits + 1
    /\ \E row \in [listed : BOOLEAN, inStock : BOOLEAN, price : Prices] :
         /\ row # product[p]
         /\ product' = [product EXCEPT ![p] = row]
    /\ LET matched == p \in Matches(visit.filters)
       IN  visit' = [visit EXCEPT
              !.changed = @ \cup {p}, !.touched = @ \cup {p},
              !.lost = IF matched THEN @ + 1 ELSE @,
              !.quiet = @ /\ ~matched /\ p \notin MatchesIn(product', visit.filters)]

----------------------------------------------------------------------------

Init ==
    /\ product \in [Products -> [listed : BOOLEAN, inStock : {TRUE}, price : Prices]]
    /\ edits = 0
    /\ visit = [Asked(All, {}, {}) EXCEPT !.op = "page", !.bounds = priceBounds]

Next == Open \/ Apply \/ ClickNext \/ listActive \/ shop \/ search \/ searchPage
        \/ \E p \in Products : Edit(p)

Spec == Init /\ [][Next]_vars

----------------------------------------------------------------------------
(* Properties *)

TypeOK ==
    /\ product \in [Products -> [listed : BOOLEAN, inStock : BOOLEAN, price : Prices]]
    /\ edits \in 0..MaxEdits
    /\ visit.op \in {"page", "asked", "bounds", "ids"}
    /\ visit.page \in Nat \ {0} /\ visit.lost \in 0..edits /\ visit.quiet \in BOOLEAN
    /\ UNION {visit.seen, visit.start, visit.ids, visit.changed, visit.touched} \subseteq Products /\ visit.shown \in Nat

AtTheEnd == visit.op = "page" /\ ~hasNext(visit.page, visit.total)

\* What a visit leaves out though it matched and was not changed.
Missed == visit.start \ (visit.changed \cup visit.seen)

\* Whoever goes on to the last page misses no more of the products that matched, and were
\* not themselves changed, than there were changes to products of the list meanwhile: each
\* that is hidden, sold out or repriced moves those behind it up by one place at most, and
\* one over the edge of a page.  None is missed when others were only published, and each
\* is seen once when nothing happened; a slider that was not touched leaves none out but
\* what was changed since its bounds were read.  Prices, and the ranks of a search, must
\* differ: LIMIT and OFFSET over rows that compare equal may repeat one and miss another.
PagesCoverTheList ==
    AtTheEnd /\ ~visit.tied =>
        /\ Cardinality(Missed) <= visit.lost
        /\ visit.quiet => visit.shown = Cardinality(visit.start)

\* Without the exception for ties.
TiesToo == AtTheEnd /\ visit.quiet => visit.start \subseteq visit.seen
=============================================================================
