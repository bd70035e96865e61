--------------------------- MODULE SlugRedirects ---------------------------
(***************************************************************************)
(* The addresses of products.  Saving a product finds a slug no other one  *)
(* has, writes it, and then records a redirect from the old address; the   *)
(* storefront looks for a live product first and follows a redirect when   *)
(* there is none.                                                          *)
(***************************************************************************)
EXTENDS Naturals, FiniteSets, Functions

CONSTANTS Products,
          Candidates,  \* for each text an admin can type, the slugs tried in turn
          Requests,    \* requests in flight
          Exclusive,   \* bound: one request at a time for each product
          LostAt,      \* bound: the steps at which a request may be lost
          NULL,        \* no product
          UNBORN, GONE \* the slug of a product not yet created, or deleted

SlugRedirectsAssumption ==
    /\ \A c \in Candidates :
         IsInjective(c) /\ DOMAIN c = 1..Cardinality(DOMAIN c) /\ 1 \in DOMAIN c
    /\ Exclusive \in BOOLEAN /\ LostAt \subseteq {"probe", "write", "record"}
    /\ NULL \notin Products
    /\ UNBORN # GONE /\ {UNBORN, GONE} \cap UNION {Range(c) : c \in Candidates} = {}

VARIABLES
    slug,      \* the slug of each product
    active,    \* products that are shown
    redirect,  \* toPath for each fromPath
    request,   \* what each request knows
    holder     \* history: the product that has, or had last, each address

vars == <<slug, active, redirect, request, holder>>

Slugs == UNION {Range(c) : c \in Candidates}
Idle == [op |-> "idle"]
Exists(p) == slug[p] \notin {UNBORN, GONE}
Live(s) == \E p \in active : slug[p] = s

Continue(r, state) == request' = [request EXCEPT ![r] = state]

Busy(p) == \E r \in Requests : request[r] # Idle /\ request[r].product = p

\* The slug a request is trying.
Candidate(r) == request[r].tries[request[r].n]

----------------------------------------------------------------------------

\* An update reads the old slug; a create has none.
Save(r, p) ==
    /\ request[r] = Idle /\ slug[p] # GONE
    /\ Exclusive \/ slug[p] = UNBORN => ~Busy(p)
    /\ \E c \in Candidates, shown \in BOOLEAN :
         Continue(r, [op |-> "probe", product |-> p, from |-> slug[p],
                      tries |-> c, n |-> 1, shown |-> shown])
    /\ UNCHANGED <<slug, active, redirect, holder>>

Taken(r) == \E p \in Products \ {request[r].product} : slug[p] = Candidate(r)

Duplicate(r) == \E p \in Products \ {request[r].product} : slug[p] = Candidate(r)

uniqueSlug(r) ==
    /\ request[r].op = "probe"
    /\ IF Taken(r)
       THEN /\ request[r].n + 1 \in DOMAIN request[r].tries
            /\ Continue(r, [request[r] EXCEPT !.n = @ + 1])
       ELSE Continue(r, [request[r] EXCEPT !.op = "write"])
    /\ UNCHANGED <<slug, active, redirect, holder>>

Moved(r) == request[r].from \notin {UNBORN, Candidate(r)}

\* The unique key and the missing row fail the write.
createOrFail(r) ==
    /\ request[r].op = "write"
    /\ LET p == request[r].product IN
       IF Duplicate(r) \/ slug[p] = GONE
       THEN /\ Continue(r, Idle)
            /\ UNCHANGED <<slug, active, holder>>
       ELSE /\ slug' = [slug EXCEPT ![p] = Candidate(r)]
            /\ active' = IF request[r].shown THEN active \cup {p} ELSE active \ {p}
            /\ holder' = [holder EXCEPT ![Candidate(r)] = p]
            /\ Continue(r, IF Moved(r) THEN [request[r] EXCEPT !.op = "record"] ELSE Idle)
    /\ UNCHANGED redirect

\* Mutant: a row that is there is kept.
CreatedOnce(from, to) ==
    [s \in DOMAIN redirect \cup {from} |-> IF s \in DOMAIN redirect THEN redirect[s] ELSE to]

\* An upsert.
Upserted(from, to) ==
    [s \in DOMAIN redirect \cup {from} |-> IF s = from THEN to ELSE redirect[s]]

record(r) ==
    /\ request[r].op = "record"
    /\ redirect' = Upserted(request[r].from, Candidate(r))
    /\ Continue(r, Idle)
    /\ UNCHANGED <<slug, active, holder>>

\* There is nothing to delete the second time.
remove(p) ==
    /\ slug[p] # UNBORN
    /\ Exclusive => ~Busy(p)
    /\ slug' = [slug EXCEPT ![p] = GONE]
    /\ active' = active \ {p}
    /\ UNCHANGED <<redirect, request, holder>>

Lost(r) ==
    /\ request[r].op \in LostAt
    /\ Continue(r, Idle)
    /\ UNCHANGED <<slug, active, redirect, holder>>

Init ==
    /\ slug = [p \in Products |-> UNBORN]
    /\ active = {}
    /\ redirect = <<>>
    /\ request = [r \in Requests |-> Idle]
    /\ holder = [s \in Slugs |-> NULL]

Next ==
    \/ \E r \in Requests :
         \/ \E p \in Products : Save(r, p)
         \/ uniqueSlug(r) \/ createOrFail(r) \/ record(r) \/ Lost(r)
    \/ \E p \in Products : remove(p)

Spec == Init /\ [][Next]_vars

----------------------------------------------------------------------------
(* What a visitor finds *)

\* A browser at one of these addresses stays among them.
Followed(X) == \A u \in X \cap DOMAIN redirect : Live(u) \/ redirect[u] \in X

\* The addresses the browser is sent through from s.
Visited(s) ==
    {t \in Slugs : \A X \in SUBSET Slugs : s \in X /\ Followed(X) => t \in X}

\* The product that had the address last is hidden or deleted.
Withdrawn(s) == holder[s] # NULL /\ holder[s] \notin active

----------------------------------------------------------------------------
(* Properties *)

TypeOK ==
    /\ slug \in [Products -> Slugs \cup {UNBORN, GONE}]
    /\ \A p, q \in Products : Exists(p) /\ slug[p] = slug[q] => p = q
    /\ active \subseteq {p \in Products : Exists(p)}
    /\ DOMAIN redirect \subseteq Slugs /\ Range(redirect) \subseteq Slugs
    /\ holder \in [Slugs -> Products \cup {NULL}]

\* "301/302 redirects - populated when a product/category slug changes": once the
\* requests have finished, an address a product ever had leads, through the redirects
\* and whatever took the slugs since, to a live page, unless the product it comes to
\* was withdrawn.
FormerAddressesResolve ==
    (\A r \in Requests : request[r].op # "record") =>
      \A s \in Slugs : holder[s] # NULL =>
        \E t \in Visited(s) : Live(t) \/ Withdrawn(t)
=============================================================================
