--------------------------- MODULE CategoryPages ---------------------------
(***************************************************************************)
(* The categories of the shop, the pages /c/:slug they are shown on, and   *)
(* the menu that links them.  An admin's save reads the old slug, looks    *)
(* for a free one, writes the row and then records a redirect, each in a   *)
(* statement of its own; the menu a server shows was read some time ago.   *)
(***************************************************************************)
EXTENDS Sequences, FiniteSets, Functions

CONSTANTS Categories,
          Texts,      \* for each text an admin can type, the slugs tried in turn
          Requests,   \* saves in flight
          NULL

CategoryPagesAssumption ==
    /\ \A t \in Texts : IsInjective(t) /\ t \in Seq(Range(t)) /\ t # <<>>
    /\ NULL \notin Categories \cup UNION {Range(t) : t \in Texts}

VARIABLES
    category,  \* the rows, by id
    used,      \* the ids that were given
    redirect,  \* toPath for each fromPath
    request,   \* what each save knows
    loading,   \* the links the first statement of a refresh has found, NULL when none is under way
    menu,      \* the links in the memory of the server
    holder     \* history: the category that has, or had last, each slug

vars == <<category, used, redirect, request, loading, menu, holder>>

Slugs == UNION {Range(t) : t \in Texts}
Idle == [op |-> "idle"]
Rows == DOMAIN category
Active == {c \in Rows : category[c].isActive}

\* getActiveBySlug finds a category.
Live(s) == \E c \in Active : category[c].slug = s

Continue(r, state) == request' = [request EXCEPT ![r] = state]
Busy(c) == \E r \in Requests : request[r] # Idle /\ request[r].id = c

----------------------------------------------------------------------------
(* AdminCategoriesService *)

\* The ids listForSelect offers, without the category itself.
Parents(c) == (Rows \ {c}) \cup {NULL}

\* The form was rendered with the parents of that time; the save begins with the
\* reading of the old slug.  Bound: one save at a time for each category.
Save(r, c) ==
    /\ request[r] = Idle /\ ~Busy(c)
    /\ c \in Rows \/ c \notin used
    /\ \E t \in Texts, p \in Parents(c), shown \in BOOLEAN :
         Continue(r, [op |-> "resolve", id |-> c, tries |-> t, parent |-> p, isActive |-> shown,
                      from |-> IF c \in Rows THEN category[c].slug ELSE NULL])
    /\ used' = used \cup {c}
    /\ UNCHANGED <<category, redirect, loading, menu, holder>>

Taken(r) == \E c \in Rows \ {request[r].id} : category[c].slug = Head(request[r].tries)

resolveSlug(r) ==
    /\ request[r].op = "resolve"
    /\ IF Taken(r)
       THEN /\ Len(request[r].tries) > 1
            /\ Continue(r, [request[r] EXCEPT !.tries = Tail(@)])
       ELSE Continue(r, [request[r] EXCEPT !.op = "write"])
    /\ UNCHANGED <<category, used, redirect, loading, menu, holder>>

\* The unique key, a parent that is gone, a row that is gone.
Refused(r) ==
    \/ Taken(r)
    \/ request[r].parent \notin Rows \cup {NULL}
    \/ request[r].from # NULL /\ request[r].id \notin Rows

Moved(r) == request[r].from \notin {NULL, Head(request[r].tries)}

\* A table with the row y at x, whether there was one before or not.
Put(table, x, y) == [z \in DOMAIN table \cup {x} |-> IF z = x THEN y ELSE table[z]]

Write(r) ==
    /\ request[r].op = "write"
    /\ LET slug == Head(request[r].tries)
           row == [slug |-> slug, parent |-> request[r].parent, isActive |-> request[r].isActive]
       IN  IF Refused(r)
           THEN Continue(r, Idle) /\ UNCHANGED <<category, holder>>
           ELSE /\ category' = Put(category, request[r].id, row)
                /\ holder' = [holder EXCEPT ![slug] = request[r].id]
                /\ Continue(r, IF Moved(r) THEN [request[r] EXCEPT !.op = "record"] ELSE Idle)
    /\ UNCHANGED <<used, redirect, loading, menu>>

\* Mutant: the redirect leads back.
Backwards(from, to) == Put(redirect, to, from)

\* RedirectService.record, an upsert.
Recorded(from, to) == Put(redirect, from, to)

Record(r) ==
    /\ request[r].op = "record"
    /\ redirect' = Recorded(request[r].from, Head(request[r].tries))
    /\ Continue(r, Idle)
    /\ UNCHANGED <<category, used, loading, menu, holder>>

\* The children of a deleted category have no parent (onDelete: SetNull).
remove(c) ==
    /\ c \in Rows /\ ~Busy(c)
    /\ category' = [d \in Rows \ {c} |->
         IF category[d].parent = c THEN [category[d] EXCEPT !.parent = NULL] ELSE category[d]]
    /\ UNCHANGED <<used, redirect, request, loading, menu, holder>>

----------------------------------------------------------------------------
(* The menu (CategoryNavService) *)

TopLevel == {c \in Active : category[c].parent = NULL}

Links(C) == {[to |-> c, slug |-> category[c].slug] : c \in C}

\* A server reads the menu at a time of its own, the top level first.
FindTopLevel ==
    /\ loading = NULL
    /\ loading' = Links(TopLevel)
    /\ UNCHANGED <<category, used, redirect, request, menu, holder>>

\* Then the children under it, and nothing deeper; it is shown until the next time.
FindChildren ==
    /\ loading # NULL
    /\ LET top == {link.to : link \in loading} IN
         menu' = loading \cup Links({c \in Active : category[c].parent \in top})
    /\ loading' = NULL
    /\ UNCHANGED <<category, used, redirect, request, holder>>

----------------------------------------------------------------------------

Init ==
    /\ category = <<>> /\ used = {} /\ redirect = <<>>
    /\ request = [r \in Requests |-> Idle]
    /\ loading = NULL /\ menu = {}
    /\ holder = [s \in Slugs |-> NULL]

Next ==
    \/ \E r \in Requests :
         \/ \E c \in Categories : Save(r, c)
         \/ resolveSlug(r) \/ Write(r) \/ Record(r)
    \/ \E c \in Categories : remove(c)
    \/ FindTopLevel \/ FindChildren

Spec == Init /\ [][Next]_vars

----------------------------------------------------------------------------
(* Where a link leads *)

\* A browser at one of these slugs stays among them.
Followed(X) == \A u \in X \cap DOMAIN redirect : Live(u) \/ redirect[u] \in X

\* redirectOr404: the slugs a browser is sent to from s.
Visited(s) ==
    {t \in Slugs : \A X \in SUBSET Slugs : s \in X /\ Followed(X) => t \in X}

\* The category itself, or a slug that another one has taken from it.
LeadsTo(link) ==
    \E t \in Visited(link.slug) : category[link.to].slug = t \/ holder[t] # link.to

----------------------------------------------------------------------------
(* Properties *)

TypeOK ==
    /\ Rows \subseteq used /\ used \subseteq Categories
    /\ \A c \in Rows : /\ category[c].slug \in Slugs /\ category[c].isActive \in BOOLEAN
                       /\ category[c].parent \in Parents(c)
    /\ \A c, d \in Rows : category[c].slug = category[d].slug => c = d
    /\ DOMAIN redirect \cup Range(redirect) \subseteq Slugs
    /\ holder \in [Slugs -> Categories \cup {NULL}]
    /\ \A l \in menu \cup (IF loading = NULL THEN {} ELSE loading) :
         l.to \in Categories /\ l.slug \in Slugs

\* However old the menu is, and whatever was renamed and taken over since, a link of it
\* leads to the category it names while that one is shown, unless another category has
\* taken an address on the way; except while a save is between the row and its redirect.
MenuLinksResolve ==
    (\A r \in Requests : request[r].op # "record") =>
      \A link \in menu : link.to \in Active => LeadsTo(link)

\* Two categories, each the parent of the other, are in no menu.
NoCycle == \A c \in Rows : category[c].parent # NULL => category[category[c].parent].parent # c
=============================================================================
