---------------------------- MODULE CategoryNav ----------------------------
(***************************************************************************)
(* The category menu of one server process: read from memory on every page *)
(* and refreshed in the background once it is older than a minute.  Admins *)
(* change the categories in the database and nothing tells the processes.  *)
(***************************************************************************)
EXTENDS Naturals

CONSTANTS MaxEdits,  \* bound: changes to the categories
          Refreshes  \* bound: queries in flight

CategoryNavAssumption == MaxEdits \in Nat

VARIABLES
    categories,  \* how often the active categories have changed, from 1
    cache,       \* the version in memory of its oldest part, 0 for the empty menu
    outdated,    \* Date.now() - fetchedAt > ttlMs
    refresh      \* the queries in flight, and what they found

vars == <<categories, cache, outdated, refresh>>

None == [op |-> "none"]
Begun == [op |-> "query"]

InFlight == {i \in Refreshes : refresh[i] # None}

\* create, update and remove of AdminCategoriesService.
Edit ==
    /\ categories <= MaxEdits
    /\ categories' = categories + 1
    /\ UNCHANGED <<cache, outdated, refresh>>

Outdates ==
    /\ ~outdated
    /\ outdated' = TRUE
    /\ UNCHANGED <<categories, cache, refresh>>

\* "claim first to avoid a refresh stampede"; other readings change nothing.
getCached(i) ==
    /\ outdated /\ i \notin InFlight
    /\ outdated' = FALSE
    /\ refresh' = [refresh EXCEPT ![i] = Begun]
    /\ UNCHANGED <<categories, cache>>

\* The first statement of the nested query; the children, which the next one reads, are at
\* least as new, so the version is that of the oldest part of the menu.
Query(i) ==
    /\ refresh[i].op = "query"
    /\ refresh' = [refresh EXCEPT ![i] = [op |-> "answer", found |-> categories]]
    /\ UNCHANGED <<categories, cache, outdated>>

\* Mutant: a menu that is there is never replaced.
KeepsTheFirst(found) == IF cache = 0 THEN found ELSE cache

Found(found) == found

Answer(i) ==
    /\ refresh[i].op = "answer"
    /\ cache' = Found(refresh[i].found)
    /\ outdated' = FALSE
    /\ refresh' = [refresh EXCEPT ![i] = None]
    /\ UNCHANGED categories

\* Nobody is told, and nobody tries again before the menu is outdated.
Fails(i) ==
    /\ i \in InFlight
    /\ refresh' = [refresh EXCEPT ![i] = None]
    /\ UNCHANGED <<categories, cache, outdated>>

\* onModuleInit waits for the first refresh; when it fails fetchedAt stays 0.
Init ==
    /\ categories = 1
    /\ \/ cache = 1 /\ outdated = FALSE
       \/ cache = 0 /\ outdated = TRUE
    /\ refresh = [i \in Refreshes |-> None]

Next ==
    \/ Edit \/ Outdates
    \/ \E i \in Refreshes : getCached(i) \/ Query(i) \/ Answer(i) \/ Fails(i)

Spec == Init /\ [][Next]_vars

----------------------------------------------------------------------------
(* Properties *)

\* A change to the categories reaches the menu, although refreshes fail, overtake
\* each other and nobody announces it (under MenuFairness of MCBackground.tla).
MenuCatchesUp == \A n \in 1..(MaxEdits + 1) : categories = n ~> cache >= n
=============================================================================
