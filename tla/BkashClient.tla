---------------------------- MODULE BkashClient ----------------------------
(***************************************************************************)
(* The HTTP client of the bKash gateway in one server process: calls that  *)
(* share a cached token, grant a new one when it is about to expire, and   *)
(* repeat a call once when bKash does not accept the token.  The gateway   *)
(* is external: it gives a token a life, may withdraw it, and acts on a    *)
(* call it accepts whether or not the answer arrives.                      *)
(***************************************************************************)
EXTENDS Integers, FiniteSets

CONSTANTS Calls,
          MaxGrants,   \* bound: tokens granted, numbered from 1
          ExpiresIn,   \* life of a token, in ticks
          Margin,      \* the 60 s taken off
          NULL

ASSUME BkashClientAssumption ==
    /\ MaxGrants \in Nat /\ ExpiresIn \in Nat /\ Margin \in Nat
    /\ NULL \notin Int

VARIABLES
    life,     \* what is left of each token granted, -1 when it was withdrawn
    token,    \* the cache: which token, the ticks until expiresAt, and how late its
              \* answer came (what was left of its life tells)
    call,     \* where each call stands
    done      \* what bKash has done: how often it acted on each call

vars == <<life, token, call, done>>

Tokens == DOMAIN life
Cached == token # NULL /\ token.left > 0
At(c, step) == [step |-> step, retried |-> call[c].retried, with |-> NULL]
Holding(c, step, t) == [step |-> step, retried |-> call[c].retried, with |-> t]
Go(c, to) == call' = [call EXCEPT ![c] = to]

----------------------------------------------------------------------------
(* getToken *)

post(c) ==
    /\ call[c].step = "new"
    /\ Go(c, IF Cached THEN Holding(c, "send", token.id) ELSE At(c, "grant"))
    /\ UNCHANGED <<life, token, done>>

\* bKash grants; the answer is on its way.
Grants(c) ==
    /\ call[c].step = "grant" /\ Cardinality(Tokens) < MaxGrants
    /\ LET t == Cardinality(Tokens) + 1 IN
         /\ life' = [u \in Tokens \cup {t} |-> IF u = t THEN ExpiresIn ELSE life[u]]
         /\ Go(c, Holding(c, "granted", t))
    /\ UNCHANGED <<token, done>>

\* Mutant: the token is used to its end.
FullLife == ExpiresIn

ttlMs == ExpiresIn - Margin

\* However long the answer took: nothing limits the fetch.
getToken(c) ==
    /\ call[c].step = "granted"
    /\ token' = [id |-> call[c].with, left |-> ttlMs, late |-> ExpiresIn - life[call[c].with]]
    /\ Go(c, Holding(c, "send", call[c].with))
    /\ UNCHANGED <<life, done>>

GrantFails(c) ==
    /\ call[c].step \in {"grant", "granted"}
    /\ Go(c, At(c, "failed"))
    /\ UNCHANGED <<life, token, done>>

----------------------------------------------------------------------------
(* send *)

Accepted(t) == life[t] > 0

\* bKash acts on the call or answers with an auth error.
Acts(c) ==
    /\ call[c].step = "send"
    /\ IF Accepted(call[c].with)
       THEN /\ done' = [done EXCEPT ![c] = @ + 1]
            /\ Go(c, Holding(c, "acted", call[c].with))
       ELSE /\ Go(c, Holding(c, "rejected", call[c].with))
            /\ UNCHANGED done
    /\ UNCHANGED <<life, token>>

Returns(c) ==
    /\ call[c].step = "acted"
    /\ Go(c, At(c, "answered"))
    /\ UNCHANGED <<life, token, done>>

\* The request or its answer is lost: fetch throws, and so does post.
IsLost(c) ==
    /\ call[c].step \in {"send", "acted", "rejected"}
    /\ Go(c, At(c, "failed"))
    /\ UNCHANGED <<life, token, done>>

\* Mutant: anything but an answer is worth another try.
RetriesAll(c) == call[c].step \in {"acted", "rejected"} /\ ~call[c].retried

\* An auth error, the first time.
Retries(c) == call[c].step = "rejected" /\ ~call[c].retried

Retry(c) ==
    /\ Retries(c)
    /\ Go(c, [step |-> "grant", retried |-> TRUE, with |-> NULL])
    /\ UNCHANGED <<life, token, done>>

\* The second auth error is the answer.
Refused(c) ==
    /\ call[c].step = "rejected" /\ call[c].retried
    /\ Go(c, At(c, "refused"))
    /\ UNCHANGED <<life, token, done>>

----------------------------------------------------------------------------

Tick ==
    /\ life' = [t \in Tokens |-> IF life[t] > 0 THEN life[t] - 1 ELSE life[t]]
    /\ token' = IF Cached THEN [token EXCEPT !.left = @ - 1] ELSE token
    /\ UNCHANGED <<call, done>>

\* The credentials are rotated, or bKash forgets its sessions.
Withdraw(t) ==
    /\ t \in Tokens /\ life[t] > 0
    /\ life' = [life EXCEPT ![t] = -1]
    /\ UNCHANGED <<token, call, done>>

Init ==
    /\ life = <<>>
    /\ token = NULL
    /\ call = [c \in Calls |-> [step |-> "new", retried |-> FALSE, with |-> NULL]]
    /\ done = [c \in Calls |-> 0]

Next ==
    \/ \E c \in Calls :
         \/ post(c) \/ Grants(c) \/ getToken(c) \/ GrantFails(c)
         \/ Acts(c) \/ Returns(c) \/ IsLost(c) \/ Retry(c) \/ Refused(c)
    \/ Tick
    \/ \E t \in 1..MaxGrants : Withdraw(t)

Spec == Init /\ [][Next]_vars

----------------------------------------------------------------------------
(* Properties *)

\* "re-grant once and retry": whatever is lost and however the calls share the token,
\* the repetition never makes bKash act twice: no charge and no refund is doubled.
ActedOnce == \A c \in Calls : done[c] <= 1

\* A call that returns an answer has been acted on, and one that returns the auth
\* error has not: what PaymentsService concludes from either is true.
AnswersAreTrue ==
    \A c \in Calls : /\ call[c].step = "answered" => done[c] = 1
                    /\ call[c].step = "refused" => done[c] = 0

\* "Refresh ~60s before the real expiry": a token taken from the cache has not
\* expired, although its life began before its answer arrived and the answers of two
\* grants may arrive in either order: if its own answer took no longer than the margin.
CachedIsAccepted == Cached /\ token.late <= Margin => life[token.id] # 0

\* "... to avoid edge-of-window 401s": the cache hands out no expired token.
NoEdgeOfWindow == Cached => life[token.id] # 0
=============================================================================
