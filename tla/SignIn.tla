------------------------------- MODULE SignIn -------------------------------
(***************************************************************************)
(* Signing in and out with several tabs of a browser, which share its      *)
(* cookies: the customer's site (CustomerAuthController,                   *)
(* CustomerAuthGuard) or the admin's (AdminAuthController,                 *)
(* SessionAuthGuard), with the filter that sends whom a guard refuses to   *)
(* the sign-in page.  A request carries the cookies of the moment it is    *)
(* sent; those of its answer are kept when it arrives.                     *)
(***************************************************************************)
EXTENDS Naturals, TLC

CONSTANTS Tabs,
          MaxSignIns,  \* bound: how often somebody signs in
          NULL

SignInAssumption == MaxSignIns \in Nat /\ NULL \notin Tabs

VARIABLES
    site,      \* "customer" or "admin"
    verified,  \* emailVerifiedAt is set; an admin needs none
    good,      \* the session cookies the guard accepts
    signIns,   \* how many there were
    jar,       \* the browser's cookies: session (sv_customer, sv_admin), and the tab
               \* that was given the state in oauth (sv_oauth_state)
    tab        \* each tab: the page it shows, or what it waits for

vars == <<site, verified, good, signIns, jar, tab>>

Shown(page) == [op |-> "page", page |-> page]

\* A request, with what its handler reads of the cookies.
Sent(path, cookies) ==
    [op |-> "sent", path |-> path,
     session |-> IF path \in {"/login", "/register", "/account", "POST /reviews"}
                 THEN cookies.session ELSE NULL,
     oauth |-> IF path = "/auth/google/callback" THEN cookies.oauth ELSE NULL]

\* What the server answers: a page or a redirect, and the cookies it sets or clears.
Shows(t, page, cookies) ==
    tab' = [tab EXCEPT ![t] = [op |-> "answered", page |-> page, cookies |-> cookies]]
Redirects(t, path, cookies) ==
    tab' = [tab EXCEPT ![t] = [op |-> "redirected", path |-> path, cookies |-> cookies]]

Asks(t, path) == tab[t].op = "sent" /\ tab[t].path = path
Carries(t) == tab[t].session

----------------------------------------------------------------------------
(* The browser *)

\* What the customer or the admin may do on a page, besides going to an address.
Forms(page) ==
    CASE page = "login" -> {"POST /login"}
      [] page = "verify" -> {"POST /verify"}
      [] page = "reset" -> {"POST /reset"}
      [] page = "account" -> {"POST /logout"}
      [] page = "home" -> {"POST /logout", "POST /reviews"}
      [] OTHER -> {}

Addresses == IF site = "customer"
             THEN {"/", "/login", "/register", "/reset", "/account", "/auth/google"}
             ELSE {"/login", "/account"}

Send(t) ==
    /\ tab[t].op = "page"
    /\ \E path \in Addresses \cup Forms(tab[t].page) :
         tab' = [tab EXCEPT ![t] = Sent(path, jar)]
    /\ UNCHANGED <<site, verified, good, signIns, jar>>

\* Google sends the browser back, with the state the tab came with.
Return(t) ==
    /\ tab[t] = Shown("google")
    /\ tab' = [tab EXCEPT ![t] = Sent("/auth/google/callback", jar)]
    /\ UNCHANGED <<site, verified, good, signIns, jar>>

Receive(t) ==
    /\ tab[t].op \in {"answered", "redirected"}
    /\ LET kept == tab[t].cookies @@ jar
       IN  /\ jar' = kept
           /\ tab' = [tab EXCEPT ![t] =
                IF tab[t].op = "answered" THEN Shown(tab[t].page)
                                          ELSE Sent(tab[t].path, kept)]
    /\ UNCHANGED <<site, verified, good, signIns>>

----------------------------------------------------------------------------
(* The server *)

\* A customer's token is a new one each time; an admin's cookie is the user's id, and is
\* accepted as long as the user is active.
Token == IF site = "customer" THEN signIns + 1 ELSE 1

SignsIn(t, cookies) ==
    /\ signIns < MaxSignIns
    /\ signIns' = signIns + 1
    /\ good' = good \cup {Token}
    /\ Redirects(t, "/account", ("session" :> Token) @@ cookies)

Page(t, path, page) ==
    /\ Asks(t, path)
    /\ Shows(t, page, <<>>)
    /\ UNCHANGED <<site, verified, good, signIns, jar>>

\* loginForm, loginPage and registerForm: who has a cookie is taken to be signed in.
loginForm(t, path, page) ==
    /\ Asks(t, path)
    /\ IF Carries(t) # NULL THEN Redirects(t, "/account", <<>>)
                            ELSE Shows(t, page, <<>>)
    /\ UNCHANGED <<site, verified, good, signIns, jar>>

\* A wrong password is answered with the form.
login(t) ==
    /\ Asks(t, "POST /login")
    /\ \/ Shows(t, "login", <<>>) /\ UNCHANGED <<good, signIns>>
       \/ site = "customer" /\ ~verified /\ Shows(t, "verify", <<>>) /\ UNCHANGED <<good, signIns>>
       \/ site = "customer" /\ verified /\ SignsIn(t, <<>>)
       \/ site = "admin" /\ 1 \in good /\ SignsIn(t, <<>>)
    /\ UNCHANGED <<site, verified, jar>>

verify(t) ==
    /\ Asks(t, "POST /verify")
    /\ \/ Shows(t, "verify", <<>>) /\ UNCHANGED <<verified, good, signIns>>
       \/ verified' = TRUE /\ SignsIn(t, <<>>)
    /\ UNCHANGED <<site, jar>>

\* A reset does not sign in.
reset(t) ==
    /\ Asks(t, "POST /reset")
    /\ Shows(t, "reset", <<>>) \/ Redirects(t, "/login", <<>>)
    /\ UNCHANGED <<site, verified, good, signIns, jar>>

logout(t) ==
    /\ Asks(t, "POST /logout")
    /\ Redirects(t, IF site = "customer" THEN "/" ELSE "/login", [session |-> NULL])
    /\ UNCHANGED <<site, verified, good, signIns, jar>>

googleStart(t) ==
    /\ Asks(t, "/auth/google")
    /\ Shows(t, "google", [oauth |-> t])
    /\ UNCHANGED <<site, verified, good, signIns, jar>>

\* The state must be the one the browser was given last; then Google's answers may fail.
googleCallback(t) ==
    /\ Asks(t, "/auth/google/callback")
    /\ \/ Redirects(t, "/login", [oauth |-> NULL]) /\ UNCHANGED <<verified, good, signIns>>
       \/ tab[t].oauth = t /\ verified' = TRUE /\ SignsIn(t, [oauth |-> NULL])
    /\ UNCHANGED <<site, jar>>

\* Mutant: the filter leaves the cookie.
KeepsCookie(t) == Redirects(t, "/login", <<>>)

\* The filter: the cookie goes, and the browser to the sign-in page.
Refused(t) == Redirects(t, "/login", [session |-> NULL])

\* A page of the account, or of the admin, behind its guard.
canActivate(t) ==
    /\ Asks(t, "/account")
    /\ IF Carries(t) \in good THEN Shows(t, "account", <<>>) ELSE Refused(t)
    /\ UNCHANGED <<site, verified, good, signIns, jar>>

\* The same guard elsewhere: the filter shows an error, and leaves the cookie alone.
Elsewhere(t) ==
    /\ Asks(t, "POST /reviews")
    /\ IF Carries(t) \in good THEN Redirects(t, "/", <<>>) ELSE Shows(t, "error", <<>>)
    /\ UNCHANGED <<site, verified, good, signIns, jar>>

\* A token expires or its secret changes; an admin is deactivated, or activated again.
Withdraw ==
    /\ \/ \E s \in good : good' = good \ {s}
       \/ site = "admin" /\ good' = {1}
    /\ UNCHANGED <<site, verified, signIns, jar, tab>>

----------------------------------------------------------------------------

Init ==
    /\ site \in {"customer", "admin"}
    /\ verified \in BOOLEAN
    /\ good = IF site = "admin" THEN {1} ELSE {}
    /\ signIns = 0
    /\ jar = [session |-> NULL, oauth |-> NULL]
    /\ tab = [t \in Tabs |-> Shown(IF site = "admin" THEN "login" ELSE "home")]

Serve(t) ==
    \/ Page(t, "/", "home") \/ Page(t, "/reset", "reset")
    \/ loginForm(t, "/login", "login") \/ loginForm(t, "/register", "register")
    \/ login(t) \/ verify(t) \/ reset(t) \/ logout(t)
    \/ googleStart(t) \/ googleCallback(t)
    \/ canActivate(t) \/ Elsewhere(t)

Next ==
    \/ \E t \in Tabs :
         \/ Send(t) \/ Return(t) \/ Serve(t) \/ Receive(t)
    \/ Withdraw

Spec == Init /\ [][Next]_vars

\* The server answers and the browser goes on.
Fairness == \A t \in Tabs : WF_vars(Serve(t)) /\ WF_vars(Receive(t))

FairSpec == Spec /\ Fairness

----------------------------------------------------------------------------
(* Properties *)

TypeOK ==
    /\ site \in {"customer", "admin"} /\ verified \in BOOLEAN
    /\ signIns \in 0..MaxSignIns /\ good \subseteq 1..(MaxSignIns + 1)
    /\ jar \in [session : 1..MaxSignIns \cup {NULL}, oauth : Tabs \cup {NULL}]
    /\ \A t \in Tabs : tab[t].op \in {"page", "sent", "answered", "redirected"}

\* An invalid-but-present cookie must not make the browser go round between the sign-in
\* page and the account (ERR_TOO_MANY_REDIRECTS): what a tab asks for ends on a page,
\* whatever the other tabs do with the cookies, and however cookies turn invalid.
VisitEnds == \A t \in Tabs : tab[t].op = "sent" ~> tab[t].op = "page"

\* "Clear the (stale/expired) cookie": a refusal never takes a cookie that is good.
OnlyStaleIsCleared ==
    [][\A t \in Tabs :
         tab[t] = [op |-> "redirected", path |-> "/login", cookies |-> [session |-> NULL]]
         /\ site = "customer" /\ tab'[t] # tab[t] => jar.session \notin good]_vars
=============================================================================
