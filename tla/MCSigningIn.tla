---------------------------- MODULE MCSigningIn ----------------------------
(***************************************************************************)
(* Small instances of how a customer gets in: the one-time codes           *)
(* (OneTimeCodes, extended), and the cookies of the tabs (SignIn), which   *)
(* are the admin's too.  Neither waits for the other: a behaviour is one   *)
(* of the two, chosen at the start, with the other at rest.                *)
(***************************************************************************)
EXTENDS OneTimeCodes, TLC

CONSTANTS r1, r2, r3,
          Subjects,                         \* what the run's behaviours are about
          Tabs, MaxSignIns                  \* SignIn

VARIABLES
    shown,                                  \* what a behaviour is about
    site, verified, good, signIns, jar, tab \* SignIn

visitVars == <<site, verified, good, signIns, jar, tab>>

Visits == INSTANCE SignIn

ASSUME Visits!SignInAssumption /\ Subjects \subseteq {"codes", "visits"}

\* One tab asks for codes while another one types them.
AskAndVerify == (r1 :> {"register", "google", "ask"}) @@ (r2 :> {"verify"})

\* Two tabs that type codes.
TwoVerify == (r1 :> {"register", "google", "ask"}) @@ (r2 :> {"verify"}) @@ (r3 :> {"verify"})

\* At rest there is no customer yet, and the tabs show a page.
SigningInInit ==
    /\ shown \in Subjects
    /\ Init /\ Visits!Init
    /\ shown # "codes" => type = "EMAIL_VERIFY" /\ customer = NULL
    /\ shown # "visits" => site = "customer" /\ verified

SigningInNext ==
    /\ \/ shown = "codes" /\ Next /\ UNCHANGED visitVars
       \/ shown = "visits" /\ Visits!Next /\ UNCHANGED vars
    /\ UNCHANGED shown

\* What is at rest needs no fairness.
CodesSpec == SigningInInit /\ [][SigningInNext]_<<vars, visitVars, shown>> /\ Fairness
VisitsSpec == SigningInInit /\ [][SigningInNext]_<<vars, visitVars, shown>> /\ Visits!Fairness

----------------------------------------------------------------------------
(* Properties *)

\* Of SignIn: what a tab asks for ends on a page, and not between two redirects
\* (CustomerAuthGuard, SessionAuthGuard, AllExceptionsFilter).
VisitEnds == Visits!VisitEnds
=============================================================================
