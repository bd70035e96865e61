---------------------------- MODULE OneTimeCodes ----------------------------
(***************************************************************************)
(* A customer's account and the one-time codes mailed to verify its email, *)
(* to reset its password or, logged in, to change it; and Google sign-in,  *)
(* which makes or verifies the same account.  Every request reads, awaits  *)
(* bcrypt or the database, and writes.                                     *)
(***************************************************************************)
EXTENDS Naturals, FiniteSets, Functions

CONSTANTS Requests,      \* requests in flight
          Does,          \* what each of them may do
          Passwords,     \* what a form can carry: password and name
          Codes,         \* bound: codes in use at the same time
          OTP_TTL_MS, RESEND_COOLDOWN_MS,  \* in ticks
          MAX_ATTEMPTS,
          Patient,       \* the customer types a code only while the last mail is of use
          NULL

ASSUME OneTimeCodesAssumption ==
    /\ IsFiniteSet(Requests)
    /\ Does \in [Requests -> SUBSET {"register", "google", "ask", "verify"}]
    /\ RESEND_COOLDOWN_MS \in Nat /\ OTP_TTL_MS \in Nat /\ RESEND_COOLDOWN_MS < OTP_TTL_MS
    /\ MAX_ATTEMPTS \in Nat \ {0} /\ Patient \in BOOLEAN
    /\ NULL \notin Codes \cup Passwords

VARIABLES
    type,      \* what the codes are for; codes of two types never meet
    customer,  \* the Customer row, NULL when there is none
    otp,       \* the codes not consumed: how old, how often tried
    request,   \* what each request has read
    mailed,    \* the code handed to the mail server last
    spent      \* history: codes consumed, by whoever typed them or when another was asked for

vars == <<type, customer, otp, request, mailed, spent>>

Idle == [op |-> "idle"]
Continue(r, state) == request' = [request EXCEPT ![r] = state]
Step(r, op) == Continue(r, [request[r] EXCEPT !.op = op])
End(r) == Continue(r, Idle)

\* The latest code that is not consumed.
Latest == {c \in DOMAIN otp : \A d \in DOMAIN otp : otp[c].age <= otp[d].age}
Expired(c) == otp[c].age > OTP_TTL_MS

Useful == mailed \in Latest /\ ~Expired(mailed)

\* Codes are random: a new one is none of those that are around.
Fresh == Codes \ (DOMAIN otp \cup {mailed}
                  \cup {request[r].code : r \in {q \in Requests : request[q].op \in {"send", "proven"}}}
                  \cup {request[r].row : r \in {q \in Requests : request[q].op \in {"compare", "apply"}}})

----------------------------------------------------------------------------
(* Registration *)

RegisterReads(r) ==
    /\ request[r] = Idle /\ "register" \in Does[r] /\ type = "EMAIL_VERIFY"
    /\ IF customer # NULL /\ customer.verified
       THEN UNCHANGED request
       ELSE \E p \in Passwords :
              Continue(r, [op |-> "register", known |-> customer # NULL, password |-> p])
    /\ UNCHANGED <<type, customer, otp, mailed, spent>>

\* The row that was found keeps the rest of what it says.
Updated(r) == [customer EXCEPT !.password = request[r].password]

\* A second create meets the unique email.
register(r) ==
    /\ request[r].op = "register"
    /\ IF request[r].known
       THEN /\ customer' = Updated(r)
            /\ Continue(r, [op |-> "limit", registering |-> TRUE])
       ELSE IF customer = NULL
            THEN /\ customer' = [verified |-> FALSE, password |-> request[r].password]
                 /\ Continue(r, [op |-> "limit", registering |-> TRUE])
            ELSE /\ End(r)
                 /\ UNCHANGED customer
    /\ UNCHANGED <<type, otp, mailed, spent>>

----------------------------------------------------------------------------
(* Google sign-in: the email of the profile is that of the account.  An account found *)
(* by its googleId was verified when it got it, and nothing changes.                  *)

GoogleReads(r) ==
    /\ request[r] = Idle /\ "google" \in Does[r]
    /\ Continue(r, [op |-> "google", known |-> customer # NULL])
    /\ UNCHANGED <<type, customer, otp, mailed, spent>>

\* The account found is linked and counts as verified; a new one has no password.  A
\* second create meets the unique email.
googleUpsert(r) ==
    /\ request[r].op = "google"
    /\ customer' = IF request[r].known THEN [customer EXCEPT !.verified = TRUE]
                   ELSE IF customer = NULL THEN [verified |-> TRUE, password |-> NULL]
                   ELSE customer
    /\ End(r)
    /\ UNCHANGED <<type, otp, mailed, spent>>

----------------------------------------------------------------------------
(* Issuing a code *)

\* A reset needs an account that has a password.
MayAsk == customer # NULL /\ (type = "PASSWORD_RESET" => customer.password # NULL)

\* resendOtp and requestPasswordReset, both silent when there is no such account; and
\* requestPasswordChangeOtp with the current password (a wrong one ends the request).
Ask(r) ==
    /\ request[r] = Idle /\ "ask" \in Does[r]
    /\ IF MayAsk THEN Continue(r, [op |-> "limit", registering |-> FALSE])
                 ELSE UNCHANGED request
    /\ UNCHANGED <<type, customer, otp, mailed, spent>>

\* Mutant: the comparison the other way round.
LateEnough == \E c \in Latest : otp[c].age >= RESEND_COOLDOWN_MS

TooSoon == \E c \in Latest : otp[c].age < RESEND_COOLDOWN_MS

Limit(r) ==
    /\ request[r].op = "limit"
    /\ IF TooSoon THEN End(r) ELSE Step(r, "invalidate")
    /\ UNCHANGED <<type, customer, otp, mailed, spent>>

Invalidated == <<>>

Invalidate(r) ==
    /\ request[r].op = "invalidate"
    /\ otp' = Invalidated
    /\ spent' = spent \cup DOMAIN otp
    /\ Step(r, "create")
    /\ UNCHANGED <<type, customer, mailed>>

Create(r) ==
    /\ request[r].op = "create"
    /\ \E c \in Fresh :
         /\ otp' = [d \in DOMAIN otp \cup {c} |->
                      IF d = c THEN [age |-> 0, attempts |-> 0] ELSE otp[d]]
         /\ Continue(r, [op |-> "send", code |-> c])
         /\ spent' = spent \ {c}
    /\ UNCHANGED <<type, customer, mailed>>

Send(r) ==
    /\ request[r].op = "send"
    /\ mailed' = request[r].code
    /\ End(r)
    /\ UNCHANGED <<type, customer, otp, spent>>

\* The mail server or the database refuses, or the process stops, at any await: what was
\* done before is not undone.
Fails(r) ==
    /\ request[r] # Idle
    /\ End(r)
    /\ UNCHANGED <<type, customer, otp, mailed, spent>>

----------------------------------------------------------------------------
(* Verifying a code *)

\* Mutant: one try more than that.
ExhaustedLate(c) == otp[c].attempts > MAX_ATTEMPTS

Exhausted(c) == otp[c].attempts >= MAX_ATTEMPTS

\* changePasswordWithOtp: the current password, of an account that has one, comes first;
\* a wrong one ends the request.
ProvesPassword(r, code) ==
    /\ request[r] = Idle /\ "verify" \in Does[r] /\ type = "PASSWORD_CHANGE"
    /\ Patient => Useful
    /\ \E current \in Passwords :
         /\ customer.password \in {NULL, current}
         /\ Continue(r, [op |-> "proven", code |-> code])
    /\ UNCHANGED <<type, customer, otp, mailed, spent>>

\* A request with this code gets to verifyOtp.
Verifies(r, code) ==
    IF type = "PASSWORD_CHANGE"
    THEN request[r].op = "proven" /\ request[r].code = code
    ELSE request[r] = Idle /\ "verify" \in Does[r] /\ (Patient => Useful)

VerifyReads(r, code) ==
    /\ Verifies(r, code)
    /\ customer # NULL
    /\ LET valid == {row \in Latest : ~Expired(row)}
       IN  \/ /\ valid = {}
              /\ End(r)
              /\ UNCHANGED <<otp, spent>>
           \/ \E row \in valid :
                IF Exhausted(row)
                THEN /\ otp' = Restrict(otp, DOMAIN otp \ {row})
                     /\ spent' = spent \cup {row}
                     /\ End(r)
                ELSE /\ \E p \in Passwords :
                          Continue(r, [op |-> "compare", row |-> row, code |-> code, password |-> p])
                     /\ UNCHANGED <<otp, spent>>
    /\ UNCHANGED <<type, customer, mailed>>

Matches(r) == request[r].code = request[r].row

\* Mutant: a code is consumed by any try.
UsedUp(r) == Restrict(otp, DOMAIN otp \ {request[r].row})

\* An attempt more, and consumed when it was right.
Tried(r) ==
    [c \in DOMAIN otp \ (IF Matches(r) THEN {request[r].row} ELSE {}) |->
        IF c = request[r].row THEN [otp[c] EXCEPT !.attempts = @ + 1] ELSE otp[c]]

Compare(r) ==
    /\ request[r].op = "compare"
    /\ otp' = Tried(r)
    /\ IF Matches(r) THEN /\ spent' = spent \cup {request[r].row}
                          /\ Step(r, "apply")
                     ELSE /\ End(r)
                          /\ UNCHANGED spent
    /\ UNCHANGED <<type, customer, mailed>>

\* The end of verifyOtp, resetPassword or changePasswordWithOtp.
Apply(r) ==
    /\ request[r].op = "apply"
    /\ customer' = IF type = "EMAIL_VERIFY"
                   THEN [customer EXCEPT !.verified = TRUE]
                   ELSE [customer EXCEPT !.password = request[r].password]
    /\ End(r)
    /\ UNCHANGED <<type, otp, mailed, spent>>

----------------------------------------------------------------------------

Tick ==
    /\ otp' = [c \in DOMAIN otp |->
                 IF Expired(c) THEN otp[c] ELSE [otp[c] EXCEPT !.age = @ + 1]]
    /\ UNCHANGED <<type, customer, request, mailed, spent>>

Init ==
    /\ type \in {"EMAIL_VERIFY", "PASSWORD_RESET", "PASSWORD_CHANGE"}
    /\ customer \in [verified : BOOLEAN, password : Passwords]
                      \cup [verified : {TRUE}, password : {NULL}]  \* one that Google made
                      \cup IF type = "EMAIL_VERIFY" THEN {NULL} ELSE {}
    /\ otp = <<>>
    /\ request = [r \in Requests |-> Idle]
    /\ mailed = NULL
    /\ spent = {}

Next ==
    \/ \E r \in Requests :
         \/ RegisterReads(r) \/ register(r)
         \/ GoogleReads(r) \/ googleUpsert(r)
         \/ Ask(r) \/ Limit(r) \/ Invalidate(r) \/ Create(r) \/ Send(r) \/ Fails(r)
         \/ \E code \in Codes : ProvesPassword(r, code) \/ VerifyReads(r, code)
         \/ Compare(r) \/ Apply(r)
    \/ Tick

Spec == Init /\ [][Next]_vars

\* What the server does next of a request.
Serves(r) ==
    \/ register(r) \/ googleUpsert(r)
    \/ Limit(r) \/ Invalidate(r) \/ Create(r) \/ Send(r)
    \/ Compare(r) \/ Apply(r) \/ Fails(r)

\* The mail comes before the code expires.
InTime(r) == request[r].op = "send" /\ request[r].code \in DOMAIN otp /\ ~Expired(request[r].code)

\* The server runs what it has started and time passes.  The customer asks for a code
\* again while the one in the mailbox is no use, and does not for ever mistype one that
\* is; no step of the server fails for ever, nor is the mail for ever late.
Fairness ==
    /\ WF_vars(Tick)
    /\ \A r \in Requests : WF_vars(Serves(r))
    /\ SF_vars(\E r \in Requests : ~Useful /\ Ask(r))
    /\ SF_vars(\E r \in Requests : ~TooSoon /\ Limit(r)) /\ SF_vars(\E r \in Requests : Invalidate(r))
    /\ SF_vars(\E r \in Requests : Create(r)) /\ SF_vars(\E r \in Requests : InTime(r) /\ Send(r))
    /\ SF_vars(\E r \in Requests : Useful /\ ~Exhausted(mailed) /\ VerifyReads(r, mailed))
    /\ SF_vars(\E r \in Requests : request[r].op = "compare" /\ Matches(r) /\ Compare(r)) /\ SF_vars(\E r \in Requests : Apply(r))

FairSpec == Spec /\ Fairness

----------------------------------------------------------------------------
(* Properties *)

\* The requests that may try a code.
Verifiers == {r \in Requests : "verify" \in Does[r]}

TypeOK ==
    /\ type \in {"EMAIL_VERIFY", "PASSWORD_RESET", "PASSWORD_CHANGE"}
    /\ customer \in [verified : BOOLEAN, password : Passwords \cup {NULL}] \cup {NULL}
    /\ DOMAIN otp \subseteq Codes
    /\ \A c \in DOMAIN otp : otp[c].age \in 0..(OTP_TTL_MS + 1) /\ otp[c].attempts \in Nat
    /\ mailed \in Codes \cup {NULL}
    /\ spent \subseteq Codes
    /\ \A r \in Requests : request[r].op \in {"idle", "register", "google", "limit", "invalidate",
                                             "create", "send", "proven", "compare", "apply"}

\* "Invalidate any prior unconsumed codes of this type": there is one code at a time.
OneLiveCode == Cardinality(DOMAIN otp) <= 1

\* The code the customer was mailed last is the one that is looked up until it was typed,
\* tried too often, or another one asked for: that consumes it, also when nothing is
\* mailed in the end.
LatestMailWorks == mailed # NULL /\ mailed \notin spent => Latest = {mailed}

\* However many requests try a code at the same time, each reading the count before the
\* others raise it (verifyOtp): when it is MAX_ATTEMPTS - 1 for all of them, each gets one
\* more try, and no sequence of steps makes it worse.
TriesAreLimited ==
    \A c \in DOMAIN otp : otp[c].attempts < MAX_ATTEMPTS + Cardinality(Verifiers)

\* "Enforces expiry + attempt limit" (verifyOtp).
AttemptLimit == \A c \in DOMAIN otp : otp[c].attempts <= MAX_ATTEMPTS

\* "One-time code" (issueOtp): two requests do not both go on with one.
AcceptedOnce ==
    \A r, q \in Requests :
       r # q /\ request[r].op = "apply" /\ request[q].op = "apply" => request[r].row # request[q].row

\* A code that was mailed and typed in time verifies the email, however often the
\* customer mistypes it, the code expires or a request fails half way.
GetsVerified == (type = "EMAIL_VERIFY" /\ customer # NULL) ~> (customer # NULL /\ customer.verified)
=============================================================================
