------------------------- MODULE OneTimeCodesProofs -------------------------
(***************************************************************************)
(* Any number of requests and of codes, any cooldown, life and number of   *)
(* attempts.  The code mailed last is the one that works as long as one    *)
(* request at a time issues codes, however many try them, and wherever a   *)
(* request fails.  However many try a code at once, it is tried no more    *)
(* often than each of them can make it be.                                 *)
(***************************************************************************)
EXTENDS OneTimeCodes, FiniteSetTheorems, TLAPS

\* The requests that may issue codes.
Issuers == {r \in Requests : Does[r] \cap {"register", "ask"} # {}}

\* The customer asks for one code at a time.
OneIssuer == \A r, q \in Issuers : r = q

Request ==
    [op : {"idle"}]
      \cup [op : {"register"}, known : BOOLEAN, password : Passwords]
      \cup [op : {"google"}, known : BOOLEAN]
      \cup [op : {"limit", "invalidate", "create"}, registering : BOOLEAN]
      \cup [op : {"send", "proven"}, code : Codes]
      \cup [op : {"compare", "apply"}, row : Codes, code : Codes, password : Passwords]

\* A request is in the middle of what it may do.
Allowed(r, op) ==
    /\ op \in {"register", "limit", "invalidate", "create", "send"} => r \in Issuers
    /\ op \in {"proven", "compare", "apply"} => r \in Verifiers

Row == [age : 0..(OTP_TTL_MS + 1), attempts : Nat]

Typed ==
    /\ request \in [Requests -> Request]
    /\ \A r \in Requests : Allowed(r, request[r].op)
    /\ DOMAIN otp \subseteq Codes
    /\ \A c \in DOMAIN otp : otp[c] \in Row
    /\ mailed \in Codes \cup {NULL}
    /\ spent \subseteq Codes

\* What is live is the code on its way, or else the one that was mailed last.
LiveInv ==
    /\ \A r \in Requests : request[r].op = "create" => DOMAIN otp = {}
    /\ \A r \in Requests : request[r].op = "send" =>
         /\ DOMAIN otp \subseteq {request[r].code}
         /\ request[r].code \in spent \cup DOMAIN otp
    /\ \A r \in Requests : request[r].op \in {"create", "send"} => mailed \in spent \cup {NULL}
    /\ mailed \in spent \cup {NULL} \/ DOMAIN otp = {mailed}
    /\ \A c, d \in DOMAIN otp : c = d

\* The requests about to raise the count of a code.
Comparing(c) == {r \in Requests : request[r].op = "compare" /\ request[r].row = c}

\* What each of them may still add to it.
TriesInv ==
    \A c \in DOMAIN otp :
        otp[c].attempts + Cardinality(Comparing(c)) < MAX_ATTEMPTS + Cardinality(Verifiers)

Customer == [verified : BOOLEAN, password : Passwords \cup {NULL}]

\* A request that goes by an account has one.
CustomerInv ==
    /\ type \in {"EMAIL_VERIFY", "PASSWORD_RESET", "PASSWORD_CHANGE"}
    /\ customer \in Customer \cup {NULL}
    /\ \A r \in Requests :
         /\ request[r].op \in {"register", "google"} => (request[r].known => customer \in Customer)
         /\ request[r].op \in {"compare", "apply"} => customer \in Customer

----------------------------------------------------------------------------
(* The states of a request *)

LEMMA Shape ==
    ASSUME NEW s \in Request
    PROVE  /\ s.op \in {"idle", "register", "google", "limit", "invalidate", "create", "send",
                       "proven", "compare", "apply"}
           /\ s.op \in {"register"} => s \in [op : {"register"}, known : BOOLEAN, password : Passwords]
           /\ s.op \in {"limit", "invalidate", "create"}
                => s \in [op : {"limit", "invalidate", "create"}, registering : BOOLEAN]
           /\ s.op \in {"send", "proven"} => s \in [op : {"send", "proven"}, code : Codes]
           /\ s.op \in {"compare", "apply"}
                => s \in [op : {"compare", "apply"}, row : Codes, code : Codes, password : Passwords]
BY DEF Request

\* The states a request goes on to.
LEMMA States ==
    /\ Idle \in Request /\ Idle.op = "idle"
    /\ \A known \in BOOLEAN, p \in Passwords :
         [op |-> "register", known |-> known, password |-> p] \in Request
    /\ \A known \in BOOLEAN : [op |-> "google", known |-> known] \in Request
    /\ [op |-> "limit", registering |-> TRUE] \in Request
    /\ [op |-> "limit", registering |-> FALSE] \in Request
    /\ \A c \in Codes : [op |-> "send", code |-> c] \in Request
                      /\ [op |-> "proven", code |-> c] \in Request
    /\ \A row, c \in Codes, p \in Passwords :
         [op |-> "compare", row |-> row, code |-> c, password |-> p] \in Request
BY DEF Idle, Request

LEMMA StepState ==
    ASSUME NEW s \in Request, NEW op,
           \/ s.op \in {"limit", "invalidate"} /\ op \in {"invalidate", "create"}
           \/ s.op = "compare" /\ op = "apply"
    PROVE  [s EXCEPT !.op = op] \in Request /\ [s EXCEPT !.op = op].op = op
<1>1. CASE s.op \in {"limit", "invalidate"}
    <2>1. s \in [op : {"limit", "invalidate", "create"}, registering : BOOLEAN]
        BY <1>1, Shape
    <2> QED BY <1>1, <2>1 DEF Request
<1>2. CASE s.op = "compare"
    <2>1. s \in [op : {"compare", "apply"}, row : Codes, code : Codes, password : Passwords]
        BY <1>2, Shape
    <2> QED BY <1>2, <2>1 DEF Request
<1> QED BY <1>1, <1>2

\* Request r goes on with s, the others as they were, and the codes are properly typed.
Moves(r, s) ==
    /\ Continue(r, s)
    /\ s \in Request
    /\ Allowed(r, s.op)

LEMMA MovesOn ==
    ASSUME Typed, NEW r \in Requests, NEW s, Moves(r, s)
    PROVE  /\ request' \in [Requests -> Request]
           /\ request'[r] = s
           /\ \A q \in Requests \ {r} : request'[q] = request[q]
           /\ \A q \in Requests : Allowed(q, request'[q].op)
BY DEF Typed, Moves, Continue

----------------------------------------------------------------------------
(* The steps, by what they do to the codes *)

Writing == {"create", "send"}

\* A step that leaves the codes alone, and neither begins to issue one nor to try one.
Quiet(r) ==
    /\ UNCHANGED <<otp, mailed, spent>>
    /\ \/ UNCHANGED request
       \/ \E s : /\ Moves(r, s)
                 /\ request[r].op \notin Writing
                 /\ s.op \notin Writing \cup {"compare"}

LEMMA QuietMove ==
    ASSUME NEW r \in Requests, NEW s \in Request, Continue(r, s), Allowed(r, s.op),
           UNCHANGED <<otp, mailed, spent>>,
           request[r].op \notin Writing, s.op \notin Writing \cup {"compare"}
    PROVE  Quiet(r)
BY DEF Quiet, Moves

LEMMA AsksAreQuiet ==
    ASSUME Typed, NEW r \in Requests,
           RegisterReads(r) \/ register(r) \/ GoogleReads(r) \/ googleUpsert(r) \/ Ask(r) \/ Limit(r)
    PROVE  Quiet(r)
<1>1. UNCHANGED <<otp, mailed, spent>>
    BY DEF RegisterReads, register, GoogleReads, googleUpsert, Ask, Limit
<1>2. Does[r] \cap {"register", "ask"} # {} <=> r \in Issuers
    BY DEF Issuers
<1>3. CASE RegisterReads(r)
    <2> DEFINE known == customer # NULL
    <2>1. \/ UNCHANGED request
          \/ \E p \in Passwords : Continue(r, [op |-> "register", known |-> known, password |-> p])
        BY <1>3 DEF RegisterReads
    <2>2. "register" \in Does[r] /\ known \in BOOLEAN
        BY <1>3 DEF RegisterReads
    <2>3. r \in Issuers /\ request[r].op = "idle"
        BY <1>2, <1>3, <2>2, States DEF RegisterReads
    <2> HIDE DEF known
    <2>4. \A p \in Passwords : /\ [op |-> "register", known |-> known, password |-> p] \in Request
                              /\ [op |-> "register", known |-> known, password |-> p].op = "register"
        BY <2>2, States
    <2>5. UNCHANGED request \/ \E s \in Request : Continue(r, s) /\ s.op = "register"
        BY <2>1, <2>4
    <2>6. UNCHANGED request => Quiet(r)
        BY <1>1 DEF Quiet
    <2> QED BY <1>1, <2>3, <2>5, <2>6, QuietMove DEF Allowed, Writing
<1>4. CASE register(r)
    <2>1. \/ Continue(r, [op |-> "limit", registering |-> TRUE])
          \/ Continue(r, Idle)
        BY <1>4 DEF register, End
    <2>2. r \in Issuers /\ request[r].op = "register"
        BY <1>4 DEF register, Typed, Allowed
    <2> QED BY <1>1, <2>1, <2>2, States DEF Quiet, Moves, Allowed, Writing
<1>5. CASE GoogleReads(r)
    <2> DEFINE known == customer # NULL
    <2>1. Continue(r, [op |-> "google", known |-> known])
        BY <1>5 DEF GoogleReads
    <2>2. known \in BOOLEAN /\ request[r].op = "idle"
        BY <1>5, States DEF GoogleReads
    <2> HIDE DEF known
    <2>3. \E s \in Request : Continue(r, s) /\ s.op = "google"
        BY <2>1, <2>2, States
    <2> QED BY <1>1, <2>2, <2>3, QuietMove DEF Allowed, Writing
<1>6. CASE googleUpsert(r)
    <2>1. Continue(r, Idle) /\ request[r].op = "google"
        BY <1>6 DEF googleUpsert, End
    <2> QED BY <1>1, <2>1, States DEF Quiet, Moves, Allowed, Writing
<1>7. CASE Ask(r)
    <2>1. \/ UNCHANGED request
          \/ Continue(r, [op |-> "limit", registering |-> FALSE])
        BY <1>7 DEF Ask
    <2>2. "ask" \in Does[r]
        BY <1>7 DEF Ask
    <2>3. r \in Issuers /\ request[r].op = "idle"
        BY <1>2, <1>7, <2>2, States DEF Ask
    <2> QED BY <1>1, <2>1, <2>3, States DEF Quiet, Moves, Allowed, Writing
<1>8. CASE Limit(r)
    <2>1. /\ request[r] \in Request /\ request[r].op = "limit" /\ r \in Issuers
        BY <1>8 DEF Limit, Typed, Allowed
    <2>2. \/ Continue(r, Idle)
          \/ Continue(r, [request[r] EXCEPT !.op = "invalidate"])
        BY <1>8 DEF Limit, End, Step
    <2>3. /\ [request[r] EXCEPT !.op = "invalidate"] \in Request
          /\ [request[r] EXCEPT !.op = "invalidate"].op = "invalidate"
        BY <2>1, StepState
    <2> QED BY <1>1, <2>1, <2>2, <2>3, States DEF Quiet, Moves, Allowed, Writing
<1> QED BY <1>3, <1>4, <1>5, <1>6, <1>7, <1>8

LEMMA ProvesIsQuiet ==
    ASSUME Typed, NEW r \in Requests, NEW code \in Codes, ProvesPassword(r, code)
    PROVE  Quiet(r)
<1>1. /\ UNCHANGED <<otp, mailed, spent>>
      /\ Continue(r, [op |-> "proven", code |-> code])
      /\ r \in Verifiers /\ request[r].op = "idle"
    BY States DEF ProvesPassword, Verifiers
<1>2. \E s \in Request : Continue(r, s) /\ s.op = "proven"
    BY <1>1, States
<1> QED BY <1>1, <1>2, QuietMove DEF Allowed, Writing

LEMMA ApplyIsQuiet ==
    ASSUME Typed, NEW r \in Requests, Apply(r)
    PROVE  Quiet(r)
<1>1. /\ UNCHANGED <<otp, mailed, spent>>
      /\ Continue(r, Idle)
      /\ request[r].op = "apply"
    BY DEF Apply, End
<1> QED BY <1>1, States DEF Quiet, Moves, Allowed, Writing

\* The four steps of issueOtp on the codes.
LEMMA Issues ==
    ASSUME Typed, NEW r \in Requests
    PROVE  /\ Invalidate(r) =>
                /\ request[r].op = "invalidate" /\ r \in Issuers
                /\ DOMAIN otp' = {} /\ UNCHANGED mailed /\ spent' = spent \cup DOMAIN otp
                /\ \E s : Moves(r, s) /\ s.op = "create"
           /\ Create(r) =>
                /\ request[r].op = "create" /\ r \in Issuers
                /\ UNCHANGED mailed
                /\ \E c \in Fresh :
                     /\ DOMAIN otp' = DOMAIN otp \cup {c}
                     /\ otp'[c] = [age |-> 0, attempts |-> 0]
                     /\ \A d \in DOMAIN otp : otp'[d] = otp[d]
                     /\ spent' = spent \ {c}
                     /\ Moves(r, [op |-> "send", code |-> c])
           /\ Send(r) =>
                /\ request[r].op = "send" /\ r \in Issuers
                /\ UNCHANGED <<otp, spent>>
                /\ mailed' = request[r].code
                /\ Moves(r, Idle)
           /\ Fails(r) => UNCHANGED <<otp, mailed, spent>> /\ Moves(r, Idle)
<1>0. request[r] \in Request /\ Allowed(r, request[r].op)
    BY DEF Typed
<1>1. ASSUME Invalidate(r)
      PROVE  /\ request[r].op = "invalidate" /\ r \in Issuers
             /\ DOMAIN otp' = {} /\ UNCHANGED mailed /\ spent' = spent \cup DOMAIN otp
             /\ \E s : Moves(r, s) /\ s.op = "create"
    <2>1. /\ request[r].op = "invalidate" /\ UNCHANGED mailed /\ spent' = spent \cup DOMAIN otp
          /\ otp' = <<>>
          /\ Continue(r, [request[r] EXCEPT !.op = "create"])
        BY <1>1 DEF Invalidate, Invalidated, Step
    <2>2. r \in Issuers
        BY <1>0, <2>1 DEF Allowed
    <2>3. /\ [request[r] EXCEPT !.op = "create"] \in Request
          /\ [request[r] EXCEPT !.op = "create"].op = "create"
        BY <1>0, <2>1, StepState
    <2>4. \E s \in Request : Continue(r, s) /\ s.op = "create"
        BY <2>1, <2>3
    <2>5. DOMAIN otp' = {}
        BY <2>1
    <2> QED BY <2>1, <2>2, <2>4, <2>5 DEF Moves, Allowed
<1>2. ASSUME Create(r)
      PROVE  /\ request[r].op = "create" /\ r \in Issuers
             /\ UNCHANGED mailed
             /\ \E c \in Fresh :
                     /\ DOMAIN otp' = DOMAIN otp \cup {c}
                     /\ otp'[c] = [age |-> 0, attempts |-> 0]
                     /\ \A d \in DOMAIN otp : otp'[d] = otp[d]
                     /\ spent' = spent \ {c}
                     /\ Moves(r, [op |-> "send", code |-> c])
    <2>1. request[r].op = "create" /\ UNCHANGED mailed /\ r \in Issuers
        BY <1>0, <1>2 DEF Create, Allowed
    <2>2. PICK c \in Fresh : /\ otp' = [d \in DOMAIN otp \cup {c} |->
                                          IF d = c THEN [age |-> 0, attempts |-> 0] ELSE otp[d]]
                             /\ Continue(r, [op |-> "send", code |-> c])
                             /\ spent' = spent \ {c}
        BY <1>2 DEF Create
    <2>4. c \in Codes /\ c \notin DOMAIN otp
        BY DEF Fresh
    <2>3. /\ DOMAIN otp' = DOMAIN otp \cup {c}
          /\ otp'[c] = [age |-> 0, attempts |-> 0]
          /\ \A d \in DOMAIN otp : otp'[d] = otp[d]
        BY <2>2, <2>4
    <2>5. Moves(r, [op |-> "send", code |-> c])
        BY <2>1, <2>2, <2>4, States DEF Moves, Allowed
    <2> QED BY <2>1, <2>2, <2>3, <2>5
<1>3. ASSUME Send(r)
      PROVE  /\ request[r].op = "send" /\ r \in Issuers
             /\ UNCHANGED <<otp, spent>>
             /\ mailed' = request[r].code
             /\ Moves(r, Idle)
    <2>1. /\ request[r].op = "send"
          /\ UNCHANGED <<otp, spent>>
          /\ mailed' = request[r].code
          /\ Continue(r, Idle)
        BY <1>3 DEF Send, End
    <2> QED BY <1>0, <2>1, States DEF Moves, Allowed
<1>4. ASSUME Fails(r)
      PROVE  UNCHANGED <<otp, mailed, spent>> /\ Moves(r, Idle)
    BY <1>4, States DEF Fails, End, Moves, Allowed
<1> QED BY <1>1, <1>2, <1>3, <1>4

\* verifyOtp reads a code: there is none, it was tried too often, or it will be compared.
LEMMA Reads ==
    ASSUME Typed, NEW r \in Requests, NEW code \in Codes, VerifyReads(r, code)
    PROVE  /\ r \in Verifiers /\ request[r].op \notin Writing /\ UNCHANGED mailed
           /\ \/ UNCHANGED <<otp, spent>> /\ Moves(r, Idle)
              \/ \E row \in DOMAIN otp :
                   /\ DOMAIN otp' = DOMAIN otp \ {row}
                   /\ \A d \in DOMAIN otp' : otp'[d] = otp[d]
                   /\ spent' = spent \cup {row}
                   /\ Moves(r, Idle)
              \/ \E row \in DOMAIN otp :
                   /\ ~ Exhausted(row)
                   /\ UNCHANGED <<otp, spent>>
                   /\ \E s : Moves(r, s) /\ s.op = "compare" /\ s.row = row
<1>1. r \in Verifiers /\ request[r].op \in {"idle", "proven"} /\ UNCHANGED mailed
    BY States DEF VerifyReads, Verifies, Verifiers, Typed, Allowed
<1>2. Idle \in Request /\ Allowed(r, Idle.op)
    BY States DEF Allowed
<1>3. \/ UNCHANGED <<otp, spent>> /\ Continue(r, Idle)
      \/ \E row \in Latest :
           IF Exhausted(row)
             THEN /\ otp' = Restrict(otp, DOMAIN otp \ {row})
                  /\ spent' = spent \cup {row}
                  /\ Continue(r, Idle)
             ELSE /\ \E p \in Passwords :
                       Continue(r, [op |-> "compare", row |-> row, code |-> code, password |-> p])
                  /\ UNCHANGED <<otp, spent>>
    BY DEF VerifyReads, End
<1>4. CASE UNCHANGED <<otp, spent>> /\ Continue(r, Idle)
    BY <1>1, <1>2, <1>4 DEF Moves, Writing
<1>5. ASSUME NEW row \in Latest, Exhausted(row),
             otp' = Restrict(otp, DOMAIN otp \ {row}),
             spent' = spent \cup {row}, Continue(r, Idle)
      PROVE  \E x \in DOMAIN otp :
                   /\ DOMAIN otp' = DOMAIN otp \ {x}
                   /\ \A d \in DOMAIN otp' : otp'[d] = otp[d]
                   /\ spent' = spent \cup {x}
                   /\ Moves(r, Idle)
    <2>1. row \in DOMAIN otp
        BY DEF Latest
    <2>2. /\ DOMAIN otp' = DOMAIN otp \ {row}
          /\ \A d \in DOMAIN otp' : otp'[d] = otp[d]
        BY <1>5 DEF Restrict
    <2>3. Moves(r, Idle)
        BY <1>2, <1>5 DEF Moves
    <2> QED BY <1>5, <2>1, <2>2, <2>3
<1>6. ASSUME NEW row \in Latest, ~ Exhausted(row), UNCHANGED <<otp, spent>>, NEW p \in Passwords,
             Continue(r, [op |-> "compare", row |-> row, code |-> code, password |-> p])
      PROVE  \E x \in DOMAIN otp :
                   /\ ~ Exhausted(x)
                   /\ UNCHANGED <<otp, spent>>
                   /\ \E s : Moves(r, s) /\ s.op = "compare" /\ s.row = x
    <2> DEFINE s == [op |-> "compare", row |-> row, code |-> code, password |-> p]
    <2>1. row \in DOMAIN otp /\ row \in Codes
        BY DEF Latest, Typed
    <2>2. s \in Request /\ s.op = "compare" /\ s.row = row
        BY <2>1, States
    <2> HIDE DEF s
    <2>3. Moves(r, s)
        BY <1>1, <1>6, <2>2 DEF Moves, Allowed, s
    <2> QED BY <1>6, <2>1, <2>2, <2>3
<1> QED BY <1>1, <1>3, <1>4, <1>5, <1>6 DEF Writing

\* ... and compares it.
LEMMA Compares ==
    ASSUME Typed, NEW r \in Requests, Compare(r)
    PROVE  /\ r \in Verifiers /\ request[r].op = "compare" /\ UNCHANGED mailed
           /\ \A d \in DOMAIN otp' :
                /\ d \in DOMAIN otp
                /\ d # request[r].row => otp'[d] = otp[d]
                /\ otp'[d] \in Row
                /\ d = request[r].row => otp'[d].attempts = otp[d].attempts + 1
           /\ \/ /\ DOMAIN otp' = DOMAIN otp \ {request[r].row}
                 /\ spent' = spent \cup {request[r].row}
                 /\ \E s : Moves(r, s) /\ s.op = "apply"
              \/ /\ DOMAIN otp' = DOMAIN otp /\ UNCHANGED spent
                 /\ Moves(r, Idle)
<1>1. request[r] \in Request /\ request[r].op = "compare" /\ r \in Verifiers /\ UNCHANGED mailed
    BY DEF Compare, Typed, Allowed
<1>2. otp' = [c \in DOMAIN otp \ (IF Matches(r) THEN {request[r].row} ELSE {}) |->
                IF c = request[r].row THEN [otp[c] EXCEPT !.attempts = @ + 1] ELSE otp[c]]
    BY DEF Compare, Tried
<1>3. \A d \in DOMAIN otp : /\ otp[d] \in Row /\ [otp[d] EXCEPT !.attempts = @ + 1] \in Row
                            /\ [otp[d] EXCEPT !.attempts = @ + 1].attempts = otp[d].attempts + 1
    BY DEF Typed, Row
<1>4. \A d \in DOMAIN otp' :
        /\ d \in DOMAIN otp
        /\ d # request[r].row => otp'[d] = otp[d]
        /\ otp'[d] \in Row
        /\ d = request[r].row => otp'[d].attempts = otp[d].attempts + 1
    BY <1>2, <1>3
<1>5. CASE Matches(r)
    <2>1. /\ DOMAIN otp' = DOMAIN otp \ {request[r].row}
          /\ spent' = spent \cup {request[r].row}
          /\ Continue(r, [request[r] EXCEPT !.op = "apply"])
        BY <1>2, <1>5 DEF Compare, Step
    <2>2. \E s \in Request : Continue(r, s) /\ s.op = "apply"
        BY <1>1, <2>1, StepState
    <2>3. \E s : Moves(r, s) /\ s.op = "apply"
        BY <1>1, <2>2 DEF Moves, Allowed
    <2> QED BY <1>1, <1>4, <2>1, <2>3
<1>6. CASE ~ Matches(r)
    <2>1. DOMAIN otp' = DOMAIN otp /\ UNCHANGED spent /\ Continue(r, Idle)
        BY <1>2, <1>6 DEF Compare, End
    <2>2. Moves(r, Idle)
        BY <2>1, States DEF Moves, Allowed
    <2> QED BY <1>1, <1>4, <2>1, <2>2
<1> QED BY <1>5, <1>6

LEMMA Ticks ==
    ASSUME Typed, Tick
    PROVE  /\ UNCHANGED <<request, mailed, spent>>
           /\ DOMAIN otp' = DOMAIN otp
           /\ \A d \in DOMAIN otp : otp'[d] \in Row /\ otp'[d].attempts = otp[d].attempts
<1>1. OTP_TTL_MS \in Nat
    BY OneTimeCodesAssumption DEF OneTimeCodesAssumption
<1>2. \A d \in DOMAIN otp : otp[d] \in Row
    BY DEF Typed
<1>3. otp' = [c \in DOMAIN otp |-> IF Expired(c) THEN otp[c] ELSE [otp[c] EXCEPT !.age = @ + 1]]
    BY DEF Tick
<1>4. ASSUME NEW d \in DOMAIN otp
      PROVE  otp'[d] \in Row /\ otp'[d].attempts = otp[d].attempts
    <2>1. otp[d] \in Row
        BY <1>2
    <2>2. CASE Expired(d)
        BY <1>3, <2>1, <2>2
    <2>3. CASE ~ Expired(d)
        <3>1. otp'[d] = [otp[d] EXCEPT !.age = @ + 1]
            BY <1>3, <2>3
        <3>2. otp[d].age + 1 \in 0..(OTP_TTL_MS + 1)
            BY <1>1, <2>1, <2>3 DEF Expired, Row
        <3> QED BY <2>1, <3>1, <3>2 DEF Row
    <2> QED BY <2>2, <2>3
<1> QED BY <1>3, <1>4 DEF Tick

LEMMA Cases ==
    ASSUME Typed, [Next]_vars
    PROVE  \/ UNCHANGED <<request, otp, mailed, spent>>
           \/ Tick
           \/ \E r \in Requests : \/ Quiet(r)
                                  \/ Invalidate(r) \/ Create(r) \/ Send(r) \/ Fails(r)
                                  \/ \E code \in Codes : VerifyReads(r, code)
                                  \/ Compare(r)
BY AsksAreQuiet, ProvesIsQuiet, ApplyIsQuiet DEF Next, vars

----------------------------------------------------------------------------
(* The type of what a step leaves *)

LEMMA TypedInit == Init => Typed
BY States DEF Init, Typed, Allowed

LEMMA TypedStep == Typed /\ [Next]_vars => Typed'
<1> SUFFICES ASSUME Typed, [Next]_vars PROVE Typed'
    OBVIOUS
<1>1. CASE UNCHANGED <<request, otp, mailed, spent>>
    BY <1>1 DEF Typed
<1>2. CASE Tick
    BY <1>2, Ticks DEF Typed
<1>3. ASSUME NEW r \in Requests, NEW s, Moves(r, s),
             DOMAIN otp' \subseteq Codes, \A c \in DOMAIN otp' : otp'[c] \in Row,
             mailed' \in Codes \cup {NULL}, spent' \subseteq Codes
      PROVE  Typed'
    BY <1>3, MovesOn DEF Typed
<1>4. ASSUME NEW r \in Requests, Quiet(r) PROVE Typed'
    BY <1>3, <1>4 DEF Typed, Quiet
<1>5. ASSUME NEW r \in Requests, Invalidate(r) PROVE Typed'
    <2>1. /\ DOMAIN otp' = {} /\ UNCHANGED mailed /\ spent' = spent \cup DOMAIN otp
          /\ \E s : Moves(r, s)
        BY <1>5, Issues
    <2> QED BY <1>3, <2>1 DEF Typed
<1>6. ASSUME NEW r \in Requests, Create(r) PROVE Typed'
    <2>1. PICK c \in Fresh : /\ DOMAIN otp' = DOMAIN otp \cup {c}
                             /\ otp'[c] = [age |-> 0, attempts |-> 0]
                             /\ \A d \in DOMAIN otp : otp'[d] = otp[d]
                             /\ spent' = spent \ {c} /\ UNCHANGED mailed
                             /\ Moves(r, [op |-> "send", code |-> c])
        BY <1>6, Issues
    <2>2. otp'[c] \in Row /\ c \in Codes
        BY <2>1, OneTimeCodesAssumption DEF OneTimeCodesAssumption, Row, Fresh
    <2> QED BY <1>3, <2>1, <2>2 DEF Typed
<1>7. ASSUME NEW r \in Requests, Send(r) PROVE Typed'
    <2>1. /\ UNCHANGED <<otp, spent>> /\ mailed' = request[r].code
          /\ Moves(r, Idle) /\ request[r].op = "send"
        BY <1>7, Issues
    <2>2. request[r].code \in Codes
        BY <2>1, Shape DEF Typed
    <2> QED BY <1>3, <2>1, <2>2 DEF Typed
<1>8. ASSUME NEW r \in Requests, NEW code \in Codes, VerifyReads(r, code) PROVE Typed'
    <2>1. /\ UNCHANGED mailed /\ \E s : Moves(r, s)
          /\ \A d \in DOMAIN otp' : d \in DOMAIN otp /\ otp'[d] = otp[d]
          /\ \A c \in spent' : c \in spent \cup DOMAIN otp
        BY <1>8, Reads
    <2> QED BY <1>3, <2>1 DEF Typed
<1>9. ASSUME NEW r \in Requests, Compare(r) PROVE Typed'
    <2>1. /\ UNCHANGED mailed /\ \E s : Moves(r, s)
          /\ \A d \in DOMAIN otp' : d \in DOMAIN otp /\ otp'[d] \in Row
          /\ \A c \in spent' : c \in spent \cup {request[r].row}
          /\ request[r].op = "compare"
        BY <1>9, Compares
    <2>2. request[r].row \in Codes
        BY <2>1, Shape DEF Typed
    <2> QED BY <1>3, <2>1, <2>2 DEF Typed
<1>10. ASSUME NEW r \in Requests, Fails(r) PROVE Typed'
    BY <1>3, <1>10, Issues DEF Typed
<1> QED BY Cases, <1>1, <1>2, <1>4, <1>5, <1>6, <1>7, <1>8, <1>9, <1>10

LEMMA TypedInvariant == Spec => []Typed
BY TypedInit, TypedStep, PTL DEF Spec

----------------------------------------------------------------------------
(* The code that was mailed last *)

\* A step of one request that does not go on to issue a code.
LEMMA LiveKept ==
    ASSUME Typed, LiveInv, NEW r \in Requests, NEW s, Moves(r, s),
           s.op \notin Writing,
           UNCHANGED mailed, spent \subseteq spent',
           \A d \in DOMAIN otp' : d \in DOMAIN otp,
           \A d \in DOMAIN otp : d \in spent' \cup DOMAIN otp'
    PROVE  LiveInv'
<1>1. request'[r] = s /\ \A q \in Requests \ {r} : request'[q] = request[q]
    BY MovesOn
<1>3. \A q \in Requests : request'[q].op = "create" => DOMAIN otp' = {}
    BY <1>1 DEF LiveInv, Writing
<1>4. \A q \in Requests : request'[q].op = "send" =>
         /\ DOMAIN otp' \subseteq {request'[q].code}
         /\ request'[q].code \in spent' \cup DOMAIN otp'
    BY <1>1 DEF LiveInv, Writing
<1>5. \A q \in Requests : request'[q].op \in {"create", "send"} => mailed' \in spent' \cup {NULL}
    BY <1>1 DEF LiveInv, Writing
<1>7. mailed' \in spent' \cup {NULL} \/ DOMAIN otp' = {mailed'}
    BY DEF LiveInv
<1>6. \A c, d \in DOMAIN otp' : c = d
    BY DEF LiveInv
<1> QED BY <1>3, <1>4, <1>5, <1>6, <1>7 DEF LiveInv

LEMMA LiveInit == Init => LiveInv
BY States DEF Init, LiveInv

LEMMA LiveStep ==
    ASSUME OneIssuer
    PROVE  Typed /\ LiveInv /\ [Next]_vars => LiveInv'
<1> SUFFICES ASSUME Typed, LiveInv, [Next]_vars PROVE LiveInv'
    OBVIOUS
<1>1. CASE UNCHANGED <<request, otp, mailed, spent>>
    BY <1>1 DEF LiveInv
<1>2. CASE Tick
    BY <1>2, Ticks DEF LiveInv
<1>3. ASSUME NEW r \in Requests, Quiet(r) PROVE LiveInv'
    BY <1>1, <1>3, LiveKept DEF Quiet
<1>4. ASSUME NEW r \in Issuers, NEW s, Moves(r, s)
      PROVE  /\ r \in Requests /\ request'[r] = s
             /\ \A q \in Requests \ {r} : /\ request'[q] = request[q]
                                          /\ request[q].op \notin Writing
    <2>1. r \in Requests
        BY DEF Issuers
    <2>2. \A q \in Requests : request[q].op \in Writing => q \in Issuers
        BY DEF Typed, Allowed, Writing
    <2> QED BY <1>4, <2>1, <2>2, MovesOn DEF OneIssuer
<1>5. ASSUME NEW r \in Requests, Invalidate(r) PROVE LiveInv'
    <2>1. PICK s : /\ Moves(r, s) /\ s.op = "create" /\ r \in Issuers
                   /\ DOMAIN otp' = {} /\ UNCHANGED mailed /\ spent' = spent \cup DOMAIN otp
        BY <1>5, Issues
    <2>2. request'[r].op = "create" /\ \A q \in Requests \ {r} : request'[q].op \notin Writing
        BY <1>4, <2>1
    <2> QED BY <2>1, <2>2 DEF LiveInv, Writing
<1>6. ASSUME NEW r \in Requests, Create(r) PROVE LiveInv'
    <2>1. PICK c \in Fresh : /\ DOMAIN otp' = DOMAIN otp \cup {c}
                             /\ UNCHANGED mailed /\ spent' = spent \ {c}
                             /\ Moves(r, [op |-> "send", code |-> c])
                             /\ r \in Issuers /\ request[r].op = "create"
        BY <1>6, Issues
    <2>2. /\ request'[r] = [op |-> "send", code |-> c]
          /\ \A q \in Requests \ {r} : request'[q].op \notin Writing
        BY <1>4, <2>1
    <2>3. request'[r].op = "send" /\ request'[r].code = c
        BY <2>2
    <2>4. DOMAIN otp' = {c}
        BY <2>1 DEF LiveInv
    <2>5. mailed' \in spent' \cup {NULL}
        BY <2>1 DEF LiveInv, Fresh
    <2> QED BY <2>2, <2>3, <2>4, <2>5 DEF LiveInv, Writing
<1>7. ASSUME NEW r \in Requests, Send(r) PROVE LiveInv'
    <2>1. /\ UNCHANGED <<otp, spent>> /\ mailed' = request[r].code
          /\ Moves(r, Idle) /\ r \in Issuers /\ request[r].op = "send"
        BY <1>7, Issues
    <2>2. \A q \in Requests : request'[q].op \notin Writing
        BY <1>4, <2>1, States DEF Writing
    <2>3. /\ DOMAIN otp \subseteq {request[r].code}
          /\ request[r].code \in spent \cup DOMAIN otp
        BY <2>1 DEF LiveInv
    <2>4. mailed' \in spent' \cup {NULL} \/ DOMAIN otp' = {mailed'}
        BY <2>1, <2>3
    <2> QED BY <2>1, <2>2, <2>4 DEF LiveInv, Writing
<1>8. ASSUME NEW r \in Requests, NEW code \in Codes, VerifyReads(r, code) PROVE LiveInv'
    <2>1. PICK s : /\ Moves(r, s) /\ s.op \notin Writing
                   /\ request[r].op \notin Writing /\ UNCHANGED mailed
                   /\ spent \subseteq spent'
                   /\ \A d \in DOMAIN otp' : d \in DOMAIN otp
                   /\ \A d \in DOMAIN otp : d \in spent' \cup DOMAIN otp'
        BY <1>8, Reads, States DEF Writing
    <2> QED BY <2>1, LiveKept
<1>9. ASSUME NEW r \in Requests, Compare(r) PROVE LiveInv'
    <2>1. PICK s : /\ Moves(r, s) /\ s.op \notin Writing
                   /\ request[r].op \notin Writing /\ UNCHANGED mailed
                   /\ spent \subseteq spent'
                   /\ \A d \in DOMAIN otp' : d \in DOMAIN otp
                   /\ \A d \in DOMAIN otp : d \in spent' \cup DOMAIN otp'
        BY <1>9, Compares, States DEF Writing
    <2> QED BY <2>1, LiveKept
<1>10. ASSUME NEW r \in Requests, Fails(r) PROVE LiveInv'
    BY <1>10, Issues, States, LiveKept DEF Writing
<1> QED BY Cases, <1>1, <1>2, <1>3, <1>5, <1>6, <1>7, <1>8, <1>9, <1>10

LEMMA LiveInvariant == OneIssuer => (Spec => []LiveInv)
<1> SUFFICES ASSUME OneIssuer PROVE Spec => []LiveInv
    OBVIOUS
<1>1. Typed /\ LiveInv /\ [Next]_vars => LiveInv'
    BY LiveStep
<1> QED BY <1>1, LiveInit, TypedInvariant, PTL DEF Spec

\* The code in the mailbox is the one that is looked up, until it was typed or tried too
\* often or another was asked for, however many requests try codes meanwhile and at
\* whatever step one of them fails; but one request at a time may issue them.
THEOREM MailedCodeWorks == OneIssuer => (Spec => []LatestMailWorks)
<1> SUFFICES ASSUME OneIssuer PROVE Spec => []LatestMailWorks
    OBVIOUS
<1>1. ASSUME Typed, LiveInv, mailed # NULL, mailed \notin spent
      PROVE  Latest = {mailed}
    <2>1. DOMAIN otp = {mailed}
        BY <1>1 DEF LiveInv
    <2>2. otp[mailed].age \in Int
        BY <1>1, <2>1, OneTimeCodesAssumption DEF Typed, Row, OneTimeCodesAssumption
    <2> QED BY <2>1, <2>2 DEF Latest
<1>2. Typed /\ LiveInv => LatestMailWorks
    BY <1>1 DEF LatestMailWorks
<1> QED BY <1>2, TypedInvariant, LiveInvariant, PTL

\* "Invalidate any prior unconsumed codes of this type": there is one code at a time.
THEOREM CodesOneAtATime == OneIssuer => (Spec => []OneLiveCode)
<1> SUFFICES ASSUME OneIssuer PROVE Spec => []OneLiveCode
    OBVIOUS
<1>1. ASSUME LiveInv PROVE OneLiveCode
    <2>1. CASE DOMAIN otp = {}
        BY <2>1, FS_EmptySet DEF OneLiveCode
    <2>2. CASE DOMAIN otp # {}
        <3>1. PICK c \in DOMAIN otp : TRUE
            BY <2>2
        <3>2. DOMAIN otp = {c}
            BY <1>1, <3>1 DEF LiveInv
        <3>3. Cardinality({c}) = 1
            BY FS_Singleton
        <3> QED BY <3>2, <3>3 DEF OneLiveCode
    <2> QED BY <2>1, <2>2
<1> QED BY <1>1, LiveInvariant, PTL

----------------------------------------------------------------------------
(* How often a code is tried *)

LEMMA VerifiersFinite ==
    /\ IsFiniteSet(Verifiers) /\ Cardinality(Verifiers) \in Nat
    /\ \A S \in SUBSET Verifiers :
         IsFiniteSet(S) /\ Cardinality(S) \in Nat /\ Cardinality(S) <= Cardinality(Verifiers)
<1>1. IsFiniteSet(Verifiers)
    BY FS_Subset, OneTimeCodesAssumption DEF Verifiers, OneTimeCodesAssumption
<1> QED BY <1>1, FS_Subset, FS_CardinalityType

LEMMA ComparingTyped == ASSUME Typed, NEW c PROVE Comparing(c) \subseteq Verifiers
BY DEF Typed, Allowed, Comparing

LEMMA TriesInit == Init => TriesInv
BY DEF Init, TriesInv

\* A step after which no more requests compare a code than before, and none was tried.
LEMMA TriesKept ==
    ASSUME Typed, TriesInv, NEW c \in DOMAIN otp,
           otp'[c].attempts = otp[c].attempts,
           \A q \in Requests : request'[q].op = "compare" /\ request'[q].row = c
                                 => request[q].op = "compare" /\ request[q].row = c
    PROVE  otp'[c].attempts + Cardinality(Comparing(c)') < MAX_ATTEMPTS + Cardinality(Verifiers)
<1>1. Comparing(c)' \subseteq Comparing(c)
    BY DEF Comparing
<1>2. Comparing(c) \subseteq Verifiers
    BY ComparingTyped
<1>3. /\ Cardinality(Comparing(c)') <= Cardinality(Comparing(c))
      /\ Cardinality(Comparing(c)') \in Nat /\ Cardinality(Comparing(c)) \in Nat
      /\ Cardinality(Verifiers) \in Nat
    <2>1. IsFiniteSet(Comparing(c)) /\ IsFiniteSet(Comparing(c)')
        BY <1>1, <1>2, VerifiersFinite
    <2> QED BY <1>1, <2>1, FS_Subset, FS_CardinalityType, VerifiersFinite
<1>4. otp[c].attempts \in Nat /\ MAX_ATTEMPTS \in Nat
    BY OneTimeCodesAssumption DEF OneTimeCodesAssumption, Typed, Row
<1>5. otp[c].attempts + Cardinality(Comparing(c)) < MAX_ATTEMPTS + Cardinality(Verifiers)
    BY DEF TriesInv
<1> QED BY <1>3, <1>4, <1>5

LEMMA TriesStep == Typed /\ TriesInv /\ [Next]_vars => TriesInv'
<1> SUFFICES ASSUME Typed, TriesInv, [Next]_vars PROVE TriesInv'
    OBVIOUS
<1> DEFINE Limited(c) ==
      otp'[c].attempts + Cardinality(Comparing(c)') < MAX_ATTEMPTS + Cardinality(Verifiers)
<1>0. (\A c \in DOMAIN otp' : Limited(c)) => TriesInv'
    BY DEF TriesInv, Verifiers
<1> HIDE DEF Limited
<1>1. CASE UNCHANGED <<request, otp, mailed, spent>>
    BY <1>0, <1>1, TriesKept DEF Limited
<1>2. CASE Tick
    BY <1>0, <1>2, Ticks, TriesKept DEF Limited
<1>3. ASSUME NEW r \in Requests, NEW s, Moves(r, s), s.op # "compare",
             NEW c \in DOMAIN otp, otp'[c].attempts = otp[c].attempts
      PROVE  Limited(c)
    <2>1. \A q \in Requests : request'[q].op = "compare" /\ request'[q].row = c
                                 => request[q].op = "compare" /\ request[q].row = c
        BY <1>3, MovesOn
    <2> QED BY <1>3, <2>1, TriesKept DEF Limited
<1>4. ASSUME NEW r \in Requests, Quiet(r) PROVE TriesInv'
    BY <1>0, <1>1, <1>3, <1>4 DEF Quiet
<1>5. ASSUME NEW r \in Requests, Invalidate(r) PROVE TriesInv'
    BY <1>0, <1>5, Issues
<1>6. ASSUME NEW r \in Requests, Create(r) PROVE TriesInv'
    <2>1. PICK c \in Fresh : /\ DOMAIN otp' = DOMAIN otp \cup {c}
                             /\ otp'[c] = [age |-> 0, attempts |-> 0]
                             /\ \A d \in DOMAIN otp : otp'[d] = otp[d]
                             /\ Moves(r, [op |-> "send", code |-> c])
        BY <1>6, Issues
    <2> DEFINE s == [op |-> "send", code |-> c]
    <2>2. Moves(r, s) /\ s.op = "send"
        BY <2>1
    <2> HIDE DEF s
    <2>3. \A d \in DOMAIN otp : Limited(d)
        BY <1>3, <2>1, <2>2
    <2>4. Comparing(c)' = {}
        <3>1. \A q \in Requests : request[q].op = "compare" => request[q].row # c
            BY <2>1 DEF Fresh
        <3>2. request'[r].op = "send" /\ \A q \in Requests \ {r} : request'[q] = request[q]
            BY <2>2, MovesOn
        <3> QED BY <3>1, <3>2 DEF Comparing
    <2>5. Cardinality(Comparing(c)') = 0 /\ otp'[c].attempts = 0
        BY <2>1, <2>4, FS_EmptySet
    <2>6. Limited(c)
        BY <2>5, VerifiersFinite, OneTimeCodesAssumption DEF OneTimeCodesAssumption, Limited
    <2> QED BY <1>0, <2>1, <2>3, <2>6
<1>7. ASSUME NEW r \in Requests, Send(r) \/ Fails(r) PROVE TriesInv'
    BY <1>0, <1>3, <1>7, Issues, States
<1>8. ASSUME NEW r \in Requests, NEW code \in Codes, VerifyReads(r, code) PROVE TriesInv'
    <2>1. CASE UNCHANGED otp /\ Moves(r, Idle)
        BY <1>0, <1>3, <2>1, States
    <2>2. ASSUME NEW row \in DOMAIN otp, DOMAIN otp' = DOMAIN otp \ {row},
                 \A d \in DOMAIN otp' : otp'[d] = otp[d], Moves(r, Idle)
          PROVE  TriesInv'
        BY <1>0, <1>3, <2>2, States
    <2>3. ASSUME NEW row \in DOMAIN otp, ~ Exhausted(row), UNCHANGED otp,
                 NEW s, Moves(r, s), s.op = "compare", s.row = row
          PROVE  TriesInv'
        <3>1. request'[r] = s /\ \A q \in Requests \ {r} : request'[q] = request[q]
            BY <2>3, MovesOn
        <3>2. ASSUME NEW c \in DOMAIN otp, c # row PROVE Limited(c)
            <4>1. \A q \in Requests : request'[q].op = "compare" /\ request'[q].row = c
                                 => request[q].op = "compare" /\ request[q].row = c
                BY <2>3, <3>1, <3>2
            <4> QED BY <2>3, <4>1, TriesKept DEF Limited
        <3>3. Limited(row)
            <4>1. Typed'
                BY TypedStep
            <4>2. Comparing(row)' \subseteq Verifiers
                BY <4>1 DEF Typed, Allowed, Comparing
            <4>3. /\ Cardinality(Comparing(row)') <= Cardinality(Verifiers)
                  /\ Cardinality(Comparing(row)') \in Nat /\ Cardinality(Verifiers) \in Nat
                BY <4>2, VerifiersFinite
            <4>4. /\ otp[row].attempts < MAX_ATTEMPTS /\ otp[row].attempts \in Nat
                  /\ MAX_ATTEMPTS \in Nat /\ otp'[row] = otp[row]
                BY <2>3, OneTimeCodesAssumption DEF OneTimeCodesAssumption, Typed, Row, Exhausted
            <4> QED BY <4>3, <4>4 DEF Limited
        <3> QED BY <1>0, <2>3, <3>2, <3>3
    <2> QED BY <1>8, <2>1, <2>2, <2>3, Reads
<1>9. ASSUME NEW r \in Requests, Compare(r) PROVE TriesInv'
    <2>0. PICK row : row = request[r].row
        OBVIOUS
    <2>1. /\ r \in Verifiers /\ request[r].op = "compare"
          /\ \A d \in DOMAIN otp' : /\ d \in DOMAIN otp
                                    /\ d # row => otp'[d] = otp[d]
                                    /\ d = row => otp'[d].attempts = otp[d].attempts + 1
        BY <1>9, <2>0, Compares
    <2>2. PICK s : Moves(r, s) /\ s.op # "compare"
        BY <1>9, Compares, States
    <2>3. request'[r] = s /\ \A q \in Requests \ {r} : request'[q] = request[q]
        BY <2>2, MovesOn
    <2>4. ASSUME NEW d \in DOMAIN otp', d # row PROVE Limited(d)
        BY <1>3, <2>1, <2>2, <2>4
    <2>5. ASSUME row \in DOMAIN otp' PROVE Limited(row)
        <3>1. Comparing(row)' = Comparing(row) \ {r} /\ r \in Comparing(row)
            BY <2>0, <2>1, <2>2, <2>3 DEF Comparing
        <3>2. IsFiniteSet(Comparing(row))
            BY ComparingTyped, VerifiersFinite
        <3>3. /\ Cardinality(Comparing(row)') = Cardinality(Comparing(row)) - 1
              /\ Cardinality(Comparing(row)) \in Nat /\ Cardinality(Verifiers) \in Nat
            BY <3>1, <3>2, FS_RemoveElement, FS_CardinalityType, VerifiersFinite
        <3>4. /\ otp'[row].attempts = otp[row].attempts + 1 /\ otp[row].attempts \in Nat
              /\ MAX_ATTEMPTS \in Nat
            BY <2>1, <2>5, OneTimeCodesAssumption DEF OneTimeCodesAssumption, Typed, Row
        <3>5. otp[row].attempts + Cardinality(Comparing(row)) < MAX_ATTEMPTS + Cardinality(Verifiers)
            BY <2>1, <2>5 DEF TriesInv
        <3> QED BY <3>3, <3>4, <3>5 DEF Limited
    <2> QED BY <1>0, <2>4, <2>5
<1> QED BY Cases, <1>1, <1>2, <1>4, <1>5, <1>6, <1>7, <1>8, <1>9

\* Each request that reads a code reads a count below MAX_ATTEMPTS and raises it later, so
\* those that compare one at the same time are what the count may still grow by.  However
\* many requests try codes, and however many are issued meanwhile.
THEOREM TriesStayLimited == Spec => []TriesAreLimited
<1>1. Typed /\ TriesInv => TriesAreLimited
    <2> SUFFICES ASSUME Typed, TriesInv, NEW c \in DOMAIN otp
                 PROVE  otp[c].attempts < MAX_ATTEMPTS + Cardinality(Verifiers)
        BY DEF TriesAreLimited
    <2>1. otp[c].attempts + Cardinality(Comparing(c)) < MAX_ATTEMPTS + Cardinality(Verifiers)
        BY DEF TriesInv
    <2>2. /\ Cardinality(Comparing(c)) \in Nat /\ Cardinality(Verifiers) \in Nat
          /\ otp[c].attempts \in Nat /\ MAX_ATTEMPTS \in Nat
        BY ComparingTyped, VerifiersFinite, OneTimeCodesAssumption
           DEF OneTimeCodesAssumption, Typed, Row
    <2> QED BY <2>1, <2>2
<1>2. Typed /\ TriesInv /\ [Next]_vars => TriesInv'
    BY TriesStep
<1> QED BY <1>1, <1>2, TriesInit, TypedInvariant, PTL DEF Spec

----------------------------------------------------------------------------
(* The account *)

LEMMA CustomerInit == Init => CustomerInv
BY States DEF Init, CustomerInv, Customer

\* The stages of a request that goes by the account.
Going == {"register", "google", "compare", "apply"}

\* A step of one request that keeps an account that is there, and goes on by one only if
\* there is.
LEMMA CustomerKept ==
    ASSUME Typed, CustomerInv, NEW r \in Requests, NEW s, Continue(r, s), UNCHANGED type,
           customer' \in Customer \cup {NULL},
           customer \in Customer => customer' \in Customer,
           s.op \in {"register", "google"} => (s.known => customer \in Customer),
           s.op \in {"compare", "apply"} => customer \in Customer
    PROVE  CustomerInv'
<1>1. request'[r] = s /\ \A q \in Requests \ {r} : request'[q] = request[q]
    BY DEF Typed, Continue
<1> QED BY <1>1 DEF CustomerInv

\* RegisterReads and GoogleReads note whether there is an account ...
LEMMA CustomerRead ==
    ASSUME Typed, CustomerInv, NEW r \in Requests, RegisterReads(r) \/ GoogleReads(r)
    PROVE  CustomerInv'
<1> DEFINE known == customer # NULL
<1>1. known => customer \in Customer
    BY DEF CustomerInv
<1>2. \/ UNCHANGED request
      \/ \E p \in Passwords : Continue(r, [op |-> "register", known |-> known, password |-> p])
      \/ Continue(r, [op |-> "google", known |-> known])
    BY DEF RegisterReads, GoogleReads
<1>3. UNCHANGED <<type, customer>>
    BY DEF RegisterReads, GoogleReads
<1> HIDE DEF known
<1>4. \/ UNCHANGED request
      \/ \E s : Continue(r, s) /\ s.op \in {"register", "google"} /\ s.known = known
    <2>1. ASSUME NEW p \in Passwords,
                 Continue(r, [op |-> "register", known |-> known, password |-> p])
          PROVE  \E s : Continue(r, s) /\ s.op \in {"register", "google"} /\ s.known = known
        <3> DEFINE t == [op |-> "register", known |-> known, password |-> p]
        <3>1. Continue(r, t) /\ t.op = "register" /\ t.known = known
            BY <2>1
        <3> HIDE DEF t
        <3> QED BY <3>1
    <2>2. ASSUME Continue(r, [op |-> "google", known |-> known])
          PROVE  \E s : Continue(r, s) /\ s.op \in {"register", "google"} /\ s.known = known
        <3> DEFINE t == [op |-> "google", known |-> known]
        <3>1. Continue(r, t) /\ t.op = "google" /\ t.known = known
            BY <2>2
        <3> HIDE DEF t
        <3> QED BY <3>1
    <2> QED BY <1>2, <2>1, <2>2
<1>5. CASE UNCHANGED request
    BY <1>3, <1>5 DEF CustomerInv
<1>6. CASE \E s : Continue(r, s) /\ s.op \in {"register", "google"} /\ s.known = known
    BY <1>1, <1>3, <1>6, CustomerKept DEF CustomerInv
<1> QED BY <1>4, <1>5, <1>6

\* ... and what they go on to write finds it again.
LEMMA CustomerWritten ==
    ASSUME Typed, CustomerInv, NEW r \in Requests, register(r) \/ googleUpsert(r) \/ Apply(r)
    PROVE  CustomerInv'
<1>1. /\ request[r] \in Request
      /\ customer \in Customer \cup {NULL}
      /\ request[r].op = "apply" => customer \in Customer
      /\ request[r].op \in {"register", "google"} => (request[r].known => customer \in Customer)
    BY DEF Typed, CustomerInv
<1>2. /\ request[r].op \in {"register", "apply"} => request[r].password \in Passwords
      /\ UNCHANGED type
    BY <1>1, Shape DEF register, googleUpsert, Apply
<1>3. \E s : Continue(r, s) /\ s.op \notin Going
    BY States DEF register, googleUpsert, Apply, End, Going
<1>4. customer' \in Customer \cup {NULL} /\ (customer \in Customer => customer' \in Customer)
    <2>1. CASE register(r)
        <3>1. \/ customer \in Customer /\ customer' = [customer EXCEPT !.password = request[r].password]
              \/ customer = NULL /\ customer' = [verified |-> FALSE, password |-> request[r].password]
              \/ UNCHANGED customer
            BY <1>1, <2>1 DEF register, Updated
        <3>2. request[r].password \in Passwords
            BY <1>2, <2>1 DEF register
        <3>3. customer \in Customer => [customer EXCEPT !.password = request[r].password] \in Customer
            BY <3>2 DEF Customer
        <3>4. [verified |-> FALSE, password |-> request[r].password] \in Customer
            BY <3>2 DEF Customer
        <3> QED BY <1>1, <3>1, <3>3, <3>4
    <2>2. CASE googleUpsert(r)
        <3>1. \/ customer \in Customer /\ customer' = [customer EXCEPT !.verified = TRUE]
              \/ customer = NULL /\ customer' = [verified |-> TRUE, password |-> NULL]
              \/ UNCHANGED customer
            BY <1>1, <2>2 DEF googleUpsert
        <3>2. customer \in Customer => [customer EXCEPT !.verified = TRUE] \in Customer
            BY DEF Customer
        <3>3. [verified |-> TRUE, password |-> NULL] \in Customer
            BY DEF Customer
        <3> QED BY <1>1, <3>1, <3>2, <3>3
    <2>3. CASE Apply(r)
        <3>1. customer \in Customer /\ request[r].password \in Passwords
            BY <1>1, <1>2, <2>3 DEF Apply
        <3>2. \/ customer' = [customer EXCEPT !.verified = TRUE]
              \/ customer' = [customer EXCEPT !.password = request[r].password]
            BY <2>3 DEF Apply
        <3> QED BY <3>1, <3>2 DEF Customer
    <2> QED BY <2>1, <2>2, <2>3
<1> QED BY <1>2, <1>3, <1>4, CustomerKept DEF Going

LEMMA CustomerStep == Typed /\ CustomerInv /\ [Next]_vars => CustomerInv'
<1> SUFFICES ASSUME Typed, CustomerInv, [Next]_vars PROVE CustomerInv'
    OBVIOUS
<1>1. CASE UNCHANGED <<type, customer, request>>
    BY <1>1 DEF CustomerInv
<1>2. ASSUME NEW r \in Requests, UNCHANGED <<type, customer>>, NEW s, Continue(r, s),
             s.op \notin Going
      PROVE  CustomerInv'
    BY <1>2, CustomerKept DEF CustomerInv, Going
<1>3. ASSUME NEW r \in Requests, Ask(r) \/ Limit(r) PROVE CustomerInv'
    <2>1. request[r] \in Request
        BY DEF Typed
    <2>2. UNCHANGED request \/ \E s : Continue(r, s) /\ s.op \notin Going
        <3>1. CASE Ask(r)
            BY <3>1 DEF Ask, Going
        <3>2. CASE Limit(r)
            <4>1. request[r].op = "limit"
                BY <3>2 DEF Limit
            <4>2. [request[r] EXCEPT !.op = "invalidate"].op = "invalidate"
                BY <2>1, <4>1, StepState
            <4> QED BY <3>2, <4>2, States DEF Limit, End, Step, Going
        <3> QED BY <1>3, <3>1, <3>2
    <2>3. UNCHANGED <<type, customer>>
        BY <1>3 DEF Ask, Limit
    <2> QED BY <1>1, <1>2, <2>2, <2>3
<1>4. ASSUME NEW r \in Requests, Invalidate(r) \/ Create(r) \/ Send(r) \/ Fails(r)
      PROVE  CustomerInv'
    <2>1. \E s : Continue(r, s) /\ s.op \notin Going
        <3>1. CASE Invalidate(r)
            BY <3>1, Issues DEF Moves, Going
        <3>2. CASE Create(r)
            BY <3>2 DEF Create, Going
        <3>3. CASE Send(r) \/ Fails(r)
            BY <3>3, Issues, States DEF Moves, Going
        <3> QED BY <1>4, <3>1, <3>2, <3>3
    <2>2. UNCHANGED <<type, customer>>
        BY <1>4 DEF Invalidate, Create, Send, Fails
    <2> QED BY <1>2, <2>1, <2>2
<1>5. ASSUME NEW r \in Requests, NEW code \in Codes, ProvesPassword(r, code) PROVE CustomerInv'
    <2>1. \E s : Continue(r, s) /\ s.op \notin Going
        BY <1>5 DEF ProvesPassword, Going
    <2>2. UNCHANGED <<type, customer>>
        BY <1>5 DEF ProvesPassword
    <2> QED BY <1>2, <2>1, <2>2
<1>6. ASSUME NEW r \in Requests, NEW code \in Codes, VerifyReads(r, code) PROVE CustomerInv'
    <2>1. customer \in Customer /\ UNCHANGED <<type, customer>>
        BY <1>6 DEF VerifyReads, CustomerInv
    <2>2. \E s : Continue(r, s) /\ s.op \in {"idle", "compare"}
        BY <1>6, Reads, States DEF Moves
    <2> QED BY <2>1, <2>2, CustomerKept
<1>7. ASSUME NEW r \in Requests, Compare(r) PROVE CustomerInv'
    <2>1. customer \in Customer /\ UNCHANGED <<type, customer>>
        BY <1>7 DEF Compare, CustomerInv
    <2>2. \E s : Continue(r, s) /\ s.op \in {"idle", "apply"}
        BY <1>7, Compares, States DEF Moves
    <2> QED BY <2>1, <2>2, CustomerKept
<1> QED BY <1>1, <1>3, <1>4, <1>5, <1>6, <1>7, CustomerRead, CustomerWritten DEF Next, vars, Tick

LEMMA CustomerInvariant == Spec => []CustomerInv
<1>1. Typed /\ CustomerInv /\ [Next]_vars => CustomerInv'
    BY CustomerStep
<1> QED BY <1>1, CustomerInit, TypedInvariant, PTL DEF Spec

\* The type invariant: what a request goes by is there when it writes.
THEOREM TypeCorrect == Spec => []TypeOK
<1>1. ASSUME Typed, CustomerInv PROVE TypeOK
    <2>1. \A c \in DOMAIN otp : otp[c].age \in 0..(OTP_TTL_MS + 1) /\ otp[c].attempts \in Nat
        BY <1>1 DEF Typed, Row
    <2>2. \A r \in Requests : request[r].op \in {"idle", "register", "google", "limit", "invalidate",
                                                 "create", "send", "proven", "compare", "apply"}
        BY <1>1, Shape DEF Typed
    <2> QED BY <1>1, <2>1, <2>2 DEF TypeOK, Typed, CustomerInv, Customer
<1> QED BY <1>1, TypedInvariant, CustomerInvariant, PTL
=============================================================================
