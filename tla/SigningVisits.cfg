\* Two tabs type codes at the same time while a third asks for new ones; or two tabs of a
\* browser sign in and out, twice.
SPECIFICATION VisitsSpec
CONSTANTS
    NULL = NULL
    r1 = r1
    r2 = r2
    r3 = r3
    Subjects = {"codes", "visits"}
    Requests = {r1, r2, r3}
    Does <- TwoVerify
    Passwords = {p}
    Codes = {c1, c2}
    OTP_TTL_MS = 1
    RESEND_COOLDOWN_MS = 0
    MAX_ATTEMPTS = 2
    Patient = FALSE
    Tabs = {t1, t2}
    MaxSignIns = 2
INVARIANTS
    TriesAreLimited
PROPERTIES
    VisitEnds
