\* One tab registers and asks for codes, another one types them, sometimes wrongly.
SPECIFICATION CodesSpec
CONSTANTS
    NULL = NULL
    r1 = r1
    r2 = r2
    r3 = r3
    Subjects = {"codes"}
    Requests = {r1, r2}
    Does <- AskAndVerify
    Passwords = {p}
    Codes = {c1, c2, c3}
    OTP_TTL_MS = 3
    RESEND_COOLDOWN_MS = 2
    MAX_ATTEMPTS = 2
    Patient = TRUE
    Tabs = {t1, t2}
    MaxSignIns = 2
INVARIANTS
    LatestMailWorks
PROPERTIES
    GetsVerified
