CONSTANTS
    Device = {d1, d2}
    Req = {r1, r2, r3}
    NoDevice = NoDevice
    MaxUses = 3
    MaxAttempts = 2
    User = {u1, u2, u3}
    Role = {"OWNER", "ADMIN", "MEMBER"}
    None = None
    Code = {c1, c2, c3, c4}
    Genesis = Genesis
    Browser = {b1, b2}
    RpRequest = {q1, q2}
    LoginCall = {l1, l2}
    MaxLogins = 1
    MaxPages = 2
    Unset = Unset
    Hook = {h1, h2}
    HookAttempts = 3
    RateLimit = 1
SPECIFICATION HandoutsSpec
SYMMETRY Symmetry
CHECK_DEADLOCK FALSE
INVARIANTS
    EachUseHasItsClaim
    UnlinkedOnlyByRace
    OneAnswerPerScan CodeStandsOnConsent
    UnsettledOnlyWhenCut
PROPERTIES
    RefinesLedger
    OwnerLostOnlyByErasure
