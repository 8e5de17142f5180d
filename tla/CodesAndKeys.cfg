CONSTANTS
    Token = {1, 2, 3}
    Family = {1, 2}
    User = {u1}
    Req = {r1, r2}
    None = None
    Dest = {d1, d2}
    Edit = {e1, e2}
    Keep = Keep
    MaxWrites = 3
    Content = {x, y}
    Writer = {w1, w2}
    MaxVersion = 2
    MaxRowWrites = 3
    Visit = {1, 2, 3}
    ScanDevice = {a1}
    MaxScans = 2
    MaxScansPerDevice = 1
    Tries = 2
    Allowance = {2}
    KeyAdmin = {m1, m2}
    KeyUser = {k1}
    MaxKeys = 3
    IdTokenTtl = 1
    ApprovalTtl = 2
    ClockSkew = 1
    RevokeGrace = 3
    NoKey = NoKey
SPECIFICATION CodesSpec
SYMMETRY Symmetry
CHECK_DEADLOCK FALSE
INVARIANTS
    OneThreadPerFamily
    HistoryIsUnbroken UncontendedMarkIsTrue
    UncontendedCodeVerifies
    OverrunIsOutstanding AlertedAtMostOnce
    SigningNeverLost VerifiesWhileValid
PROPERTIES RestoreReplacesWhatItRead DemotionIsFinal
