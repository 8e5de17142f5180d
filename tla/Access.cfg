CONSTANTS
    Session = {s1}
    CliSession = {s1}
    User = {u1, u2}
    Req = {r1}
    Xreq = {x1, x2}
    Role = {"OWNER", "MEMBER"}
    None = None
    Sys = Sys
    MaxCount = 2
    Call = {k1, k2}
    MaxTokens = 3
    NoToken = NoToken
SPECIFICATION AccessSpec
SYMMETRY Symmetry
CHECK_DEADLOCK FALSE
INVARIANTS
    LiveKeyMirrorsMembership
    ReplayedCodeYieldsNothing OneUsableRefresh EndedOnlyOutlivedByRace
PROPERTY KeepsParts
