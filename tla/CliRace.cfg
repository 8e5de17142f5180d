CONSTANTS
    Session = {s1}
    CliSession = {s1}
    User = {u1, u2}
    Req = {r1, r2}
    Xreq = {x1, x2}
    Role = {"OWNER"}
    None = None
    Sys = Sys
    MaxCount = 2
    Conn = {c1}
    PublicPkce = {s1}
    Proc = {p1, p2}
SPECIFICATION RaceSpec
SYMMETRY Symmetry
CHECK_DEADLOCK FALSE
INVARIANTS OneKeyPerSession KeyMatchesApprover ClaimedApprovalYieldsNoKey SilenceExplained
