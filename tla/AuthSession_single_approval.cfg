CONSTANTS
    Session = {s1}
    CliSession = {}
    User = {u1}
    Req = {r1, r2}
    None = None
    Sys = Sys
    MaxCount = 2
SPECIFICATION Spec
CHECK_DEADLOCK FALSE
INVARIANT SingleApproval
