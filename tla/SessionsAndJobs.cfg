CONSTANTS
    Session = {s1}
    CliSession = {}
    User = {u1, u2}
    Req = {r1, r2}
    None = None
    Sys = Sys
    MaxCount = 3
    Starter = {c1, c2}
    BulkWorker = {w1, w2}
    BulkRow = {b1, b2}
    MaxJobs = 1
    NoJob = NoJob
SPECIFICATION BothSpec
CHECK_DEADLOCK FALSE
INVARIANTS
    ApprovedVerifies OneApprovalPerOpening
    IssuedAtMostOnce SucceededIsWhole
PROPERTIES
    ResolutionIsFinal
    OutcomeIsFinal SlotIsFreed
