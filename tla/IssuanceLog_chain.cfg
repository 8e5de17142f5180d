CONSTANTS
    Code = {c1, c2}
    Genesis = Genesis
SPECIFICATION LogSpec
CHECK_DEADLOCK FALSE
INVARIANT ChainConsistent
