CONSTANTS
    c1 = c1
    c2 = c2
    Clients = {c1, c2}
    NoClient = NoClient
    BlockLen = 2
    RefModulus = 4
    MaxBlocks = 5
    Shapes <- MCTails
    HdrBlocks = {1, 2}
    Modes = {"selfpack", "fast"}
    Hyper = FALSE
    MaxPosts = 3
    MaxFaults = 0
SYMMETRY MCSymmetry
SPECIFICATION Spec
INVARIANTS TypeOK TextsDisjoint LiveBlocksCounted HeadersDisjoint
PROPERTY OnlyOwnBlocksFreed
CHECK_DEADLOCK FALSE
