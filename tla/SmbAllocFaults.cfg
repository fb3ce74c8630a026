CONSTANTS
    c1 = c1
    c2 = c2
    Clients = {c1, c2}
    NoClient = NoClient
    BlockLen = 2
    RefModulus = 4
    MaxBlocks = 5
    Shapes <- MCBodyOnly
    HdrBlocks = {1, 2}
    Modes = {"selfpack", "fast"}
    Hyper = FALSE
    MaxPosts = 3
    MaxFaults = 2
SYMMETRY MCSymmetry
SPECIFICATION Spec
INVARIANT CountersExact
CHECK_DEADLOCK FALSE
