CONSTANTS
    BlockLen = 2
    RefModulus = 4
    MaxBlocks = 4
    Hyper = FALSE
    Shapes <- MCBodyOnly
    HdrBlocks = {1, 2}
    MaxPosts = 3
    MaxCrashes = 1
SPECIFICATION Spec
INVARIANTS TypeOK TextsDisjoint NothingLost CountersExact RepairedUsable NothingResurrected
CHECK_DEADLOCK FALSE
