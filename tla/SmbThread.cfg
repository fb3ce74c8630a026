CONSTANTS
    Ids = {1, 2, 3}
    HdrBlocks = {1}
    MaxHashes = 1
    MaxBlocks = 3
    MaxPosts = 3
    MaxFailures = 1
    Renumber = TRUE
SPECIFICATION FairSpec
INVARIANTS TypeOK LinksAscend LinksRight ThreadShown IdsRight
PROPERTIES SearchRight SearchEnds
CHECK_DEADLOCK FALSE
