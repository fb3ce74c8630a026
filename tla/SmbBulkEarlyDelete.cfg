CONSTANTS
    s1 = s1
    s2 = s2
    Senders = {s1, s2}
    Kinds = {"mailsrvr"}
    BlockLen = 2
    RefModulus = 4
    MaxBlocks = 4
    Hyper = FALSE
    Bodies = {2, 3}
    MaxRecipients = 3
    MaxTexts = 2
    MaxFailures = 0
    EarlyDeletes = TRUE
SYMMETRY MCSymmetry
SPECIFICATION Spec
INVARIANT LiveBlocksCounted
CHECK_DEADLOCK FALSE
