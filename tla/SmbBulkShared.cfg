CONSTANTS
    s1 = s1
    s2 = s2
    Senders = {s1, s2}
    Kinds = {"bulkmail", "mailsrvr", "netmail"}
    BlockLen = 2
    RefModulus = 4
    MaxBlocks = 4
    Hyper = FALSE
    Bodies = {2, 3}
    MaxRecipients = 3
    MaxTexts = 3
    MaxFailures = 1
    EarlyDeletes = FALSE
SYMMETRY MCSymmetry
SPECIFICATION Spec
INVARIANTS TextsDisjoint NeverUndercounted
CHECK_DEADLOCK FALSE
