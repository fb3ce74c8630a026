CONSTANTS
    a = a  b = b  c = c  p = p  q = q
    Handles = {a, b}
    Processes = {a, b}
    Proc <- ProcApart
    None = None
    Jobs = {"add", "reply", "update", "purge", "read"}
    Fcntl = TRUE  Flock = TRUE
    MaxMsgs = 2
SPECIFICATION FairSpec
INVARIANTS TypeOK IndexAlone NumbersUnique NoTornRead
PROPERTIES IndexStill IndexIsLedger EveryCallReturns
