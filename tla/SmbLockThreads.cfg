CONSTANTS
    a = a  b = b  c = c  p = p  q = q
    Handles = {a, b, c}
    Processes = {p, q}
    Proc <- ProcShared
    None = None
    Jobs = {"add", "update", "purge"}
    Fcntl = TRUE  Flock = TRUE
    MaxMsgs = 1
SPECIFICATION Spec
SYMMETRY EitherThread
INVARIANT IndexAlone
PROPERTY IndexIsLedger
