CONSTANTS
    a = a  b = b  c = c  p = p  q = q
    Handles = {a, b, c}
    Processes = {p, q}
    Proc <- ProcShared
    None = None
    Jobs = {"add", "reply"}
    Fcntl = TRUE  Flock = TRUE
    MaxMsgs = 2
SPECIFICATION Spec
CHECK_DEADLOCK FALSE
INVARIANT NumbersUnique
