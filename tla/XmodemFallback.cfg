CONSTANTS
    FileLen = 3
    Large = 2
    Modulus = 256
    MaxErrors = 9
    AckTries = 5
    FallsBackAt = 3
    MaxTrouble = 3
SPECIFICATION Spec
INVARIANT CopyRight
CHECK_DEADLOCK FALSE
