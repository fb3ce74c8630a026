CONSTANTS
    FileLen = 8
    Large = 3
    Modulus = 3
    MaxErrors = 5
    AckTries = 2
    FallsBackAt = 7
    MaxTrouble = 6
SPECIFICATION FairSpec
INVARIANTS CopyRight Recovers
PROPERTIES IsFileCopy BothEnd
CHECK_DEADLOCK FALSE
