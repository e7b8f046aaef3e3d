SPECIFICATION Spec
INVARIANT TypeOK
INVARIANT NoSilentLoss
INVARIANT OneAnswer
PROPERTY NoSecondTurn
CONSTANTS
    MaxSeq = 4
    Message = {2, 3}
    Backlog = 2
    MaxCrashes = 1
CHECK_DEADLOCK FALSE
