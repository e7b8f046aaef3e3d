SPECIFICATION FairSpec
INVARIANT TypeOK
INVARIANT OneDaemon
INVARIANT DeathsAreNews
PROPERTY Kept
CONSTANTS
    b1 = b1
    b2 = b2
    None = None
    Bot = {b1}
    MaxPid = 7
    MaxToken = 2
    MaxTrouble = 3
CHECK_DEADLOCK FALSE
