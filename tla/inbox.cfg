CONSTANTS
    dm = dm
    room = room
    Timeline = {dm, room}
    Posted <- BothPost
    Brake = 1
    ContextLines = 5
    MaxSends = 1
    MaxMsg = 3
    MaxTrouble = 1
SPECIFICATION FairSpec
CHECK_DEADLOCK FALSE
INVARIANTS TypeOK Kept NotOverNews
PROPERTY Reached
