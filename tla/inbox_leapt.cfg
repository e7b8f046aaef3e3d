CONSTANTS
    dm = dm
    room = room
    Timeline = {dm}
    Posted <- OnePost
    Brake = 1
    ContextLines = 5
    MaxSends = 1
    MaxMsg = 3
    MaxTrouble = 0
SPECIFICATION Spec
CHECK_DEADLOCK FALSE
INVARIANT NothingLeapt
