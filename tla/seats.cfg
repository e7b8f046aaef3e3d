CONSTANTS
    d1 = d1
    d2 = d2
    Daemon = {d1, d2}
    Seats = 2
    Asks <- OneOfEach
    MaxCred = 3
    MaxNow = 1
    MaxTrouble = 3
SPECIFICATION Spec
SYMMETRY Symmetry
CHECK_DEADLOCK FALSE
INVARIANTS TypeOK MarkIsTrue
PROPERTIES SkipIsTrue RefusalStands NotAgain OnceEach
