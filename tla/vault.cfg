CONSTANTS
    d1 = d1
    d2 = d2
    c1 = c1
    c2 = c2
    l1 = l1
    Device = {d1, d2}
    Home = d1
    Calls = {c1, c2}
    Links = {l1}
    MaxKey = 2
    MaxGrant = 3
    MaxTrouble = 3
SPECIFICATION FairSpec
CHECK_DEADLOCK FALSE
INVARIANTS TypeOK MarkIsTrue
PROPERTIES CaughtUp Answered
