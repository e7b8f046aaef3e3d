CONSTANTS
    d1 = d1
    d2 = d2
    c1 = c1
    c2 = c2
    l1 = l1
    Device = {d1, d2}
    Home = d1
    Calls = {c1}
    Links = {}
    MaxKey = 2
    MaxGrant = 2
    MaxTrouble = 2
SPECIFICATION Spec
CHECK_DEADLOCK FALSE
INVARIANT StillOpens
