CONSTANTS
    t1 = t1
    t2 = t2
    Task = {t1, t2}
    MaxTurn = 5
    MaxRound = 2
    MaxTries = 2
    MaxTrouble = 4
SPECIFICATION FairSpec
CHECK_DEADLOCK FALSE
INVARIANTS TypeOK EndsHeard ToldOnce
PROPERTIES Brought
