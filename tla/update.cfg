CONSTANTS
    home = home
    other = other
    Copy = {home, other}
    Home = home
    MaxVersion = 2
    MaxTrouble = 3
SPECIFICATION UpdateFairSpec
INVARIANTS UpdateTypeOK BinaryStarts
PROPERTIES InstallIsReal UpToDate
CHECK_DEADLOCK FALSE
