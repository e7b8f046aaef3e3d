SPECIFICATION FairSpec
INVARIANT TypeOK
INVARIANT CarriedOutOnce
PROPERTY KeepsPromise
PROPERTY TakenIsAnswered
CONSTANTS
    s1 = s1
    s2 = s2
    None = None
    bot = bot
    move = move
    Request = {bot}
    Moves = {}
    Supervisor = {s1, s2}
    Expires = 0
    TakenFor = 1
    AnswerKept = 2
    LastAsk = 0
    MaxTime = 2
CHECK_DEADLOCK FALSE
