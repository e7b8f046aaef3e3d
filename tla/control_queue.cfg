SPECIFICATION FairSpec
PROPERTY KeepsPromise
PROPERTY TakenIsAnswered
CONSTANTS
    s1 = s1
    s2 = s2
    None = None
    bot = bot
    move = move
    Request = {bot, move}
    Moves = {move}
    Supervisor = {s1}
    Expires = 0
    TakenFor = 1
    AnswerKept = 2
    LastAsk = 0
    MaxTime = 3
CHECK_DEADLOCK FALSE
