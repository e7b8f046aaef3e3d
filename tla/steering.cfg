SPECIFICATION FairSpec
INVARIANT TypeOK
INVARIANT OneReply
INVARIANT WordsKept
PROPERTY Served
CONSTANTS
    o = o
    q = q
    p = p
    g = g
    timeline = timeline
    thread = thread
    None = None
    Last = 3
    Rounds = 2
    Person = {o, q, p, g}
    Payer = {p}
    Guest = {g}
    Surface = {timeline, thread}
    Comes <- Mixed
CHECK_DEADLOCK FALSE
