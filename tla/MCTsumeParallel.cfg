SPECIFICATION FairVisitSpec
CONSTANTS
    w1 = w1
    w2 = w2
    Workers = {w1, w2}
    MaxMoves = 3
    MaxReplyPlies = 2
CHECK_DEADLOCK FALSE
INVARIANTS
    SameAsSequential
    OnlyStopsAbort
PROPERTY
    Returns
