SPECIFICATION FairSpec
CONSTANTS
    w1 = w1
    w2 = w2
    caller = caller
    Workers = {w1, w2}
    Caller = caller
    Counts = {0, 1, 2, 3}
    GenModulus = 2
INVARIANTS
    ReturnMeansAllDone
    ErrorReachesCaller
    QuietOutsideRun
PROPERTY
    ImplementsParallelFor
    CallsReturn
