SPECIFICATION NoTornReadSpec
CONSTANTS
    t1 = t1
    t2 = t2
    zero = zero
    a = a
    b = b
    c = c
    Threads = {t1, t2}
    LastSlot = 0
    Keys = {a, b}
    ZeroKey = zero
    Depths = {1}
    MaxGeneration = 1
    Plies <- MCPlies
    Distances <- MCDistances
    Evaluations <- MCEvaluations
    EntryDepths <- MCEntryDepths
    Moves <- MCMoves
    Generations <- MCGenerations
INVARIANTS
    NoTornRead
