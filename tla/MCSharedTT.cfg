SPECIFICATION MCSpec
CONSTANTS
    t1 = t1
    t2 = t2
    zero = zero
    a = a
    b = b
    c = c
    Threads = {t1, t2}
    LastSlot = 1
    Keys = {a, b, c}
    ZeroKey = zero
    Depths = {1, 2}
    MaxGeneration = 2
    Plies <- MCPlies
    Distances <- MCDistances
    Evaluations <- MCEvaluations
    EntryDepths <- MCEntryDepths
    Moves <- MCMoves
    Generations <- MCGenerations
INVARIANTS
    HitIsExact
    OneSlotPerKey
    ScoreSurvives
    EntrySurvives
PROPERTIES
    HitIsLastOrDeeper
    EvictsTheWorst
