SPECIFICATION MCSpec
CONSTANTS
    Rows = 4
    Cols = 4
    ZoneRows = 2
    Sfens <- MCSfens
    RuleSets <- MCRules
    PieceLimits <- MCLimits
    TrySquare <- MCTry
    FullCounts <- MCFull
    CampPieces = 2
    Thresholds <- MCThresholds
    MaxPlies = 13
    TempoBonus = 12
CHECK_DEADLOCK FALSE
INVARIANTS
    StateIsExact
    GeneratesLegalMoves
    GeneratesChecks
    RepetitionIsReal
    VerdictsMirror
    SeeKeepsItsSign
    EvaluationIsFair
