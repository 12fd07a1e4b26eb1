SPECIFICATION Spec
CONSTANTS
    NoMove = NoMove
    Games <- MCGames
    FirstRoot = 1
    Options <- MCOptions
    AspirationMinDepth = 2
    MaxDepth = 5
    MaxQuiescencePly = 2
    NullMinDepth = 2
    NullBase = 0
    NullMargin = 0
    NullMarginPerPly = 1
    LateMinDepth = 2
    LateDeep = 3
    LateIndex = 2
    LateDeepIndex = 2
    MateSearchMaxPly = 5
    Cuts <- MCCuts
    MaxSearches = 2
    MaxStops = 1
INVARIANTS
    AnswerIsBest
    TableIsTrue
PROPERTY
    BoundsHold
