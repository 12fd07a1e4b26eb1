SPECIFICATION MCSpec
CONSTANTS
    BucketSize = 2
    InitialSize = 2
    MaxSize = 4
    GenerationLimit = 4
    Games <- AllGames
    MaxPlies = 5
    MaxSolves = 4
CHECK_DEADLOCK FALSE
INVARIANTS
    TableIsTrue
    AnswerIsTrue
    TableIsSound
PROPERTY
    ProofsStay
