SPECIFICATION FairSpec
CONSTANTS
    start = start
    tsumePosition = tsumePosition
    rules = rules
    noBook = noBook
    Commands <- MCCommands
    Positions <- MCPositions
    StartPos = start
    Kings <- MCKings
    RuleSets = {rules}
    DefaultRules = rules
    BookPaths = {noBook}
    DefaultPath = noBook
    NoBook = noBook
    BookFiles = {}
    InBook = {}
INVARIANTS
    NoEarlyAnswer
    NoLeftoverFlag
PROPERTY
    NoStaleAnswer
    KeepsProtocol
    ReleasedGoIsAnswered
    CommandsEnd
