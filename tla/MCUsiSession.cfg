SPECIFICATION Spec
CONSTANTS
    start = start
    single = single
    csa = csa
    try = try
    here = here
    missing = missing
    noBook = noBook
    Commands <- MCCommands
    Positions = {start, single}
    StartPos = start
    Kings <- MCKings
    RuleSets = {csa, try}
    DefaultRules = csa
    BookPaths = {here, missing, noBook}
    DefaultPath = here
    NoBook = noBook
    BookFiles = {here}
    InBook <- MCInBook
INVARIANTS
    SearchesWhatWasAsked
    SearchHasItsKings
    BookFlagIsTrue
