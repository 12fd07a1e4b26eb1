SPECIFICATION Spec
CONSTANTS
    k0 = k0
    k1 = k1
    k2 = k2
    k3 = k3
    none = none
    Keys = {k0, k1, k2, k3}
    NoKey = none
    NoMove = "none"
    Situations <- MCSituations
    Goes <- MCGoes
    Files <- MCFiles
    Settings <- MCSettings
    Names <- MCNames
    Lines <- MCLines
    MaxDepth = 64
    IntMax = 5000
    Uint64 = 20000
INVARIANTS
    LineIsRead
    TimeIsKept
    BookFollowsItsFile
