SPECIFICATION V8Spec
CONSTANTS
    H = 16
    Meta = 4
    Size = 4
    Images <- MCImages
    Threads = {1, 2}
    Roots <- MCRoots
    Expressions <- MCExpressions
    Counts = {0, 1, 3}
    MaxRecursion = 3
    MaxRepeats = 2
INVARIANTS
    V8TypeOK
    RootIsCurrent
    PageIsMemory
