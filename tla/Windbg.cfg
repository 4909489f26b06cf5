SPECIFICATION WindbgSpec
CONSTANTS
    Modules <- MCModules
    Paths <- MCPaths
    EndsWith <- MCEndsWith
    Counts <- MCCounts
    NoCount = NoCount
    MaxSxe = 3
INVARIANTS
    WindbgTypeOK
    ContextComesBack
PROPERTIES
    SxeHolds
    EndsWhereAsked
    StopsAreWanted
