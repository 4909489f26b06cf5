SPECIFICATION Spec
CONSTANTS
    red = red
    green = green
    white = white
    none = none
    Pie = TRUE
    Size = 2
    Bases <- MCPieBases
    Addr <- MCPieAddr
    Colors <- MCColors
    UserColors <- MCUserColors
    Green = green
    Blank = white
    NoColor = none
    Orig <- MCPieOrig
INVARIANTS
    TypeOK
    HooksMatchSession
    LedgerExact
    CursorLeavesNoTrail
