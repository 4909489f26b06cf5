SPECIFICATION DisassemblySpec
CONSTANTS
    Code <- MCCode
    PageSize = 4
    MaxSize = 2
    Sessions <- MCSessions
    Lengths <- MCLengths
    MaxRepeat = 2
    nb_lines_code = 1
    nb_lines_code_prev = 1
    CallTarget = 4
INVARIANTS
    DisassemblyTypeOK
    WindowOfThePage
    ContextShowsPc
PROPERTIES
    RepeatsTile
