SPECIFICATION Spec
CONSTANTS
    Archs <- MCArchs
    Calls = {"read", "mine", "local"}
    Plt = {"read", "mine"}
    Documented = {"read"}
    Dirs = {"builtin", "custom"}
    Holds <- MCHolds
    NbParams <- MCNbParams
    Unknown = 9
    MaxChanges = 3
INVARIANTS
    TypeOK
    LibcPaneAnswers
    SyscallOfTheProgram
