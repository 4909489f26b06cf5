SPECIFICATION AssembleSpec
CONSTANTS
    TextLen = 5
    StubLen = 3
    MaxCommands = 2
    MaxInsns = 2
    MaxPatches = 2
    Archs <- MCArchs
    Modes <- MCModes
    Table <- MCTable
    Sessions <- MCSessions
    Keystone <- MCKeystone
    Insns = {"nop", "typo"}
    Bad = {"typo"}
    Programs <- MCPrograms
    Default <- X64
    Options <- MCOptions
    Accepts <- MCAccepts
    Fits <- MCFits
    Interworks <- MCInterworks
INVARIANT
    ForAskedTarget
