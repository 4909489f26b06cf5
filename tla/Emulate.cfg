SPECIFICATION Spec
CONSTANTS
    gdb1 = gdb1
    gdb2 = gdb2
    program = program
    Gdbs <- MCGdbs
    fname <- MCfname
    arch <- MCarch
    Maps <- MCMaps
    Sections <- MCSections
    Readable <- MCReadable
    Vvar <- MCVvar
    Outputs = {emu}
    NoFile = nofile
    Torn = torn
    MaxStops = 1
SYMMETRY Symmetry
INVARIANTS
    TypeOK
    RunReplaysContext
    ScriptsComplete
