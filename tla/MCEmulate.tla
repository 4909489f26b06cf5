----------------------------- MODULE MCEmulate ------------------------------
(* Two GDBs on one program, and a memory map with sections that can be read, *)
(* one that cannot, and [vvar].                                              *)
EXTENDS Emulate, TLC

CONSTANTS gdb1, gdb2, program

heap == 1
device == 2
stack == 3
vvar == 4

MCGdbs     == {gdb1, gdb2}
MCfname    == [g \in MCGdbs |-> program]
MCarch     == [g \in MCGdbs |-> [arch |-> "X86", mode |-> "64"]]
MCSections == {heap, device, stack, vvar}
MCReadable == {heap, stack, vvar}
MCVvar     == {vvar}
MCMaps     == {{}, {stack}, MCSections}

Symmetry == Permutations(MCGdbs)
=============================================================================
