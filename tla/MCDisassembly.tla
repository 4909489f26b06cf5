--------------------------- MODULE MCDisassembly ----------------------------
(* The last byte of a page and all but that of the next, with instructions  *)
(* of up to two bytes.                                                       *)
EXTENDS Disassembly

MCCode     == 3..6
MCLengths  == {-1, 1, 2}
MCSessions == {[arch |-> "X86", mode |-> "64"], [arch |-> "RISCV", mode |-> "RISCV"]}
=============================================================================
