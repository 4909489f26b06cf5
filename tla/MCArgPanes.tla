----------------------------- MODULE MCArgPanes ------------------------------
(* Two classes with tables for both panes and one whose syscall table names  *)
(* registers GDB does not have; a directory with all syscall tables, and one *)
(* that lacks some.                                                          *)
EXTENDS ArgPanes

MCArchs    == {"X86_64", "X86", "ARM"}
MCHolds    == [d \in {"builtin", "custom"} |->
                  IF d = "builtin" THEN {"X86_64", "X86", "ARM"} ELSE {"X86_64"}]
MCNbParams == [n \in {0, 1} |-> 3 * n]
=============================================================================
