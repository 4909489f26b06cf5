------------------------------ MODULE MCFtrace ------------------------------
(* Two argument registers, that differ between calls in one or in both.     *)
EXTENDS Ftrace, TLC

CONSTANTS malloc, free

MCFuncs == {malloc, free}

MCRegs  == {<<"a", "a">>, <<"b", "a">>}

FuncSymmetry == Permutations(MCFuncs)
=============================================================================
