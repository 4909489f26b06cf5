------------------------------ MODULE MCWindbg ------------------------------
(* Two modules of which one is a suffix of the path of the other, and counts *)
(* below, at and above zero.                                                 *)
EXTENDS Windbg

MCModules  == {"c", "libc"}
MCPaths    == {"abc", "libc", "ssl"}
MCEndsWith == {<<"abc", "c">>, <<"libc", "c">>, <<"libc", "libc">>}
MCCounts   == {-1, 0, 1, 3}
=============================================================================
