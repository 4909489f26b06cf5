---------------------------- MODULE MCIdaSession ----------------------------
(* Instances of IdaSession for TLC: a binary of two addresses, one address  *)
(* outside of it.                                                           *)
EXTENDS IdaSession

CONSTANTS red, green, white, none

MCColors == {red, green, white}
MCUserColors == {red}

\* PIE, at 4 or, after a rerun, at 5: lines 0 and 1; address 5 is line 1 of
\* one run and line 0 of the next, address 4 is outside of the second.
MCPieBases == {4, 5}
MCPieAddr  == {4, 5}
MCPieOrig  == [ea \in {0, 1} |-> IF ea = 0 THEN white ELSE red]
=============================================================================
