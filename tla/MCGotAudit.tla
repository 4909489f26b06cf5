----------------------------- MODULE MCGotAudit -----------------------------
(***************************************************************************)
(* GotAudit with two libraries beside the program. Nothing tells the two   *)
(* apart, so they are symmetric.                                           *)
(***************************************************************************)
EXTENDS GotAudit, TLC

Libraries == Permutations(Files \ {Prog})
=============================================================================
