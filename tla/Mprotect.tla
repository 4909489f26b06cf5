------------------------------ MODULE Mprotect ------------------------------
(***************************************************************************)
(* What `set-permission` promises: the permission changes, once, and       *)
(* nothing else in the program does.  $pc is moved by the program that     *)
(* runs and by nothing else, its code is changed by the user's writes and  *)
(* by nothing else, and neither happens when it stops.  The promise is off *)
(* from the moment it is forfeited until the program is gone.              *)
(***************************************************************************)
EXTENDS Integers

CONSTANTS
    Text,           \* the addresses of the program's code
    Own, Patch      \* what is there: the file's instruction or the user's

VARIABLES
    pcA,        \* where the program is
    codeA,      \* its code
    runA,       \* "dead", "stopped", "resumed" or "running"
    due,        \* the command was given and the permission not yet changed
    grants,     \* how often the permission was changed
    kept        \* is the promise on?

varsA == <<pcA, codeA, runA, due, grants, kept>>

File == [a \in Text |-> Own]

InitA ==
    /\ pcA \in Text /\ codeA = File /\ runA = "dead"
    /\ due = FALSE /\ grants = 0 /\ kept = TRUE

Going == runA \in {"resumed", "running"}

CommandA ==
    /\ runA = "stopped" /\ ~due
    /\ due' = TRUE /\ runA' = "resumed"
    /\ UNCHANGED <<pcA, codeA, grants, kept>>

GrantA ==
    /\ Going /\ due
    /\ due' = FALSE /\ grants' = grants + 1 /\ runA' = "running"
    /\ UNCHANGED <<pcA, codeA, kept>>

\* The program, its signal handlers included.
RunA ==
    /\ Going
    /\ runA' = "running" /\ pcA' \in Text
    /\ UNCHANGED <<codeA, due, grants, kept>>

StopA ==
    /\ Going
    /\ runA' = "stopped"
    /\ UNCHANGED <<pcA, codeA, due, grants, kept>>

ContinueA ==
    /\ runA = "stopped"
    /\ runA' = "resumed"
    /\ UNCHANGED <<pcA, codeA, due, grants, kept>>

PatchA ==
    /\ runA = "stopped"
    /\ \E at \in SUBSET Text :
          codeA' = [a \in Text |-> IF a \in at THEN Patch ELSE codeA[a]]
    /\ UNCHANGED <<pcA, runA, due, grants, kept>>

DieA ==
    /\ runA # "dead" /\ runA' = "dead" /\ pcA' \in Text /\ codeA' = File
    /\ due' = FALSE /\ kept' = TRUE
    /\ UNCHANGED grants

StartA ==
    /\ runA = "dead" /\ runA' = "stopped" /\ pcA' \in Text
    /\ UNCHANGED <<codeA, due, grants, kept>>

\* Also every later step of a program to which nothing is promised.
ForfeitA == runA # "dead" /\ kept' = FALSE /\ UNCHANGED grants

NextA ==
    \/ CommandA \/ GrantA
    \/ RunA \/ StopA \/ ContinueA
    \/ PatchA
    \/ DieA \/ StartA
    \/ ForfeitA

SpecA == InitA /\ [][NextA]_varsA
=============================================================================
