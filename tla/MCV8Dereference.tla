--------------------------- MODULE MCV8Dereference ---------------------------
(***************************************************************************)
(* V8Dereference with halves below 16 and words of 4 bytes: a stack at 64, *)
(* and the cages of two isolates at 16 and 32.                             *)
(***************************************************************************)
EXTENDS V8Dereference, TLC

Cages == (25 :> 7) @@ (41 :> 3) @@ (23 :> 0)

\* Pointers that loop, two compressed pointers (9 and a number, a number and 9),
\* an unaligned read, and a word that cannot be read.
MCLoop == Cages @@ (64 :> 68) @@ (68 :> 64) @@ (72 :> 6 * 16 + 9)
          @@ (73 :> 100) @@ (76 :> 9 * 16 + 6) @@ (80 :> Unreadable)

\* A chain that is longer than the limit, one that ends in a number, a pointer to
\* a null, and a pointer to itself.
MCChain == Cages @@ (64 :> 68) @@ (68 :> 72) @@ (72 :> 76) @@ (76 :> 192)
           @@ (80 :> 7) @@ (84 :> 84)

MCImages == {MCLoop, MCChain}

MCRoots == {16, 32}

\* The stack, a tagged pointer into it, and an unmapped address.
MCExpressions == {64, 73, 100}
=============================================================================
