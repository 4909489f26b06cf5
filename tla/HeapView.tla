------------------------------ MODULE HeapView ------------------------------
(***************************************************************************)
(* visualize-libc-heap-chunks of scripts/visualize_heap.py: a walk over the *)
(* chunks of the main arena, from the start of the heap to the top chunk,  *)
(* that shows each word on a line of its own, except for runs of null      *)
(* words inside a chunk.  Addresses are counted in words from the start of *)
(* the heap.  The inferior wrote the heap, so a chunk's header may hold    *)
(* any size and its words anything; both are chosen as they are read,      *)
(* which happens once.  A read behind the end of the mapping raises.       *)
(***************************************************************************)
EXTENDS Integers

CONSTANTS
    HeapWords,  \* bound: the top chunk, and what is mapped, in words
    MaxChunk    \* bound: words of a chunk

ASSUME HeapAssumption == HeapWords \in Nat /\ MaxChunk \in Nat

VARIABLES
    top,            \* arena.top
    mapped,         \* the words that can be read
    view,           \* what the command is doing, or how it ended
    base, size,     \* the chunk it is at
    current,        \* the word it is at
    aggregate_nuls,
    chunk_idx,
    color_idx,
    line,           \* the last line: its word, its color, the word of the
                    \* line above and whether "[...]" is between the two
    lost            \* history: words that are not null and got no line

heapVars == <<top, mapped, view, base, size, current, aggregate_nuls, chunk_idx,
              color_idx, line, lost>>

Colors == 5
NoLine == [at |-> -1, color |-> 0, above |-> -1, gap |-> FALSE]

HeapInit ==
    /\ top = 0 /\ mapped = 0 /\ view = "idle"
    /\ base = 0 /\ size = 0 /\ current = 0 /\ aggregate_nuls = 0
    /\ chunk_idx = 0 /\ color_idx = 0 /\ line = NoLine /\ lost = {}

\* The command, once the program ran and put its top chunk somewhere, inside of
\* what is mapped or, if it overwrote arena.top, outside.
Visualize ==
    /\ view \in {"idle", "refused", "corrupted", "raised", "done"}
    /\ top' \in 0..HeapWords /\ mapped' \in 0..HeapWords
    /\ \/ view' = "refused"        \* no main arena, or no heap
       \/ view' = "chunk"
    /\ base' = 0 /\ size' = 0 /\ current' = 0 /\ aggregate_nuls' = 0
    /\ chunk_idx' = 0 /\ color_idx' = 0 /\ line' = NoLine /\ lost' = {}

-----------------------------------------------------------------------------
(* A chunk.  The test that base_address > data_address is left out: no     *)
(* address wraps.                                                          *)

\* Mutant: only the end of the heap is looked at.
is_behind(sz) == base > top

is_corrupted(sz) == base > top \/ sz = 0

\* The next chunk of gef.heap.chunks, whose header says it has sz words.
Chunk(sz) ==
    /\ view = "chunk" /\ base + 1 < mapped
    /\ view' = IF is_corrupted(sz) THEN "corrupted"
               ELSE IF base = top THEN "done"
               ELSE "words"
    /\ size' = sz
    /\ current' = base
    /\ aggregate_nuls' = 0
    /\ UNCHANGED <<top, mapped, base, chunk_idx, color_idx, line, lost>>

\* The header of the next chunk cannot be read: GEF's iteration stops or raises, or,
\* if it reads headers when they are asked for, the chunk is behind the top chunk.
NoHeader ==
    /\ view = "chunk" /\ base + 1 >= mapped
    /\ view' \in {"done", "raised"} \cup (IF base > top THEN {"corrupted"} ELSE {})
    /\ UNCHANGED <<top, mapped, base, size, current, aggregate_nuls, chunk_idx,
                   color_idx, line, lost>>

\* Mutant: the colours run out.
ColorAfterUnwrapped == color_idx + 1

ColorAfter == (color_idx + 1) % Colors

ChunkEnd ==
    /\ view = "words" /\ current = base + size
    /\ view' = "chunk"
    /\ base' = base + size
    /\ color_idx' = ColorAfter
    /\ UNCHANGED <<top, mapped, size, current, aggregate_nuls, chunk_idx, line, lost>>

-----------------------------------------------------------------------------
(* A word.  nuls is aggregate_nuls once the word has been counted.         *)

\* Mutant: a run of nulls is hidden to the end of the chunk.
CountedToTheEnd(null) == null /\ current # base

\* Only null words that neither start nor finish the chunk are aggregated.
Counted(null) == null /\ current # base /\ current # base + size - 1

Hidden(null, nuls) == Counted(null) /\ nuls > 1

\* Mutant: hidden words are announced once there are three of them.
AnnouncedLate(nuls) == nuls > 3

Announced(nuls) == nuls > 2

Nuls(null) == aggregate_nuls + (IF Counted(null) THEN 1 ELSE 0)

Color == color_idx

Show(nuls) ==
    /\ line' = [at |-> current, color |-> Color, above |-> line.at,
                gap |-> Announced(nuls)]
    /\ aggregate_nuls' = IF Announced(nuls) THEN 0 ELSE nuls
    /\ chunk_idx' = IF current = base THEN chunk_idx + 1 ELSE chunk_idx
    /\ UNCHANGED lost

Hide(null, nuls) ==
    /\ aggregate_nuls' = nuls
    /\ lost' = IF null THEN lost ELSE lost \cup {current}
    /\ UNCHANGED <<line, chunk_idx>>

\* The second word holds the size of the chunk, which is not null.
Word(null) ==
    /\ view = "words" /\ current < base + size /\ current < mapped
    /\ null => current # base + 1
    /\ IF Hidden(null, Nuls(null)) THEN Hide(null, Nuls(null)) ELSE Show(Nuls(null))
    /\ current' = current + 1
    /\ UNCHANGED <<top, mapped, view, base, size, color_idx>>

\* The size takes the loop behind the end of the mapping: read_integer raises, and
\* nothing catches it.
WordUnmapped ==
    /\ view = "words" /\ current < base + size /\ current >= mapped
    /\ view' = "raised"
    /\ UNCHANGED <<top, mapped, base, size, current, aggregate_nuls, chunk_idx,
                   color_idx, line, lost>>

Walk ==
    \/ \E sz \in 0..MaxChunk : Chunk(sz)
    \/ NoHeader
    \/ ChunkEnd
    \/ WordUnmapped
    \/ \E null \in BOOLEAN : Word(null)

HeapNext == Visualize \/ Walk

\* GDB runs the loops of a command without interruption; the program is stopped,
\* so every read of its memory returns or raises.  Nobody has to type the command.
Fairness == WF_heapVars(Walk)

HeapSpec == HeapInit /\ [][HeapNext]_heapVars /\ Fairness

-----------------------------------------------------------------------------
(* Properties.                                                             *)

\* The variables stay in their ranges; in particular the walk stays in its chunk
\* and the colour is one of the palette.
HeapTypeOK ==
    /\ top \in 0..HeapWords /\ mapped \in 0..HeapWords
    /\ view \in {"idle", "refused", "chunk", "words", "corrupted", "raised", "done"}
    /\ base \in Nat /\ size \in 0..MaxChunk /\ current \in base..(base + size)
    /\ aggregate_nuls \in Nat /\ chunk_idx \in Nat /\ color_idx \in 0..(Colors - 1)
    /\ line \in [at : Int, color : 0..(Colors - 1), above : Int, gap : BOOLEAN]
    /\ lost \subseteq Nat

\* What the heap holds is on the screen: the view leaves out null words only.
NoDataHidden == lost = {}

\* What is missing between two lines is null words, and the lines tell of them:
\* "[...]" stands for at least one, and where it is missing at most one was left
\* out.  One counter decides what is hidden and what is announced, over a whole
\* chunk; it does leave one word out in silence, because it is reset only where
\* "[...]" is printed and may stand at 1 or 2 when the next null comes.
GapsAnnounced ==
    /\ NoDataHidden
    /\ IF line.gap THEN line.at - line.above >= 2
                   ELSE line.at - line.above \in 0..2

\* A chunk has its first and its last word on a line, whatever it holds, so
\* when the walk is at a chunk, or at the top, the line above is of the word
\* just before it: no gap spans two chunks.
ChunksMeet ==
    view \in {"chunk", "done"} => line.at = base - 1

\* A view ends, whatever sizes the program left in the headers: at the top chunk,
\* with "Corrupted heap", or with the exception of a read behind the mapping.  No
\* chunk keeps the command in place, and with it GDB, which runs nothing else
\* meanwhile.
WalkEnds == view \in {"chunk", "words"} ~> view \in {"done", "corrupted", "raised"}

\* Which corrupted size is told as "Corrupted heap"?  Not all are: one that runs
\* behind the mapping raises before is_corrupted sees the next chunk.  No run
\* checks this; it is false of the code.
CorruptionIsTold == view # "raised"

\* The lines of a chunk have one colour, and it tells the number shown with
\* the chunk apart from those of the next four.
ColorOfChunk ==
    line.at >= 0 => line.color = (chunk_idx - 1) % Colors
=============================================================================
