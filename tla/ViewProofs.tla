----------------------------- MODULE ViewProofs -----------------------------
(***************************************************************************)
(* Proofs about the three commands that show a part of memory.             *)
(*                                                                         *)
(* HeapView, for heaps and chunks of any size: the counter of nulls bounds *)
(* how many words were left out since the line above, so a line tells what *)
(* is missing above it; data is never left out; and every chunk starts and *)
(* ends on a line.                                                         *)
(*                                                                         *)
(* V8Dereference, for every image, limit, count and number of repetitions: *)
(* the root that is kept is of the program that runs; a page is memory's.  *)
(*                                                                         *)
(* Disassembly, for every code, page size and length: a window keeps to    *)
(* its page, repetitions continue it, and the context reaches pc.          *)
(*                                                                         *)
(* The loops of the last two are recursive functions.  That they exist,    *)
(* and what they compute, is proved by induction, for which a set of       *)
(* numbers stands for the predicate (InductiveSet).                        *)
(***************************************************************************)
EXTENDS HeapView, V8Dereference, Disassembly, TLAPS, WellFoundedInduction,
        FiniteSetTheorems

-----------------------------------------------------------------------------
(* visualize-libc-heap-chunks.                                             *)

\* The words left out since the line above, while the words are shown.
Missing == current - 1 - line.at

\* How many words are missing follows from the counter, which starts anew with
\* the chunk but does not with every run of nulls.
CounterTells ==
    view = "words" =>
        /\ Missing \in Nat
        /\ aggregate_nuls \in {0, 1} => Missing = 0
        /\ aggregate_nuls = 2 => Missing \in {0, 1}
        /\ aggregate_nuls > 2 => Missing >= 1

\* The first and last word of the chunk are on a line once they are passed.
EdgesShown ==
    view = "words" /\ current \in {base, base + size} => line.at = current - 1

\* The colour counts with the chunks.
ColorsCount ==
    /\ view = "chunk" => color_idx = chunk_idx % Colors
    /\ view = "words" =>
          IF current = base THEN color_idx = chunk_idx % Colors
          ELSE chunk_idx > 0 /\ color_idx = (chunk_idx - 1) % Colors
    /\ line.at >= 0 => chunk_idx > 0

SizesHold == /\ line.at >= -1
             /\ view = "words" => size > 0

HeapIInv == /\ HeapTypeOK /\ NoDataHidden /\ GapsAnnounced /\ ChunksMeet /\ ColorOfChunk
        /\ CounterTells /\ EdgesShown /\ ColorsCount /\ SizesHold

\* The initial states satisfy the invariant.
LEMMA HeapInitIInv == HeapInit => HeapIInv
  BY HeapAssumption
  DEF HeapInit, HeapIInv, HeapTypeOK, NoDataHidden, GapsAnnounced, ChunksMeet,
      ColorOfChunk, CounterTells, Missing, EdgesShown, ColorsCount, SizesHold,
      NoLine, Colors

\* So do the states in which the command starts.
LEMMA VisualizeIInv == HeapIInv /\ Visualize => HeapIInv'
  BY HeapAssumption
  DEF Visualize, HeapIInv, HeapTypeOK, NoDataHidden, GapsAnnounced, ChunksMeet,
      ColorOfChunk, CounterTells, Missing, EdgesShown, ColorsCount, SizesHold,
      NoLine, Colors

\* The line above a chunk is of the word before it, so its words start with
\* nothing missing.
LEMMA ChunkIInv == ASSUME HeapIInv, NEW sz \in 0..MaxChunk, Chunk(sz) PROVE HeapIInv'
  BY HeapAssumption
  DEF Chunk, is_corrupted, HeapIInv, HeapTypeOK, NoDataHidden, GapsAnnounced,
      ChunksMeet, ColorOfChunk, CounterTells, Missing, EdgesShown, ColorsCount,
      SizesHold, Colors

\* A read that raises, or no further chunk, ends the view where it is.
LEMMA EndIInv == HeapIInv /\ (NoHeader \/ WordUnmapped) => HeapIInv'
  BY HeapAssumption
  DEF NoHeader, WordUnmapped, HeapIInv, HeapTypeOK, NoDataHidden, GapsAnnounced,
      ChunksMeet, ColorOfChunk, CounterTells, Missing, EdgesShown, ColorsCount,
      SizesHold, Colors

\* The last word of a chunk has a line when the walk moves on.
LEMMA ChunkEndIInv == HeapIInv /\ ChunkEnd => HeapIInv'
<1> SUFFICES ASSUME HeapIInv, ChunkEnd PROVE HeapIInv'
  OBVIOUS
<1>1. color_idx' = chunk_idx % Colors
  BY DEF ChunkEnd, ColorAfter, HeapIInv, HeapTypeOK, ColorsCount, SizesHold, Colors
<1>2. base' \in Nat /\ current' \in base'..(base' + size')
  <2>1. base \in Nat /\ size \in Nat
    BY HeapAssumption DEF HeapIInv, HeapTypeOK
  <2> QED
    BY <2>1 DEF ChunkEnd
<1> QED
  BY <1>1, <1>2, HeapAssumption
  DEF ChunkEnd, ColorAfter, HeapIInv, HeapTypeOK, NoDataHidden, GapsAnnounced,
      ChunksMeet, ColorOfChunk, CounterTells, Missing, EdgesShown, ColorsCount,
      SizesHold, Colors

\* A word: it is counted first, then hidden or shown.
LEMMA WordIInv == ASSUME HeapIInv, NEW null \in BOOLEAN, Word(null) PROVE HeapIInv'
<1> DEFINE n == Nuls(null)
<1>1. /\ base \in Nat /\ size \in Nat /\ current \in Nat /\ aggregate_nuls \in Nat
      /\ base <= current /\ current < base + size /\ n \in Nat
      /\ line.at \in Int /\ line.above \in Int /\ chunk_idx \in Nat
  BY HeapAssumption DEF HeapIInv, HeapTypeOK, Word, Nuls
<1>2. CASE Hidden(null, n)
  <2>1. /\ null /\ current # base /\ current # base + size - 1
        /\ n = aggregate_nuls + 1 /\ aggregate_nuls >= 1
    BY <1>1, <1>2 DEF Hidden, Counted, Nuls
  <2>2. /\ aggregate_nuls' = aggregate_nuls + 1 /\ lost' = lost
        /\ current' = current + 1
        /\ UNCHANGED <<line, chunk_idx, color_idx, base, size, view, top, mapped>>
    BY <1>2, <2>1 DEF Word, Hide
  <2> QED
    BY <1>1, <2>1, <2>2
    DEF Word, HeapIInv, HeapTypeOK, NoDataHidden, GapsAnnounced, ChunksMeet,
        ColorOfChunk, CounterTells, Missing, EdgesShown, ColorsCount, SizesHold
<1>3. CASE ~Hidden(null, n)
  <2>1. /\ line' = [at |-> current, color |-> color_idx, above |-> line.at,
                    gap |-> Announced(n)]
        /\ aggregate_nuls' = IF Announced(n) THEN 0 ELSE n
        /\ chunk_idx' = IF current = base THEN chunk_idx + 1 ELSE chunk_idx
        /\ lost' = lost /\ current' = current + 1
        /\ UNCHANGED <<color_idx, base, size, view, top, mapped>>
    BY <1>3 DEF Word, Show, Color
  <2>2. n = aggregate_nuls \/ (aggregate_nuls = 0 /\ n = 1)
    BY <1>1, <1>3 DEF Hidden, Nuls, Counted
  <2>3. Announced(n) \in BOOLEAN /\ (Announced(n) <=> n > 2)
    BY DEF Announced
  <2>4. HeapTypeOK'
    BY <1>1, <2>1, <2>3 DEF HeapIInv, HeapTypeOK, Word, Colors
  <2>5. GapsAnnounced'
    BY <1>1, <2>1, <2>2, <2>3
    DEF GapsAnnounced, NoDataHidden, HeapIInv, CounterTells, Missing, Word
  <2>6. CounterTells'
    BY <1>1, <2>1, <2>2, <2>3 DEF CounterTells, Missing
  <2>7. EdgesShown' /\ SizesHold' /\ NoDataHidden' /\ ChunksMeet'
    BY <1>1, <2>1 DEF EdgesShown, SizesHold, NoDataHidden, ChunksMeet, HeapIInv, Word
  <2>8. ColorsCount' /\ ColorOfChunk'
    BY <1>1, <2>1 DEF ColorsCount, ColorOfChunk, HeapIInv, Word, Colors
  <2> QED
    BY <2>4, <2>5, <2>6, <2>7, <2>8 DEF HeapIInv
<1> QED
  BY <1>2, <1>3

\* Every step preserves the invariant.
LEMMA HeapNextIInv == HeapIInv /\ [HeapNext]_heapVars => HeapIInv'
<1> SUFFICES ASSUME HeapIInv, [HeapNext]_heapVars PROVE HeapIInv'
  OBVIOUS
<1>1. CASE UNCHANGED heapVars
  BY <1>1
  DEF heapVars, HeapIInv, HeapTypeOK, NoDataHidden, GapsAnnounced, ChunksMeet,
      ColorOfChunk, CounterTells, Missing, EdgesShown, ColorsCount, SizesHold
<1> QED
  BY <1>1, VisualizeIInv, ChunkIInv, EndIInv, ChunkEndIInv, WordIInv DEF HeapNext, Walk

\* The invariant holds in every state.
LEMMA HeapInductive == HeapSpec => []HeapIInv
  BY HeapInitIInv, HeapNextIInv, PTL DEF HeapSpec

\* The variables of visualize-libc-heap-chunks have their types.
THEOREM HeapTypeCorrect == HeapSpec => []HeapTypeOK
  BY HeapInductive, PTL DEF HeapIInv

\* visualize-libc-heap-chunks leaves out null words only.
THEOREM DataIsShown == HeapSpec => []NoDataHidden
  BY HeapInductive, PTL DEF HeapIInv

\* A line of visualize-libc-heap-chunks tells what is missing above it, which is
\* null words.
THEOREM GapsAreAnnounced == HeapSpec => []GapsAnnounced
  BY HeapInductive, PTL DEF HeapIInv

\* Every chunk starts and ends on a line.
THEOREM ChunksAlwaysMeet == HeapSpec => []ChunksMeet
  BY HeapInductive, PTL DEF HeapIInv

\* The colour of a line is that of the number of its chunk.
THEOREM ColorsFollowChunks == HeapSpec => []ColorOfChunk
  BY HeapInductive, PTL DEF HeapIInv

\* The walk does not get further than one chunk behind the top chunk.
Reach == HeapWords + MaxChunk

Within == /\ view = "chunk" => base <= Reach
          /\ view = "words" => base + size <= Reach

\* No chunk is entered that starts behind the top chunk.
LEMMA WithinHolds == HeapSpec => []Within
<1>1. HeapInit => Within
  BY DEF HeapInit, Within
<1>2. HeapIInv /\ Within /\ [HeapNext]_heapVars => Within'
  <2> SUFFICES ASSUME HeapIInv, Within, [HeapNext]_heapVars PROVE Within'
    OBVIOUS
  <2> USE HeapAssumption DEF HeapIInv, HeapTypeOK, Within, Reach
  <2>1. CASE Visualize
    BY <2>1 DEF Visualize
  <2>2. ASSUME NEW sz \in 0..MaxChunk, Chunk(sz) PROVE Within'
    BY <2>2 DEF Chunk, is_corrupted
  <2>3. CASE ChunkEnd
    BY <2>3 DEF ChunkEnd
  <2>4. ASSUME NEW null \in BOOLEAN, Word(null) PROVE Within'
    BY <2>4 DEF Word
  <2>5. CASE NoHeader \/ WordUnmapped
    BY <2>5 DEF NoHeader, WordUnmapped
  <2>6. CASE UNCHANGED heapVars
    BY <2>6 DEF heapVars
  <2> QED
    BY <2>1, <2>2, <2>3, <2>4, <2>5, <2>6 DEF HeapNext, Walk
<1> QED
  BY <1>1, <1>2, HeapInductive, PTL DEF HeapSpec

\* What is left to do of a walk: a chunk of n words is n words and two steps
\* more, and has at least one word.
Left == IF view = "chunk" THEN 3 * (Reach - base)
        ELSE (base + size - current) + 1 + 3 * (Reach - base - size)

\* Each step of the walk ends it or leaves less to do: no header, of whatever
\* size, keeps the loops of the heap view in place.
THEOREM WalkShrinks ==
    HeapSpec => [][Walk => \/ view' \in {"done", "corrupted", "raised"}
                           \/ Left \in Nat /\ Left' \in Nat /\ Left' < Left]_heapVars
<1> DEFINE Shrinks == \/ view' \in {"done", "corrupted", "raised"}
                      \/ Left \in Nat /\ Left' \in Nat /\ Left' < Left
<1>1. HeapIInv /\ Within /\ Within' /\ Walk => Shrinks
  <2> SUFFICES ASSUME HeapIInv, Within, Within', Walk PROVE Shrinks
    OBVIOUS
  <2> USE HeapAssumption DEF HeapIInv, HeapTypeOK, Within, Reach, Left
  <2>1. ASSUME NEW sz \in 0..MaxChunk, Chunk(sz) PROVE Shrinks
    BY <2>1 DEF Chunk, is_corrupted
  <2>2. CASE ChunkEnd
    BY <2>2 DEF ChunkEnd
  <2>3. ASSUME NEW null \in BOOLEAN, Word(null) PROVE Shrinks
    BY <2>3 DEF Word
  <2>4. CASE NoHeader \/ WordUnmapped
    BY <2>4 DEF NoHeader, WordUnmapped
  <2> QED
    BY <2>1, <2>2, <2>3, <2>4 DEF Walk
<1> QED
  BY <1>1, HeapInductive, WithinHolds, PTL DEF HeapSpec

-----------------------------------------------------------------------------
(* Induction over sets of numbers, and what follows from it.               *)

\* A set of natural numbers has a least element: of the intervals that end in
\* one of its elements, none is the smallest only if there is no interval.
LEMMA LeastNatural ==
    ASSUME NEW T \in SUBSET Nat, T # {}
    PROVE  \E x \in T : \A y \in T : x <= y
<1>1. PICK t \in T : TRUE
  OBVIOUS
<1> DEFINE S == 0..t
           D == {0..x : x \in T \cap S}
<1>2. IsWellFoundedOn(StrictSubsetOrdering(S), FiniteSubsetsOf(S))
  BY FS_StrictSubsetOrderingWellFounded
<1>3. D \subseteq FiniteSubsetsOf(S)
  <2>1. IsFiniteSet(S)
    BY FS_Interval
  <2>2. ASSUME NEW x \in T \cap S PROVE 0..x \subseteq S
    OBVIOUS
  <2> QED
    BY <2>1, <2>2, FS_Subset DEF FiniteSubsetsOf
<1>4. PICK d \in D : \A e \in D : ~(<<e, d>> \in StrictSubsetOrdering(S))
  <2>1. 0..t \in D
    OBVIOUS
  <2> HIDE DEF D, S
  <2> QED
    BY <1>2, <1>3, <2>1, WFMin
<1>5. PICK x \in T \cap S : d = 0..x
  OBVIOUS
<1>6. ASSUME NEW y \in T, y < x PROVE FALSE
  <2>1. 0..y \in D /\ 0..y \subseteq 0..x /\ 0..y # 0..x
    BY <1>6
  <2>2. 0..y \in SUBSET S /\ 0..x \in SUBSET S
    BY <1>6
  <2> QED
    BY <1>4, <1>5, <2>1, <2>2 DEF StrictSubsetOrdering
<1> QED
  BY <1>6

\* Induction: a set that has 0 and with a number the next one has them all.
LEMMA InductiveSet ==
    ASSUME NEW S, 0 \in S, \A n \in Nat : n \in S => n + 1 \in S
    PROVE  \A n \in Nat : n \in S
<1> SUFFICES ASSUME Nat \ S # {} PROVE FALSE
  OBVIOUS
<1> DEFINE T == Nat \ S
<1>1. PICK x \in T : \A y \in T : x <= y
  <2>1. T \in SUBSET Nat /\ T # {}
    OBVIOUS
  <2> HIDE DEF T
  <2> QED
    BY <2>1, LeastNatural
<1>2. x - 1 \in Nat /\ x - 1 \in S
  BY <1>1
<1> QED
  BY <1>1, <1>2

\* A bounded set of natural numbers has a greatest element.
LEMMA GreatestNatural ==
    ASSUME NEW N \in Nat, NEW S \in SUBSET (0..N), S # {}
    PROVE  \E x \in S : \A y \in S : y <= x
<1> DEFINE T == {N - x : x \in S}
<1>1. PICK t \in T : \A y \in T : t <= y
  <2>1. T \in SUBSET Nat /\ T # {}
    <3>1. \A x \in S : N - x \in Nat /\ N - x \in T
      OBVIOUS
    <3> QED
      BY <3>1
  <2> HIDE DEF T
  <2> QED
    BY <2>1, LeastNatural
<1>2. PICK x \in S : t = N - x
  BY <1>1
<1>3. ASSUME NEW y \in S PROVE y <= x
  BY <1>1, <1>2
<1> QED
  BY <1>3

\* f[n] is what n repetitions of a step make of x0.
Repeats(f, x0, step, N) ==
    f[0] = x0 /\ \A n \in 1..N : f[n] = step[f[n - 1]]

\* Repetition of a step on the elements of a set is a function.
LEMMA Repetition ==
    ASSUME NEW X, NEW x0 \in X, NEW step \in [X -> X], NEW N \in Nat
    PROVE  \E f \in [0..N -> X] : Repeats(f, x0, step, N)
<1> USE DEF Repeats
<1> DEFINE Is(f, n) == f[0] = x0 /\ \A k \in 1..n : f[k] = step[f[k - 1]]
           S == {n \in Nat : \E f \in [0..n -> X] : Is(f, n)}
<1>1. 0 \in S
  <2>1. [n \in 0..0 |-> x0] \in [0..0 -> X] /\ Is([n \in 0..0 |-> x0], 0)
    OBVIOUS
  <2> QED
    BY <2>1
<1>2. ASSUME NEW n \in Nat, n \in S PROVE n + 1 \in S
  <2>1. PICK f \in [0..n -> X] : Is(f, n)
    BY <1>2
  <2> DEFINE g == [k \in 0..(n + 1) |-> IF k = n + 1 THEN step[f[n]] ELSE f[k]]
  <2>2. g \in [0..(n + 1) -> X]
    OBVIOUS
  <2>3. Is(g, n + 1)
    <3>1. g[0] = x0
      BY <2>1
    <3>2. ASSUME NEW k \in 1..(n + 1) PROVE g[k] = step[g[k - 1]]
      BY <2>1
    <3> QED
      BY <3>1, <3>2
  <2>4. \E h \in [0..(n + 1) -> X] : Is(h, n + 1)
    <3> HIDE DEF Is, g
    <3> QED
      BY <2>2, <2>3
  <2>5. n + 1 \in Nat
    OBVIOUS
  <2> HIDE DEF Is
  <2> QED
    BY <2>4, <2>5
<1>3. N \in S
  <2> HIDE DEF S
  <2> QED
    BY <1>1, <1>2, InductiveSet
<1> QED
  BY <1>3

-----------------------------------------------------------------------------
(* v8deref: the chain of a word.                                           *)

\* The values are natural numbers.
LEMMA ValuesAreNatural == Values \subseteq Nat
<1> DEFINE m == H * H
<1>1. m \in Nat
  BY V8Assumption
<1> HIDE DEF m
<1>2. 0 .. m - 1 \subseteq Nat
  BY <1>1
<1> QED
  BY <1>2 DEF m, Values

\* What memory holds, by its type.
LEMMA MemoryIs ==
    ASSUME V8TypeOK, NEW a \in DOMAIN image
    PROVE  /\ a \in Int /\ image[a] \in Int
           /\ Readable(a) => image[a] \in Values
<1>1. image \in Images \cup {NoImage} /\ NoImage = << >>
  BY DEF V8TypeOK, NoImage
<1>2. image \in Images
  BY <1>1
<1>3. a \in Values /\ image[a] \in Values \cup {Unreadable}
  BY <1>2, V8Assumption
<1> QED
  BY <1>3, V8Assumption DEF Values, Unreadable, Readable

ChainEnds == {"limit", "loop", "unreadable", "value"}

\* A chain from a, as far as it has been followed: memory links it, the addresses
\* it went through are remembered and differ, and it is over if the last one is
\* one of them, but not if that cannot be followed.
IsChain(a, links, seen, end) ==
    LET last == Len(links)
    IN  /\ last >= 1 /\ links[1] = a
        /\ seen = {links[n] : n \in 1..(last - 1)}
        /\ \A n \in 1..(last - 1) : links[n + 1] = image[links[n]]
        /\ \A n, m \in 1..(last - 1) : links[n] = links[m] => n = m
        /\ end = "loop" => links[last] \in seen
        /\ end \in {"unreadable", "value"} => links[last] \notin seen

ChainsFrom(a) ==
    {s \in [links : Seq(Int), seen : SUBSET Int, end : ChainEnds] :
        IsChain(a, s.links, s.seen, s.end)}

\* The record of a chain is one of the chains.
LEMMA ChainIs ==
    ASSUME NEW a, NEW links \in Seq(Int), NEW seen \in SUBSET Int,
           NEW end \in ChainEnds,
           IsChain(a, links, seen, end)
    PROVE  [links |-> links, seen |-> seen, end |-> end] \in ChainsFrom(a)
  BY DEF ChainsFrom

\* A turn of the loop keeps a chain one, and makes it longer unless it ends it.
LEMMA FollowKeeps ==
    ASSUME V8TypeOK, NEW a, NEW s \in ChainsFrom(a), s.end = "limit"
    PROVE  /\ Follow(s) \in ChainsFrom(a)
           /\ Follow(s).end = "limit" => Len(Follow(s).links) = Len(s.links) + 1
<1> DEFINE last == Len(s.links)
           z    == s.links[last]
<1>1. /\ s.links \in Seq(Int) /\ s.seen \in SUBSET Int
      /\ s = [links |-> s.links, seen |-> s.seen, end |-> s.end]
      /\ IsChain(a, s.links, s.seen, "limit")
  BY DEF ChainsFrom
<1>2. /\ last \in Nat /\ last >= 1 /\ z \in Int
      /\ s.links[1] = a /\ s.seen = {s.links[n] : n \in 1..(last - 1)}
      /\ \A n \in 1..(last - 1) : s.links[n + 1] = image[s.links[n]]
      /\ \A n, m \in 1..(last - 1) : s.links[n] = s.links[m] => n = m
  BY <1>1 DEF IsChain
<1>3. ASSUME NEW end \in {"loop", "unreadable", "value"},
             Follow(s) = [links |-> s.links, seen |-> s.seen, end |-> end],
             z \in s.seen <=> end = "loop"
      PROVE  Follow(s) \in ChainsFrom(a) /\ Follow(s).end # "limit"
  <2>1. IsChain(a, s.links, s.seen, end)
    BY <1>1, <1>3 DEF IsChain
  <2>2. end \in ChainEnds
    BY DEF ChainEnds
  <2> QED
    BY <1>1, <1>3, <2>1, <2>2, ChainIs
<1>4. CASE z \in s.seen \/ ~Readable(z) \/ ~Mapped(image[z])
  <2>1. PICK end \in {"loop", "unreadable", "value"} :
             /\ Follow(s) = [links |-> s.links, seen |-> s.seen, end |-> end]
             /\ z \in s.seen <=> end = "loop"
    BY <1>1, <1>4 DEF Follow
  <2> QED
    BY <1>3, <2>1
<1>5. CASE z \notin s.seen /\ Readable(z) /\ Mapped(image[z])
  <2> DEFINE more == Append(s.links, image[z])
             all  == s.seen \cup {z}
  <2>1. Follow(s) = [links |-> more, seen |-> all, end |-> "limit"]
    BY <1>1, <1>5 DEF Follow, Seen
  <2>2. image[z] \in Int
    BY <1>5, MemoryIs DEF Readable, Mapped
  <2>3. /\ more \in Seq(Int) /\ Len(more) = last + 1 /\ more[last + 1] = image[z]
        /\ \A n \in 1..last : more[n] = s.links[n]
    BY <1>1, <1>2, <2>2
  <2>4. all = {more[n] : n \in 1..last} /\ all \in SUBSET Int
    <3>1. {more[n] : n \in 1..last} = {s.links[n] : n \in 1..last}
      BY <2>3
    <3>2. \A n : n \in 1..last <=> n \in 1..(last - 1) \/ n = last
      BY <1>2
    <3>3. {s.links[n] : n \in 1..last} = s.seen \cup {z}
      BY <1>2, <3>2
    <3> QED
      BY <1>1, <1>2, <3>1, <3>3
  <2>5. \A n \in 1..last : more[n + 1] = image[more[n]]
    <3> SUFFICES ASSUME NEW n \in 1..last PROVE more[n + 1] = image[more[n]]
      OBVIOUS
    <3>1. CASE n = last
      BY <1>2, <2>3, <3>1
    <3>2. CASE n # last
      <4>1. n \in 1..(last - 1) /\ n + 1 \in 1..last
        BY <1>2, <3>2
      <4> QED
        BY <1>2, <2>3, <4>1
    <3> QED
      BY <3>1, <3>2
  <2>6. \A n, m \in 1..last : more[n] = more[m] => n = m
    <3>1. \A n \in 1..(last - 1) : s.links[n] # z
      BY <1>2, <1>5
    <3>2. \A n \in 1..last : n \in 1..(last - 1) \/ n = last
      BY <1>2
    <3> QED
      BY <1>2, <2>3, <3>1, <3>2
  <2>7. more[1] = a /\ last + 1 >= 1 /\ (last + 1) - 1 = last
    BY <1>2, <2>3
  <2> HIDE DEF more, all
  <2>8. IsChain(a, more, all, "limit") /\ "limit" \in ChainEnds
    BY <1>2, <2>3, <2>4, <2>5, <2>6, <2>7 DEF IsChain, ChainEnds
  <2>9. [links |-> more, seen |-> all, end |-> "limit"] \in ChainsFrom(a)
    BY <2>3, <2>4, <2>8, ChainIs
  <2> QED
    BY <2>1, <2>3, <2>9
<1> QED
  BY <1>4, <1>5

\* What a page may claim of a chain.
ShowsChain(a, links, end) ==
    LET last  == Len(links)
        prior == {links[n] : n \in 1..(last - 1)}
    IN  /\ links[1] = a
        /\ \A n \in 1..(last - 1) : links[n + 1] = image[links[n]]
        /\ \A n, m \in 1..(last - 1) : links[n] = links[m] => n = m
        /\ end = "loop" => links[last] \in prior
        /\ links[last] \in prior => end = "loop" \/ last > MaxRecursion

\* The turns of the loop as a function: there is one, and each of its values is
\* a chain, of as many links as turns unless it is over.
LEMMA ChainTurns ==
    ASSUME V8TypeOK, NEW a \in Int, Mapped(a)
    PROVE  /\ Chain(a) \in ChainsFrom(a)
           /\ Chain(a).end = "limit" => Len(Chain(a).links) = MaxRecursion + 1
<1> DEFINE N    == MaxRecursion
           s0   == [links |-> <<a>>, seen |-> {}, end |-> "limit"]
           X    == ChainsFrom(a)
           step == [s \in X |-> IF s.end # "limit" THEN s ELSE Follow(s)]
           Turns(f) == f = [n \in 0..N |->
                              IF n = 0 THEN s0
                              ELSE IF f[n - 1].end # "limit" THEN f[n - 1]
                              ELSE Follow(f[n - 1])]
           turn == CHOOSE f : Turns(f)
<1>1. N \in Nat
  BY V8Assumption
<1>2. s0 \in X
  <2>1. IsChain(a, <<a>>, {}, "limit")
    BY DEF IsChain
  <2>2. <<a>> \in Seq(Int) /\ {} \in SUBSET Int /\ "limit" \in ChainEnds
    BY DEF ChainEnds
  <2> QED
    BY <2>1, <2>2, ChainIs
<1>3. step \in [X -> X]
  BY FollowKeeps
<1>4. \E f : Turns(f)
  <2> HIDE DEF s0, X, N, step
  <2>1. \E f \in [0..N -> X] : Repeats(f, s0, step, N)
    BY <1>1, <1>2, <1>3, Repetition
  <2> PICK f \in [0..N -> X] : f[0] = s0 /\ \A n \in 1..N : f[n] = step[f[n - 1]]
    BY <2>1 DEF Repeats
  <2>2. ASSUME NEW n \in 0..N
        PROVE  f[n] = IF n = 0 THEN s0
                      ELSE IF f[n - 1].end # "limit" THEN f[n - 1]
                      ELSE Follow(f[n - 1])
    <3>1. CASE n = 0
      BY <3>1
    <3>2. CASE n # 0
      <4>1. n \in 1..N /\ f[n - 1] \in X
        BY <1>1, <3>2
      <4> QED
        BY <3>2, <4>1 DEF step
    <3> QED
      BY <3>1, <3>2
  <2>3. f = [n \in 0..N |-> f[n]]
    OBVIOUS
  <2> QED
    BY <2>2, <2>3
<1>5. Turns(turn)
  <2> HIDE DEF Turns
  <2> QED
    BY <1>4
<1>6. Chain(a) = turn[N]
  BY Zenon DEF Chain
<1> HIDE DEF turn
<1>7. /\ turn[0] = s0
      /\ \A n \in 1..N : turn[n] = IF turn[n - 1].end # "limit" THEN turn[n - 1]
                                   ELSE Follow(turn[n - 1])
  <2> HIDE DEF s0
  <2>1. \A n \in 0..N : turn[n] = IF n = 0 THEN s0
                                  ELSE IF turn[n - 1].end # "limit" THEN turn[n - 1]
                                  ELSE Follow(turn[n - 1])
    BY <1>5, Zenon
  <2> QED
    BY <1>1, <2>1
<1> DEFINE Good(n) == /\ turn[n] \in X
                      /\ turn[n].end = "limit" => Len(turn[n].links) = n + 1
           S == {n \in Nat : n <= N => Good(n)}
<1>8. 0 \in S
  BY <1>2, <1>7
<1>9. ASSUME NEW n \in Nat, n \in S PROVE n + 1 \in S
  <2> SUFFICES ASSUME n + 1 <= N PROVE Good(n + 1)
    OBVIOUS
  <2>1. Good(n) /\ n + 1 \in 1..N /\ (n + 1) - 1 = n
    BY <1>1, <1>9
  <2> HIDE DEF N, s0
  <2>2. CASE turn[n].end # "limit"
    BY <1>7, <2>1, <2>2
  <2>3. CASE turn[n].end = "limit"
    BY <1>7, <2>1, <2>3, FollowKeeps
  <2> QED
    BY <2>2, <2>3
<1>10. N \in S
  <2> HIDE DEF S
  <2> QED
    BY <1>1, <1>8, <1>9, InductiveSet
<1> QED
  BY <1>1, <1>6, <1>10

\* A chain is memory's, and tells of just the loops it does not cut off.
LEMMA ChainShows ==
    ASSUME V8TypeOK, NEW a \in Int
    PROVE  /\ Chain(a).links \in Seq(Int) /\ Len(Chain(a).links) >= 1
           /\ ShowsChain(a, Chain(a).links, Chain(a).end)
<1>1. CASE Mapped(a)
  <2>1. /\ Chain(a).links \in Seq(Int) /\ Chain(a).end \in ChainEnds
        /\ IsChain(a, Chain(a).links, Chain(a).seen, Chain(a).end)
        /\ Chain(a).end = "limit" => Len(Chain(a).links) = MaxRecursion + 1
    BY <1>1, ChainTurns DEF ChainsFrom
  <2> QED
    BY <2>1, V8Assumption DEF IsChain, ShowsChain, ChainEnds
<1>2. CASE ~Mapped(a)
  <2>1. Chain(a) = [links |-> <<a>>, seen |-> {}, end |-> "unmapped"]
    BY <1>2 DEF Chain
  <2> QED
    BY <2>1 DEF ShowsChain
<1> QED
  BY <1>1, <1>2

-----------------------------------------------------------------------------
(* v8deref: the rows of a page.                                            *)

\* Where a row is.
At(c, r, k) == Untagged(c.target) + Page(c, r)[k] * Size

\* The r-th page has the nb numbers after those of the pages before it.
LEMMA PageIs ==
    ASSUME NEW c \in Commands, NEW r \in Nat
    PROVE  /\ c.nb \in Nat /\ c.nb * r \in Nat /\ c.nb * (r + 1) = c.nb * r + c.nb
           /\ \A k \in 1..c.nb : Page(c, r)[k] \in c.nb * r .. c.nb * (r + 1) - 1
           /\ {Page(c, r)[k] : k \in 1..c.nb} = c.nb * r .. c.nb * (r + 1) - 1
<1> DEFINE nb == c.nb
           b  == nb * r
<1>1. nb \in Nat /\ c.down \in BOOLEAN
  BY V8Assumption DEF Commands
<1>2. b \in Nat /\ nb * (r + 1) = b + nb /\ r * nb = b
  BY <1>1
<1> DEFINE P == [k \in 1..nb |-> IF c.down THEN b + nb - k ELSE b + k - 1]
<1>3. Page(c, r) = P
  BY <1>1, <1>2 DEF Page
<1> HIDE DEF nb, b
<1>4. \A k \in 1..nb : P[k] \in b..(b + nb - 1)
  BY <1>1, <1>2
<1>5. ASSUME NEW i \in b..(b + nb - 1) PROVE \E k \in 1..nb : P[k] = i
  <2>1. CASE c.down
    <3>1. b + nb - i \in 1..nb /\ P[b + nb - i] = i
      BY <1>1, <1>2, <2>1
    <3> QED
      BY <3>1
  <2>2. CASE ~c.down
    <3>1. i - b + 1 \in 1..nb /\ P[i - b + 1] = i
      BY <1>1, <1>2, <2>2
    <3> QED
      BY <3>1
  <2> QED
    BY <2>1, <2>2
<1>6. {P[k] : k \in 1..nb} = b..(b + nb - 1)
  <2> HIDE DEF P
  <2> QED
    BY <1>4, <1>5
<1>7. c.nb = nb /\ c.nb * r = b /\ c.nb * (r + 1) = b + nb
  BY <1>2 DEF nb, b
<1> QED
  BY <1>1, <1>2, <1>3, <1>4, <1>6, <1>7

\* The rows before the first that raises: some of the page's, in its order.
LEMMA ShownIs ==
    ASSUME NEW c \in Commands, NEW r \in Nat
    PROVE  \E p \in 0..c.nb :
              /\ Shown(c, r) = [k \in 1..p |-> Row(Page(c, r)[k], At(c, r, k))]
              /\ Len(Shown(c, r)) = p
              /\ \A k \in 1..p : ~Raises(At(c, r, k))
<1> DEFINE safe == {n \in 0..c.nb : \A k \in 1..n : ~Raises(At(c, r, k))}
           p    == CHOOSE n \in safe : \A m \in safe : m <= n
           row(k) == Row(Page(c, r)[k], At(c, r, k))
<1>1. Shown(c, r) = [k \in 1..p |-> row(k)]
  BY Zenon DEF Shown, At
<1>2. p \in safe
  <2>1. c.nb \in Nat /\ 0 \in safe /\ safe \in SUBSET (0..c.nb)
    BY PageIs
  <2> HIDE DEF safe
  <2>2. \E n \in safe : \A m \in safe : m <= n
    BY <2>1, GreatestNatural
  <2> QED
    BY <2>2
<1>3. p \in 0..c.nb /\ \A k \in 1..p : ~Raises(At(c, r, k))
  <2> HIDE DEF p
  <2> QED
    BY <1>2
<1>4. Len([k \in 1..p |-> row(k)]) = p
  <2> HIDE DEF p, row
  <2>1. p \in Nat
    BY <1>3
  <2>2. [k \in 1..p |-> row(k)] \in Seq({row(k) : k \in 1..p})
    BY <2>1
  <2> QED
    BY <2>1, <2>2
<1> HIDE DEF p
<1> QED
  BY <1>1, <1>3, <1>4

\* A row is of its word: it has its address, and a chain or a pair of it.
LEMMA RowIs ==
    ASSUME V8TypeOK, NEW i \in Nat, NEW a \in Int
    PROVE  /\ Row(i, a).i = i /\ Row(i, a).at = a
           /\ Len(Row(i, a).links) \in Nat \ {0}
           /\ ShowsChain(a, Row(i, a).links, Row(i, a).end)
           /\ ~Readable(a) => Row(i, a).pair = NoPair
           /\ Readable(a) => Row(i, a).pair = <<Resolved(Halves(image[a])[1]),
                                               Resolved(Halves(image[a])[2])>>
<1> DEFINE pair == IF Readable(a)
                   THEN <<Resolved(Halves(image[a])[1]), Resolved(Halves(image[a])[2])>>
                   ELSE NoPair
           row  == Row(i, a)
<1>1. row = [i |-> i, at |-> a, pair |-> pair,
             links |-> IF pair = NoPair THEN Chain(a).links ELSE <<a>>,
             end   |-> IF pair = NoPair THEN Chain(a).end ELSE "pair"]
  BY DEF Row
<1>2. row.i = i /\ row.at = a /\ row.pair = pair
  <2> HIDE DEF pair
  <2> QED
    BY <1>1
<1>3. Len(row.links) \in Nat \ {0} /\ ShowsChain(a, row.links, row.end)
  <2> HIDE DEF pair
  <2>1. CASE pair = NoPair
    <3>1. row.links = Chain(a).links /\ row.end = Chain(a).end
      BY <1>1, <2>1
    <3> QED
      BY <3>1, ChainShows
  <2>2. CASE pair # NoPair
    <3>1. row.links = <<a>> /\ row.end = "pair"
      BY <1>1, <2>2
    <3>2. ShowsChain(a, <<a>>, "pair") /\ Len(<<a>>) = 1
      BY DEF ShowsChain
    <3> QED
      BY <3>1, <3>2
  <2> QED
    BY <2>1, <2>2
<1> QED
  BY <1>2, <1>3

\* A row of a page is at an even address, and follows the rows before it.
LEMMA AtIs ==
    ASSUME NEW c \in Commands, NEW r \in Nat, NEW k \in 1..c.nb
    PROVE  /\ Page(c, r)[k] \in Nat /\ At(c, r, k) \in Int /\ At(c, r, k) % 2 = 0
           /\ At(c, r, k) = c.target - (c.target % 2) + Page(c, r)[k] * Size
<1>1. c.target \in Nat /\ Size \in Nat /\ Size % 2 = 0
  <2>1. c.target \in Expressions /\ Expressions \subseteq Values
    BY V8Assumption DEF Commands
  <2>2. Size \in Nat /\ Size % 2 = 0
    BY V8Assumption
  <2> QED
    BY <2>1, <2>2, ValuesAreNatural
<1>2. Page(c, r)[k] \in Nat
  <2>1. c.nb * r \in Nat /\ Page(c, r)[k] \in c.nb * r .. c.nb * (r + 1) - 1
    BY PageIs
  <2> DEFINE b == c.nb * r
  <2> HIDE DEF b
  <2>2. b \in Nat /\ Page(c, r)[k] \in b .. c.nb * (r + 1) - 1
    BY <2>1 DEF b
  <2> QED
    BY <2>2
<1> DEFINE i == Page(c, r)[k]
<1>3. At(c, r, k) = c.target - (c.target % 2) + i * Size
  BY DEF At, Untagged
<1> HIDE DEF i
<1>4. PICK half \in Nat : Size = 2 * half
  <2>1. Size \div 2 \in Nat /\ Size = 2 * (Size \div 2)
    BY <1>1
  <2> QED
    BY <2>1
<1>5. i * Size = 2 * (i * half) /\ i * half \in Nat
  BY <1>2, <1>4 DEF i
<1>6. (c.target - (c.target % 2)) % 2 = 0
  BY <1>1
<1> QED
  BY <1>1, <1>2, <1>3, <1>5, <1>6 DEF i

-----------------------------------------------------------------------------
(* v8deref: the invariant.                                                 *)

\* What the rows show of memory, and which of them have been printed.
PageShows ==
    \A k \in 1..Len(rows) :
       ShowsChain(cmd.target - (cmd.target % 2) + rows[k].i * Size,
                  rows[k].links, rows[k].end)

Covers ==
    ~raised => covered = 0 .. cmd.nb * (IF cmd = NoCommand THEN 0
                                        ELSE repeat_count + 1) - 1

V8IInv == V8TypeOK /\ RootIsCurrent /\ Covers /\ PageShows

\* The invariant implies what the runs check.
LEMMA PageShowsIsMemory ==
    ASSUME V8IInv PROVE PageIsMemory
  BY DEF V8IInv, Covers, PageShows, ShowsChain, PageIsMemory

\* While the page is empty, the invariant asks nothing of it.
LEMMA NoPageIsTrue ==
    ASSUME ForgetsPage, V8TypeOK
    PROVE  /\ Covers' /\ PageShows'
           /\ \A k \in 1..Len(rows') : FALSE
           /\ cmd' = NoCommand /\ repeat_count' \in 0..MaxRepeats
           /\ covered' = {} /\ raised' = FALSE
<1>1. /\ cmd' = NoCommand /\ repeat_count' = 0 /\ rows' = << >> /\ covered' = {}
      /\ raised' = FALSE
  BY DEF ForgetsPage
<1>2. NoCommand.nb = 0 /\ 0 * 0 = 0 /\ 0..(0 - 1) = {}
  BY DEF NoCommand
<1>3. Covers'
  BY <1>1, <1>2 DEF Covers
<1>4. \A k \in 1..Len(rows') : FALSE
  BY <1>1
<1>5. PageShows'
  BY <1>4 DEF PageShows
<1> QED
  BY <1>1, <1>3, <1>4, <1>5, V8Assumption

\* Initially.
LEMMA V8InitIInv ==
    ASSUME V8Init PROVE V8IInv
<1>1. /\ cmd = NoCommand /\ repeat_count = 0 /\ rows = << >> /\ covered = {}
      /\ raised = FALSE /\ isolate_root = NoRoot
  BY DEF V8Init, NoPage
<1>2. \A k \in 1..Len(rows) : FALSE
  BY <1>1
<1>3. V8TypeOK
  <2>1. roots \in [Threads -> Roots \cup {0}] /\ 0 \in 0..MaxRepeats
    BY V8Assumption DEF V8Init
  <2> QED
    BY <1>1, <1>2, <2>1 DEF V8Init, V8TypeOK
<1>4. RootIsCurrent
  BY <1>1, <1>2 DEF RootIsCurrent, Cached
<1>5. NoCommand.nb = 0 /\ 0 * 0 = 0 /\ 0..(0 - 1) = {}
  BY DEF NoCommand
<1>6. Covers
  BY <1>1, <1>5 DEF Covers
<1>7. PageShows
  BY <1>2 DEF PageShows
<1> QED
  BY <1>3, <1>4, <1>6, <1>7 DEF V8IInv

\* The root that rows are resolved against is the one kept, or of the thread.
LEMMA RootOf ==
    ASSUME V8TypeOK, RootIsCurrent
    PROVE  /\ Root \in Roots \cup {NoRoot, 0}
           /\ Root \notin {NoRoot, 0} => program = "v8"
           /\ Root # NoRoot /\ ~(moved /\ Cached) => Root = roots[thread]
<1>1. roots[thread] \in Roots \cup {0}
  BY DEF V8TypeOK
<1>2. CASE Cached
  <2>1. /\ Root = isolate_root /\ program = "v8"
        /\ ~moved => isolate_root = roots[thread]
    BY <1>2 DEF Root, RootIsCurrent
  <2> QED
    BY <1>2, <2>1 DEF V8TypeOK
<1>3. CASE ~Cached
  <2>1. Root = IF program = "v8" THEN roots[thread] ELSE NoRoot
    BY <1>3 DEF Root
  <2> QED
    BY <1>1, <1>3, <2>1
<1> QED
  BY <1>2, <1>3

\* A page, typed or repeated, shows what is in memory, from its own root.
LEMMA InvokeIInv ==
    ASSUME V8IInv, NEW c \in Commands, NEW r \in 0..MaxRepeats, Invoke(c, r),
           r > 0 => c = cmd /\ r = repeat_count + 1 /\ cmd # NoCommand
    PROVE  V8IInv'
<1>1. r \in Nat /\ MaxRepeats \in Nat
  BY V8Assumption
<1>2. /\ program' = program /\ image' = image /\ thread' = thread /\ roots' = roots
      /\ cmd' = c /\ repeat_count' = r /\ V8TypeOK /\ RootIsCurrent
  BY DEF Invoke, programVars, V8IInv
<1>3. /\ program' \in {"none", "v8", "other"} /\ image' \in Images \cup {NoImage}
      /\ thread' \in Threads /\ roots' \in [Threads -> Roots \cup {0}]
      /\ cmd' \in Commands \cup {NoCommand} /\ repeat_count' \in 0..MaxRepeats
  BY <1>2 DEF V8TypeOK
<1>4. CASE Mapped(Untagged(c.target))
  <2>1. PICK p \in 0..c.nb :
             /\ Shown(c, r) = [k \in 1..p |-> Row(Page(c, r)[k], At(c, r, k))]
             /\ Len(Shown(c, r)) = p
             /\ \A k \in 1..p : ~Raises(At(c, r, k))
    BY <1>1, ShownIs
  <2>2. /\ rows' = Shown(c, r)
        /\ covered' = (IF r = 0 THEN {} ELSE covered) \cup {rows'[k].i : k \in 1..p}
        /\ isolate_root' = IF LooksUp(c, r) THEN Root ELSE isolate_root
    BY <1>4, <2>1 DEF Invoke
  <2>3. raised' = ((r > 0 /\ raised) \/ Len(Shown(c, r)) < c.nb)
    BY <1>4, Zenon DEF Invoke
  <2>4. moved' = (moved /\ (Cached \/ ~LooksUp(c, r)))
    BY <1>4, Zenon DEF Invoke
  <2>5. /\ c.nb \in Nat /\ p \in Nat /\ p <= c.nb /\ 1..p \subseteq 1..c.nb
        /\ Len(rows') = p
    <3>1. c.nb \in Nat
      BY <1>1, PageIs
    <3> QED
      BY <2>1, <2>2, <3>1
  <2>6. \A k \in 1..p : rows'[k] = Row(Page(c, r)[k], At(c, r, k))
    BY <2>1, <2>2
  <2>7. ASSUME NEW k \in 1..p
        PROVE  /\ rows'[k].i = Page(c, r)[k] /\ rows'[k].i \in Nat
               /\ rows'[k].at = At(c, r, k) /\ rows'[k].at % 2 = 0
               /\ Len(rows'[k].links) \in Nat \ {0}
               /\ ShowsChain(At(c, r, k), rows'[k].links, rows'[k].end)
               /\ ~Readable(At(c, r, k)) => rows'[k].pair = NoPair
               /\ Readable(At(c, r, k)) =>
                     rows'[k].pair = <<Resolved(Halves(image[At(c, r, k)])[1]),
                                       Resolved(Halves(image[At(c, r, k)])[2])>>
    <3>1. k \in 1..c.nb
      BY <2>5
    <3>2. /\ Page(c, r)[k] \in Nat /\ At(c, r, k) \in Int /\ At(c, r, k) % 2 = 0
      BY <1>1, <3>1, AtIs
    <3>3. rows'[k] = Row(Page(c, r)[k], At(c, r, k))
      BY <2>6
    <3> DEFINE a == At(c, r, k)
               i == Page(c, r)[k]
    <3> HIDE DEF a, i
    <3>4. rows'[k] = Row(i, a) /\ i \in Nat /\ a \in Int /\ a % 2 = 0
      BY <3>2, <3>3 DEF a, i
    <3> DEFINE row == Row(i, a)
    <3>5. /\ row.i = i /\ row.at = a /\ Len(row.links) \in Nat \ {0}
          /\ ShowsChain(a, row.links, row.end)
          /\ ~Readable(a) => row.pair = NoPair
          /\ Readable(a) => row.pair = <<Resolved(Halves(image[a])[1]),
                                         Resolved(Halves(image[a])[2])>>
      BY <1>2, <3>4, RowIs
    <3>6. rows'[k] = row
      BY <3>4
    <3> HIDE DEF row
    <3>7. /\ rows'[k].i = i /\ rows'[k].i \in Nat
          /\ rows'[k].at = a /\ rows'[k].at % 2 = 0
      BY <3>4, <3>5, <3>6
    <3> QED
      BY <3>5, <3>6, <3>7 DEF a, i
  <2>8. V8TypeOK'
    <3>1. isolate_root' \in Roots \cup {NoRoot, 0}
      BY <1>2, <2>2, RootOf DEF V8TypeOK
    <3>2. moved' \in BOOLEAN
      BY <2>4, Zenon
    <3>3. raised' \in BOOLEAN
      BY <2>3, Zenon
    <3>4. covered' \subseteq Nat
      BY <1>2, <2>2, <2>7 DEF V8TypeOK
    <3>5. \A k \in 1..Len(rows') :
             /\ (rows'[k].at % 2) = 0 /\ rows'[k].i \in Nat
             /\ Len(rows'[k].links) \in Nat \ {0}
      BY <2>5, <2>7
    <3> QED
      BY <1>3, <3>1, <3>2, <3>3, <3>4, <3>5 DEF V8TypeOK
  <2>9. ~moved' /\ LooksUp(c, r) => ~(moved /\ Cached)
    BY <2>4, Zenon
  <2>10. Cached' => program' = "v8" /\ (~moved' => isolate_root' = roots'[thread'])
    <3> SUFFICES ASSUME Cached'
                 PROVE  program' = "v8" /\ (~moved' => isolate_root' = roots'[thread'])
      OBVIOUS
    <3>1. isolate_root' \notin {NoRoot, 0}
      BY DEF Cached
    <3>2. CASE LooksUp(c, r)
      <4>1. isolate_root' = Root
        BY <2>2, <3>2
      <4> QED
        BY <1>2, <2>9, <3>1, <3>2, <4>1, RootOf
    <3>3. CASE ~LooksUp(c, r)
      <4>1. isolate_root' = isolate_root
        BY <2>2, <3>3
      <4>2. ~moved' => ~moved
        BY <2>4, <3>3, Zenon
      <4> QED
        BY <1>2, <3>1, <4>1, <4>2 DEF RootIsCurrent, Cached
    <3> QED
      BY <3>2, <3>3
  <2>11. ASSUME ~moved', NEW k \in 1..p, NEW j \in 1..2,
               rows'[k].pair[j] # Unreadable
         PROVE  rows'[k].pair[j] = roots[thread] + Halves(image[rows'[k].at])[j]
    <3> DEFINE a == At(c, r, k)
    <3>1. Readable(a)
      BY <2>7, <2>11 DEF NoPair
    <3>2. LooksUp(c, r)
      BY <2>5, <3>1 DEF LooksUp, At
    <3>3. Root # NoRoot
      BY <2>1, <3>1 DEF Raises
    <3>4. Root = roots[thread]
      BY <1>2, <2>9, <2>11, <3>2, <3>3, RootOf
    <3>5. rows'[k].pair[j] = Resolved(Halves(image[a])[j]) /\ rows'[k].at = a
      BY <2>7, <3>1
    <3> QED
      BY <2>11, <3>4, <3>5 DEF Resolved
  <2>12. RootIsCurrent'
    BY <1>2, <2>5, <2>10, <2>11 DEF RootIsCurrent
  <2>13. PageShows'
    <3> SUFFICES ASSUME NEW k \in 1..p
                 PROVE  ShowsChain(cmd.target - (cmd.target % 2) + rows[k].i * Size,
                                   rows[k].links, rows[k].end)'
      BY <2>5 DEF PageShows
    <3>1. k \in 1..c.nb
      BY <2>5
    <3>2. At(c, r, k) = c.target - (c.target % 2) + Page(c, r)[k] * Size
      BY <1>1, <3>1, AtIs
    <3>3. /\ rows'[k].i = Page(c, r)[k]
          /\ ShowsChain(At(c, r, k), rows'[k].links, rows'[k].end)
      BY <2>7
    <3> DEFINE a == At(c, r, k)
    <3>4. a = cmd'.target - (cmd'.target % 2) + rows'[k].i * Size
      BY <1>2, <3>2, <3>3
    <3> HIDE DEF a
    <3>5. ShowsChain(a, rows'[k].links, rows'[k].end)
      BY <3>3 DEF a
    <3> QED
      BY <1>2, <3>4, <3>5 DEF ShowsChain
  <2>14. Covers'
    <3> SUFFICES ASSUME ~raised'
                 PROVE  covered' = 0 .. c.nb * (IF c = NoCommand THEN 0 ELSE r + 1) - 1
      BY <1>2 DEF Covers
    <3>1. ~(r > 0 /\ raised) /\ ~(Len(Shown(c, r)) < c.nb)
      BY <2>3, Zenon
    <3>2. p = c.nb
      BY <2>1, <2>5, <3>1
    <3>3. {rows'[k].i : k \in 1..p} = c.nb * r .. c.nb * (r + 1) - 1
      <4>1. {rows'[k].i : k \in 1..p} = {Page(c, r)[k] : k \in 1..c.nb}
        BY <2>7, <3>2
      <4> QED
        BY <1>1, <4>1, PageIs
    <3> DEFINE b == c.nb * r
               e == c.nb * (r + 1)
    <3>4. b \in Nat /\ e = b + c.nb /\ (r = 0 => b = 0)
      BY <1>1, PageIs
    <3>5. (IF r = 0 THEN {} ELSE covered) = 0 .. b - 1
      <4>1. CASE r = 0
        BY <3>4, <4>1
      <4>2. CASE r # 0
        <5>1. r > 0 /\ c = cmd /\ r = repeat_count + 1 /\ cmd # NoCommand /\ ~raised
          BY <1>1, <3>1, <4>2
        <5> QED
          BY <4>2, <5>1 DEF Covers, V8IInv
      <4> QED
        BY <4>1, <4>2
    <3>6. covered' = 0 .. e - 1
      <4>1. covered' = (0 .. b - 1) \cup (b .. e - 1)
        BY <2>2, <3>3, <3>5
      <4> HIDE DEF b, e
      <4> QED
        BY <2>5, <3>4, <4>1
    <3>7. CASE c = NoCommand
      <4>1. c.nb = 0 /\ 0 * (r + 1) = 0 /\ 0 * 0 = 0
        BY <1>1, <3>7 DEF NoCommand
      <4> QED
        BY <3>6, <3>7, <4>1
    <3> QED
      BY <3>6, <3>7
  <2> QED
    BY <2>8, <2>12, <2>13, <2>14 DEF V8IInv
<1>5. CASE ~Mapped(Untagged(c.target))
  <2>1. /\ rows' = << >> /\ covered' = {} /\ raised' = TRUE
        /\ isolate_root' = isolate_root /\ moved' = moved
    BY <1>5 DEF Invoke
  <2>2. \A k \in 1..Len(rows') : FALSE
    BY <2>1
  <2>3. V8TypeOK'
    BY <1>2, <1>3, <2>1, <2>2 DEF V8TypeOK
  <2>4. RootIsCurrent'
    BY <1>2, <2>1, <2>2 DEF RootIsCurrent, Cached
  <2>5. Covers' /\ PageShows'
    BY <2>1, <2>2 DEF Covers, PageShows
  <2> QED
    BY <2>3, <2>4, <2>5 DEF V8IInv
<1> QED
  BY <1>4, <1>5

\* A program starts: there is no root of another.
LEMMA StartIInv ==
    ASSUME V8IInv, NEW which \in {"v8", "other"}, Start(which)
    PROVE  V8IInv'
<1>1. V8TypeOK /\ RootIsCurrent /\ ForgetsPage
  BY DEF V8IInv, Start
<1>2. /\ Covers' /\ PageShows' /\ \A k \in 1..Len(rows') : FALSE
      /\ cmd' = NoCommand /\ repeat_count' \in 0..MaxRepeats
      /\ covered' = {} /\ raised' = FALSE
  BY <1>1, NoPageIsTrue
<1>3. /\ program = "none" /\ program' = which /\ image' \in Images
      /\ thread' \in Threads
      /\ roots' = [t \in Threads |-> 0] /\ isolate_root' = isolate_root
      /\ moved' = moved
  BY DEF Start
<1>4. V8TypeOK'
  BY <1>1, <1>2, <1>3 DEF V8TypeOK
<1>5. RootIsCurrent'
  <2>1. ~Cached
    BY <1>1, <1>3 DEF RootIsCurrent
  <2> QED
    BY <1>2, <1>3, <2>1 DEF RootIsCurrent, Cached
<1> QED
  BY <1>2, <1>4, <1>5 DEF V8IInv

\* The program runs: it is noted when the selected thread or its root changes.
LEMMA RunsIInv ==
    ASSUME V8IInv, NEW t \in Threads, NEW r \in Roots, Runs(t, r)
    PROVE  V8IInv'
<1>1. V8TypeOK /\ RootIsCurrent /\ ForgetsPage
  BY DEF V8IInv, Runs
<1>2. /\ Covers' /\ PageShows' /\ \A k \in 1..Len(rows') : FALSE
      /\ cmd' = NoCommand /\ repeat_count' \in 0..MaxRepeats
      /\ covered' = {} /\ raised' = FALSE
  BY <1>1, NoPageIsTrue
<1>3. /\ program' = program /\ image' \in Images /\ thread' \in Threads
      /\ roots' = (IF program = "v8" THEN [roots EXCEPT ![t] = r] ELSE roots)
      /\ isolate_root' = isolate_root
  BY DEF Runs
<1>4. moved' = (moved \/ thread' # thread \/ roots'[thread] # roots[thread])
  BY Zenon DEF Runs
<1>5. moved' \in BOOLEAN
  BY <1>4, Zenon
<1>6. V8TypeOK'
  <2>1. roots' \in [Threads -> Roots \cup {0}]
    BY <1>1, <1>3 DEF V8TypeOK
  <2> QED
    BY <1>1, <1>2, <1>3, <1>5, <2>1 DEF V8TypeOK
<1>7. RootIsCurrent'
  <2>1. ~moved' => ~moved /\ thread' = thread /\ roots'[thread] = roots[thread]
    BY <1>4, Zenon
  <2>2. Cached' => program' = "v8" /\ (~moved' => isolate_root' = roots'[thread'])
    BY <1>1, <1>3, <2>1 DEF RootIsCurrent, Cached
  <2> QED
    BY <1>2, <2>2 DEF RootIsCurrent
<1> QED
  BY <1>2, <1>6, <1>7 DEF V8IInv

\* Another thread is selected, which is noted.
LEMMA SelectThreadIInv ==
    ASSUME V8IInv, NEW t \in Threads, SelectThread(t)
    PROVE  V8IInv'
<1>1. V8TypeOK /\ RootIsCurrent /\ ForgetsPage
  BY DEF V8IInv, SelectThread
<1>2. /\ Covers' /\ PageShows' /\ \A k \in 1..Len(rows') : FALSE
      /\ cmd' = NoCommand /\ repeat_count' \in 0..MaxRepeats
      /\ covered' = {} /\ raised' = FALSE
  BY <1>1, NoPageIsTrue
<1>3. /\ program' = program /\ image' = image /\ thread' = t /\ roots' = roots
      /\ isolate_root' = isolate_root
  BY DEF SelectThread
<1>4. moved' = (moved \/ t # thread)
  BY Zenon DEF SelectThread
<1>5. moved' \in BOOLEAN /\ (~moved' => ~moved /\ t = thread)
  BY <1>4, Zenon
<1>6. V8TypeOK'
  BY <1>1, <1>2, <1>3, <1>5 DEF V8TypeOK
<1>7. RootIsCurrent'
  BY <1>1, <1>2, <1>3, <1>5 DEF RootIsCurrent, Cached
<1> QED
  BY <1>2, <1>6, <1>7 DEF V8IInv

\* The program exits: the script's hook forgets the root.
LEMMA ExitsIInv ==
    ASSUME V8IInv, Exits PROVE V8IInv'
<1>1. V8TypeOK /\ RootIsCurrent /\ ForgetsPage
  BY DEF V8IInv, Exits
<1>2. /\ Covers' /\ PageShows' /\ \A k \in 1..Len(rows') : FALSE
      /\ cmd' = NoCommand /\ repeat_count' \in 0..MaxRepeats
      /\ covered' = {} /\ raised' = FALSE
  BY <1>1, NoPageIsTrue
<1>3. /\ program' = "none" /\ image' = NoImage /\ thread' = thread
      /\ roots' = [t \in Threads |-> 0] /\ isolate_root' = NoRoot /\ moved' = FALSE
  BY DEF Exits, RootAfterExit
<1>4. V8TypeOK'
  BY <1>1, <1>2, <1>3 DEF V8TypeOK
<1>5. RootIsCurrent'
  BY <1>2, <1>3 DEF RootIsCurrent, Cached
<1> QED
  BY <1>2, <1>4, <1>5 DEF V8IInv

\* The steps keep the invariant.
LEMMA V8NextIInv ==
    ASSUME V8IInv, [V8Next]_v8Vars PROVE V8IInv'
<1>1. ASSUME NEW c \in Commands, Vereference(c) PROVE V8IInv'
  <2>1. 0 \in 0..MaxRepeats /\ ~(0 > 0)
    BY V8Assumption
  <2> QED
    BY <1>1, <2>1, InvokeIInv DEF Vereference
<1>2. CASE Again
  <2>1. cmd # NoCommand /\ repeat_count < MaxRepeats /\ Invoke(cmd, repeat_count + 1)
    BY <1>2 DEF Again
  <2>2. cmd \in Commands /\ repeat_count + 1 \in 0..MaxRepeats
    BY <2>1, V8Assumption DEF V8IInv, V8TypeOK
  <2> QED
    BY <2>1, <2>2, InvokeIInv
<1>3. CASE UNCHANGED v8Vars
  <2>1. /\ program' = program /\ image' = image /\ thread' = thread /\ roots' = roots
        /\ isolate_root' = isolate_root /\ moved' = moved
        /\ cmd' = cmd /\ repeat_count' = repeat_count /\ rows' = rows
        /\ covered' = covered /\ raised' = raised
    BY <1>3 DEF v8Vars, programVars, pageVars
  <2>2. V8TypeOK'
    BY <2>1 DEF V8IInv, V8TypeOK
  <2>3. RootIsCurrent'
    BY <2>1 DEF V8IInv, RootIsCurrent, Cached
  <2>4. Covers'
    BY <2>1 DEF V8IInv, Covers
  <2>5. PageShows'
    <3>1. \A a, links, end : ShowsChain(a, links, end)' <=> ShowsChain(a, links, end)
      BY <2>1 DEF ShowsChain
    <3> QED
      BY <2>1, <3>1 DEF V8IInv, PageShows
  <2> QED
    BY <2>2, <2>3, <2>4, <2>5 DEF V8IInv
<1> QED
  BY <1>1, <1>2, <1>3, StartIInv, RunsIInv, SelectThreadIInv, ExitsIInv DEF V8Next

\* The invariant holds of every reachable state.
LEMMA V8Inductive == V8Spec => []V8IInv
<1>1. V8Init => V8IInv
  BY V8InitIInv
<1>2. V8IInv /\ [V8Next]_v8Vars => V8IInv'
  BY V8NextIInv
<1> QED
  BY <1>1, <1>2, PTL DEF V8Spec

\* The variables of v8deref have their types: a page is made of rows at even
\* addresses, each with a number and at least one link.
THEOREM V8TypeCorrect == V8Spec => []V8TypeOK
<1>1. V8IInv => V8TypeOK
  BY DEF V8IInv
<1> QED
  BY <1>1, V8Inductive, PTL

\* The isolate root that the script keeps is never one of a program that has
\* exited, and is the selected thread's as long as nobody moved to another one,
\* so until then a compressed pointer is shown at its thread's isolate.
THEOREM RootAlwaysCurrent == V8Spec => []RootIsCurrent
<1>1. V8IInv => RootIsCurrent
  BY DEF V8IInv
<1> QED
  BY <1>1, V8Inductive, PTL

\* For every image, count and number of repeats, a page and its repeats print
\* each row once with none left out, and each chain of dereference_from is what
\* memory holds, without an address twice but at its end, and tells of just the
\* loops its limit does not cut off.
THEOREM PagesAreMemory == V8Spec => []PageIsMemory
<1>1. V8IInv => PageIsMemory
  BY PageShowsIsMemory
<1> QED
  BY <1>1, V8Inductive, PTL

-----------------------------------------------------------------------------
(* capstone-disassemble: what decodes from an address.                     *)

\* The instruction lengths have their type.
Instructions == insn_size \in [Code -> 0..MaxSize]

\* The rows are instructions that decode one after the other from b to before
\* end, and the next one does not.
IsRun(insns, b, end) ==
    LET next == IF insns = << >> THEN b ELSE Ends(insns)
    IN  /\ insns \in Seq(Code)
        /\ insns # << >> => insns[1] = b
        /\ \A i \in 1..(Len(insns) - 1) : insns[i + 1] = insns[i] + insn_size[insns[i]]
        /\ \A i \in 1..Len(insns) :
              insn_size[insns[i]] # 0 /\ insns[i] + insn_size[insns[i]] <= end
        /\ next <= end
        /\ next \notin Code \/ insn_size[next] = 0 \/ next + insn_size[next] > end

\* No instruction decodes.
LEMMA NoRun ==
    ASSUME NEW b \in Int, NEW end \in Int, b <= end, Instructions,
           b \notin Code \/ b >= end \/ insn_size[b] = 0 \/ b + insn_size[b] > end
    PROVE  IsRun(<< >>, b, end)
  BY DisassemblyAssumption DEF IsRun, Instructions

\* One more instruction, before the others.
LEMMA LongerRun ==
    ASSUME NEW b \in Code, NEW end \in Int, Instructions, insn_size[b] # 0,
           b + insn_size[b] <= end, NEW rest, IsRun(rest, b + insn_size[b], end)
    PROVE  IsRun(<<b>> \o rest, b, end)
<1> DEFINE all == <<b>> \o rest
           z   == b + insn_size[b]
<1>1. b \in Nat /\ insn_size[b] \in Nat /\ z \in Nat /\ rest \in Seq(Code)
  BY DisassemblyAssumption DEF Instructions, IsRun
<1>2. /\ rest # << >> => rest[1] = z
      /\ \A i \in 1..(Len(rest) - 1) : rest[i + 1] = rest[i] + insn_size[rest[i]]
      /\ \A i \in 1..Len(rest) :
            insn_size[rest[i]] # 0 /\ rest[i] + insn_size[rest[i]] <= end
  BY DEF IsRun
<1>3. /\ all \in Seq(Code) /\ Len(all) = Len(rest) + 1 /\ all # << >> /\ all[1] = b
      /\ \A i \in 2..Len(all) : all[i] = rest[i - 1]
  BY <1>1
<1>4. ASSUME NEW i \in 1..(Len(all) - 1)
      PROVE  all[i + 1] = all[i] + insn_size[all[i]]
  <2>1. i + 1 \in 2..Len(all) /\ all[i + 1] = rest[i]
    BY <1>1, <1>3
  <2>2. CASE i = 1
    <3>1. rest # << >>
      BY <1>1, <1>3, <2>2
    <3> QED
      BY <1>2, <1>3, <2>1, <2>2, <3>1
  <2>3. CASE i # 1
    <3>1. i - 1 \in 1..(Len(rest) - 1) /\ i \in 2..Len(all) /\ (i - 1) + 1 = i
      BY <1>1, <1>3, <2>3
    <3>2. rest[i] = rest[i - 1] + insn_size[rest[i - 1]]
      BY <1>2, <3>1
    <3> QED
      BY <1>3, <2>1, <3>1, <3>2
  <2> QED
    BY <2>2, <2>3
<1>5. ASSUME NEW i \in 1..Len(all)
      PROVE  insn_size[all[i]] # 0 /\ all[i] + insn_size[all[i]] <= end
  <2>1. CASE i = 1
    BY <1>3, <2>1
  <2>2. CASE i # 1
    <3>1. i - 1 \in 1..Len(rest) /\ i \in 2..Len(all)
      BY <1>1, <1>3, <2>2
    <3> QED
      BY <1>2, <1>3, <3>1
  <2> QED
    BY <2>1, <2>2
<1>6. Ends(all) = IF rest = << >> THEN z ELSE Ends(rest)
  <2>1. CASE rest = << >>
    BY <1>3, <2>1 DEF Ends
  <2>2. CASE rest # << >>
    <3>1. Len(rest) \in Nat /\ Len(rest) # 0 /\ Len(all) \in 2..Len(all)
          /\ Len(all) - 1 = Len(rest)
      BY <1>1, <1>3, <2>2
    <3>2. all[Len(all)] = rest[Len(rest)]
      BY <1>3, <3>1
    <3> QED
      BY <2>2, <3>2 DEF Ends
  <2> QED
    BY <2>1, <2>2
<1>7. /\ Ends(all) <= end
      /\ Ends(all) \notin Code \/ insn_size[Ends(all)] = 0
         \/ Ends(all) + insn_size[Ends(all)] > end
  BY <1>6 DEF IsRun
<1> HIDE DEF all
<1>8. IsRun(all, b, end)
  BY <1>3, <1>4, <1>5, <1>7 DEF IsRun
<1> QED
  BY <1>8 DEF all

\* What the loop of cs_disassemble gives from b, of what it gives behind b.
DecodesOne(rest, b, end) ==
    IF b \notin Code \/ b >= end THEN << >>
    ELSE IF insn_size[b] = 0 \/ b + insn_size[b] > end THEN << >>
    ELSE <<b>> \o rest[b + insn_size[b]]

\* The loop has a result: a function from each address to what decodes there.
LEMMA DecodingExists ==
    ASSUME NEW end \in Int, Instructions
    PROVE  \A n \in Nat :
              \E f : f = [b \in (end - n)..end |-> DecodesOne(f, b, end)]
<1> DEFINE Is(f, n) == f = [b \in (end - n)..end |-> DecodesOne(f, b, end)]
           S == {n \in Nat : \E f : Is(f, n)}
<1>1. ASSUME NEW b \in Int, ~(b \notin Code \/ b >= end),
             ~(insn_size[b] = 0 \/ b + insn_size[b] > end)
      PROVE  b + insn_size[b] \in (b + 1)..end
  BY <1>1, DisassemblyAssumption DEF Instructions
<1>2. 0 \in S
  <2> DEFINE f == [b \in (end - 0)..end |-> << >>]
  <2>1. \A b \in (end - 0)..end : DecodesOne(f, b, end) = << >>
    BY DEF DecodesOne
  <2>2. Is(f, 0)
    BY <2>1
  <2> QED
    BY <2>2
<1>3. ASSUME NEW n \in Nat, n \in S PROVE n + 1 \in S
  <2>1. PICK f : Is(f, n)
    BY <1>3
  <2> DEFINE z == end - (n + 1)
             g == [b \in z..end |-> IF b = z THEN DecodesOne(f, b, end) ELSE f[b]]
  <2>2. \A b \in (end - n)..end : g[b] = f[b] /\ f[b] = DecodesOne(f, b, end)
    <3>1. \A b \in (end - n)..end : b \in z..end /\ b # z
      OBVIOUS
    <3>2. \A b \in (end - n)..end : f[b] = DecodesOne(f, b, end)
      BY <2>1, Zenon
    <3> QED
      BY <3>1, <3>2
  <2>3. ASSUME NEW b \in z..end PROVE DecodesOne(g, b, end) = DecodesOne(f, b, end)
    <3>1. CASE b \notin Code \/ b >= end \/ insn_size[b] = 0 \/ b + insn_size[b] > end
      BY <3>1 DEF DecodesOne
    <3>2. CASE ~(b \notin Code \/ b >= end \/ insn_size[b] = 0
                 \/ b + insn_size[b] > end)
      <4>1. b + insn_size[b] \in (end - n)..end
        BY <1>1, <3>2
      <4> HIDE DEF g
      <4> QED
        BY <2>2, <3>2, <4>1 DEF DecodesOne
    <3> QED
      BY <3>1, <3>2
  <2>4. \A b \in z..end : g[b] = DecodesOne(g, b, end)
    <3> SUFFICES ASSUME NEW b \in z..end PROVE g[b] = DecodesOne(g, b, end)
      OBVIOUS
    <3>1. CASE b = z
      <4>1. g[b] = DecodesOne(f, b, end)
        BY <3>1
      <4> HIDE DEF g
      <4> QED
        BY <2>3, <4>1
    <3>2. CASE b # z
      <4>1. b \in (end - n)..end
        BY <3>2
      <4> HIDE DEF g
      <4> QED
        BY <2>2, <2>3, <4>1
    <3> QED
      BY <3>1, <3>2
  <2>5. g = [b \in z..end |-> g[b]]
    OBVIOUS
  <2>6. Is(g, n + 1)
    <3> HIDE DEF g
    <3> QED
      BY <2>4, <2>5
  <2> HIDE DEF Is, g
  <2> QED
    BY <2>6
<1>4. \A n \in Nat : n \in S
  <2> HIDE DEF S
  <2> QED
    BY <1>2, <1>3, InductiveSet
<1> QED
  BY <1>4

\* The rows of a window are a run.
LEMMA DecodedIsRun ==
    ASSUME NEW a \in Int, NEW end \in Int, a <= end, Instructions
    PROVE  IsRun(Decoded(a, end), a, end)
<1> DEFINE Is(f) == f = [b \in a..end |-> DecodesOne(f, b, end)]
           From  == CHOOSE f : Is(f)
<1>1. Is(From)
  <2>1. end - a \in Nat /\ end - (end - a) = a
    OBVIOUS
  <2>2. \E f : f = [b \in (end - (end - a))..end |-> DecodesOne(f, b, end)]
    BY <2>1, DecodingExists
  <2>3. \E f : Is(f)
    BY <2>1, <2>2
  <2> HIDE DEF Is
  <2> QED
    BY <2>3
<1>2. Decoded(a, end) = From[a]
  BY Zenon DEF Decoded, DecodesOne
<1> HIDE DEF From
<1>3. \A b \in a..end : From[b] = DecodesOne(From, b, end)
  BY <1>1, Zenon
<1> DEFINE S == {n \in Nat : \A b \in a..end : end - b <= n => IsRun(From[b], b, end)}
<1>4. ASSUME NEW b \in a..end,
             \A c \in a..end : c > b => IsRun(From[c], c, end)
      PROVE  IsRun(From[b], b, end)
  <2>1. CASE b \notin Code \/ b >= end \/ insn_size[b] = 0 \/ b + insn_size[b] > end
    <3>1. From[b] = << >>
      BY <1>3, <2>1 DEF DecodesOne
    <3> QED
      BY <2>1, <3>1, NoRun
  <2>2. CASE ~(b \notin Code \/ b >= end \/ insn_size[b] = 0 \/ b + insn_size[b] > end)
    <3>1. b \in Code /\ insn_size[b] \in Nat \ {0} /\ b + insn_size[b] \in a..end
          /\ b + insn_size[b] > b /\ b + insn_size[b] <= end
      BY <2>2, DisassemblyAssumption DEF Instructions
    <3>2. From[b] = <<b>> \o From[b + insn_size[b]]
      BY <1>3, <2>2 DEF DecodesOne
    <3>3. IsRun(From[b + insn_size[b]], b + insn_size[b], end)
      BY <1>4, <3>1
    <3> QED
      BY <3>1, <3>2, <3>3, LongerRun
  <2> QED
    BY <2>1, <2>2
<1>5. 0 \in S
  <2>1. ASSUME NEW b \in a..end, end - b <= 0 PROVE IsRun(From[b], b, end)
    <3>1. \A c \in a..end : ~(c > b)
      BY <2>1
    <3> QED
      BY <1>4, <3>1
  <2> QED
    BY <2>1
<1>6. ASSUME NEW n \in Nat, n \in S PROVE n + 1 \in S
  <2>1. ASSUME NEW b \in a..end, end - b <= n + 1 PROVE IsRun(From[b], b, end)
    <3>1. \A c \in a..end : c > b => end - c <= n
      BY <2>1
    <3>2. \A c \in a..end : c > b => IsRun(From[c], c, end)
      BY <1>6, <3>1
    <3> QED
      BY <1>4, <3>2
  <2> QED
    BY <2>1
<1>7. \A n \in Nat : n \in S
  <2> HIDE DEF S
  <2> QED
    BY <1>5, <1>6, InductiveSet
<1>8. end - a \in S /\ a \in a..end
  BY <1>7
<1> QED
  BY <1>2, <1>8

\* A run goes on as long as there is an instruction.
LEMMA RunGoesOn ==
    ASSUME Instructions, NEW insns, NEW b \in Int, NEW end \in Int,
           IsRun(insns, b, end),
           NEW i \in 0..Len(insns), NEW next \in Code,
           next = (IF i = 0 THEN b ELSE insns[i] + insn_size[insns[i]]),
           insn_size[next] # 0, next + insn_size[next] <= end
    PROVE  i < Len(insns) /\ insns[i + 1] = next
<1>1. /\ insns \in Seq(Code) /\ Len(insns) \in Nat /\ next \in Nat
      /\ next + insn_size[next] \in Nat
  BY DisassemblyAssumption DEF IsRun, Instructions
<1>2. ASSUME i = Len(insns) PROVE FALSE
  <2>1. next = IF insns = << >> THEN b ELSE Ends(insns)
    BY <1>1, <1>2 DEF Ends
  <2> QED
    BY <1>1, <2>1 DEF IsRun
<1>3. i < Len(insns)
  BY <1>1, <1>2
<1>4. insns[i + 1] = next
  <2>1. CASE i = 0
    BY <1>1, <1>3, <2>1 DEF IsRun
  <2>2. CASE i # 0
    <3>1. i \in 1..(Len(insns) - 1)
      BY <1>1, <1>3, <2>2
    <3> QED
      BY <2>2, <3>1 DEF IsRun
  <2> QED
    BY <2>1, <2>2
<1> QED
  BY <1>3, <1>4

-----------------------------------------------------------------------------
(* capstone-disassemble: windows.                                          *)

\* Some rows, from the first.
Begins(insns, all) ==
    /\ insns \in Seq(Code) /\ Len(insns) <= Len(all)
    /\ \A i \in 1..Len(insns) : insns[i] = all[i]

\* The rows from the one after skip, n of them unless n is negative.
IsWindow(insns, all, n, skip) ==
    /\ insns \in Seq(Code)
    /\ Len(insns) = IF skip < 0 \/ Len(all) <= skip THEN 0
                   ELSE IF n < 0 \/ Len(all) - skip <= n THEN Len(all) - skip ELSE n
    /\ \A i \in 1..Len(insns) : insns[i] = all[skip + i]

\* What is skipped and what is taken.
LEMMA TakenIs ==
    ASSUME NEW all \in Seq(Code), NEW n \in Int, NEW skip \in Int
    PROVE  IsWindow(Taken(Skipped(all, skip), n), all, n, skip)
<1> DEFINE q == Skipped(all, skip)
           m == IF skip < 0 \/ Len(all) <= skip THEN 0 ELSE Len(all) - skip
<1>1. /\ q \in Seq(Code) /\ Len(q) = m
      /\ \A i \in 1..m : q[i] = all[skip + i]
  <2>1. CASE skip < 0
    BY <2>1 DEF Skipped
  <2>2. CASE skip >= 0
    <3>1. q = SubSeq(all, skip + 1, Len(all))
      BY <2>2 DEF Skipped
    <3> QED
      BY <2>2, <3>1
  <2> QED
    BY <2>1, <2>2
<1>2. m \in Nat /\ Len(all) \in Nat
  OBVIOUS
<1> HIDE DEF q
<1>3. CASE n < 0 \/ m <= n
  <2>1. Taken(q, n) = q
    BY <1>1, <1>3 DEF Taken
  <2> QED
    BY <1>1, <1>2, <1>3, <2>1 DEF IsWindow, q
<1>4. CASE ~(n < 0 \/ m <= n)
  <2>1. Taken(q, n) = SubSeq(q, 1, n)
    BY <1>1, <1>4 DEF Taken
  <2>2. /\ SubSeq(q, 1, n) \in Seq(Code) /\ Len(SubSeq(q, 1, n)) = n
        /\ \A i \in 1..n : SubSeq(q, 1, n)[i] = q[i] /\ i \in 1..m
    BY <1>1, <1>2, <1>4
  <2>3. \A i \in 1..n : SubSeq(q, 1, n)[i] = all[skip + i]
    BY <1>1, <2>2
  <2> QED
    BY <1>2, <1>4, <2>1, <2>2, <2>3 DEF IsWindow, q
<1> QED
  BY <1>3, <1>4

\* What is read is the rest of the page without its last byte.
LEMMA ReadIs ==
    ASSUME NEW a \in Nat
    PROVE  /\ Read(a) \in Nat /\ PageEnd(a) = a + Read(a) + 1
           /\ a + Read(a) \in Int /\ a <= a + Read(a)
  BY DisassemblyAssumption DEF Read, PageEnd, Offset

\* A window is one of the run from its location.
LEMMA WindowIs ==
    ASSUME Instructions, NEW a \in Nat, NEW n \in Int, NEW skip \in Int
    PROVE  /\ IsRun(Decoded(a, a + Read(a)), a, a + Read(a))
           /\ IsWindow(Window(a, n, skip), Decoded(a, a + Read(a)), n, skip)
<1>1. IsRun(Decoded(a, a + Read(a)), a, a + Read(a))
  BY ReadIs, DecodedIsRun
<1>2. Decoded(a, a + Read(a)) \in Seq(Code)
  BY <1>1 DEF IsRun
<1> QED
  BY <1>1, <1>2, TakenIs DEF Window

\* Is pc's a row at which the command stops?
StopsAt(insns) == kind # "other" /\ \E i \in DOMAIN insns : insns[i] = pc

\* The command prints rows from the first, all if it does not stop.
LEMMA PrintedIs ==
    ASSUME NEW insns \in Seq(Code)
    PROVE  Begins(Printed(insns), insns) /\ (~StopsAt(insns) => Printed(insns) = insns)
<1> DEFINE at == {i \in DOMAIN insns : insns[i] = pc}
           i  == CHOOSE j \in at : TRUE
           k  == i - (IF kind = "register call" THEN 1 ELSE 0)
<1>1. StopsAt(insns) <=> ~(at = {} \/ kind = "other")
  BY DEF StopsAt
<1>2. Begins(insns, insns)
  BY DEF Begins
<1>3. CASE ~StopsAt(insns)
  <2>1. Printed(insns) = insns
    BY <1>1, <1>3 DEF Printed
  <2> QED
    BY <1>2, <2>1
<1>4. CASE StopsAt(insns)
  <2>1. Printed(insns) = SubSeq(insns, 1, k)
    <3> HIDE DEF StopsAt
    <3> QED
      BY <1>1, <1>4, Zenon DEF Printed
  <2>2. i \in DOMAIN insns
    BY <1>1, <1>4
  <2>3. k \in 0..Len(insns)
    <3> HIDE DEF i
    <3>1. i \in 1..Len(insns) /\ Len(insns) \in Nat
      BY <2>2
    <3>2. k = i - 0 \/ k = i - 1
      BY Zenon
    <3> HIDE DEF k
    <3> QED
      BY <3>1, <3>2
  <2> HIDE DEF k
  <2>4. /\ SubSeq(insns, 1, k) \in Seq(Code) /\ Len(SubSeq(insns, 1, k)) = k
        /\ \A j \in 1..k : SubSeq(insns, 1, k)[j] = insns[j]
    BY <2>3
  <2>5. Begins(SubSeq(insns, 1, k), insns)
    BY <2>3, <2>4 DEF Begins
  <2> QED
    BY <1>4, <2>1, <2>5
<1> QED
  BY <1>3, <1>4

\* The page number of a repetition, in rows.
LEMMA SkipIs ==
    ASSUME NEW n \in Int, NEW r \in Nat
    PROVE  /\ Skip(n, r) \in Int /\ Skip(n, 0) = 0
           /\ Skip(n, r + 1) = Skip(n, r) + n
           /\ n >= 0 => Skip(n, r) >= 0
           /\ n < 0 => Skip(n, r) <= 0
<1>1. Skip(n, r) = n * r /\ Skip(n, 0) = 0 /\ Skip(n, r + 1) = n * r + n
  BY DEF Skip
<1>2. n * r \in Int
  OBVIOUS
<1>3. n >= 0 => n * r >= 0
  OBVIOUS
<1>4. n < 0 => n * r <= 0
  OBVIOUS
<1> QED
  BY <1>1, <1>2, <1>3, <1>4

-----------------------------------------------------------------------------
(* capstone-disassemble: the invariant.                                    *)

\* The window is what its command, or the context, makes of the program.
ShownIsWindow ==
    LET all == Window(shown.location, shown.asked,
                      Skip(shown.asked, shown.repeat_count))
    IN  shown.by = "command" =>
            /\ shown.location \in Code /\ shown.asked \in Lengths
            /\ shown.rows = Printed(all)
            /\ shown.cut <=> StopsAt(all)

ContextIsWindow ==
    shown.by = "context" =>
        \/ /\ nb_lines_code_prev = 0 /\ shown.location = pc
           /\ shown.rows = Window(pc, nb_lines_code, 0)
        \/ /\ nb_lines_code_prev > 0 /\ shown.location \in Previous(nb_lines_code_prev)
           /\ shown.rows = WindowBack(shown.location)

DisassemblyIInv == DisassemblyTypeOK /\ ShownIsWindow /\ ContextIsWindow

\* A first window keeps to its page, and ends for a reason.
LEMMA ShownKeepsToPage ==
    ASSUME DisassemblyIInv PROVE WindowOfThePage
<1> DEFINE loc  == shown.location
           insns == shown.rows
           next == IF insns = << >> THEN loc ELSE Ends(insns)
           end  == loc + Read(loc)
           D    == Decoded(loc, end)
           W    == Window(loc, shown.asked, 0)
<1> SUFFICES ASSUME shown.by = "command", shown.repeat_count = 0
             PROVE  /\ next <= PageEnd(loc)
                    /\ \/ shown.cut \/ shown.asked = Len(insns)
                       \/ next \notin Code \/ insn_size[next] = 0
                       \/ next + insn_size[next] >= PageEnd(loc)
  BY DEF WindowOfThePage
<1>1. /\ loc \in Code /\ loc \in Nat /\ shown.asked \in Int /\ shown.asked # 0
      /\ Instructions
  BY DisassemblyAssumption
  DEF DisassemblyIInv, ShownIsWindow, DisassemblyTypeOK, Instructions
<1>2. insns = Printed(W) /\ (shown.cut <=> StopsAt(W))
  <2>1. Skip(shown.asked, 0) = 0
    BY <1>1, SkipIs
  <2> QED
    BY <2>1 DEF DisassemblyIInv, ShownIsWindow
<1>3. IsRun(D, loc, end) /\ IsWindow(W, D, shown.asked, 0)
  <2> HIDE DEF loc
  <2>1. shown.asked \in Int /\ 0 \in Int /\ loc \in Nat /\ Instructions
    BY <1>1
  <2> QED
    BY <2>1, WindowIs
<1>4. PageEnd(loc) = end + 1 /\ end \in Int /\ loc <= end
  BY <1>1, ReadIs
<1>5. D \in Seq(Code) /\ W \in Seq(Code) /\ Begins(W, D)
  BY <1>3 DEF IsRun, IsWindow, Begins
<1>6. Begins(insns, W) /\ (~shown.cut => insns = W)
  BY <1>2, <1>5, PrintedIs
<1> HIDE DEF D, W, end
<1>7. next <= PageEnd(loc)
  <2>1. CASE insns = << >>
    BY <1>1, <1>4, <2>1
  <2>2. CASE insns # << >>
    <3>1. /\ Len(insns) \in 1..Len(D) /\ insns[Len(insns)] = D[Len(insns)]
      BY <1>5, <1>6, <2>2 DEF Begins
    <3>2. Ends(insns) <= end
      BY <1>3, <3>1 DEF IsRun, Ends
    <3>3. Ends(insns) \in Int
      <4> DEFINE z == insns[Len(insns)]
      <4>1. z \in Code
        BY <1>5, <3>1
      <4>2. Ends(insns) = z + insn_size[z]
        BY DEF Ends
      <4> HIDE DEF z
      <4> QED
        BY <1>1, <4>1, <4>2, DisassemblyAssumption DEF Instructions
    <3> QED
      BY <1>4, <2>2, <3>2, <3>3
  <2> QED
    BY <2>1, <2>2
<1>8. ASSUME ~shown.cut, shown.asked # Len(insns)
      PROVE  next \notin Code \/ insn_size[next] = 0
             \/ next + insn_size[next] >= PageEnd(loc)
  <2>1. insns = W /\ Len(D) \in Nat
    BY <1>5, <1>6, <1>8
  <2>2. Len(insns) = Len(D) /\ \A i \in 1..Len(D) : insns[i] = D[i]
    <3>1. Len(W) = IF Len(D) <= 0 THEN 0
                   ELSE IF shown.asked < 0 \/ Len(D) - 0 <= shown.asked THEN Len(D) - 0
                   ELSE shown.asked
      BY <1>3 DEF IsWindow
    <3>2. Len(W) = Len(D)
      BY <1>1, <1>8, <2>1, <3>1
    <3> QED
      BY <1>5, <2>1, <3>2 DEF Begins
  <2>3. next = IF D = << >> THEN loc ELSE Ends(D)
    <3>1. insns = << >> <=> D = << >>
      BY <1>5, <2>1, <2>2
    <3>2. CASE D = << >>
      BY <3>1, <3>2
    <3>3. CASE D # << >>
      <4>1. Len(D) \in 1..Len(D)
        BY <1>5, <2>1, <3>3
      <4> QED
        BY <2>2, <3>1, <3>3, <4>1 DEF Ends
    <3> QED
      BY <3>2, <3>3
  <2>4. next \notin Code \/ insn_size[next] = 0 \/ next + insn_size[next] > end
    BY <1>3, <2>3 DEF IsRun
  <2>5. next \in Code => next + insn_size[next] \in Int
    BY <1>1, DisassemblyAssumption DEF Instructions
  <2> HIDE DEF next
  <2> QED
    BY <1>4, <2>4, <2>5
<1> QED
  BY <1>7, <1>8

\* The context shows pc after the instructions before it: those decode to pc, so
\* they do with more to read too, and pc's is the next.
LEMMA ShownHasPc ==
    ASSUME DisassemblyIInv PROVE ContextShowsPc
<1> DEFINE a    == shown.location
           prev == nb_lines_code_prev
           end  == a + Read(pc)
           D    == Decoded(a, end)
<1> SUFFICES ASSUME shown.by = "context", insn_size[pc] # 0,
                    pc + insn_size[pc] - a <= PageEnd(pc) - 1 - pc
             PROVE  Len(shown.rows) > prev /\ shown.rows[prev + 1] = pc
  BY DEF ContextShowsPc
<1>1. /\ Instructions /\ pc \in Code /\ pc \in Nat /\ insn_size[pc] \in Nat
      /\ prev \in Nat /\ nb_lines_code \in Nat \ {0}
  BY DisassemblyAssumption DEF DisassemblyIInv, DisassemblyTypeOK, Instructions
<1>2. /\ Read(pc) \in Nat /\ PageEnd(pc) - 1 - pc = Read(pc)
  BY <1>1, ReadIs
<1>3. CASE prev = 0
  <2>1. a = pc /\ shown.rows = Window(pc, nb_lines_code, 0)
    BY <1>3 DEF DisassemblyIInv, ContextIsWindow
  <2>2. IsRun(D, pc, end) /\ IsWindow(shown.rows, D, nb_lines_code, 0)
    <3>1. end = pc + Read(pc) /\ D = Decoded(pc, pc + Read(pc))
      BY <2>1
    <3> HIDE DEF D, end, a
    <3>2. nb_lines_code \in Int /\ 0 \in Int
      BY <1>1
    <3>3. /\ IsRun(Decoded(pc, pc + Read(pc)), pc, pc + Read(pc))
          /\ IsWindow(Window(pc, nb_lines_code, 0), Decoded(pc, pc + Read(pc)),
                      nb_lines_code, 0)
      BY <1>1, <3>2, WindowIs
    <3> QED
      BY <2>1, <3>1, <3>3
  <2>3. pc + insn_size[pc] <= end /\ end \in Int
    BY <1>1, <1>2, <2>1
  <2> HIDE DEF D, end
  <2>4. Len(D) \in Nat /\ 0 \in 0..Len(D)
    BY <2>2 DEF IsRun
  <2>5. 0 < Len(D) /\ D[1] = pc
    <3>1. 0 < Len(D) /\ D[0 + 1] = pc
      BY <1>1, <2>2, <2>3, <2>4, RunGoesOn
    <3> QED
      BY <3>1
  <2>6. Len(shown.rows) >= 1 /\ shown.rows[1] = D[0 + 1]
    BY <1>1, <2>2, <2>4, <2>5 DEF IsWindow
  <2> QED
    BY <1>3, <2>5, <2>6
<1>4. CASE prev # 0
  <2> DEFINE B == Decoded(a, pc)
  <2>1. /\ a \in Code /\ a < pc /\ Len(B) = prev
        /\ B[prev] + insn_size[B[prev]] = pc
        /\ shown.rows = WindowBack(a)
    BY <1>1, <1>4 DEF DisassemblyIInv, ContextIsWindow, Previous
  <2>2. a \in Nat /\ end \in Int /\ a <= end /\ pc + insn_size[pc] <= end
    <3>1. a \in Nat /\ pc + insn_size[pc] - a <= Read(pc)
      BY <1>2, <2>1, DisassemblyAssumption
    <3> HIDE DEF a
    <3> QED
      BY <1>1, <1>2, <3>1
  <2>3. IsRun(B, a, pc) /\ IsRun(D, a, end)
    BY <1>1, <2>1, <2>2, DecodedIsRun
  <2> HIDE DEF D, B, end
  <2>4. B \in Seq(Code) /\ D \in Seq(Code) /\ Len(D) \in Nat
    BY <2>3 DEF IsRun
  <2> DEFINE S == {i \in Nat : i <= prev =>
                      i <= Len(D) /\ (i > 0 => D[i] = B[i])}
  <2>5. 0 \in S
    BY <2>4
  <2>6. ASSUME NEW i \in Nat, i \in S PROVE i + 1 \in S
    <3> SUFFICES ASSUME i + 1 <= prev PROVE i + 1 <= Len(D) /\ D[i + 1] = B[i + 1]
      OBVIOUS
    <3>1. /\ i <= Len(D) /\ (i > 0 => D[i] = B[i])
          /\ i \in 0..Len(D) /\ i + 1 \in 1..Len(B)
      BY <1>1, <2>1, <2>4, <2>6
    <3> DEFINE z == B[i + 1]
    <3>2. z \in Code /\ insn_size[z] # 0 /\ z + insn_size[z] <= pc
      BY <2>3, <2>4, <3>1 DEF IsRun
    <3>3. z = IF i = 0 THEN a ELSE D[i] + insn_size[D[i]]
      <4>1. CASE i = 0
        <5>1. B # << >>
          BY <2>4, <3>1
        <5> QED
          BY <2>3, <4>1, <5>1 DEF IsRun
      <4>2. CASE i # 0
        <5>1. i \in 1..(Len(B) - 1) /\ D[i] = B[i]
          BY <2>4, <3>1, <4>2
        <5> QED
          BY <2>3, <4>2, <5>1 DEF IsRun
      <4> QED
        BY <4>1, <4>2
    <3> HIDE DEF z
    <3>4. z + insn_size[z] <= end
      <4>1. z + insn_size[z] \in Nat
        BY <1>1, <3>2, DisassemblyAssumption DEF Instructions
      <4> QED
        BY <1>1, <2>2, <3>2, <4>1
    <3>5. i < Len(D) /\ D[i + 1] = z
      BY <1>1, <2>2, <2>3, <3>1, <3>2, <3>3, <3>4, RunGoesOn
    <3> QED
      BY <2>4, <3>1, <3>5 DEF z
  <2>7. prev \in S
    <3> HIDE DEF S
    <3> QED
      BY <1>1, <2>5, <2>6, InductiveSet
  <2>8. prev \in 0..Len(D) /\ D[prev] = B[prev]
    BY <1>1, <1>4, <2>4, <2>7
  <2>9. prev < Len(D) /\ D[prev + 1] = pc
    BY <1>1, <1>4, <2>1, <2>2, <2>3, <2>8, RunGoesOn
  <2>10. IsWindow(shown.rows, D, nb_lines_code + prev, 0)
    <3>1. Skipped(D, 0) = D
      BY <2>4 DEF Skipped
    <3>2. shown.rows = Taken(D, nb_lines_code + prev)
      BY <2>1 DEF WindowBack, D, end
    <3> QED
      BY <1>1, <2>4, <3>1, <3>2, TakenIs
  <2>11. Len(shown.rows) > prev /\ prev + 1 \in 1..Len(shown.rows)
    BY <1>1, <2>4, <2>9, <2>10 DEF IsWindow
  <2>12. shown.rows[prev + 1] = D[0 + (prev + 1)]
    BY <2>10, <2>11 DEF IsWindow
  <2> QED
    BY <1>1, <2>9, <2>11, <2>12
<1> QED
  BY <1>3, <1>4

\* Initially, and whenever the window is gone.
LEMMA NoWindowIs ==
    /\ NoWindow.by = "none" /\ NoWindow.rows = << >> /\ NoWindow.callee = << >>
    /\ NoWindow.repeat_count = 0 /\ NoWindow.cut = FALSE
    /\ 0 \in 0..MaxRepeat /\ << >> \in Seq(Code)
  BY DisassemblyAssumption DEF NoWindow

\* The program as the invariant has it.
ProgramTypes ==
    /\ insn_size \in [Code -> 0..MaxSize]
    /\ gef_arch \in Sessions /\ pc \in Code /\ kind \in Kinds
    /\ use_capstone \in BOOLEAN

\* Without a window the invariant asks for the types of the program only.
LEMMA NoWindowIInv ==
    ASSUME ProgramTypes', shown' = NoWindow PROVE DisassemblyIInv'
<1>1. DisassemblyTypeOK'
  BY NoWindowIs DEF ProgramTypes, DisassemblyTypeOK, Addresses
<1>2. ShownIsWindow' /\ ContextIsWindow'
  <2>1. shown'.by \notin {"command", "context"}
    BY NoWindowIs
  <2> QED
    BY <2>1 DEF ShownIsWindow, ContextIsWindow
<1> QED
  BY <1>1, <1>2 DEF DisassemblyIInv

\* The same instructions give the same windows.
LEMMA SameCode ==
    ASSUME insn_size' = insn_size
    PROVE  /\ \A a, end : Decoded(a, end)' = Decoded(a, end)
           /\ \A a, n, skip : Window(a, n, skip)' = Window(a, n, skip)
<1>1. \A a, end : Decoded(a, end)' = Decoded(a, end)
  BY DEF Decoded
<1>2. \A a, n, skip : Window(a, n, skip)' = Window(a, n, skip)
  BY DEF Window, Decoded, Skipped, Taken, Read, Offset
<1> QED
  BY <1>1, <1>2

\* What a command shows.
LEMMA ShowWindowIs ==
    ASSUME NEW location, NEW n, NEW r, ShowWindow(location, n, r)
    PROVE  LET all == Window(location, n, Skip(n, r))
           IN  /\ shown'.by = "command" /\ shown'.location = location
               /\ shown'.asked = n /\ shown'.repeat_count = r
               /\ shown'.rows = Printed(all) /\ shown'.cut = StopsAt(all)
               /\ shown'.callee = IF StopsAt(all) /\ kind = "call"
                                  THEN Window(CallTarget, n, 0) ELSE << >>
<1> DEFINE all == Window(location, n, Skip(n, r))
           callee == IF StopsAt(all) /\ kind = "call" THEN Window(CallTarget, n, 0)
                     ELSE << >>
<1>1. shown' = [by |-> "command",
                location |-> location, asked |-> n, repeat_count |-> r,
                rows |-> Printed(all), cut |-> StopsAt(all), callee |-> callee]
  BY Zenon DEF ShowWindow, StopsAt
<1>2. /\ shown'.by = "command" /\ shown'.location = location /\ shown'.asked = n
      /\ shown'.repeat_count = r /\ shown'.rows = Printed(all)
      /\ shown'.callee = callee /\ shown'.cut = StopsAt(all)
  <2> HIDE DEF all, callee
  <2> QED
    BY <1>1
<1> QED
  BY <1>2, Zenon

\* The window of the command, typed or repeated.
LEMMA ShowWindowIInv ==
    ASSUME DisassemblyIInv, NEW location \in Code, NEW n \in Lengths,
           NEW r \in 0..MaxRepeat, ShowWindow(location, n, r),
           UNCHANGED <<insn_size, gef_arch, pc, kind, use_capstone>>
    PROVE  DisassemblyIInv'
<1> DEFINE all == Window(location, n, Skip(n, r))
           callee == IF StopsAt(all) /\ kind = "call" THEN Window(CallTarget, n, 0)
                     ELSE << >>
<1>1. /\ location \in Nat /\ n \in Int /\ r \in Nat /\ 0 \in Int /\ CallTarget \in Nat
      /\ Skip(n, r) \in Int /\ Instructions
  <2>1. location \in Nat /\ n \in Int /\ r \in Nat /\ CallTarget \in Nat
    BY DisassemblyAssumption
  <2> QED
    BY <2>1, SkipIs DEF DisassemblyIInv, DisassemblyTypeOK, Instructions
<1>2. all \in Seq(Code) /\ Window(CallTarget, n, 0) \in Seq(Code)
  BY <1>1, WindowIs DEF IsWindow
<1>3. Printed(all) \in Seq(Code) /\ callee \in Seq(Code)
  BY <1>2, PrintedIs DEF Begins
<1>4. /\ insn_size' = insn_size /\ gef_arch' = gef_arch /\ pc' = pc /\ kind' = kind
      /\ use_capstone' = use_capstone
  OBVIOUS
<1>5. shown'.cut = StopsAt(all)
  BY ShowWindowIs, Zenon
<1>6. /\ shown'.by = "command" /\ shown'.location = location /\ shown'.asked = n
      /\ shown'.repeat_count = r /\ shown'.rows = Printed(all)
      /\ shown'.callee = callee
  BY ShowWindowIs
<1>7. shown'.cut \in BOOLEAN /\ (shown'.cut <=> StopsAt(all))
  <2>1. StopsAt(all) \in BOOLEAN
    BY Zenon DEF StopsAt
  <2> HIDE DEF all
  <2> QED
    BY <1>5, <2>1, Zenon
<1>8. DisassemblyTypeOK'
  <2>1. ProgramTypes'
    BY <1>4 DEF DisassemblyIInv, DisassemblyTypeOK, ProgramTypes
  <2> HIDE DEF all, callee
  <2> QED
    BY <1>3, <1>6, <1>7, <2>1 DEF DisassemblyTypeOK, ProgramTypes, Addresses
<1>9. ShownIsWindow'
  <2>1. /\ Window(shown.location, shown.asked,
                  Skip(shown.asked, shown.repeat_count))' = all
    <3>1. Window(shown'.location, shown'.asked,
                 Skip(shown'.asked, shown'.repeat_count)) = all
      BY <1>6
    <3>2. \A l, m, s : Window(l, m, s)' = Window(l, m, s)
      BY <1>4, SameCode
    <3>3. Skip(shown.asked, shown.repeat_count)'
          = Skip(shown'.asked, shown'.repeat_count)
      BY DEF Skip
    <3> QED
      BY <3>1, <3>2, <3>3
  <2>2. \A W : Printed(W)' = Printed(W) /\ (StopsAt(W)' <=> StopsAt(W))
    BY <1>4 DEF Printed, StopsAt
  <2> QED
    BY <1>6, <1>7, <2>1, <2>2 DEF ShownIsWindow
<1>10. ContextIsWindow'
  BY <1>6 DEF ContextIsWindow
<1> QED
  BY <1>8, <1>9, <1>10 DEF DisassemblyIInv

\* A repetition is the window of the same location and length, one further.
LEMMA RepeatIInv ==
    ASSUME DisassemblyIInv, Repeat PROVE DisassemblyIInv'
<1>1. /\ shown.location \in Code /\ shown.asked \in Lengths
      /\ shown.repeat_count + 1 \in 0..MaxRepeat
  BY DisassemblyAssumption
  DEF Repeat, DisassemblyIInv, ShownIsWindow, DisassemblyTypeOK
<1> QED
  BY <1>1, ShowWindowIInv DEF Repeat

\* The window of the context is one of the code, from pc or from before it.
LEMMA ContextIInv ==
    ASSUME DisassemblyIInv, Context PROVE DisassemblyIInv'
<1>1. /\ insn_size' = insn_size /\ gef_arch' = gef_arch /\ pc' = pc /\ kind' = kind
      /\ use_capstone' = use_capstone
  BY DEF Context
<1>2. /\ pc \in Code /\ pc \in Nat /\ Instructions /\ ProgramTypes'
      /\ nb_lines_code \in Nat /\ nb_lines_code_prev \in Nat
      /\ 0 \in Int /\ 0 \in 0..MaxRepeat
  BY <1>1, DisassemblyAssumption
  DEF DisassemblyIInv, DisassemblyTypeOK, Instructions, ProgramTypes
<1>3. ASSUME NEW a, NEW insns \in Seq(Code), ContextWindow(a, insns),
             \/ nb_lines_code_prev = 0 /\ a = pc /\ insns = Window(pc, nb_lines_code, 0)
             \/ nb_lines_code_prev > 0 /\ a \in Previous(nb_lines_code_prev)
                /\ insns = WindowBack(a)
      PROVE  DisassemblyIInv'
  <2>1. /\ shown'.by = "context" /\ shown'.location = a /\ shown'.rows = insns
        /\ shown'.callee = << >> /\ shown'.repeat_count = 0 /\ shown'.cut = FALSE
    BY <1>3 DEF ContextWindow, NoWindow
  <2>2. DisassemblyTypeOK'
    <3>1. ProgramTypes' /\ << >> \in Seq(Code) /\ 0 \in 0..MaxRepeat
      BY <1>2
    <3> QED
      BY <2>1, <3>1 DEF DisassemblyTypeOK, ProgramTypes, Addresses
  <2>3. ShownIsWindow'
    BY <2>1 DEF ShownIsWindow
  <2>4. ContextIsWindow'
    <3>1. /\ Window(pc, nb_lines_code, 0)' = Window(pc, nb_lines_code, 0)
          /\ WindowBack(a)' = WindowBack(a)
          /\ Previous(nb_lines_code_prev)' = Previous(nb_lines_code_prev)
      BY <1>1
      DEF Window, WindowBack, Previous, Decoded, Skipped, Taken, Read, Offset
    <3>2. WindowBack(shown.location)' = WindowBack(a)
      BY <1>1, <2>1 DEF WindowBack, Decoded, Taken, Read, Offset
    <3> QED
      BY <1>1, <1>3, <2>1, <3>1, <3>2 DEF ContextIsWindow
  <2> QED
    BY <2>2, <2>3, <2>4 DEF DisassemblyIInv
<1>4. CASE nb_lines_code_prev = 0
  <2>1. ContextWindow(pc, Window(pc, nb_lines_code, 0))
    BY <1>4 DEF Context
  <2>2. Window(pc, nb_lines_code, 0) \in Seq(Code)
    <3>1. nb_lines_code \in Int /\ 0 \in Int
      BY <1>2
    <3>2. IsWindow(Window(pc, nb_lines_code, 0), Decoded(pc, pc + Read(pc)),
                   nb_lines_code, 0)
      BY <1>2, <3>1, WindowIs
    <3> QED
      BY <3>2 DEF IsWindow
  <2> QED
    BY <1>3, <1>4, <2>1, <2>2
<1>5. CASE nb_lines_code_prev # 0
  <2>1. PICK a \in Previous(nb_lines_code_prev) : ContextWindow(a, WindowBack(a))
    BY <1>5 DEF Context
  <2>2. WindowBack(a) \in Seq(Code)
    <3>1. a \in Nat /\ Read(pc) \in Nat
      BY <1>2, ReadIs, DisassemblyAssumption DEF Previous
    <3> DEFINE end == a + Read(pc)
               D   == Decoded(a, end)
               n   == nb_lines_code + nb_lines_code_prev
    <3>2. end \in Int /\ a \in Int /\ a <= end /\ n \in Int
      BY <1>2, <3>1
    <3> HIDE DEF end, n
    <3>3. D \in Seq(Code)
      BY <1>2, <3>2, DecodedIsRun DEF IsRun
    <3> HIDE DEF D
    <3>4. Skipped(D, 0) = D
      BY <3>3 DEF Skipped
    <3>5. Taken(D, n) \in Seq(Code)
      BY <1>2, <3>2, <3>3, <3>4, TakenIs DEF IsWindow
    <3> QED
      BY <3>5 DEF WindowBack, D, end, n
  <2> QED
    BY <1>2, <1>3, <1>5, <2>1, <2>2
<1> QED
  BY <1>4, <1>5

\* The steps keep the invariant.
LEMMA DisassemblyNextIInv ==
    ASSUME DisassemblyIInv, [DisassemblyNext]_disassemblyVars PROVE DisassemblyIInv'
<1>1. ASSUME NEW location \in Code, NEW n \in Lengths, Disassemble(location, n)
      PROVE  DisassemblyIInv'
  <2>1. 0 \in 0..MaxRepeat
    BY DisassemblyAssumption
  <2> QED
    BY <1>1, <2>1, ShowWindowIInv DEF Disassemble
<1>2. ASSUME \/ ContextElsewhere \/ \E b \in BOOLEAN : switch_disassembler(b)
             \/ Stop \/ Load
      PROVE  DisassemblyIInv'
  <2>1. ProgramTypes' /\ shown' = NoWindow
    BY <1>2 DEF DisassemblyIInv, DisassemblyTypeOK, ProgramTypes,
                ContextElsewhere, switch_disassembler, Stop, Load
  <2> QED
    BY <2>1, NoWindowIInv
<1>3. CASE UNCHANGED disassemblyVars
  <2>1. /\ insn_size' = insn_size /\ gef_arch' = gef_arch /\ pc' = pc /\ kind' = kind
        /\ use_capstone' = use_capstone /\ shown' = shown
    BY <1>3 DEF disassemblyVars
  <2>2. DisassemblyTypeOK'
    BY <2>1 DEF DisassemblyIInv, DisassemblyTypeOK
  <2>3. ShownIsWindow'
    <3>1. Window(shown.location, shown.asked, Skip(shown.asked, shown.repeat_count))'
          = Window(shown.location, shown.asked, Skip(shown.asked, shown.repeat_count))
      BY <2>1 DEF Window, Decoded, Skipped, Taken, Read, Offset, Skip
    <3>2. \A W : Printed(W)' = Printed(W) /\ (StopsAt(W)' <=> StopsAt(W))
      BY <2>1 DEF Printed, StopsAt
    <3> QED
      BY <2>1, <3>1, <3>2 DEF DisassemblyIInv, ShownIsWindow
  <2>4. ContextIsWindow'
    <3>1. /\ Window(pc, nb_lines_code, 0)' = Window(pc, nb_lines_code, 0)
          /\ WindowBack(shown.location)' = WindowBack(shown.location)
          /\ Previous(nb_lines_code_prev)' = Previous(nb_lines_code_prev)
      BY <2>1
      DEF Window, WindowBack, Previous, Decoded, Skipped, Taken, Read, Offset
    <3> QED
      BY <2>1, <3>1 DEF DisassemblyIInv, ContextIsWindow
  <2> QED
    BY <2>2, <2>3, <2>4 DEF DisassemblyIInv
<1> QED
  BY <1>1, <1>2, <1>3, RepeatIInv, ContextIInv DEF DisassemblyNext

\* The invariant holds of every reachable state.
LEMMA DisassemblyInductive == DisassemblySpec => []DisassemblyIInv
<1>1. DisassemblyInit => DisassemblyIInv
  <2> SUFFICES ASSUME DisassemblyInit PROVE DisassemblyIInv
    OBVIOUS
  <2>1. DisassemblyTypeOK
    BY NoWindowIs DEF DisassemblyInit, DisassemblyTypeOK, Addresses
  <2>2. ShownIsWindow /\ ContextIsWindow
    BY NoWindowIs DEF DisassemblyInit, ShownIsWindow, ContextIsWindow
  <2> QED
    BY <2>1, <2>2 DEF DisassemblyIInv
<1>2. DisassemblyIInv /\ [DisassemblyNext]_disassemblyVars => DisassemblyIInv'
  BY DisassemblyNextIInv
<1> QED
  BY <1>1, <1>2, PTL DEF DisassemblySpec

\* A window that did not stop at pc and is followed by another one of the same
\* command is full, so the other one starts with the next instruction.
LEMMA RepeatTiles ==
    ASSUME DisassemblyIInv, Repeat, ~shown.cut, shown.rows # << >>,
           shown'.rows # << >>
    PROVE  shown'.rows[1] = Ends(shown.rows)
<1> DEFINE loc == shown.location
           n   == shown.asked
           r   == shown.repeat_count
           s   == Skip(n, r)
           D   == Decoded(loc, loc + Read(loc))
           W   == Window(loc, n, s)
           V   == Window(loc, n, s + n)
<1>1. /\ loc \in Code /\ loc \in Nat /\ n \in Int /\ n # 0 /\ r \in Nat
      /\ Instructions
  <2>1. loc \in Code /\ n \in Lengths
    BY DEF Repeat, DisassemblyIInv, ShownIsWindow
  <2>2. r \in Nat /\ Instructions
    BY DisassemblyAssumption DEF DisassemblyIInv, DisassemblyTypeOK, Instructions
  <2> QED
    BY <2>1, <2>2, DisassemblyAssumption
<1>2. shown.rows = Printed(W) /\ ~StopsAt(W)
  BY DEF Repeat, DisassemblyIInv, ShownIsWindow
<1>3. /\ s \in Int /\ Skip(n, r + 1) = s + n
      /\ (n >= 0 => s >= 0) /\ (n < 0 => s <= 0)
  BY <1>1, SkipIs
<1>4. shown'.rows = Printed(V)
  <2>1. ShowWindow(loc, n, r + 1)
    BY DEF Repeat
  <2> HIDE DEF loc, n, r, s
  <2> QED
    BY <1>3, <2>1, ShowWindowIs
<1> HIDE DEF s, r, n, loc
<1>5. IsRun(D, loc, loc + Read(loc)) /\ IsWindow(W, D, n, s) /\ IsWindow(V, D, n, s + n)
  <2>1. s + n \in Int
    BY <1>1, <1>3
  <2> QED
    BY <1>1, <1>3, <2>1, WindowIs
<1> HIDE DEF D, W, V
<1>6. D \in Seq(Code) /\ Len(D) \in Nat /\ W \in Seq(Code) /\ V \in Seq(Code)
  BY <1>5 DEF IsRun, IsWindow
<1>7. shown.rows = W
  BY <1>2, <1>6, PrintedIs
<1>8. Len(V) >= 1 /\ shown'.rows[1] = V[1]
  <2>1. Begins(shown'.rows, V)
    BY <1>4, <1>6, PrintedIs
  <2>2. Len(shown'.rows) \in Nat /\ Len(shown'.rows) # 0 /\ Len(V) \in Nat
    BY <1>6, <2>1 DEF Begins
  <2> QED
    BY <2>1, <2>2 DEF Begins
<1>9. s + n >= 0 /\ Len(D) > s + n
  BY <1>1, <1>3, <1>5, <1>6, <1>8 DEF IsWindow
<1>10. n > 0 /\ s >= 0
  BY <1>1, <1>3, <1>9
<1>11. Len(W) = n /\ W[n] = D[s + n]
  BY <1>1, <1>3, <1>5, <1>6, <1>9, <1>10 DEF IsWindow
<1>12. V[1] = D[(s + n) + 1]
  BY <1>5, <1>6, <1>8 DEF IsWindow
<1>13. D[(s + n) + 1] = D[s + n] + insn_size[D[s + n]]
  <2>1. s + n \in 1..(Len(D) - 1)
    BY <1>1, <1>3, <1>6, <1>9, <1>10
  <2> QED
    BY <1>5, <2>1 DEF IsRun
<1> QED
  BY <1>7, <1>8, <1>11, <1>12, <1>13 DEF Ends

\* The variables of capstone-disassemble have their types; every window is made
\* of addresses of code.
THEOREM DisassemblyTypeCorrect == DisassemblySpec => []DisassemblyTypeOK
<1>1. DisassemblyIInv => DisassemblyTypeOK
  BY DEF DisassemblyIInv
<1> QED
  BY <1>1, DisassemblyInductive, PTL

\* For every page size, length and code, the first window of a command keeps to
\* the page of its location, and is shorter than what was asked for only if it
\* stopped at pc, or if the next instruction does not decode or reaches the byte
\* of the page that is not read.
THEOREM WindowsKeepToPage == DisassemblySpec => []WindowOfThePage
<1>1. DisassemblyIInv => WindowOfThePage
  BY ShownKeepsToPage
<1> QED
  BY <1>1, DisassemblyInductive, PTL

\* The context shows the instruction at pc, after the number of instructions
\* before it that the settings ask for, if all of them fit into what is read.
THEOREM ContextHasPc == DisassemblySpec => []ContextShowsPc
<1>1. DisassemblyIInv => ContextShowsPc
  BY ShownHasPc
<1> QED
  BY <1>1, DisassemblyInductive, PTL

\* Repeating a command pages through the code: each window starts where the one
\* before it ended, for every length and number of repetitions.
THEOREM RepetitionsTile == DisassemblySpec => RepeatsTile
<1> DEFINE Tiles == \/ shown'.repeat_count # shown.repeat_count + 1
                    \/ shown.cut \/ shown.rows = << >> \/ shown'.rows = << >>
                    \/ shown'.rows[1] = Ends(shown.rows)
<1>1. DisassemblyIInv /\ [DisassemblyNext]_disassemblyVars => [Tiles]_disassemblyVars
  <2> SUFFICES ASSUME DisassemblyIInv, DisassemblyNext PROVE Tiles
    OBVIOUS
  <2>1. shown.repeat_count \in Nat
    BY DisassemblyAssumption DEF DisassemblyIInv, DisassemblyTypeOK
  <2>2. CASE Repeat
    BY <2>2, RepeatTiles
  <2>3. CASE ~Repeat
    <3>1. ASSUME NEW location, NEW n, Disassemble(location, n)
          PROVE  shown'.repeat_count = 0
      BY <3>1, ShowWindowIs DEF Disassemble
    <3>2. ASSUME NEW a, NEW insns, ContextWindow(a, insns)
          PROVE  shown'.repeat_count = 0
      BY <3>2 DEF ContextWindow, NoWindow
    <3>3. Context => shown'.repeat_count = 0
      BY <3>2 DEF Context
    <3>4. ASSUME \/ ContextElsewhere \/ \E b \in BOOLEAN : switch_disassembler(b)
                 \/ Stop \/ Load
          PROVE  shown'.repeat_count = 0
      BY <3>4, NoWindowIs DEF ContextElsewhere, switch_disassembler, Stop, Load
    <3>5. shown'.repeat_count = 0
      BY <2>3, <3>1, <3>3, <3>4 DEF DisassemblyNext
    <3> QED
      BY <2>1, <3>5
  <2> QED
    BY <2>2, <2>3
<1> QED
  BY <1>1, DisassemblyInductive, PTL DEF DisassemblySpec, RepeatsTile
=============================================================================
