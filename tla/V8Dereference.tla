---------------------------- MODULE V8Dereference ----------------------------
(***************************************************************************)
(* `vereference` of scripts/v8-dereference.py: a page of words, each       *)
(* followed as a chain of pointers or, if its halves are compressed        *)
(* pointers of V8, resolved against the root of the thread's isolate.  The *)
(* root is looked up once, by a call in the program, and kept in a global  *)
(* of the script until the program exits; in between the program runs,     *)
(* changes threads and isolates, and an empty line repeats the command.    *)
(*                                                                         *)
(* A value is a number below H * H, of two halves.  An image is what the   *)
(* program's memory holds: the value read at each mapped address, aligned  *)
(* or not, or Unreadable.                                                  *)
(***************************************************************************)
EXTENDS Integers, Sequences

CONSTANTS
    H,              \* 2^32: values of a half
    Meta,           \* 0xc000: the start of a cage holds no objects
    Size,           \* bytes of a word
    Images,
    Threads,
    Roots,          \* the isolate roots of programs
    Expressions,    \* what LOCATION evaluates to
    Counts,         \* the NB that are typed
    MaxRecursion,   \* dereference.max_recursion, or 10
    MaxRepeats      \* bound: empty lines after one command

NoRoot == -1
Unreadable == -1
Values == 0 .. H * H - 1

ASSUME V8Assumption ==
    /\ H \in Nat /\ Meta \in Nat /\ Size \in Nat \ {0} /\ Size % 2 = 0
    /\ \A image \in Images : DOMAIN image \subseteq Values
                             /\ \A a \in DOMAIN image : image[a] \in Values \cup {Unreadable}
    /\ Roots \subseteq Nat \ {0} /\ Expressions \subseteq Values
    /\ Counts \subseteq Nat /\ MaxRecursion \in Nat \ {0} /\ MaxRepeats \in Nat

VARIABLES
    program,        \* "none", "v8", or "other": one without V8's symbols
    image,
    thread,         \* the selected one
    roots,          \* of each thread, 0 before it enters an isolate
    isolate_root,   \* the script's global
    moved,          \* history: another thread or isolate since it was looked up
    cmd,            \* the last command: [target, nb, down]
    repeat_count,   \* GEF's: empty lines since then
    rows,           \* what the last page printed
    covered,        \* history: the rows printed by the command and its repeats
    raised          \* history: did one of them raise?

programVars == <<program, image, thread, roots>>
pageVars    == <<cmd, repeat_count, rows, covered, raised>>
v8Vars == <<programVars, isolate_root, moved, pageVars>>

NoCommand == [target |-> 0, nb |-> 0, down |-> FALSE]
NoImage   == << >>

NoPage ==
    cmd = NoCommand /\ repeat_count = 0 /\ rows = << >> /\ covered = {}
    /\ raised = FALSE

V8Init ==
    /\ program = "none" /\ image = NoImage
    /\ thread \in Threads /\ roots = [t \in Threads |-> 0]
    /\ isolate_root = NoRoot /\ moved = FALSE
    /\ NoPage

-----------------------------------------------------------------------------
(* dereference_from.                                                       *)

Mapped(a)   == a \in DOMAIN image
Readable(a) == Mapped(a) /\ image[a] # Unreadable

\* Mutant: the addresses of the chain are not remembered.
Forgotten(seen, a) == seen

Seen(seen, a) == seen \cup {a}

\* One turn of the loop at the last address of the chain: a loop, memory that
\* cannot be read, one more pointer, or a value, which ends the chain.
Follow(s) ==
    LET a == s.links[Len(s.links)]
    IN  IF a \in s.seen THEN [s EXCEPT !.end = "loop"]
        ELSE IF ~Readable(a) THEN [s EXCEPT !.end = "unreadable"]
        ELSE IF ~Mapped(image[a]) THEN [s EXCEPT !.end = "value"]
        ELSE [s EXCEPT !.links = Append(@, image[a]), !.seen = Seen(@, a)]

Chain(a) ==
    LET turn[n \in 0..MaxRecursion] ==
            IF n = 0 THEN [links |-> <<a>>, seen |-> {}, end |-> "limit"]
            ELSE IF turn[n - 1].end # "limit" THEN turn[n - 1]
            ELSE Follow(turn[n - 1])
    IN  IF Mapped(a) THEN turn[MaxRecursion]
        ELSE [links |-> <<a>>, seen |-> {}, end |-> "unmapped"]

\* 0 is kept too, but is as good as none.
Cached == isolate_root \notin {NoRoot, 0}

\* The root the script resolves against: the one it keeps, or a new one.
Root == IF Cached THEN isolate_root
        ELSE IF program = "v8" THEN roots[thread] ELSE NoRoot

\* A half is taken for a compressed pointer if what it would point to is behind
\* the metadata, tagged, and not null.
Compressed(h) ==
    LET a == Root + h
    IN  Readable(a) /\ image[a] # 0 /\ a > Root + Meta /\ (a % 2) = 1

Halves(v) == <<v % H, v \div H>>

Resolved(h) == IF Compressed(h) THEN Root + h ELSE Unreadable

NoPair == <<Unreadable, Unreadable>>

\* A row: its number, its address, the two pointers if there is one, or a chain.
\* Without a root the sum with a half raises, whatever the word is.
Row(i, a) ==
    LET pair == IF Readable(a)
                THEN <<Resolved(Halves(image[a])[1]), Resolved(Halves(image[a])[2])>>
                ELSE NoPair
        c    == Chain(a)
    IN  [i |-> i, at |-> a, pair |-> pair,
         links |-> IF pair = NoPair THEN c.links ELSE <<a>>,
         end   |-> IF pair = NoPair THEN c.end ELSE "pair"]

Raises(a) == Readable(a) /\ Root = NoRoot

-----------------------------------------------------------------------------
(* do_invoke.                                                              *)

\* Mutant: the tag stays on the address.
Tagged(v) == v

Untagged(v) == v - (v % 2)

\* The numbers of the rows, in the order they are printed.
Page(c, r) == [k \in 1..c.nb |-> IF c.down THEN c.nb * (r + 1) - k
                                 ELSE r * c.nb + k - 1]

\* The rows before the first that raises.
Shown(c, r) ==
    LET at(k)   == Untagged(c.target) + Page(c, r)[k] * Size
        safe    == {n \in 0..c.nb : \A k \in 1..n : ~Raises(at(k))}
        printed == CHOOSE n \in safe : \A m \in safe : m <= n
    IN  [k \in 1..printed |-> Row(Page(c, r)[k], at(k))]

\* Is a root looked up for one of the rows?
LooksUp(c, r) ==
    \E k \in 1..c.nb : Readable(Untagged(c.target) + Page(c, r)[k] * Size)

Invoke(c, r) ==
    LET shown == Shown(c, r)
    IN  /\ program # "none"
        /\ cmd' = c /\ repeat_count' = r
        /\ IF Mapped(Untagged(c.target))
           THEN /\ rows' = shown
                /\ covered' = (IF r = 0 THEN {} ELSE covered)
                              \cup {shown[k].i : k \in 1..Len(shown)}
                /\ raised' = ((r > 0 /\ raised) \/ Len(shown) < c.nb)
                /\ isolate_root' = IF LooksUp(c, r) THEN Root ELSE isolate_root
                /\ moved' = (moved /\ (Cached \/ ~LooksUp(c, r)))
           ELSE /\ rows' = << >> /\ covered' = {} /\ raised' = TRUE
                /\ UNCHANGED <<isolate_root, moved>>
        /\ UNCHANGED programVars

Vereference(c) == Invoke(c, 0)

\* An empty line.
Again ==
    /\ cmd # NoCommand /\ repeat_count < MaxRepeats
    /\ Invoke(cmd, repeat_count + 1)

-----------------------------------------------------------------------------
(* The program.                                                            *)

ForgetsPage ==
    /\ cmd' = NoCommand /\ repeat_count' = 0 /\ rows' = << >> /\ covered' = {}
    /\ raised' = FALSE

Start(kind) ==
    /\ program = "none" /\ program' = kind
    /\ image' \in Images /\ thread' \in Threads
    /\ roots' = [t \in Threads |-> 0]
    /\ UNCHANGED <<isolate_root, moved>>
    /\ ForgetsPage

\* It runs until it stops, maybe elsewhere in other memory; a thread of it may
\* have entered an isolate.
Runs(t, r) ==
    /\ program # "none"
    /\ image' \in Images /\ thread' \in Threads
    /\ roots' = IF program = "v8" THEN [roots EXCEPT ![t] = r] ELSE roots
    /\ moved' = (moved \/ thread' # thread \/ roots'[thread] # roots[thread])
    /\ UNCHANGED <<program, isolate_root>>
    /\ ForgetsPage

\* The user selects another thread.
SelectThread(t) ==
    /\ program # "none" /\ thread' = t
    /\ moved' = (moved \/ t # thread)
    /\ UNCHANGED <<program, image, roots, isolate_root>>
    /\ ForgetsPage

\* Mutant: the exit hook leaves the global alone.
RootStays == isolate_root

RootAfterExit == NoRoot

Exits ==
    /\ program # "none" /\ program' = "none"
    /\ image' = NoImage /\ roots' = [t \in Threads |-> 0]
    /\ isolate_root' = RootAfterExit /\ moved' = FALSE
    /\ UNCHANGED thread
    /\ ForgetsPage

Commands == [target : Expressions, nb : Counts, down : BOOLEAN]

V8Next ==
    \/ \E c \in Commands : Vereference(c)
    \/ Again
    \/ \E kind \in {"v8", "other"} : Start(kind)
    \/ \E t \in Threads, r \in Roots : Runs(t, r)
    \/ \E t \in Threads : SelectThread(t)
    \/ Exits

V8Spec == V8Init /\ [][V8Next]_v8Vars
-----------------------------------------------------------------------------
\* The variables stay in their ranges; in particular the page is made of rows.
V8TypeOK ==
    /\ program \in {"none", "v8", "other"} /\ image \in Images \cup {NoImage}
    /\ thread \in Threads /\ roots \in [Threads -> Roots \cup {0}]
    /\ isolate_root \in Roots \cup {NoRoot, 0} /\ moved \in BOOLEAN
    /\ cmd \in Commands \cup {NoCommand} /\ repeat_count \in 0..MaxRepeats
    /\ covered \subseteq Nat /\ raised \in BOOLEAN
    /\ \A k \in 1..Len(rows) :
          (rows[k].at % 2) = 0 /\ rows[k].i \in Nat /\ Len(rows[k].links) \in Nat \ {0}

\* The root that is kept belongs to the program that runs, whatever ran before,
\* and is the selected thread's until the user or the program goes to a thread
\* with another one.  Until then a compressed pointer is shown where the
\* thread's own isolate has it: each half under its word, in the cage.
RootIsCurrent ==
    /\ Cached => program = "v8" /\ (~moved => isolate_root = roots[thread])
    /\ ~moved => \A k \in 1..Len(rows), j \in 1..2 :
          LET half == Halves(image[rows[k].at])[j]
          IN  rows[k].pair[j] # Unreadable => rows[k].pair[j] = roots[thread] + half

\* A page and its repeats print each row once, with none left out, upwards and
\* downwards; and a chain is memory's: every link is what the one before holds,
\* it shows no address twice but at its end, and says of just those that they
\* loop that do (unless the limit cuts it off there).
PageIsMemory ==
    /\ ~raised => covered = 0 .. cmd.nb * (IF cmd = NoCommand THEN 0
                                           ELSE repeat_count + 1) - 1
    /\ \A k \in 1..Len(rows) :
          LET links == rows[k].links
              last  == Len(links)
              prior == {links[n] : n \in 1..(last - 1)}
          IN  /\ links[1] = cmd.target - (cmd.target % 2) + rows[k].i * Size
              /\ \A n \in 1..(last - 1) : links[n + 1] = image[links[n]]
              /\ \A n, m \in 1..(last - 1) : links[n] = links[m] => n = m
              /\ rows[k].end = "loop" => links[last] \in prior
              /\ links[last] \in prior => rows[k].end = "loop" \/ last > MaxRecursion
=============================================================================
