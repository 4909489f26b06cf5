---------------------------- MODULE Disassembly -----------------------------
(***************************************************************************)
(* scripts/capstone.py: capstone-disassemble, and the disassembler that    *)
(* the setting use-capstone puts into GEF's `context`.  Code is mapped at  *)
(* the addresses of Code; insn_size gives the length of the instruction at *)
(* an address, 0 where none decodes.                                       *)
(***************************************************************************)
EXTENDS Integers, Sequences

CONSTANTS
    Code, PageSize, MaxSize,
    Sessions,       \* what gef.arch may be: [arch, mode]
    Lengths,        \* bound: the values of --length
    MaxRepeat,      \* bound: repetitions of a command
    nb_lines_code, nb_lines_code_prev,      \* settings of the context
    CallTarget      \* where the calls go

ASSUME DisassemblyAssumption ==
    /\ Code \subseteq Nat /\ PageSize \in Nat \ {0} /\ MaxSize \in Nat
    /\ 0 \notin Lengths /\ Lengths \subseteq Int
    /\ nb_lines_code \in Nat \ {0} /\ nb_lines_code_prev \in Nat
    /\ MaxRepeat \in Nat /\ CallTarget \in Nat

VARIABLES
    insn_size,
    gef_arch,       \* the session
    pc,
    kind,           \* of the instruction at pc
    use_capstone,   \* which iterator `context` has
    shown           \* the last window

disassemblyVars == <<insn_size, gef_arch, pc, kind, use_capstone, shown>>

\* Those analyze_pc tells apart; a call has its target as a number, or in a
\* register, which does not parse.
Kinds == {"other", "taken", "call", "register call"}

NoWindow == [by |-> "none", location |-> 0, asked |-> 1, repeat_count |-> 0,
             rows |-> << >>, callee |-> << >>, cut |-> FALSE]

DisassemblyInit ==
    /\ insn_size \in [Code -> 0..MaxSize]
    /\ gef_arch \in Sessions /\ pc \in Code /\ kind \in Kinds
    /\ use_capstone = FALSE
    /\ shown = NoWindow

-----------------------------------------------------------------------------
(* gef_to_cs_arch: every window opens an engine of its own, for the        *)
(* architecture of the moment, if capstone has one for it.                 *)

Known(s) ==
    \/ s.arch \in {"ARM", "ARM64"}
    \/ s.arch = "X86" /\ s.mode \in {"32", "64"}
    \/ s.arch = "PPC" /\ s.mode \in {"PPC32", "PPC64"}
    \/ s.arch = "MIPS" /\ s.mode \in {"MIPS32", "MIPS64"}

-----------------------------------------------------------------------------
(* cs_disassemble.                                                         *)

Offset(a) == a % PageSize

\* Mutant: a row has the address behind its instruction.
DecodedBehind(a, end) ==
    LET From[b \in a..end] ==
            IF b \notin Code \/ b >= end THEN << >>
            ELSE IF insn_size[b] = 0 \/ b + insn_size[b] > end THEN << >>
            ELSE <<b + insn_size[b]>> \o From[b + insn_size[b]]
    IN  From[a]

\* The instructions that decode one after the other from a, before end.
Decoded(a, end) ==
    LET From[b \in a..end] ==
            IF b \notin Code \/ b >= end THEN << >>
            ELSE IF insn_size[b] = 0 \/ b + insn_size[b] > end THEN << >>
            ELSE <<b>> \o From[b + insn_size[b]]
    IN  From[a]

\* Mutant: the last two bytes of the page are left out.
ReadLess(location) == IF Offset(location) = PageSize - 1 THEN 0
                      ELSE PageSize - Offset(location) - 2

\* How much is read: up to the last byte of the page that location is in, which
\* is left out.
Read(location) == PageSize - Offset(location) - 1

Skipped(rows, skip) == IF skip < 0 THEN << >> ELSE SubSeq(rows, skip + 1, Len(rows))

\* A negative count is never reached.
Taken(rows, n) == IF n < 0 \/ Len(rows) <= n THEN rows ELSE SubSeq(rows, 1, n)

Window(location, n, skip) ==
    Taken(Skipped(Decoded(location, location + Read(location)), skip), n)

\* External: gdb_get_nth_previous_instruction_address(pc, n).
Previous(n) ==
    {a \in Code : a < pc /\ Len(Decoded(a, pc)) = n
        /\ LET r == Decoded(a, pc) IN r[n] + insn_size[r[n]] = pc}

\* Mutant: the instructions before pc take the place of those after it.
WindowBackNoMore(a) == Taken(Decoded(a, a + Read(pc)), nb_lines_code)

\* The window of `context`, from the instruction a before pc: as much is read as
\* if it started at pc.
WindowBack(a) == Taken(Decoded(a, a + Read(pc)), nb_lines_code + nb_lines_code_prev)

-----------------------------------------------------------------------------
(* capstone-disassemble.                                                   *)

\* Mutant: a repeated command skips one window only.
SkipOnce(n, repeat_count) == IF repeat_count = 0 THEN 0 ELSE n

Skip(n, repeat_count) == n * repeat_count

\* The rows up to pc's, at which the command stops if analyze_pc has something
\* to show; raised before the row is printed if the target does not parse.
Printed(rows) ==
    LET at == {i \in DOMAIN rows : rows[i] = pc}
    IN  IF at = {} \/ kind = "other" THEN rows
        ELSE SubSeq(rows, 1, (CHOOSE i \in at : TRUE)
                             - (IF kind = "register call" THEN 1 ELSE 0))

ShowWindow(location, n, repeat_count) ==
    LET rows == Window(location, n, Skip(n, repeat_count))
        stop == kind # "other" /\ \E i \in DOMAIN rows : rows[i] = pc
    IN  shown' = [by |-> "command",
                  location |-> location, asked |-> n, repeat_count |-> repeat_count,
                  rows |-> Printed(rows), cut |-> stop,
                  callee |-> IF stop /\ kind = "call" THEN Window(CallTarget, n, 0)
                             ELSE << >>]

Disassemble(location, n) ==
    /\ Known(gef_arch)              \* or ValueError, and nothing is shown
    /\ ShowWindow(location, n, 0)
    /\ UNCHANGED <<insn_size, gef_arch, pc, kind, use_capstone>>

\* An empty line types the command again; GEF counts how often.
Repeat ==
    /\ Known(gef_arch)
    /\ shown.by = "command" /\ shown.repeat_count < MaxRepeat
    /\ ShowWindow(shown.location, shown.asked, shown.repeat_count + 1)
    /\ UNCHANGED <<insn_size, gef_arch, pc, kind, use_capstone>>

-----------------------------------------------------------------------------
(* The context, the setting, and the program.                              *)

ContextWindow(location, rows) ==
    shown' = [NoWindow EXCEPT !.by = "context",
              !.location = location, !.asked = nb_lines_code, !.rows = rows]

Context ==
    /\ use_capstone /\ Known(gef_arch)
    /\ IF nb_lines_code_prev = 0
       THEN ContextWindow(pc, Window(pc, nb_lines_code, 0))
       ELSE \E a \in Previous(nb_lines_code_prev) : ContextWindow(a, WindowBack(a))
    /\ UNCHANGED <<insn_size, gef_arch, pc, kind, use_capstone>>

\* GDB's disassembler shows the context, or there is nothing to show before pc.
ContextElsewhere ==
    /\ \/ ~use_capstone
       \/ ~Known(gef_arch)
       \/ nb_lines_code_prev > 0 /\ Previous(nb_lines_code_prev) = {}
    /\ shown' = NoWindow
    /\ UNCHANGED <<insn_size, gef_arch, pc, kind, use_capstone>>

switch_disassembler(enable_csdis) ==
    /\ use_capstone' = enable_csdis
    /\ shown' = NoWindow
    /\ UNCHANGED <<insn_size, gef_arch, pc, kind>>

\* The program stops elsewhere.
Stop ==
    /\ pc' \in Code /\ kind' \in Kinds
    /\ shown' = NoWindow
    /\ UNCHANGED <<insn_size, gef_arch, use_capstone>>

\* Another program is loaded, or the architecture of this one is changed.
Load ==
    /\ gef_arch' \in Sessions
    /\ shown' = NoWindow
    /\ UNCHANGED <<insn_size, pc, kind, use_capstone>>

DisassemblyNext ==
    \/ \E location \in Code, n \in Lengths : Disassemble(location, n)
    \/ Repeat
    \/ Context
    \/ ContextElsewhere
    \/ \E b \in BOOLEAN : switch_disassembler(b)
    \/ Stop
    \/ Load

DisassemblySpec == DisassemblyInit /\ [][DisassemblyNext]_disassemblyVars

-----------------------------------------------------------------------------
(* Properties.                                                             *)

Addresses == Seq(Code)

DisassemblyTypeOK ==
    /\ insn_size \in [Code -> 0..MaxSize]
    /\ gef_arch \in Sessions /\ pc \in Code /\ kind \in Kinds
    /\ use_capstone \in BOOLEAN
    /\ shown.by \in {"none", "context", "command"}
    /\ shown.rows \in Addresses /\ shown.callee \in Addresses
    /\ shown.repeat_count \in 0..MaxRepeat /\ shown.cut \in BOOLEAN

Ends(rows) == rows[Len(rows)] + insn_size[rows[Len(rows)]]

\* Repeating the command pages through the code: a window starts where the one
\* above it ended, with no instruction lost or shown twice, as long as that one
\* did not stop at pc.
RepeatsTile ==
    [][ \/ shown'.repeat_count # shown.repeat_count + 1
        \/ shown.cut \/ shown.rows = << >> \/ shown'.rows = << >>
        \/ shown'.rows[1] = Ends(shown.rows) ]_disassemblyVars

PageEnd(a) == a - Offset(a) + PageSize

\* A first window keeps to the page of its location, and is shorter than what
\* was asked for a reason only: it stopped at pc, or the next instruction does
\* not decode or reaches the last byte of the page, which is not read.
WindowOfThePage ==
    LET next == IF shown.rows = << >> THEN shown.location ELSE Ends(shown.rows)
    IN  shown.by = "command" /\ shown.repeat_count = 0 =>
            /\ next <= PageEnd(shown.location)
            /\ \/ shown.cut \/ shown.asked = Len(shown.rows)
               \/ next \notin Code
               \/ insn_size[next] = 0
               \/ next + insn_size[next] >= PageEnd(shown.location)

\* The context shows the instruction at pc, after the ones before it, if they
\* fit into what is read.  (Near the end of a page they do not: as much is read
\* from the first one as there is after pc, and the window ends before pc.)
ContextShowsPc ==
    shown.by = "context" /\ insn_size[pc] # 0
    /\ pc + insn_size[pc] - shown.location <= PageEnd(pc) - 1 - pc
        => /\ Len(shown.rows) > nb_lines_code_prev
           /\ shown.rows[nb_lines_code_prev + 1] = pc
=============================================================================
