--------------------------- MODULE KeystoneEngine ---------------------------
(***************************************************************************)
(* The one Keystone engine of scripts/assemble.py that `assemble` and      *)
(* `set-permission` share, and the target a command asks it for.  A target *)
(* is an [arch, mode, endian].  An instruction in Bad assembles for no     *)
(* target.                                                                 *)
(***************************************************************************)
EXTENDS Sequences, Integers

CONSTANTS
    Archs, Modes,
    Table,      \* VALID_ARCH_MODES: [arch, mode, little, big] rows
    Sessions,   \* the targets GEF may report of a program
    Keystone,   \* external: the targets Keystone can be opened for
    Insns, Bad,
    Programs,   \* the instruction lists that are typed
    Default     \* the target of the settings

Endians == {"little", "big"}
Targets == [arch : Archs, mode : Modes, endian : Endians]

ASSUME KeystoneAssumption ==
    /\ Table \subseteq [arch : Archs, mode : Modes,
                        little : BOOLEAN, big : BOOLEAN]
    /\ Sessions \subseteq Targets /\ Default \in Targets
    /\ Keystone \subseteq Targets
    /\ Bad \subseteq Insns
    /\ Programs \subseteq Seq(Insns) \ {<< >>}

Dead   == [arch |-> "none", mode |-> "none", endian |-> "none"]
Closed == Dead
Absent == "absent"                      \* an option that was not given

VARIABLES
    session,    \* what GEF reports of the program, or Dead
    ks          \* the target of the engine, or Closed

-----------------------------------------------------------------------------
(* ks_assemble.                                                            *)

\* The engine an instruction for t is assembled by.
Engine(t) == IF ks # Closed THEN ks ELSE t

\* Opening an engine Keystone has no such target for raises.
Opens(t) == Engine(t) \in Keystone

\* Do the first n instructions assemble, and not the one after them?
Encodes(insns, n) ==
    /\ \A i \in 1..n : insns[i] \notin Bad
    /\ n < Len(insns) => insns[n + 1] \in Bad

-----------------------------------------------------------------------------
(* AssembleCommand.do_invoke.                                              *)

\* The mode is one of the architecture's.  The endianness is compared after
\* upper(), with words in lower case: no endianness is ever refused.
Valid(t) == \E r \in Table : r.arch = t.arch /\ r.mode = t.mode

\* The settings, unless a program is alive; then options over both.
Base == IF session = Dead THEN Default ELSE session

Asked(a, m, e) ==
    [arch   |-> IF a = Absent THEN Base.arch ELSE a,
     mode   |-> IF m = Absent THEN Base.mode ELSE m,
     endian |-> IF e = Absent THEN Base.endian ELSE e]

\* Mutant: an engine that could not be opened is kept.
KeptOpenBroken(t) == Engine(t)

\* The module keeps the engine a command opened.
KeptOpen(t) == IF Opens(t) THEN Engine(t) ELSE ks
=============================================================================
