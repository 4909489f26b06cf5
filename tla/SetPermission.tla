--------------------------- MODULE SetPermission ---------------------------
(***************************************************************************)
(* `set-permission` of scripts/assemble.py: an mprotect stub is written    *)
(* over the code at $pc, a breakpoint behind it puts code and $pc back,    *)
(* and the program is resumed.  While the stub runs the program may stop   *)
(* for any other reason (a signal, another breakpoint, an interrupt) or    *)
(* enter a signal handler, and where it stops the user may type any        *)
(* command, also one that writes over the stub, or this one again.         *)
(*                                                                         *)
(* One address holds one instruction; a stub is StubLen of them: the first *)
(* saves the registers, the second is the system call, the last restores.  *)
(* ChangePermissionBreakpoint is GEF's: it is temporary, and when hit it   *)
(* writes the saved code back and sets $pc to where the stub began.        *)
(*                                                                         *)
(* Breakpoints belong to GDB: those a program leaves behind when it dies   *)
(* are still set in the next one, which is loaded at the same addresses.   *)
(***************************************************************************)
EXTENDS Integers, FiniteSets

CONSTANTS
    TextLen,    \* the program's code is at 0 .. TextLen - 1
    StubLen,
    MaxCommands,\* bound: commands in one GDB
    MaxInsns,   \* the longest list of instructions `assemble` is given
    MaxPatches  \* bound: addresses the user has written to

Text == 0 .. TextLen - 1

ASSUME SetPermissionAssumption ==
    /\ TextLen \in Nat /\ StubLen \in Nat
    /\ 3 <= StubLen /\ StubLen < TextLen
    /\ MaxCommands \in Nat /\ MaxInsns \in Nat /\ MaxPatches \in Nat

\* The contents of an address: the program's own instruction, one the user
\* wrote there, or the i-th of a stub.
Own   == 0
Patch == -1
Cells == {Own, Patch} \cup 1..StubLen

NoSignal == -1

VARIABLES
    mem,
    wanted,     \* history: the code the program is meant to have
    pc,
    run,        \* "dead" (no program), "stopped", "resumed" (no breakpoint at $pc
                \* fires), "running"
    sig,        \* in a signal handler that interrupted a stub: the address it
                \* will return to; or NoSignal
    bps,        \* the restore breakpoints GDB holds; live: this program's
    saves,      \* register contexts saved by stubs and not restored
    grants,     \* history: system calls made by stubs
    commands,   \* history: commands that set a breakpoint
    astray,     \* history: something was done to this program under which the
                \* command promises nothing; the actions that set it say what
    nested      \* history: the command was typed while one was pending

vars == <<mem, wanted, pc, run, sig, bps, saves, grants, commands, astray, nested>>

Breakpoints == [loc : Text, pc : Text, code : [Text -> Cells], live : BOOLEAN]

Live == {b \in bps : b.live}

StubAt(p) == p .. p + StubLen - 1

Init ==
    /\ mem = [a \in Text |-> Own] /\ wanted = mem
    /\ pc = 0 /\ run = "dead" /\ sig = NoSignal
    /\ bps = {} /\ saves = 0 /\ grants = 0 /\ commands = 0
    /\ astray = FALSE /\ nested = FALSE

-----------------------------------------------------------------------------
(* The command.                                                            *)

\* original_code: as many bytes as the stub has.
Saved(p) == [a \in Text |-> IF a \in StubAt(p) THEN mem[a] ELSE Own]

\* Mutant: the breakpoint is set on the last instruction of the stub.
BehindStubEarly(p) == p + StubLen - 1

BehindStub(p) == p + StubLen

RestoreBp == [loc |-> BehindStub(pc), pc |-> pc, code |-> Saved(pc), live |-> TRUE]

\* The first n instructions of the stub are in memory.
StubWritten(n) == [a \in Text |-> IF a \in pc .. pc + n - 1 THEN a - pc + 1 ELSE mem[a]]

\* The code is saved, the breakpoint set, the stub written and the program
\* continued.  Writing it may raise with the breakpoint set: some first part of
\* the stub is then in memory, and the program stays where it is.  Does the stub
\* fit the processor, or was it assembled for another one?  Nothing is promised
\* of one that does not, of half a stub, and of a command over a pending one.
SetPermissionCmd(fits, n) ==
    /\ run = "stopped" /\ BehindStub(pc) \in Text
    /\ commands < MaxCommands /\ commands' = commands + 1
    /\ bps' = bps \cup {RestoreBp}
    /\ mem' = StubWritten(n)
    /\ run' = IF n = StubLen THEN "resumed" ELSE "stopped"
    /\ sig' = NoSignal
    /\ nested' = (nested \/ Live # {})
    /\ astray' = (astray \/ ~fits \/ n < StubLen \/ Live # {})
    /\ UNCHANGED <<wanted, pc, saves, grants>>

-----------------------------------------------------------------------------
(* The program.  What an astray one does to its registers is not followed. *)

\* No breakpoint takes the program from here.
Free == run = "resumed" \/ (run = "running" /\ \A b \in bps : b.loc # pc)

\* An instruction of the program's own, or one the user wrote; in a signal
\* handler it may be the return.
OwnStep ==
    /\ Free /\ ~astray /\ mem[pc] \in {Own, Patch}
    /\ run' = "running"
    /\ \/ pc' \in Text /\ sig' = sig
       \/ sig # NoSignal /\ pc' = sig /\ sig' = NoSignal
    /\ UNCHANGED <<mem, wanted, bps, saves, grants, commands, astray, nested>>

\* An instruction of the pending stub.
StubStep ==
    /\ Free /\ ~astray /\ sig = NoSignal /\ mem[pc] \in 1..StubLen
    /\ run' = "running"
    /\ pc + 1 \in Text /\ pc' = pc + 1
    /\ saves' = CASE mem[pc] = 1       -> saves + 1
                  [] mem[pc] = StubLen -> saves - 1
                  [] OTHER             -> saves
    /\ grants' = IF mem[pc] = 2 THEN grants + 1 ELSE grants
    /\ UNCHANGED <<mem, wanted, sig, bps, commands, astray, nested>>

\* A signal handler is entered out of the stub, which it knows nothing of.
\* Elsewhere it is the program's own code like any other.
Signal ==
    /\ Free /\ ~astray /\ sig = NoSignal /\ Live # {}
    /\ run' = "running"
    /\ pc' \in Text /\ sig' = pc
    /\ UNCHANGED <<mem, wanted, bps, saves, grants, commands, astray, nested>>

\* A handler that gets into the code under the stub executes the stub; and any
\* step of a program that is astray.
AstrayStep ==
    /\ Free
    /\ astray \/ (sig # NoSignal /\ mem[pc] \in 1..StubLen)
    /\ run' = "running"
    /\ pc' \in Text /\ sig' = NoSignal /\ astray' = TRUE
    /\ UNCHANGED <<mem, wanted, bps, saves, grants, commands, nested>>

-----------------------------------------------------------------------------
(* GDB.                                                                    *)

\* Mutant: only $pc is put back.
RestoredNot(b) == mem

Restored(b) == [a \in Text |-> IF a \in StubAt(b.pc) THEN b.code[a] ELSE mem[a]]

\* The restore breakpoint: of several at one address the last one written wins.
\* One of a program that died, or one that a signal handler runs into, takes the
\* program elsewhere.
Restore ==
    /\ run = "running"
    /\ \E b \in bps :
          /\ b.loc = pc
          /\ mem' = Restored(b)
          /\ pc' = b.pc
          /\ astray' = (astray \/ ~b.live \/ sig # NoSignal)
    /\ bps' = {b \in bps : b.loc # pc}
    /\ run' = "stopped" /\ sig' = NoSignal
    /\ UNCHANGED <<wanted, saves, grants, commands, nested>>

\* Any other reason to stop, and the user's `continue`.  A stop at a breakpoint's
\* own address is taken to be that breakpoint's.
Interrupt ==
    /\ Free
    /\ run' = "stopped"
    /\ UNCHANGED <<mem, wanted, pc, sig, bps, saves, grants, commands, astray, nested>>

Continue ==
    /\ run = "stopped"
    /\ run' = "resumed"
    /\ UNCHANGED <<mem, wanted, pc, sig, bps, saves, grants, commands, astray, nested>>

Patches(m, a, n) == [c \in Text |-> IF c \in a .. a + n - 1 THEN Patch ELSE m[c]]

\* Mutant: instructions are written as they are assembled.
WrittenAtOnce(a, n, good) == Patches(mem, a, good)

\* The code is written once, after the last instruction.
Written(a, n, good) == IF good = n THEN Patches(mem, a, n) ELSE mem

\* Is code of a pending stub at n addresses from a?
OverStub(a, n) == \E b \in Live : StubAt(b.pc) \cap (a .. a + n - 1) # {}

\* `assemble --overwrite-location` with n instructions, of which the first `good`
\* assemble, anywhere.  In a pending stub it replaces instructions of the stub,
\* and the restore breakpoint will undo it: nothing is promised then.
Overwrite(a, n, good) ==
    /\ run = "stopped"
    /\ a + n - 1 \in Text /\ good <= n
    /\ Cardinality({c \in Text : Patches(wanted, a, n)[c] = Patch}) <= MaxPatches
    /\ mem' = Written(a, n, good)
    /\ wanted' = IF good = n THEN Patches(wanted, a, n) ELSE wanted
    /\ astray' = (astray \/ (good = n /\ OverStub(a, n)))
    /\ sig' = IF astray' THEN NoSignal ELSE sig
    /\ UNCHANGED <<pc, run, bps, saves, grants, commands, nested>>

\* What GDB keeps of the breakpoints when the program is gone.
LeftBehind == {[b EXCEPT !.live = FALSE] : b \in bps}

\* The program dies, in a stub or elsewhere.  Without one, mem and wanted are
\* those of the file.
Dies ==
    /\ run # "dead" /\ run' = "dead"
    /\ mem' = [a \in Text |-> Own] /\ wanted' = mem' /\ pc' = 0
    /\ sig' = NoSignal /\ bps' = LeftBehind
    /\ saves' = 0 /\ astray' = FALSE
    /\ UNCHANGED <<grants, commands, nested>>

\* It is started again, and stops somewhere.
Starts ==
    /\ run = "dead" /\ run' = "stopped" /\ pc' \in Text
    /\ UNCHANGED <<mem, wanted, sig, bps, saves, grants, commands, astray, nested>>

Next ==
    \/ \E fits \in BOOLEAN, n \in 0..StubLen : SetPermissionCmd(fits, n)
    \/ OwnStep \/ StubStep \/ Signal \/ AstrayStep
    \/ Restore \/ Interrupt \/ Continue
    \/ \E a \in Text, n \in 1..MaxInsns, good \in 0..MaxInsns :
          Overwrite(a, n, good)
    \/ Dies \/ Starts

Spec == Init /\ [][Next]_vars

-----------------------------------------------------------------------------
\* The variables stay in their ranges; in particular no stub that went as it was
\* meant to restores registers it did not save.
TypeOK ==
    /\ mem \in [Text -> Cells] /\ wanted \in [Text -> {Own, Patch}]
    /\ pc \in Text /\ run \in {"dead", "stopped", "resumed", "running"}
    /\ sig \in Text \cup {NoSignal}
    /\ bps \subseteq Breakpoints
    /\ saves \in Nat /\ grants \in Nat /\ commands \in 0..MaxCommands
    /\ astray \in BOOLEAN /\ nested \in BOOLEAN

\* No stub outlives its breakpoint: where there is an instruction of one, a
\* breakpoint of this program has the code that was there, and that is not itself
\* code of a stub.  This is so after any restart, whatever a breakpoint of an
\* earlier program, a failed command or a handler has done, as long as the
\* command was never typed while one was pending.
StubsCovered ==
    \A a \in Text : mem[a] \in 1..StubLen =>
        \E b \in Live : a \in StubAt(b.pc) /\ b.code[a] \in {Own, Patch}

\* Wherever the program stops and however it goes on: an instruction that is
\* not the one the program should have there will be put back by a restore
\* breakpoint; without one, the program's code is intact.  An `assemble` that
\* fails half-way changes nothing.  Not promised to a program that is astray.
CodeComesBack ==
    /\ ~nested => StubsCovered
    /\ ~astray => \A a \in Text : mem[a] # wanted[a] =>
          \E b \in Live : a \in StubAt(b.pc) /\ b.code[a] = wanted[a]

\* The program's own instructions never run with the registers of a stub:
\* registers are back when the code is.  A signal handler has a frame of its own,
\* and the stub its registers back when it returns.
OwnCodeOwnRegisters ==
    ~astray /\ sig = NoSignal /\ mem[pc] \in {Own, Patch} => saves = 0

-----------------------------------------------------------------------------
(* What the user is to see of a program with a stub in it.                 *)

\* Where in the stub the program is.
StubPc == IF sig = NoSignal THEN pc ELSE sig

\* While the stub runs, the program is where the command was typed.
UserPc ==
    IF Live = {} \/ astray \/ sig # NoSignal THEN pc ELSE (CHOOSE b \in Live : TRUE).pc

\* The code without the stub.
UserCode ==
    [a \in Text |->
        IF \E b \in Live : a \in StubAt(b.pc)
        THEN (CHOOSE b \in Live : a \in StubAt(b.pc)).code[a]
        ELSE mem[a]]

\* Is the system call still to be made?
Due == ~astray /\ \E b \in Live : StubPc < b.pc + 2

Promise == INSTANCE Mprotect
    WITH pcA <- UserPc, codeA <- UserCode, runA <- run, due <- Due, kept <- ~astray

\* set-permission implements Mprotect: the one system call apart, the stub moves
\* nothing and changes no code, wherever it is stopped, interrupted by a handler
\* and resumed, and when its breakpoint is hit the call has been made.
KeepsPromise == Promise!SpecA

-----------------------------------------------------------------------------
(* What the documentation says and the code does not do: no run checks it. *)

\* "A breakpoint is added following this stub, which when hit will restore the
\* original context": without a breakpoint the code is what it is meant to be.
\* It is not after a second command in a stub, after a write into one, and after
\* a breakpoint of an earlier program.
CodeBackWithoutBreakpoints == Live = {} => mem = wanted
=============================================================================
