--------------------------- MODULE AssembleSession ---------------------------
(***************************************************************************)
(* All of scripts/assemble.py in one GDB: `assemble` and `set-permission`  *)
(* over one Keystone engine, which GDB keeps while programs start, change  *)
(* the mode of the processor, and end.  A stub is written if the engine    *)
(* accepts its text; whether the processor executes it as it was meant     *)
(* depends on which target the engine was opened for.                      *)
(***************************************************************************)
EXTENDS SetPermission, KeystoneEngine

CONSTANTS
    Options,    \* the <<arch, mode, endian>> options that are typed
    Accepts,    \* <<engine, session>>: does the engine take the session's stub?
    Fits,       \* <<engine, session>>: are its bytes code of the session?
    Interworks  \* <<session, session>>: may a program switch between the two?

ASSUME AssembleAssumption ==
    /\ \A insns \in Programs : Len(insns) <= MaxInsns
    /\ Options \subseteq (Archs \cup {Absent}) \X (Modes \cup {Absent})
                          \X (Endians \cup {Absent})
    /\ Accepts \subseteq Keystone \X Sessions
    /\ Fits \subseteq Accepts
    /\ Interworks \subseteq Sessions \X Sessions

VARIABLE
    asAsked     \* was the last step no `assemble`, or one for the architecture and
                \* mode it named?

assembleVars == <<vars, session, ks, asAsked>>

AssembleInit ==
    /\ Init
    /\ session = Dead /\ ks = Closed /\ asAsked = TRUE

\* Is there a prompt to type at?
AtPrompt == run \in {"dead", "stopped"}

-----------------------------------------------------------------------------
Nowhere == -1                           \* no --overwrite-location

\* `assemble`.  Nothing is written without a program.
Assemble(insns, options, at) ==
    LET t  == Asked(options[1], options[2], options[3])
        ok == Valid(t) /\ Opens(t)
    IN  /\ AtPrompt
        /\ ks' = IF Valid(t) THEN KeptOpen(t) ELSE ks
        /\ asAsked' = (ok => Engine(t).arch = t.arch /\ Engine(t).mode = t.mode)
        /\ IF ok /\ at # Nowhere /\ session # Dead
           THEN \E n \in 0..Len(insns) :
                    Encodes(insns, n) /\ Overwrite(at, Len(insns), n)
           ELSE UNCHANGED vars
        /\ UNCHANGED session

\* `set-permission` assembles its stub for the session; only the architecture is
\* looked up in the table.  A stub the engine does not take is not written.
ChangePermission ==
    LET known == \E r \in Table : r.arch = session.arch
        by    == Engine(session)
    IN  /\ session # Dead /\ run = "stopped"
        /\ ks' = IF known THEN KeptOpen(session) ELSE ks
        /\ IF known /\ Opens(session) /\ <<by, session>> \in Accepts
           THEN \E n \in 0..StubLen : SetPermissionCmd(<<by, session>> \in Fits, n)
           ELSE UNCHANGED vars
        /\ asAsked' = TRUE
        /\ UNCHANGED session

\* The program's own code may switch the processor's mode; a handler that did
\* has put it back when it returns, and a stub does not.
ProgramSteps ==
    /\ session # Dead
    /\ \/ /\ OwnStep \/ AstrayStep \/ StubStep \/ Signal
          /\ session' = session
       \/ /\ OwnStep /\ sig = NoSignal
          /\ \E s \in Sessions : <<session, s>> \in Interworks /\ session' = s
    /\ asAsked' = TRUE
    /\ UNCHANGED ks

GdbStops ==
    /\ session # Dead /\ (Restore \/ Interrupt \/ Continue)
    /\ asAsked' = TRUE
    /\ UNCHANGED <<session, ks>>

ProgramEnds ==
    /\ session # Dead /\ Dies
    /\ session' = Dead
    /\ asAsked' = TRUE
    /\ UNCHANGED ks

ProgramStarts ==
    /\ session = Dead /\ Starts /\ session' \in Sessions
    /\ asAsked' = TRUE
    /\ UNCHANGED ks

AssembleNext ==
    \/ \E insns \in Programs, options \in Options, at \in Text \cup {Nowhere} :
          Assemble(insns, options, at)
    \/ ChangePermission
    \/ ProgramSteps
    \/ GdbStops
    \/ ProgramEnds
    \/ ProgramStarts

AssembleSpec == AssembleInit /\ [][AssembleNext]_assembleVars
-----------------------------------------------------------------------------
\* The variables stay in their ranges; in particular the engine is one that
\* Keystone could open.
AssembleTypeOK ==
    /\ TypeOK
    /\ session \in Sessions \cup {Dead} /\ ks \in Keystone \cup {Closed}
    /\ asAsked \in BOOLEAN

-----------------------------------------------------------------------------
(* What the documentation says and the code does not do.                   *)

\* "By setting the --arch ARCH and --mode MODE the target platform for the
\* assembly can be changed."
ForAskedTarget == asAsked
=============================================================================
