-------------------------- MODULE MCAssembleSession --------------------------
(***************************************************************************)
(* AssembleSession over the part of VALID_ARCH_MODES that differs: an      *)
(* architecture whose programs switch between two modes, and another one,  *)
(* that of the settings, which has no big endian.                          *)
(***************************************************************************)
EXTENDS AssembleSession

MCArchs == {"ARM", "X86"}
MCModes == {"ARM", "THUMB", "64"}

Row(a, m, l, b) == [arch |-> a, mode |-> m, little |-> l, big |-> b]
MCTable == {Row("ARM", "ARM", TRUE, TRUE), Row("ARM", "THUMB", TRUE, TRUE),
            Row("X86", "64", TRUE, FALSE)}

T(a, m, e) == [arch |-> a, mode |-> m, endian |-> e]
Arm   == T("ARM", "ARM", "little")
Thumb == T("ARM", "THUMB", "little")
X64   == T("X86", "64", "little")

MCSessions   == {Arm, Thumb}
MCKeystone   == {Arm, Thumb, X64}
MCInterworks == {<<Arm, Thumb>>, <<Thumb, Arm>>}

\* The two modes of ARM have one syntax, x86's text is another language.
MCAccepts == {Arm, Thumb} \X {Arm, Thumb}
MCFits    == {<<Arm, Arm>>, <<Thumb, Thumb>>}

\* No options, a target, a mode that only an ARM session has, and a target that
\* Keystone cannot be opened for.
MCOptions == {<<"absent", "absent", "absent">>, <<"ARM", "ARM", "absent">>,
              <<"absent", "ARM", "absent">>, <<"X86", "64", "big">>}

MCPrograms == {<<"nop", "nop">>, <<"nop", "typo">>}
=============================================================================
