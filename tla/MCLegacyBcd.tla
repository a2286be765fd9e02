---------------------------- MODULE MCLegacyBcd ----------------------------
(***************************************************************************)
(* Small instances of LegacyBcd for TLC.                                   *)
(***************************************************************************)
EXTENDS LegacyBcd

CONSTANTS w1, w2, c1, c2, c3   \* entries of the machine, and GUIDs for copies

Plain(l, o, x, v) ==
    [launch |-> l, opts |-> o, xsave |-> x, vsm |-> v, extra |-> "absent", desc |-> "other",
     numproc |-> "absent", vapic |-> "absent", capture |-> "absent"]

\* Windows with Hyper-V off, as prepare-opencore-safe-boot leaves it; the same
\* with the XSAVE bypass; the entry that fails to boot.
OneTimeEntries == { Plain("off", "absent", "absent", "off"),
                    Plain("off", "absent", "on", "off"),
                    Plain("auto", "absent", "absent", "absent") }

\* Windows with Hyper-V off, and the MBEC fallback.
MatrixBases == { Plain("off", "absent", "absent", "off"),
                   Plain("auto", "mbec", "absent", "off") }

\* HV 01 BASELINE and HV 06 SEM MBEC HW of the matrix.
BaselineAndMbec == << << >>, << Set("diag", "opts", "mbec") >> >>
=============================================================================
