--------------------------- MODULE MCBcdDualMode ---------------------------
(***************************************************************************)
(* Small instances of BcdDualMode for TLC.                                 *)
(***************************************************************************)
EXTENDS BcdDualMode

CONSTANTS w1, w2, c1, c2   \* entries of the machine, and GUIDs for copies

Plain(l, o, x, v, e) ==
    [launch |-> l, opts |-> o, xsave |-> x, vsm |-> v, extra |-> e, desc |-> "other",
     numproc |-> "absent", vapic |-> "absent", capture |-> "absent"]

\* The configurations of the investigation: Windows without Hyper-V, the
\* failing one, the MBEC fallback, the XSAVE bypass, an experiment.
MCInitialEntries ==
    { Plain("absent", "absent", "absent", "absent", "absent"),
      Plain("auto", "absent", "absent", "absent", "absent"),
      Plain("auto", "mbec", "absent", "off", "absent"),
      Plain("auto", "absent", "on", "absent", "absent"),
      Plain("off", "other", "absent", "absent", "on") }
=============================================================================
