---------------------------- MODULE BootPromise ----------------------------
(***************************************************************************)
(* What the dual-mode scripts promise to somebody who only switches the    *)
(* machine on: configuration never makes an unattended boot launch Hyper-V *)
(* by default, a one-shot boot into Hyper-V happens only after it was      *)
(* scheduled, it is scheduled only while the default has Hyper-V off, and  *)
(* it is over after one boot.                                              *)
(***************************************************************************)
VARIABLES
    mode,   \* what runs: "down", "off" (no Hyper-V) or "hv"
    dflt,   \* what the default entry boots: "none", "off", "hv" or "broken"
    pend    \* what the pending one-shot boot gives, "none" if there is none

vars == <<mode, dflt, pend>>

Flavours == {"none", "off", "hv", "broken"}

Init == mode \in {"off", "hv"} /\ dflt \in Flavours /\ pend \in Flavours

\* A configuration step: the default only ever becomes "off", a pending boot
\* only ever goes away or loses Hyper-V.
Settle == /\ mode # "down"
          /\ dflt' \in {dflt, "off"}
          /\ pend' \in {pend, "none", "off"}
          /\ UNCHANGED mode

\* A one-shot boot into Hyper-V is scheduled; after it comes the default, off.
Arm == /\ mode # "down"
       /\ dflt = "off"
       /\ pend' = "hv"
       /\ UNCHANGED <<mode, dflt>>

Halt == mode # "down" /\ mode' = "down" /\ UNCHANGED <<dflt, pend>>

Unattended ==
    LET f == IF pend # "none" THEN pend ELSE dflt
    IN  /\ mode = "down"
        /\ f # "none"
        /\ mode' = IF f = "broken" THEN "down" ELSE f
        /\ pend' = "none"
        /\ UNCHANGED dflt

Attended == /\ mode = "down" /\ pend = "none"
            /\ mode' \in {"off", "hv"}
            /\ UNCHANGED <<dflt, pend>>

Next == Settle \/ Arm \/ Halt \/ Unattended \/ Attended

Spec == Init /\ [][Next]_vars
=============================================================================
