------------------------ MODULE MCProcessorEvidence ------------------------
(***************************************************************************)
(* A small instance of ProcessorEvidence for TLC.                          *)
(***************************************************************************)
EXTENDS ProcessorEvidence

TwoCpus   == {0, 1}
TwoValues == {0, 1}

\* What an absent register is.
NoRegister == 99

\* Every register holds 0, but for one register of some processors.
But(S, m, w) ==
    [c \in TwoCpus |-> [r \in Registers |-> IF c \in S /\ r = m THEN w ELSE 0]]

\* A uniform processor, one whose application processor has other VMX controls
\* or none, and one without a register that is read from all.
SomeMachines ==
    {But({}, "vmx", 0), But({1}, "vmx", 1), But({1}, "vmx", NoRegister),
     But(TwoCpus, "sign", NoRegister)}
=============================================================================
