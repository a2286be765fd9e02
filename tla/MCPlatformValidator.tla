------------------------ MODULE MCPlatformValidator ------------------------
(***************************************************************************)
(* Small instances of PlatformValidator for TLC.                           *)
(***************************************************************************)
EXTENDS PlatformValidator

\* Two processor UIDs.
TwoUids == {0, 1}

\* An NMI UID of 0xFF.
AllProcessors == 255

Machine(k, c, a, v, x, m) ==
    [known |-> k, complete |-> c, avx512f |-> a, vp2 |-> v, xstate |-> x,
     avx |-> TRUE, avx2 |-> TRUE, madt |-> m]

\* Each pairing of the CPUID facts, with a consistent MADT.
Consistent == [cpus |-> [u \in TwoUids |-> "enabled"], nmis |-> TwoUids]
CpuidVariants ==
    {Machine(k, TRUE, a, v, x, Consistent) :
        k \in BOOLEAN, a \in BOOLEAN, v \in BOOLEAN, x \in {{0, 1, 5}, {0, 1, 5, 6, 7}}}
    \cup {Machine(TRUE, FALSE, FALSE, FALSE, {}, Consistent)}

\* A healthy CPUID with tables of one and of two enabled processors: NMI
\* entries for both, for one of them, for the next UIDs, for all, for none.
MadtVariants ==
    {Machine(TRUE, TRUE, TRUE, TRUE, {0, 1, 5, 6, 7},
             [cpus |-> [u \in TwoUids |-> IF u = 0 THEN "enabled" ELSE other], nmis |-> n]) :
        other \in {"disabled", "enabled"}, n \in {{}, {0}, {1}, {1, 2}, {0, 1, 2}, {1, 255}}}

AllFirmwares == CpuidVariants \cup MadtVariants
=============================================================================
