------------------------ MODULE BootEvidenceProofs ------------------------
(***************************************************************************)
(* The evidence of capture_hv06_evidence.ps1 holds for any number of boots: *)
(* IInv is inductive and implies EvidenceHolds.                            *)
(***************************************************************************)
EXTENDS BootEvidence, TLAPS

USE DEF Rank, Steps, Names

\* A machine that was just switched on satisfies the invariant.
LEMMA InitInv == Init => IInv
<1> SUFFICES ASSUME Init PROVE IInv
  OBVIOUS
<1>1. PICK e \in Entries, avx3 \in BOOLEAN :
        /\ Boots(e, avx3) /\ entry = e
        /\ boot = [id |-> 1, hv |-> e.launch = "auto", mbecOff |-> e.mbecOff,
                   xsaveOff |-> e.xsaveOff, avx3 |-> avx3]
  BY DEF Init
<1>2. boot \in Booted /\ (boot.hv => boot.mbecOff \/ boot.xsaveOff \/ boot.avx3)
      /\ entry.mbecOff = boot.mbecOff
  BY <1>1, MaxBootsAssumption DEF Booted, Entries, Boots
<1>3. pc = "idle" /\ probe = NoResults /\ refused = FALSE /\ files = NoHashes /\ manifest = None
      /\ edited = {}
  BY DEF Init
<1>4. TypeInv
  BY <1>1, <1>2, <1>3 DEF TypeInv, NoResults, Results, InstructionSets, NoHashes
<1>5. \A step \in DOMAIN Rank : ~ Done(step)
  BY <1>3 DEF Done
<1> QED
  BY <1>2, <1>3, <1>4, <1>5 DEF IInv, CheckedInv, WrittenInv, ManifestInv, Done

\* A run that has everything behind it has written sound files.
LEMMA FinishedIsSound == IInv /\ pc = "manifest" => Sound(files, edited)
<1> SUFFICES ASSUME IInv, pc = "manifest" PROVE Sound(files, edited)
  OBVIOUS
<1>1. PICK e \in Entries : IsHv06(e) /\ files["bcd"] = Says(e)
  BY DEF IInv, WrittenInv, Done
<1>2. /\ boot.hv /\ (boot.mbecOff \/ boot.xsaveOff \/ boot.avx3)
      /\ boot.mbecOff \/ boot.id \in edited
      /\ probe \in RunProbes(boot)
      /\ probe["avx"] = "PASS" /\ probe["avx2"] = "PASS"
      /\ boot \in Booted /\ probe \in Results /\ files = [f \in Names |-> files[f]]
  BY DEF IInv, TypeInv, CheckedInv, Done
<1>3. Hv06Boot(boot, edited)
  BY <1>2 DEF Hv06Boot, RunProbes, Enabled, InstructionSets
<1>4. /\ files["probe"] = Says(probe) /\ files["wsl"] = Says("Linux")
      /\ files["cpuid"] = Says(boot) /\ files["rich"] = Says(boot)
      /\ files["runtime"] = Says(Summary(boot)) /\ files["metadata"] = Says(Summary(boot))
  BY DEF IInv, WrittenInv, Done
<1> DEFINE run == [bcd |-> Says(e), probe |-> Says(probe), wsl |-> Says("Linux"), cpuid |-> Says(boot),
                   rich |-> Says(boot), runtime |-> Says(Summary(boot)), metadata |-> Says(Summary(boot))]
<1>5. files = run
  <2>1. run = [f \in Names |-> run[f]]
    OBVIOUS
  <2>2. \A f \in Names : files[f] = run[f]
    BY <1>1, <1>4
  <2> HIDE DEF run
  <2>3. [f \in Names |-> files[f]] = [f \in Names |-> run[f]]
    BY <2>2, Zenon
  <2>4. files = [f \in Names |-> files[f]]
    BY <1>2
  <2> QED
    BY <2>1, <2>3, <2>4, Zenon
<1> QED
  BY <1>1, <1>2, <1>3, <1>5 DEF Sound

\* Every step keeps the invariant, the script's one by one.
LEMMA StepInv == IInv /\ [Next]_vars => IInv'
<1> SUFFICES ASSUME IInv, [Next]_vars PROVE IInv'
  OBVIOUS
<1>t. TypeInv /\ CheckedInv /\ WrittenInv /\ ManifestInv
  BY DEF IInv
<1>f. files = [f \in Names |-> files[f]]
  BY <1>t DEF TypeInv
<1>1. CASE Start
  <2>1. /\ pc' = "bcd" /\ refused' = FALSE /\ probe' = NoResults
        /\ UNCHANGED <<entry, boot, edited, files, manifest>>
    BY <1>1 DEF Start
  <2>2. TypeInv'
    BY <2>1, <1>t DEF TypeInv, NoResults, Results, InstructionSets
  <2>3. CheckedInv' /\ WrittenInv'
    BY <2>1, <1>t DEF CheckedInv, WrittenInv, Done
  <2> QED
    BY <2>1, <2>2, <2>3, <1>t DEF IInv, ManifestInv
<1>2. CASE ReadBcd
  <2>1. pc = "bcd" /\ UNCHANGED <<entry, boot, edited, probe, manifest>>
    BY <1>2 DEF ReadBcd
  <2>2. CASE IsHv06(entry) /\ files' = [files EXCEPT !["bcd"] = Says(entry)]
             /\ pc' = "hypervisor" /\ refused' = refused
    <3>1. boot.mbecOff \/ boot.id \in edited
      BY <2>2, <1>t DEF CheckedInv, IsHv06
    <3>2. TypeInv'
      BY <2>1, <2>2, <1>t DEF TypeInv
    <3>3. CheckedInv'
      BY <2>1, <2>2, <3>1, <1>t DEF CheckedInv, Done
    <3>4. WrittenInv'
      BY <2>1, <2>2, <1>t DEF TypeInv, WrittenInv, Done
    <3> QED
      BY <2>1, <3>2, <3>3, <3>4, <1>t DEF IInv, ManifestInv
  <2>3. CASE files' \in {files, [files EXCEPT !["bcd"] = Torn]} /\ pc' = "idle" /\ refused' = refused
    <3>1. TypeInv'
      BY <2>1, <2>3, <1>t DEF TypeInv
    <3>2. CheckedInv' /\ WrittenInv'
      BY <2>1, <2>3, <1>t DEF CheckedInv, WrittenInv, Done
    <3> QED
      BY <2>1, <3>1, <3>2, <1>t DEF IInv, ManifestInv
  <2> QED
    BY <1>2, <2>2, <2>3 DEF ReadBcd, Write, Throw, GoOn, After
<1>3. CASE CheckHypervisor
  BY <1>3, <1>t DEF CheckHypervisor, Throw, GoOn, After, IInv, TypeInv, CheckedInv, WrittenInv,
     ManifestInv, Done
<1>4. CASE RunProbe
  BY <1>4, <1>t DEF RunProbe, RunProbes, GoOn, After, IInv, TypeInv, CheckedInv, WrittenInv,
     ManifestInv, Done
<1>5. CASE CheckProbe
  <2>1. pc = "probe" /\ UNCHANGED <<entry, boot, edited, probe, manifest>>
    BY <1>5 DEF CheckProbe
  <2>2. CASE /\ probe["avx"] = "PASS" /\ probe["avx2"] = "PASS"
             /\ files' = [files EXCEPT !["probe"] = Says(probe)] /\ pc' = "wsl" /\ refused' = refused
    <3>1. TypeInv'
      BY <2>1, <2>2, <1>t DEF TypeInv
    <3>2. CheckedInv'
      BY <2>1, <2>2, <1>t DEF CheckedInv, Done
    <3>3. WrittenInv'
      BY <2>1, <2>2, <1>t DEF TypeInv, WrittenInv, Done
    <3> QED
      BY <2>1, <3>1, <3>2, <3>3, <1>t DEF IInv, ManifestInv
  <2>3. CASE files' \in {files, [files EXCEPT !["probe"] = Torn]} /\ pc' = "idle" /\ refused' \in BOOLEAN
    <3>1. TypeInv'
      BY <2>1, <2>3, <1>t DEF TypeInv
    <3>2. CheckedInv' /\ WrittenInv'
      BY <2>1, <2>3, <1>t DEF CheckedInv, WrittenInv, Done
    <3> QED
      BY <2>1, <3>1, <3>2, <1>t DEF IInv, ManifestInv
  <2> QED
    BY <1>5, <1>t, <2>2, <2>3 DEF CheckProbe, Write, Throw, GoOn, After, TypeInv
<1>6. CASE Wsl
  BY <1>6, <1>t DEF Wsl, Write, Throw, GoOn, After, IInv, TypeInv, CheckedInv, WrittenInv,
     ManifestInv, Done
<1>7. ASSUME NEW f \in {"cpuid", "rich"}, Collect(f) PROVE IInv'
  BY <1>7, <1>t DEF Collect, Throw, GoOn, After, IInv, TypeInv, CheckedInv, WrittenInv,
     ManifestInv, Done
<1>8. ASSUME NEW f \in {"runtime", "metadata"}, Summarize(f) PROVE IInv'
  BY <1>8, <1>t DEF Summarize, Summary, Write, Throw, GoOn, After, IInv, TypeInv, CheckedInv, WrittenInv,
     ManifestInv, Done
<1>9. CASE WriteManifest
  BY <1>9, <1>t, FinishedIsSound DEF WriteManifest, Throw, GoOn, After, IInv, TypeInv, CheckedInv,
     WrittenInv, ManifestInv, Done, Says
<1>10. CASE EditBcd
  <2>1. /\ entry' \in Entries /\ edited' = edited \cup {boot.id}
        /\ UNCHANGED <<boot, pc, probe, refused, files, manifest>>
    BY <1>10 DEF EditBcd
  <2>2. TypeInv' /\ CheckedInv' /\ WrittenInv'
    BY <2>1, <1>t DEF TypeInv, CheckedInv, WrittenInv, Done, Booted
  <2>3. ASSUME NEW fs, Sound(fs, edited) PROVE Sound(fs, edited')
    BY <2>1, <2>3 DEF Sound, Hv06Boot
  <2>4. ManifestInv'
    <3>1. CASE manifest \in {None, Torn}
      BY <3>1, <2>1 DEF ManifestInv
    <3>2. CASE Sound(manifest.content, edited) /\ manifest = Says(manifest.content)
      BY <3>2, <2>1, <2>3 DEF ManifestInv
    <3> QED
      BY <3>1, <3>2, <1>t DEF ManifestInv
  <2> QED
    BY <2>2, <2>4 DEF IInv
<1>11. CASE Reboot
  <2>1. PICK e \in Entries, avx3 \in BOOLEAN :
          /\ Boots(e, avx3) /\ entry' = e
          /\ boot' = [id |-> boot.id + 1, hv |-> e.launch = "auto", mbecOff |-> e.mbecOff,
                      xsaveOff |-> e.xsaveOff, avx3 |-> avx3]
    BY <1>11 DEF Reboot
  <2>2. boot' \in Booted /\ (boot'.hv => boot'.mbecOff \/ boot'.xsaveOff \/ boot'.avx3)
        /\ entry'.mbecOff = boot'.mbecOff
        /\ edited' = edited /\ edited' \subseteq 1 .. boot'.id
    BY <2>1, <1>11, <1>t, MaxBootsAssumption DEF Reboot, TypeInv, Booted, Entries, Boots
  <2>3. pc' = "idle" /\ probe' \in Results /\ refused' = FALSE
    BY <1>11 DEF Reboot, NoResults, Results, InstructionSets
  <2>4. files' = [f \in Names |-> files'[f]]
    BY <1>11, <1>f DEF Reboot
  <2>5. ManifestInv'
    BY <1>11, <1>t DEF Reboot, ManifestInv
  <2> QED
    <3>1. TypeInv'
      BY <2>1, <2>2, <2>3, <2>4 DEF TypeInv
    <3>2. CheckedInv' /\ WrittenInv'
      BY <2>2, <2>3 DEF CheckedInv, WrittenInv, Done
    <3> QED
      BY <2>5, <3>1, <3>2 DEF IInv
<1>12. CASE UNCHANGED vars
  BY <1>12, <1>t DEF vars, IInv, TypeInv, CheckedInv, WrittenInv, ManifestInv, Done
<1> QED
  BY <1>1, <1>2, <1>3, <1>4, <1>5, <1>6, <1>7, <1>8, <1>9, <1>10, <1>11, <1>12 DEF Next

\* The invariant holds in every behaviour, with any bound on the boots.
THEOREM InvariantHolds == Spec => []IInv
  BY InitInv, StepInv, PTL DEF Spec

\* Files that match their manifest come from one boot, which ran Hyper-V with AVX
\* executing, and under DISABLEHARDWAREMBEC unless AVX-512 was enabled and the entry
\* edited since.
THEOREM EvidenceIsSound == Spec => []EvidenceHolds
<1>1. IInv => EvidenceHolds
  <2> SUFFICES ASSUME IInv, manifest = Says(files)
               PROVE LET b == files["metadata"].content.of
                     IN  /\ Hv06Boot(b, edited)
                         /\ files["cpuid"] = Says(b) /\ files["rich"] = Says(b)
                         /\ files["runtime"].content.of = b
                         /\ \A i \in {"avx", "avx2"} : files["probe"].content[i] = "PASS" /\ Enabled(b, i)
    BY DEF EvidenceHolds
  <2>1. Sound(files, edited)
    BY DEF IInv, ManifestInv, Says, None, Torn
  <2> QED
    BY <2>1 DEF Sound, Says, Summary, RunProbes, InstructionSets
<1> QED
  BY <1>1, InvariantHolds, PTL
=============================================================================
