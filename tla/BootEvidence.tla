---------------------------- MODULE BootEvidence ----------------------------
(***************************************************************************)
(* capture_hv06_evidence.ps1: on a machine that is running the MBEC        *)
(* workaround it reads the BCD entry, executes AVX code through            *)
(* probe_avx_execution.py, asks WSL and the two CPUID collectors, and signs *)
(* the files with a manifest of their hashes.  It checks one thing after   *)
(* the other, any of them may throw, and nothing is undone.  Meanwhile an   *)
(* operator may edit the entry, which counts at the next boot.              *)
(***************************************************************************)
EXTENDS Integers

CONSTANT MaxBoots   \* bound: the boots a behaviour sees
ASSUME MaxBootsAssumption == MaxBoots \in Nat \ {0}

VARIABLES
    entry,    \* the BCD entry {current}, as it stands in the store
    boot,     \* the running boot: its number and the settings it started with
    edited,   \* the boots during which somebody edited the entry
    pc,       \* the step the script is at
    probe,    \* what probe_avx_execution.py printed
    refused,  \* the last script threw "Probe AVX/AVX2 falhou"
    files,    \* the evidence files
    manifest  \* sha256-manifest.json: the files it has the hashes of

vars == <<entry, boot, edited, pc, probe, refused, files, manifest>>

\* label: the description and vsmlaunchtype are those of HV 06, or others.
Entries == [label : {"hv06", "other"}, launch : {"auto", "off"},
            mbecOff : BOOLEAN, xsaveOff : BOOLEAN]

\* avx3: AVX-512 is enabled in the firmware setup.
Booted == [id : 1 .. MaxBoots, hv : BOOLEAN, mbecOff : BOOLEAN, xsaveOff : BOOLEAN, avx3 : BOOLEAN]

\* Hyper-V with MBEC and XSAVE on does not get to a desktop on this machine;
\* whether it does with AVX-512 enabled was not tested (docs/vmx-msr.md:97).
Boots(e, avx3) == e.launch = "auto" => e.mbecOff \/ e.xsaveOff \/ avx3

InstructionSets == {"avx", "avx2", "avx512f"}
Results         == [InstructionSets -> {"PASS", "FAIL"}]
NoResults       == [i \in InstructionSets |-> "FAIL"]

Names    == {"bcd", "probe", "wsl", "cpuid", "rich", "runtime", "metadata"}
Steps    == Names \cup {"idle", "hypervisor", "run", "manifest"}
None     == [state |-> "none"]
Torn     == [state |-> "torn"]
Says(c)  == [state |-> "whole", content |-> c]
NoHashes == [f \in Names |-> None]

-----------------------------------------------------------------------------
(***************************************************************************)
(* probe_avx_execution.py                                                  *)
(***************************************************************************)

\* A child that executes an instruction the processor or the kernel does not
\* enable dies; one may also fail for another reason.
Enabled(b, i) == ~ b.xsaveOff /\ (i = "avx512f" => b.avx3)
RunProbes(b)  == {r \in Results : \A i \in InstructionSets : r[i] = "PASS" => Enabled(b, i)}
ExitCode(r)   == IF \A i \in InstructionSets : r[i] = "PASS" THEN 0 ELSE 1

-----------------------------------------------------------------------------
(***************************************************************************)
(* capture_hv06_evidence.ps1                                               *)
(***************************************************************************)

After == [bcd |-> "hypervisor", hypervisor |-> "run", run |-> "probe", probe |-> "wsl",
          wsl |-> "cpuid", cpuid |-> "rich", rich |-> "runtime", runtime |-> "metadata",
          metadata |-> "manifest", manifest |-> "idle"]

Throw == pc' = "idle" /\ UNCHANGED refused
GoOn  == pc' = After[pc] /\ UNCHANGED refused

\* Set-Content: the file is written, or an error stops the script.
Write(f, content) ==
    \/ files' = [files EXCEPT ![f] = Says(content)] /\ GoOn
    \/ files' \in {files, [files EXCEPT ![f] = Torn]} /\ Throw

Start ==
    /\ pc = "idle" /\ pc' = "bcd" /\ refused' = FALSE /\ probe' = NoResults
    /\ UNCHANGED <<entry, boot, edited, files, manifest>>

IsHv06(e) == e.label = "hv06" /\ e.launch = "auto" /\ e.mbecOff /\ ~ e.xsaveOff

ReadBcd ==
    /\ pc = "bcd"
    /\ IF IsHv06(entry) THEN Write("bcd", entry)
       ELSE Throw /\ UNCHANGED files
    /\ UNCHANGED <<entry, boot, edited, probe, manifest>>

\* Mutant of CheckHypervisor: HypervisorPresent is recorded but not looked at.
CheckHypervisorNot ==
    /\ pc = "hypervisor" /\ GoOn
    /\ UNCHANGED <<entry, boot, edited, probe, files, manifest>>

CheckHypervisor ==
    /\ pc = "hypervisor"
    /\ IF boot.hv THEN GoOn ELSE Throw
    /\ UNCHANGED <<entry, boot, edited, probe, files, manifest>>

RunProbe ==
    /\ pc = "run" /\ probe' \in RunProbes(boot) /\ GoOn
    /\ UNCHANGED <<entry, boot, edited, files, manifest>>

CheckProbe ==
    /\ pc = "probe"
    /\ IF ExitCode(probe) # 0 \/ probe["avx"] # "PASS" \/ probe["avx2"] # "PASS"
       THEN pc' = "idle" /\ refused' = TRUE /\ UNCHANGED files
       ELSE Write("probe", probe)
    /\ UNCHANGED <<entry, boot, edited, probe, manifest>>

Wsl ==
    /\ pc = "wsl"
    /\ \/ Write("wsl", "Linux")
       \/ Throw /\ UNCHANGED files
    /\ UNCHANGED <<entry, boot, edited, probe, manifest>>

\* Mutant of Collect: the exit code of a collector is not looked at.
CollectAnyway(f) ==
    /\ pc = f
    /\ files' \in {files, [files EXCEPT ![f] = Torn], [files EXCEPT ![f] = Says(boot)]} /\ GoOn
    /\ UNCHANGED <<entry, boot, edited, probe, manifest>>

\* A CPUID collector writes its file, or fails before, while or after it does.
Collect(f) ==
    /\ pc = f
    /\ \/ files' = [files EXCEPT ![f] = Says(boot)] /\ GoOn
       \/ /\ files' \in {files, [files EXCEPT ![f] = Torn], [files EXCEPT ![f] = Says(boot)]}
          /\ Throw
    /\ UNCHANGED <<entry, boot, edited, probe, manifest>>

\* The summaries: LastBootUpTime, and the statuses the probe gave.
Summarize(f) ==
    /\ pc = f
    /\ Write(f, [of |-> boot, avx |-> probe["avx"], avx2 |-> probe["avx2"]])
    /\ UNCHANGED <<entry, boot, edited, probe, manifest>>

\* The hashes of the files as they are now.
WriteManifest ==
    /\ pc = "manifest"
    /\ \/ manifest' = Says(files) /\ GoOn
       \/ manifest' \in {manifest, Torn} /\ Throw
    /\ UNCHANGED <<entry, boot, edited, probe, files>>

\* bcdedit in another window.
EditBcd ==
    /\ entry' \in Entries /\ edited' = edited \cup {boot.id}
    /\ UNCHANGED <<boot, pc, probe, refused, files, manifest>>

\* A boot of this or another entry of the menu, after a visit to the firmware
\* setup or not.  It ends the script, perhaps in the middle of a write.
Reboot ==
    /\ boot.id < MaxBoots
    /\ \E e \in Entries, avx3 \in BOOLEAN :
          /\ Boots(e, avx3) /\ entry' = e
          /\ boot' = [id |-> boot.id + 1, hv |-> e.launch = "auto", mbecOff |-> e.mbecOff,
                      xsaveOff |-> e.xsaveOff, avx3 |-> avx3]
    /\ pc' = "idle" /\ refused' = FALSE /\ probe' = NoResults
    /\ files' \in {files} \cup {[files EXCEPT ![f] = Torn] : f \in Names \cap {pc}}
    /\ manifest' \in {manifest} \cup (IF pc = "manifest" THEN {Torn} ELSE {})
    /\ UNCHANGED edited

Init ==
    /\ \E e \in Entries, avx3 \in BOOLEAN :
          /\ Boots(e, avx3) /\ entry = e
          /\ boot = [id |-> 1, hv |-> e.launch = "auto", mbecOff |-> e.mbecOff,
                     xsaveOff |-> e.xsaveOff, avx3 |-> avx3]
    /\ pc = "idle" /\ probe = NoResults /\ refused = FALSE
    /\ files = NoHashes /\ manifest = None /\ edited = {}

Next == \/ Start \/ ReadBcd \/ CheckHypervisor \/ RunProbe \/ CheckProbe \/ Wsl
        \/ \E f \in {"cpuid", "rich"} : Collect(f)
        \/ \E f \in {"runtime", "metadata"} : Summarize(f)
        \/ WriteManifest \/ EditBcd \/ Reboot

Spec == Init /\ [][Next]_vars
-----------------------------------------------------------------------------
(***************************************************************************)
(* Properties.                                                             *)
(***************************************************************************)

Rank == [idle |-> 0, bcd |-> 1, hypervisor |-> 2, run |-> 3, probe |-> 4, wsl |-> 5,
         cpuid |-> 6, rich |-> 7, runtime |-> 8, metadata |-> 9, manifest |-> 10]

\* The step of the script that runs is behind it.
Done(step) == Rank[pc] > Rank[step]

\* A boot of HV 06; or one that somebody dressed up as it, for the script reads the
\* BCD of the next boot: Hyper-V booted with MBEC on, thanks to AVX-512, and the
\* entry was edited since.
Hv06Boot(b, ed) == b.hv /\ ~ b.xsaveOff /\ (b.mbecOff \/ (b.avx3 /\ b.id \in ed))

\* The files a run leaves when it gets through in boot b.
Summary(b)  == [of |-> b, avx |-> "PASS", avx2 |-> "PASS"]
Sound(fs, ed) ==
    \E b \in Booted, e \in Entries, r \in Results :
        /\ Hv06Boot(b, ed) /\ IsHv06(e) /\ r \in RunProbes(b) /\ r["avx"] = "PASS" /\ r["avx2"] = "PASS"
        /\ fs = [bcd |-> Says(e), probe |-> Says(r), wsl |-> Says("Linux"), cpuid |-> Says(b),
                 rich |-> Says(b), runtime |-> Says(Summary(b)), metadata |-> Says(Summary(b))]

TypeInv ==
    /\ entry \in Entries /\ boot \in Booted /\ pc \in Steps /\ probe \in Results
    /\ refused \in BOOLEAN
    /\ files = [f \in Names |-> files[f]] /\ edited \subseteq 1 .. boot.id

\* The inductive invariant.  A step that was reached has the earlier ones behind
\* it in this very boot, which is one that works; and a manifest was made of the
\* files of one run.
CheckedInv ==
    /\ boot.hv => boot.mbecOff \/ boot.xsaveOff \/ boot.avx3
    /\ boot.id \notin edited => entry.mbecOff = boot.mbecOff
    /\ Done("bcd") => boot.mbecOff \/ boot.id \in edited
    /\ Done("hypervisor") => boot.hv
    /\ Done("run") => probe \in RunProbes(boot)
    /\ Done("probe") => probe["avx"] = "PASS" /\ probe["avx2"] = "PASS"
WrittenInv ==
    /\ Done("bcd") => \E e \in Entries : IsHv06(e) /\ files["bcd"] = Says(e)
    /\ Done("probe") => files["probe"] = Says(probe)
    /\ Done("wsl") => files["wsl"] = Says("Linux")
    /\ \A f \in {"cpuid", "rich"} : Done(f) => files[f] = Says(boot)
    /\ \A f \in {"runtime", "metadata"} : Done(f) => files[f] = Says(Summary(boot))
ManifestInv ==
    manifest \in {None, Torn} \/ (Sound(manifest.content, edited) /\ manifest = Says(manifest.content))
IInv == TypeInv /\ CheckedInv /\ WrittenInv /\ ManifestInv

\* Files that match their manifest are evidence, whatever runs were cut short: they
\* are of one boot, Hyper-V ran in it and AVX executed.  DISABLEHARDWAREMBEC was in
\* force unless AVX-512 was enabled and the entry edited while that boot ran; then
\* the files do not tell.
EvidenceHolds ==
    manifest = Says(files) =>
        LET b == files["metadata"].content.of
        IN  /\ Hv06Boot(b, edited)
            /\ files["cpuid"] = Says(b) /\ files["rich"] = Says(b)
            /\ files["runtime"].content.of = b
            /\ \A i \in {"avx", "avx2"} : files["probe"].content[i] = "PASS" /\ Enabled(b, i)

\* "Probe AVX/AVX2 falhou" (capture_hv06_evidence.ps1:47) means that AVX or AVX2
\* did not execute, which is all that docs/workaround.md and :50-51 ask for.
ProbeErrorMeansAvx ==
    refused => probe["avx"] # "PASS" \/ probe["avx2"] # "PASS"
=============================================================================
