------------------------- MODULE PlatformValidator -------------------------
(***************************************************************************)
(* tools/collect/windows and tools/validate_platform.py: the collector     *)
(* reads the running machine one source after the other into a JSON file   *)
(* and a copy of the MADT; the validator judges those files, in this boot  *)
(* or in a later one, when the BCD entry and the MADT may have changed.    *)
(***************************************************************************)
EXTENDS Naturals, FiniteSets

CONSTANTS
    Uids,       \* processor UIDs in a MADT
    Firmwares,  \* the machines: CPUID and MADT as the firmware gives them
    Wildcard    \* an NMI UID that stands for every processor

ASSUME ValidatorAssumption == Uids \subseteq Nat /\ Wildcard \notin Uids

VARIABLES
    fw,        \* the machine
    boot,      \* the running boot
    patched,   \* OpenCore ran before it, with its MADT patch
    element,   \* xsavedisable in the BCD entry of {current}
    step,      \* what the running collection reads next, "idle" if none runs
    ev,        \* what it has read
    json,      \* platform.json
    apic,      \* the saved MADT
    report,    \* what the validator has just printed
    jsonBoot   \* observation: the boot platform.json comes from

vars == <<fw, boot, patched, element, step, ev, json, apic, report, jsonBoot>>

(***************************************************************************)
(* A boot: its entry had xsavedisable=1; Windows has XSAVE; CPUID hides    *)
(* what needs XSAVE; and, observed, the entry was edited since.            *)
(* xsavedisable takes XSAVE away and hides it from CPUID; without it XSAVE *)
(* may still be missing, for another cause.                                *)
(***************************************************************************)
Boots == {b \in [bypass : BOOLEAN, xsave : BOOLEAN, masked : BOOLEAN, edited : BOOLEAN] :
             (b.bypass => ~ b.xsave /\ b.masked) /\ (b.masked => ~ b.xsave)}
ElementSet == {"absent", "0", "1"}
Xstate     == {5, 6, 7}   \* the XSAVE components of AVX-512

(***************************************************************************)
(* A MADT: the processors it lists, enabled or not, and the UIDs of its    *)
(* Local APIC NMI entries.  parse_madt keeps the enabled ones.             *)
(***************************************************************************)
Madts == [cpus : [Uids -> {"none", "disabled", "enabled"}], nmis : SUBSET (Nat \cup {Wildcard})]
ActiveCpus(m) == {u \in Uids : m.cpus[u] = "enabled"}

NoMadt == [cpus |-> [u \in Uids |-> "none"], nmis |-> {}]

\* A machine, which runs on a processor that its table enables.
Machines == [known : BOOLEAN, complete : BOOLEAN, avx512f : BOOLEAN, vp2 : BOOLEAN,
             xstate : SUBSET Nat, avx : BOOLEAN, avx2 : BOOLEAN, madt : Madts]

ASSUME FirmwaresAssumption ==
    Firmwares \subseteq Machines /\ \A f \in Firmwares : ActiveCpus(f.madt) # {}

\* features: what Windows says of XSAVE, AVX and AVX2 is there.
Evidence == [known : BOOLEAN, complete : BOOLEAN, avx512f : BOOLEAN, vp2 : BOOLEAN,
             xstate : SUBSET Nat, features : BOOLEAN, xsave : BOOLEAN, avx : BOOLEAN,
             avx2 : BOOLEAN, bcd : ElementSet \cup {"unavailable"}, madt : BOOLEAN]
Nothing == [known |-> FALSE, complete |-> FALSE, avx512f |-> FALSE, vp2 |-> FALSE, xstate |-> {},
            features |-> FALSE, xsave |-> FALSE, avx |-> FALSE, avx2 |-> FALSE,
            bcd |-> "unavailable", madt |-> FALSE]

-----------------------------------------------------------------------------
(***************************************************************************)
(* The validator: a pure function of the two files.                        *)
(***************************************************************************)
CpuidIssues(e) ==
    IF ~ e.complete THEN {"INCOMPLETE_CPUID"}
    ELSE (IF e.vp2 /\ ~ e.avx512f THEN {"ORPHAN_AVX512_VP2INTERSECT"} ELSE {})
         \cup (IF e.vp2 /\ Xstate \ e.xstate # {} THEN {"AVX512_XSTATE_UNAVAILABLE"} ELSE {})

MadtIssues(m) ==
    LET cpus     == ActiveCpus(m)
        concrete == m.nmis \ {Wildcard}
        wild     == Wildcard \in m.nmis
        missing  == IF wild THEN {} ELSE cpus \ concrete
    IN  (IF missing \cup (concrete \ cpus) # {} THEN {"MADT_NMI_UID_MISMATCH"} ELSE {})
        \cup (IF ~ wild /\ {u + 1 : u \in cpus} = concrete THEN {"NMI_UID_OFFSET_PLUS_ONE"}
                                                          ELSE {})

\* Mutants: of XsaveDisabled, it needs the BCD to agree; of BypassActive, the
\* BCD is enough; of XsaveMatch, the signature of the processor is not looked at.
XsaveDisabledByBcd(e) ==
    e.known /\ e.features /\ ~ e.xsave /\ ~ e.avx /\ ~ e.avx2 /\ e.bcd = "1"
BypassByBcd(e)        == e.known /\ e.bcd = "1"
MatchAnywhere(e) ==
    {"ORPHAN_AVX512_VP2INTERSECT", "AVX512_XSTATE_UNAVAILABLE"} \subseteq CpuidIssues(e)

XsaveDisabled(e) == e.known /\ e.features /\ ~ e.xsave /\ ~ e.avx /\ ~ e.avx2
BypassActive(e)  == XsaveDisabled(e) /\ e.bcd = "1"

XsaveMatch(e) ==
    e.known /\ {"ORPHAN_AVX512_VP2INTERSECT", "AVX512_XSTATE_UNAVAILABLE"} \subseteq CpuidIssues(e)

Classification(e) ==
    CASE ~ e.complete     -> "Unknown"
      [] e.complete /\ BypassActive(e) -> "Diagnostic bypass active"
      [] e.complete /\ ~ BypassActive(e) /\ XsaveDisabled(e) -> "Windows XSAVE/AVX unavailable"
      [] e.complete /\ ~ XsaveDisabled(e) /\ XsaveMatch(e) -> "Affected"
      [] e.complete /\ ~ XsaveDisabled(e) /\ ~ XsaveMatch(e) ->
            IF e.known THEN "Not affected" ELSE "Unknown"

\* Every issue the report lists, whatever its source.
Issues(e, m) ==
    CpuidIssues(e) \cup (IF e.madt THEN MadtIssues(m) ELSE {})
    \cup (IF XsaveDisabled(e) THEN {"WINDOWS_XSAVE_AVX_UNAVAILABLE"} ELSE {})

\* Mutant of ExitCode: what Windows reports is forgotten.
ExitCodeOfFirmware(e, m) ==
    IF ~ e.complete THEN 2
    ELSE IF CpuidIssues(e) \cup (IF e.madt THEN MadtIssues(m) ELSE {}) # {} THEN 1 ELSE 0

ExitCode(e, m) == IF ~ e.complete THEN 2 ELSE IF Issues(e, m) # {} THEN 1 ELSE 0

BuildReport(e, m) ==
    [class |-> Classification(e), issues |-> Issues(e, m), exit |-> ExitCode(e, m),
     madt |-> e.madt]

NoReport == [class |-> "none", issues |-> {}, exit |-> 3, madt |-> FALSE]

-----------------------------------------------------------------------------
(***************************************************************************)
(* What a boot shows.  A boot without XSAVE has no AVX; the patch of       *)
(* OpenCore makes the NMI entries of a table those of its processors where *)
(* it finds the run of entries, each one too high, that it was built from, *)
(* and leaves every other table alone.                                     *)
(***************************************************************************)
VisibleMadt(f, p) ==
    IF p /\ (\A u \in Uids : f.madt.cpus[u] # "none") /\ f.madt.nmis = {u + 1 : u \in Uids}
    THEN [f.madt EXCEPT !.nmis = Uids] ELSE f.madt

VisibleCpuid ==
    [Nothing EXCEPT !.known = fw.known, !.complete = fw.complete,
                    !.avx512f = fw.avx512f /\ ~ boot.masked, !.vp2 = fw.vp2 /\ ~ boot.masked,
                    !.xstate = IF boot.masked THEN {} ELSE fw.xstate]

\* The collector starts with CPUID.
CollectCpuid ==
    /\ step = "idle"
    /\ step' = "features"
    /\ ev' = VisibleCpuid
    /\ UNCHANGED <<fw, boot, patched, element, json, apic, jsonBoot>>
    /\ report' = NoReport

\* Mutant of CollectFeatures: the bits of CPUID are taken for what Windows has.
CollectFeaturesFromCpuid ==
    /\ step = "features"
    /\ step' = "bcd"
    /\ ev' = [ev EXCEPT !.features = TRUE, !.xsave = ~ boot.masked,
                        !.avx = fw.avx /\ ~ boot.masked, !.avx2 = fw.avx2 /\ ~ boot.masked]
    /\ UNCHANGED <<fw, boot, patched, element, json, apic, jsonBoot>>
    /\ report' = NoReport

CollectFeatures ==
    /\ step = "features"
    /\ step' = "bcd"
    /\ ev' = [ev EXCEPT !.features = TRUE, !.xsave = boot.xsave,
                        !.avx = fw.avx /\ boot.xsave, !.avx2 = fw.avx2 /\ boot.xsave]
    /\ UNCHANGED <<fw, boot, patched, element, json, apic, jsonBoot>>
    /\ report' = NoReport

\* bcdedit may be refused, or fail.
CollectBcd ==
    /\ step = "bcd"
    /\ step' = "madt"
    /\ \E seen \in {element, "unavailable"} : ev' = [ev EXCEPT !.bcd = seen]
    /\ UNCHANGED <<fw, boot, patched, element, json, apic, jsonBoot>>
    /\ report' = NoReport

\* --madt-output is optional; the table is saved before the JSON is.
CollectMadt ==
    /\ step = "madt"
    /\ step' = "write"
    /\ \/ UNCHANGED <<ev, apic>>
       \/ ev' = [ev EXCEPT !.madt = TRUE] /\ apic' = VisibleMadt(fw, patched)
    /\ UNCHANGED <<fw, boot, patched, element, json, jsonBoot>>
    /\ report' = NoReport

WriteJson ==
    /\ step = "write"
    /\ step' = "idle"
    /\ json' = ev /\ ev' = Nothing
    /\ jsonBoot' = boot
    /\ UNCHANGED <<fw, boot, patched, element, apic>>
    /\ report' = NoReport

\* A platform.json with the CPUID part only, as the affected and known-good
\* fixtures are, takes the place of the collector's.
HandWrite ==
    /\ json' = VisibleCpuid /\ jsonBoot' = boot
    /\ UNCHANGED <<fw, boot, patched, element, step, ev, apic>>
    /\ report' = NoReport

\* The MADT is the one platform.json names, or one given with --madt.
Validate ==
    /\ json # Nothing
    /\ \E madt \in {json.madt, apic # NoMadt} :
          report' = BuildReport([json EXCEPT !.madt = @ \/ madt], apic)
    /\ UNCHANGED <<fw, boot, patched, element, step, ev, json, apic, jsonBoot>>

-----------------------------------------------------------------------------
\* Someone changes xsavedisable in the running entry; it counts at the next boot.
EditBcd ==
    /\ element' \in ElementSet \ {element}
    /\ boot' = [boot EXCEPT !.edited = TRUE]
    /\ UNCHANGED <<fw, patched, step, ev, json, apic, jsonBoot>>
    /\ report' = NoReport

\* A reboot, through OpenCore or not, ends a collection; the files stay.
Reboot ==
    /\ boot' \in {b \in Boots : b.bypass = (element = "1") /\ ~ b.edited}
    /\ patched' \in BOOLEAN
    /\ step' = "idle" /\ ev' = Nothing
    /\ UNCHANGED <<fw, element, json, apic, jsonBoot>>
    /\ report' = NoReport

Init ==
    /\ fw \in Firmwares
    /\ boot \in {b \in Boots : ~ b.bypass /\ ~ b.edited}
    /\ patched \in BOOLEAN
    /\ element = "absent"
    /\ step = "idle" /\ ev = Nothing
    /\ json = Nothing /\ apic = NoMadt
    /\ report = NoReport
    /\ jsonBoot = boot

Next == \/ CollectCpuid \/ CollectFeatures \/ CollectBcd \/ CollectMadt \/ WriteJson
        \/ HandWrite \/ Validate \/ EditBcd \/ Reboot

Spec == Init /\ [][Next]_vars

-----------------------------------------------------------------------------
(***************************************************************************)
(* Properties.                                                             *)
(***************************************************************************)

\* Every variable has its type.
TypeOK ==
    /\ fw \in Firmwares
    /\ boot \in Boots /\ jsonBoot \in Boots /\ patched \in BOOLEAN
    /\ element \in ElementSet
    /\ step \in {"idle", "features", "bcd", "madt", "write"}
    /\ ev \in Evidence /\ json \in Evidence
    /\ apic \in Madts

(***************************************************************************)
(* What e says of CPUID, and of Windows, is what boot b shows; a table that*)
(* e names exists; the report on the screen is that of the files on disk.  *)
(***************************************************************************)
ShowsCpuid(e, b) ==
    /\ e.known = fw.known /\ e.complete = fw.complete
    /\ e.avx512f = (fw.avx512f /\ ~ b.masked)
    /\ e.vp2 = (fw.vp2 /\ ~ b.masked)
    /\ e.xstate = IF b.masked THEN {} ELSE fw.xstate
ShowsWindows(e, b) ==
    e.features => e.xsave = b.xsave /\ e.avx = (fw.avx /\ b.xsave) /\ e.avx2 = (fw.avx2 /\ b.xsave)
ShowsBcd(e, b) == e.bcd = "1" => b.bypass \/ b.edited
HasTable(e) == e.madt => apic # NoMadt

EvInv ==
    /\ IF step = "idle" THEN ev = Nothing ELSE ShowsCpuid(ev, boot)
    /\ step \in {"bcd", "madt", "write"} => ev.features
    /\ ShowsWindows(ev, boot) /\ ShowsBcd(ev, boot) /\ HasTable(ev)
    /\ boot.bypass = (element = "1") \/ boot.edited
JsonInv ==
    /\ json # Nothing => ShowsCpuid(json, jsonBoot)
    /\ ShowsWindows(json, jsonBoot) /\ ShowsBcd(json, jsonBoot) /\ HasTable(json)
ApicInv == apic # NoMadt => \E p \in BOOLEAN : apic = VisibleMadt(fw, p)
ReportInv ==
    report # NoReport =>
        /\ json # Nothing
        /\ \E given \in BOOLEAN :
              /\ given => apic # NoMadt
              /\ report = BuildReport([json EXCEPT !.madt = given], apic)

\* Every variable has its type, the evidence is that of one boot, and the
\* report that of the evidence: the invariant the other properties follow from.
IInv == TypeOK /\ EvInv /\ JsonInv /\ ApicInv /\ ReportInv

\* A bypass is called active only if the boot the evidence comes from ran with
\* it, unless that boot had lost XSAVE for another cause and someone edited its
\* entry before the collection read it: a pending xsavedisable=1 is then taken
\* for the cause, and by nothing else that happens between boot and report.
ActiveBypassIsReal ==
    report # NoReport /\ report.class = "Diagnostic bypass active" =>
        jsonBoot.bypass \/ (~ jsonBoot.xsave /\ jsonBoot.edited)

\* Evidence of the known processor that the collector took under the bypass,
\* where CPUID looks healthy, never passes for that of a healthy or of an
\* affected machine.  Of another processor, or without the Windows sections,
\* the validator cannot tell: it may then exit with 0.
BypassNeverClean ==
    report # NoReport /\ jsonBoot.bypass /\ fw.known /\ json.features =>
        report.exit # 0 /\ report.class \notin {"Affected", "Not affected"}

\* "Affected" is said of the firmware's own CPUID.
AffectedIsReal ==
    report # NoReport /\ report.class = "Affected" =>
        fw.known /\ fw.vp2 /\ ~ fw.avx512f /\ Xstate \ fw.xstate # {} /\ ~ jsonBoot.bypass

\* Every processor the table enables gets an NMI entry, and every entry a processor.
NmiConsistent(m) ==
    /\ Wildcard \in m.nmis \/ \A u \in Uids : m.cpus[u] = "enabled" => u \in m.nmis
    /\ \A u \in m.nmis : u = Wildcard \/ (u \in Uids /\ m.cpus[u] = "enabled")

\* The exit code is 0 exactly for complete evidence in which CPUID shows no
\* orphan, the NMI entries fit the processors, and Windows has not lost XSAVE.
ExitCodeExact ==
    report # NoReport => (report.exit = 0 <=>
        /\ json.complete
        /\ json.vp2 => json.avx512f /\ Xstate \subseteq json.xstate
        /\ report.madt => NmiConsistent(apic)
        /\ json.known /\ json.features => json.xsave \/ json.avx \/ json.avx2)
=============================================================================
