---------------------- MODULE PlatformValidatorProofs ----------------------
(***************************************************************************)
(* For any machines and any set of UIDs: the evidence in platform.json is  *)
(* that of one boot, and what the validator says of it is true of the      *)
(* machine.                                                                *)
(***************************************************************************)
EXTENDS PlatformValidator, WellFoundedInduction, TLAPS

(***************************************************************************)
(* Tables.                                                                 *)
(***************************************************************************)

\* OpenCore changes the NMI entries only: a table that a boot shows is a table,
\* lists an enabled processor, and so is not the absent one.
LEMMA VisibleTable ==
    ASSUME NEW f \in Firmwares, NEW p \in BOOLEAN
    PROVE  /\ VisibleMadt(f, p) \in Madts
           /\ ActiveCpus(VisibleMadt(f, p)) # {}
           /\ VisibleMadt(f, p) # NoMadt
<1> DEFINE t == VisibleMadt(f, p)
<1>1. f.madt \in Madts /\ ActiveCpus(f.madt) # {}
  BY FirmwaresAssumption DEF Machines
<1>2. t.cpus = f.madt.cpus /\ t \in Madts
  BY <1>1, ValidatorAssumption DEF VisibleMadt, Madts
<1>3. ActiveCpus(t) # {}
  BY <1>1, <1>2 DEF ActiveCpus
<1>4. ActiveCpus(NoMadt) = {}
  BY DEF ActiveCpus, NoMadt
<1> QED
  BY <1>2, <1>3, <1>4

\* UIDs that are all raised by one are other UIDs: the least is missing.
LEMMA ShiftDiffers ==
    ASSUME NEW S \in SUBSET Nat, S # {}
    PROVE  {u + 1 : u \in S} # S
<1>1. \E x \in S : \A y \in S : ~ (<<y, x>> \in OpToRel(<, Nat))
  BY NatLessThanWellFounded, WFMin, Zenon
<1>2. PICK x \in S : \A y \in S : ~ (y < x)
  BY <1>1 DEF OpToRel
<1>3. ~ \E u \in S : u + 1 = x
  BY <1>2
<1> QED
  BY <1>2, <1>3

\* The validator finds no fault with a table exactly when the NMI entries are
\* consistent; that the shift by one has an issue of its own changes nothing.
LEMMA MadtJudged ==
    ASSUME NEW m \in Madts, ActiveCpus(m) # {}
    PROVE  MadtIssues(m) = {} <=> NmiConsistent(m)
<1> DEFINE cpus == ActiveCpus(m)
           concrete == m.nmis \ {Wildcard}
           wild == Wildcard \in m.nmis
           missing == IF wild THEN {} ELSE cpus \ concrete
           mismatch == missing \cup (concrete \ cpus) # {}
           shifted == ~ wild /\ {u + 1 : u \in cpus} = concrete
<1>1. {u + 1 : u \in cpus} # cpus
  BY ShiftDiffers, ValidatorAssumption DEF ActiveCpus
<1>2. shifted => mismatch
  BY <1>1
<1>3. MadtIssues(m) = {} <=> ~ mismatch /\ ~ shifted
  BY DEF MadtIssues
<1>4. ~ mismatch <=> NmiConsistent(m)
  BY ValidatorAssumption DEF ActiveCpus, NmiConsistent
<1> QED
  BY <1>2, <1>3, <1>4

(***************************************************************************)
(* The invariant.                                                          *)
(***************************************************************************)

\* Nothing has been collected when the machine is first switched on.
LEMMA InitInv == Init => IInv
<1> SUFFICES ASSUME Init PROVE IInv
  OBVIOUS
<1>1. TypeOK
  BY DEF Init, TypeOK, ElementSet, Evidence, Nothing, Madts, NoMadt
<1>2. Nothing.madt = FALSE /\ Nothing.features = FALSE /\ Nothing.bcd # "1"
  BY DEF Nothing
<1>3. boot.bypass = (element = "1")
  BY DEF Init, Boots
<1> QED
  BY <1>1, <1>2, <1>3 DEF Init, IInv, EvInv, JsonInv, ApicInv, ReportInv, HasTable,
                          ShowsWindows, ShowsBcd

\* What CPUID shows is evidence, without the Windows sections and a table.
LEMMA CpuidShown ==
    ASSUME TypeOK
    PROVE  /\ VisibleCpuid \in Evidence /\ ShowsCpuid(VisibleCpuid, boot)
           /\ ~ VisibleCpuid.features /\ VisibleCpuid.bcd = "unavailable"
           /\ ~ VisibleCpuid.madt
<1>1. fw \in Machines /\ boot.masked \in BOOLEAN
  BY FirmwaresAssumption DEF TypeOK, Boots
<1> DEFINE a == fw.avx512f /\ ~ boot.masked
           v == fw.vp2 /\ ~ boot.masked
           x == IF boot.masked THEN {} ELSE fw.xstate
<1>2. VisibleCpuid \in Evidence
  <2>1. a \in BOOLEAN /\ v \in BOOLEAN /\ x \in SUBSET Nat
        /\ fw.known \in BOOLEAN /\ fw.complete \in BOOLEAN
    BY <1>1 DEF Machines
  <2>2. VisibleCpuid = [Nothing EXCEPT !.known = fw.known, !.complete = fw.complete,
                                       !.avx512f = a, !.vp2 = v, !.xstate = x]
    BY DEF VisibleCpuid
  <2> HIDE DEF a, v, x
  <2> QED
    BY <2>1, <2>2 DEF Evidence, Nothing
<1> QED
  BY <1>1, <1>2 DEF VisibleCpuid, Nothing, ShowsCpuid

\* A step that prints nothing leaves nothing printed to be wrong.
LEMMA NothingPrinted == report' = NoReport => ReportInv'
  BY DEF ReportInv

\* Nothing that a step which writes no file does makes a file wrong.
LEMMA FilesStay ==
    ASSUME JsonInv, ApicInv, UNCHANGED <<fw, json, apic, jsonBoot>>
    PROVE  JsonInv' /\ ApicInv'
  BY DEF JsonInv, ApicInv, ShowsCpuid, ShowsWindows, ShowsBcd, HasTable

\* Every step preserves the invariant.
LEMMA StepInv == IInv /\ [Next]_vars => IInv'
<1> SUFFICES ASSUME IInv, [Next]_vars PROVE IInv'
  OBVIOUS
<1> USE DEF IInv
<1>0. fw \in Machines /\ boot \in Boots /\ ev \in Evidence
      /\ boot.bypass \in BOOLEAN /\ boot.xsave \in BOOLEAN
  BY FirmwaresAssumption DEF TypeOK, Boots
<1>a. Nothing \in Evidence /\ ~ Nothing.madt /\ ~ Nothing.features /\ Nothing.bcd # "1"
  BY DEF Nothing, Evidence
<1>1. CASE CollectCpuid
  <2> USE <1>1 DEF CollectCpuid
  <2>1. TypeOK'
    BY CpuidShown DEF TypeOK
  <2>2. EvInv'
    BY CpuidShown DEF EvInv, HasTable, ShowsCpuid, ShowsWindows, ShowsBcd
  <2> QED
    BY <2>1, <2>2, NothingPrinted, FilesStay
<1>2. CASE CollectFeatures
  <2> USE <1>2 DEF CollectFeatures
  <2>1. ev' = [ev EXCEPT !.features = TRUE, !.xsave = boot.xsave,
                         !.avx = fw.avx /\ boot.xsave, !.avx2 = fw.avx2 /\ boot.xsave]
    OBVIOUS
  <2>2. /\ ev' \in Evidence /\ ev'.madt = ev.madt /\ ev'.bcd = ev.bcd
        /\ ev'.features /\ ev'.xsave = boot.xsave
        /\ ev'.avx = (fw.avx /\ boot.xsave) /\ ev'.avx2 = (fw.avx2 /\ boot.xsave)
    BY <1>0, <2>1 DEF Evidence, Machines
  <2>3. ShowsCpuid(ev', boot)
    BY <1>0, <2>1 DEF EvInv, Evidence, ShowsCpuid
  <2>4. TypeOK'
    BY <2>2 DEF TypeOK
  <2>5. EvInv'
    BY <2>2, <2>3 DEF EvInv, HasTable, ShowsCpuid, ShowsWindows, ShowsBcd
  <2> QED
    BY <2>4, <2>5, NothingPrinted, FilesStay
<1>3. CASE CollectBcd
  <2> USE <1>3 DEF CollectBcd
  <2>1. PICK seen \in {element, "unavailable"} : ev' = [ev EXCEPT !.bcd = seen]
    OBVIOUS
  <2>2. seen \in ElementSet \cup {"unavailable"} /\ (seen = "1" => boot.bypass \/ boot.edited)
    BY <1>0 DEF TypeOK, EvInv
  <2>3. /\ ev' \in Evidence /\ ev'.bcd = seen
        /\ ev'.known = ev.known /\ ev'.complete = ev.complete /\ ev'.avx512f = ev.avx512f
        /\ ev'.vp2 = ev.vp2 /\ ev'.xstate = ev.xstate /\ ev'.features = ev.features
        /\ ev'.xsave = ev.xsave /\ ev'.avx = ev.avx /\ ev'.avx2 = ev.avx2 /\ ev'.madt = ev.madt
    BY <1>0, <2>1, <2>2 DEF Evidence
  <2>4. TypeOK'
    BY <2>3 DEF TypeOK
  <2>5. EvInv'
    BY <2>2, <2>3 DEF EvInv, HasTable, ShowsCpuid, ShowsWindows, ShowsBcd
  <2> QED
    BY <2>4, <2>5, NothingPrinted, FilesStay
<1>4. CASE CollectMadt
  <2> USE <1>4 DEF CollectMadt
  <2>1. VisibleMadt(fw, patched) \in Madts /\ VisibleMadt(fw, patched) # NoMadt
    BY VisibleTable DEF TypeOK
  <2>2. /\ ev' \in Evidence /\ ev'.bcd = ev.bcd
        /\ ev'.known = ev.known /\ ev'.complete = ev.complete /\ ev'.avx512f = ev.avx512f
        /\ ev'.vp2 = ev.vp2 /\ ev'.xstate = ev.xstate /\ ev'.features = ev.features
        /\ ev'.xsave = ev.xsave /\ ev'.avx = ev.avx /\ ev'.avx2 = ev.avx2
    BY <1>0 DEF Evidence
  <2>3. apic' # NoMadt \/ (apic' = apic /\ ev'.madt = ev.madt)
    BY <2>1
  <2>4. TypeOK'
    BY <2>1, <2>2 DEF TypeOK
  <2>5. EvInv'
    BY <2>2, <2>3 DEF EvInv, HasTable, ShowsCpuid, ShowsWindows, ShowsBcd
  <2>6. JsonInv'
    BY <2>3 DEF JsonInv, HasTable, ShowsCpuid, ShowsWindows, ShowsBcd
  <2>7. ApicInv'
    BY DEF TypeOK, ApicInv, VisibleMadt
  <2> QED
    BY <2>4, <2>5, <2>6, <2>7, NothingPrinted
<1>5. CASE WriteJson
  <2> USE <1>5 DEF WriteJson
  <2>1. TypeOK'
    BY <1>a DEF TypeOK
  <2>2. EvInv' /\ JsonInv' /\ ApicInv'
    BY <1>a DEF EvInv, JsonInv, ApicInv, HasTable, ShowsCpuid, ShowsWindows, ShowsBcd
  <2> QED
    BY <2>1, <2>2, NothingPrinted
<1>6. CASE HandWrite
  <2> USE <1>6 DEF HandWrite
  <2>1. TypeOK'
    BY CpuidShown DEF TypeOK
  <2>2. JsonInv'
    BY CpuidShown DEF JsonInv, HasTable, ShowsCpuid, ShowsWindows, ShowsBcd
  <2>3. EvInv' /\ ApicInv'
    BY DEF EvInv, ApicInv, HasTable, ShowsCpuid, ShowsWindows, ShowsBcd
  <2> QED
    BY <2>1, <2>2, <2>3, NothingPrinted
<1>7. CASE Validate
  <2> USE <1>7 DEF Validate
  <2>1. PICK madt \in {json.madt, apic # NoMadt} :
               report' = BuildReport([json EXCEPT !.madt = json.madt \/ madt], apic)
    OBVIOUS
  <2> DEFINE given == json.madt \/ madt
  <2>2. given \in BOOLEAN /\ (given => apic # NoMadt)
    BY <2>1 DEF TypeOK, Evidence, JsonInv, HasTable
  <2>3. ReportInv'
    BY <2>1, <2>2, Zenon DEF ReportInv, BuildReport
  <2>4. TypeOK' /\ EvInv'
    BY DEF TypeOK, EvInv, HasTable, ShowsCpuid, ShowsWindows, ShowsBcd
  <2> QED
    BY <2>3, <2>4, FilesStay
<1>8. CASE EditBcd
  <2> USE <1>8 DEF EditBcd
  <2>1. /\ boot' \in Boots /\ boot'.bypass = boot.bypass /\ boot'.xsave = boot.xsave
        /\ boot'.masked = boot.masked /\ boot'.edited
    BY <1>0 DEF Boots
  <2>2. TypeOK'
    BY <2>1 DEF TypeOK
  <2>3. EvInv'
    BY <2>1 DEF EvInv, HasTable, ShowsCpuid, ShowsWindows, ShowsBcd
  <2> QED
    BY <2>2, <2>3, NothingPrinted, FilesStay
<1>9. CASE Reboot
  <2> USE <1>9 DEF Reboot
  <2>1. TypeOK'
    BY <1>a DEF TypeOK
  <2>2. EvInv'
    BY <1>a DEF EvInv, HasTable, ShowsWindows, ShowsBcd
  <2> QED
    BY <2>1, <2>2, NothingPrinted, FilesStay
<1>10. CASE UNCHANGED vars
  BY <1>10 DEF vars, TypeOK, EvInv, JsonInv, ApicInv, ReportInv, HasTable, ShowsCpuid,
               ShowsWindows, ShowsBcd
<1> QED
  BY <1>1, <1>2, <1>3, <1>4, <1>5, <1>6, <1>7, <1>8, <1>9, <1>10 DEF Next

\* The evidence in a file is that of one boot and one machine, and the report on
\* the screen that of the files, whenever the machine is rebooted or its BCD
\* entry edited.
THEOREM InvariantHolds == Spec => []IInv
  BY InitInv, StepInv, PTL DEF Spec

(***************************************************************************)
(* What the validator says.                                                *)
(***************************************************************************)

\* What the report says in terms of platform.json and the saved table.
LEMMA Reported ==
    ASSUME IInv, report # NoReport
    PROVE  /\ fw \in Machines /\ json \in Evidence
           /\ ShowsCpuid(json, jsonBoot) /\ ShowsWindows(json, jsonBoot)
           /\ ShowsBcd(json, jsonBoot)
           /\ report.class = Classification(json)
           /\ report.madt => apic \in Madts /\ ActiveCpus(apic) # {}
           /\ report.exit = IF ~ json.complete THEN 2
                            ELSE IF CpuidIssues(json) # {} \/ XsaveDisabled(json)
                                    \/ (report.madt /\ MadtIssues(apic) # {}) THEN 1 ELSE 0
<1>1. PICK given \in BOOLEAN :
             /\ given => apic # NoMadt
             /\ report = BuildReport([json EXCEPT !.madt = given], apic)
  BY DEF IInv, ReportInv
<1> DEFINE e == [json EXCEPT !.madt = given]
<1>2. fw \in Machines /\ json \in Evidence /\ apic \in Madts
  BY FirmwaresAssumption DEF IInv, TypeOK
<1>3. ShowsCpuid(json, jsonBoot) /\ ShowsWindows(json, jsonBoot) /\ ShowsBcd(json, jsonBoot)
  BY DEF IInv, ReportInv, JsonInv
<1>4. /\ e.madt = given
      /\ e.known = json.known /\ e.complete = json.complete /\ e.avx512f = json.avx512f
      /\ e.vp2 = json.vp2 /\ e.xstate = json.xstate /\ e.xsave = json.xsave
      /\ e.avx = json.avx /\ e.avx2 = json.avx2 /\ e.features = json.features
      /\ e.bcd = json.bcd
  BY <1>2 DEF Evidence
<1>5. report.class = Classification(e) /\ report.exit = ExitCode(e, apic)
      /\ report.madt = given
  BY <1>1, <1>4 DEF BuildReport
<1>6. CpuidIssues(e) = CpuidIssues(json)
  BY <1>4 DEF CpuidIssues
<1>7. XsaveDisabled(e) = XsaveDisabled(json) /\ BypassActive(e) = BypassActive(json)
      /\ XsaveMatch(e) = XsaveMatch(json)
  BY <1>4, <1>6 DEF XsaveDisabled, BypassActive, XsaveMatch
<1>8. Classification(e) = Classification(json)
  BY <1>4, <1>7 DEF Classification
<1>9. given => ActiveCpus(apic) # {}
  BY <1>1, VisibleTable DEF IInv, ApicInv, TypeOK
<1>10. Issues(e, apic) # {} <=> CpuidIssues(json) # {} \/ XsaveDisabled(json)
                                \/ (given /\ MadtIssues(apic) # {})
  BY <1>4, <1>6, <1>7 DEF Issues
<1> QED
  BY <1>2, <1>3, <1>4, <1>5, <1>8, <1>9, <1>10 DEF ExitCode

\* Evidence of a boot under the bypass, on the known processor, shows Windows
\* without XSAVE if it shows Windows at all.
LEMMA BypassShows ==
    ASSUME IInv, report # NoReport, fw.known, jsonBoot.bypass, json.features
    PROVE  XsaveDisabled(json)
<1>1. ~ jsonBoot.xsave
  BY DEF IInv, TypeOK, Boots
<1> QED
  BY <1>1, Reported DEF Machines, Evidence, ShowsCpuid, ShowsWindows, XsaveDisabled

\* An active bypass is reported only of boots that ran with it, and of boots
\* that had lost XSAVE for another cause and whose entry was edited since.
THEOREM ActiveBypassHolds == Spec => []ActiveBypassIsReal
<1>1. IInv => ActiveBypassIsReal
  <2> SUFFICES ASSUME IInv, report # NoReport, report.class = "Diagnostic bypass active"
               PROVE  jsonBoot.bypass \/ (~ jsonBoot.xsave /\ jsonBoot.edited)
    BY DEF ActiveBypassIsReal
  <2>1. BypassActive(json)
    BY Reported DEF Classification, Evidence
  <2>2. jsonBoot.bypass \/ jsonBoot.edited
    BY <2>1, Reported DEF BypassActive, ShowsBcd
  <2>3. json.features /\ ~ json.xsave
    BY <2>1 DEF BypassActive, XsaveDisabled
  <2> QED
    BY <2>2, <2>3, Reported DEF ShowsWindows, Evidence
<1> QED
  BY <1>1, InvariantHolds, PTL

\* Evidence taken under the bypass is never that of a clean or an affected machine.
THEOREM BypassNeverCleanHolds == Spec => []BypassNeverClean
<1>1. IInv => BypassNeverClean
  <2> SUFFICES ASSUME IInv, report # NoReport, jsonBoot.bypass, fw.known,
                      json.features
               PROVE  report.exit # 0 /\ report.class \notin {"Affected", "Not affected"}
    BY DEF BypassNeverClean
  <2>1. XsaveDisabled(json) /\ json.complete \in BOOLEAN
    BY Reported, BypassShows DEF Evidence
  <2>2. report.exit # 0
    BY <2>1, Reported
  <2>3. Classification(json) \in
          {"Unknown", "Diagnostic bypass active", "Windows XSAVE/AVX unavailable"}
    BY <2>1 DEF Classification, BypassActive
  <2> QED
    BY <2>2, <2>3, Reported
<1> QED
  BY <1>1, InvariantHolds, PTL

\* "Affected" is the firmware's own CPUID: VP2INTERSECT without AVX512F and
\* without the state of AVX-512.
THEOREM AffectedHolds == Spec => []AffectedIsReal
<1>1. IInv => AffectedIsReal
  <2> SUFFICES ASSUME IInv, report # NoReport, report.class = "Affected"
               PROVE  fw.known /\ fw.vp2 /\ ~ fw.avx512f /\ Xstate \ fw.xstate # {}
                      /\ ~ jsonBoot.bypass
    BY DEF AffectedIsReal
  <2>1. json.complete /\ ~ XsaveDisabled(json) /\ XsaveMatch(json)
    BY Reported DEF Classification, Evidence
  <2>2. json.known /\ json.vp2 /\ ~ json.avx512f /\ Xstate \ json.xstate # {}
    BY <2>1 DEF XsaveMatch, CpuidIssues
  <2>3. ~ jsonBoot.masked
    BY <2>2, Reported DEF ShowsCpuid
  <2> QED
    BY <2>2, <2>3, Reported DEF ShowsCpuid, IInv, TypeOK, Boots
<1> QED
  BY <1>1, InvariantHolds, PTL

\* The exit code is 0 exactly for complete evidence without a fault.
THEOREM ExitCodeIsExact == Spec => []ExitCodeExact
<1>1. IInv => ExitCodeExact
  <2> SUFFICES ASSUME IInv, report # NoReport
               PROVE  report.exit = 0 <=>
                        /\ json.complete
                        /\ json.vp2 => json.avx512f /\ Xstate \subseteq json.xstate
                        /\ report.madt => NmiConsistent(apic)
                        /\ json.known /\ json.features => json.xsave \/ json.avx \/ json.avx2
    BY DEF ExitCodeExact
  <2>1. json.complete =>
          (CpuidIssues(json) = {} <=> (json.vp2 => json.avx512f /\ Xstate \subseteq json.xstate))
    BY DEF CpuidIssues
  <2>2. report.madt => (MadtIssues(apic) = {} <=> NmiConsistent(apic))
    BY Reported, MadtJudged
  <2> QED
    BY <2>1, <2>2, Reported DEF XsaveDisabled
<1> QED
  BY <1>1, InvariantHolds, PTL
=============================================================================
