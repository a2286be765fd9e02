# A verification project for the Tiger Lake-H ES Hyper-V toolkit

The repository documents why Hyper-V fails to boot on a Tiger Lake-H
engineering sample (06-80-D0), and holds the tools of that investigation: scripts
that reconfigure the Windows boot store (BCD), a deployer for an OpenCore test
stick, collectors that record what the machine shows, and a validator that
judges the record. Everything here is TLA+ beside that code: modules, TLC
configurations, and proofs checked by TLAPS. File names without a path are under
`tools/windows/bcd/` or `archive/experiments/legacy-scripts/`.

Why the code deserves it: each script is a dozen `bcdedit` calls with no
transaction around them, run by hand on a machine that is rebooted, crashes and
hangs *on purpose*. If the calls stop half way, the next boot nobody attends
must still work. That is a question about interleavings, partial failures and
stale state, which the Pester and Python tests (single calls, mocked) do not ask.

## The system

| component | state it keeps | operations | hard behaviour | correct when |
|---|---|---|---|---|
| BCD dual-mode scripts (`setup-`, `remove-bcd-dual-mode.ps1`, `schedule-hyperv-diagnostic-once.ps1`, `audit-bcd-dual-mode.ps1`, `BcdCommon.ps1`) | the BCD store; the state file `%ProgramData%\BiosInterposer\bcd-dual-mode.json` | set up, schedule one boot, remove, audit | any call fails, or fails unseen under `-AllowFailure`; rollback; crash between two calls; two elevated consoles | unattended boots never start failing; the default keeps Hyper-V off; the state file tells the truth; nothing is left behind |
| BCD store, boot manager, `bcdedit` (external) | entries, default, bootsequence, display order | the subcommands the scripts use; boot | one-shot sequence is consumed by the boot | - |
| legacy experiment scripts (ten files) | the store; manifests naming entries; CrashControl values | prepare/schedule one experiment, cancel, make and remove a matrix | sequences of experiments from different entries; catch blocks; loops over entries | a thrown script leaves no boot armed; the default keeps booting; an experiment differs in what it says it differs in |
| OpenCore test stick (`deploy_opencore_madt_usb.py`) | directories `EFI`, `EFI-FPT-BACKUP`, `EFI-OPENCORE-MADT-SAVED` | install, restore, enable-patch, disable-patch | two renames and a copy that are not atomic; rollbacks that fail; unplugging | the FPT shell (the way back) is never lost; a failed operation is undone; no half-copied test stays active |
| OpenCore test builder (`build_opencore_madt_test.py`) | staging directory and manifest | parse the MADT, build the patch | a rebuild between install and restore; tables it was not written for | OpenCore makes of the table what the builder predicts; the validator agrees |
| Windows collector (`tools/collect/windows/collect_platform.py`, `dump_cpuid_windows.py`, `dump_acpi_windows.py`) | `platform.json`, the MADT file | collect | sources read one after the other; the BCD changes, the machine reboots | the record describes one boot |
| validator (`tools/validate_platform.py`) | none (pure) | judge, exit code | evidence of a bypass that makes the CPU look healthy; malformed tables | see the properties below |
| capture of the HV 06 evidence (`capture_hv06_evidence.ps1`) and AVX probe (`probe_avx_execution.py`) | seven evidence files, a manifest of hashes | check, run, write, sign | a dozen checks that throw with nothing undone; the BCD entry describes the *next* boot | files that match their manifest are evidence of one working boot |
| Linux MSR collector and analyzer (`collect_tgl_vmx_msrs_linux.py`, `analyze_linux_msr.py`, `run-in-ubuntu.sh`) | `tgl-vmx-msrs.json` of two collections | read every MSR of every processor; compare | reads one after the other while processors go offline and microcode is loaded; partial evidence; two algorithms for one question | "ALL LPs IDENTICAL" is true of the processors; a collection ends |
| IgnoreMemPart scripts | a registry value, manifest | prepare, restore | prepare run twice | not modelled |
| other evidence collectors (`collect-efi-bcd-stores.ps1`, `collect-hyperv-postboot-evidence.ps1`) | evidence files; a mount point | collect | the mount must be released | not modelled |
| firmware extraction and analysis | output files | extract, compare | - | not modelled |
| PS5 BIOS backup, tests, evidence, firmware | - | - | - | not modelled |

How they interact: all BCD scripts share one store and know of each other only
through it and through files an operator names. The stick decides which MADT the
next boot sees; the legacy scripts check its hash. The collector reads the boot
that the BCD entry and the stick produced; the validator reads its files later,
perhaps after either has changed. The builder reads a dumped MADT, the stick
carries its patch, and the dump and the validator judge what the next boot
shows. The capture runs the probe and both Windows collectors; the analyzer
reads what two runs of the Linux collector left. `PROJECT.json` lists every hazard at its line.

## The modules

```
BcdStore          the store, the meaning of an entry, bcdedit commands (external)
  BcdMachine      + the machine: boots, crashes, sessions that run a script call by call
    BcdDualMode   + setup / remove / schedule / audit, the state file     -> refines BootPromise
    LegacyBcd     + the experiment scripts, manifests, CrashControl
BootPromise       abstract: what somebody who only switches the machine on may rely on
UsbDeploy         the stick
PlatformValidator collector + validator, on symbolic evidence
MadtPatch         one MADT through dump, builder, OpenCore and validator, record by record
BootEvidence      the HV 06 capture and the AVX probe
ProcessorEvidence the Linux MSR collector and its analyzer
MC*               small instances;  *Proofs  theorems
```

**A script is data.** `SetupScript`, `RemoveScript`, `OneTime(...)`, `Matrix` and so
on are sequences of commands in the order of the source; each command carries
the entry it is about and whether its failure throws (`Invoke-BcdEdit`) or is
ignored (`-AllowFailure`). One action, `Step(s)`, runs the next command of session
`s` with one of its outcomes: `Succeed`, `FailSoftly`, `FailHard`, `CopyEntry`,
`CopyUnread` (the GUID is not found in the output of `/copy`, and nobody knows of the
new entry). `Throw` goes to the script's catch block, itself a script. So every state between two calls is a
state of the model, other sessions and crashes act there, and a reordered call
is a one-line change, which is what the mutants are.

**Entries.** An entry maps elements to values. The elements the properties tell
apart have a name (`launch`, `opts`, `xsave`, `vsm`, `numproc`, `vapic`); the others
of the scripts' override lists are one element `extra`, and the four of the visible
capture one element `capture`. `Crashes(e)` is the fact the repository
establishes: Hyper-V with hardware MBEC and XSAVE both active fails to boot
(top-level README, `docs/workaround.md`). That is the machine the scripts were written
for, with AVX-512 disabled; with it enabled the boot was never tried
(`docs/vmx-msr.md:97`), which matters to `BootEvidence` only and is left open there.

**Faults.** `hard`: a checked call fails. `soft`: one under `-AllowFailure` fails unseen.
`parse`: the GUID of a copy is not read. `file`: a state file or manifest cannot be
written. `late`: the same, of a manifest written after the script's `try` block.
`stop`: the machine goes down between two calls. A run names those it includes.

**The state file** is `none`, `torn` (created, not written: `Set-Content`) or a
record. `Move-Item` takes it away. `leaked` and `swallowed` are observations: which
copies a stop or a `/delete` that failed in a catch block gave up, and whether a
`/deletevalue` of a present value failed unseen.

**Sessions.** `BcdDualMode` lets every session start any script at any time. In
`LegacyBcd` scripts do not overlap (one operator reads the output of each before
typing the next); crashes, reboots and menu choices still fall between any two
calls. Administrator and BitLocker checks, dry runs and the hash checks of
`config.plist` and the MADT only refuse, and are left out.

**UsbDeploy.** A tree has three parts (the loader, the two mode files, the active
`config.plist`), so a copy can be partial, any of its files can be `torn`, and a mode
change can tear the active one. Builds of one configuration are `Alike`: the tool
compares nothing else (`ActiveIs`). A staging directory whose build was stopped half
way is 0, and `validate_staging` refuses it.
`install` is park, mkdir, copy in any order (going on after an error, as
`shutil.copytree` does), extras; the except block is rmtree, unpark. `restore` is two
renames with the rollback of the first. `before`, `outcome`, `scarred` are
observations. `validate_destination` is taken to pass.

**PlatformValidator.** The collector's five steps read the running boot in the
order of `collect_platform.py`; `EditBcd` and `Reboot` fall anywhere. The validator is
a group of operators (`CpuidIssues`, `MadtIssues`, `XsaveDisabled`, `Classification`,
`ExitCode`) of the two files. CPUID is the facts the validator looks at. With
`xsavedisable`, Windows loses XSAVE and AVX, and CPUID its AVX-512 bits, as in the
recorded fixture (`tests/fixtures/diagnostic-bypass`). Without it Windows may have lost
XSAVE for another cause, in CPUID or not: the validator distinguishes the two by the
BCD entry only (`validate_platform.py:262-282`). `HandWrite` puts a record without
the Windows sections in place of the collector's, as two of the fixtures are.
`report` is what the validator just printed; any other step clears it. `VisibleMadt`
is the table after OpenCore, which changes it only where it is the one the patch was
built from.

**MadtPatch.** A table is its header and the record at each offset, so a walk can be
one record per step and a record may lie: a length of 0 or 1, a length over the
end, a bad checksum, a declared length that is not the real one. `Walk` is the loop
of the three parsers; what each of them takes is `IsCpu` and `IsNmi`, where they
differ on purpose or not (the builder counts every Local APIC, the validator only
enabled ones, and x2APIC entries too). `Stage` is the patch and the reference
table of the builder, which cuts by offset; `OpenCore` (external) compares OEM
table id and length and replaces the first occurrence of the bytes, at any place of
the table: `echo` holds the offsets inside a record whose payload reads as other
records, so that the search can hit one of them first. A UID is a number, the other bytes of a record are one number `rest`, and the checksum is
whether the bytes add up. `Boot` shows the table with or without the patch, on
the same or another firmware; `GiveFile` names any file.

**BootEvidence.** The eleven steps of the script; each may throw (`Throw`), and a
throw leaves what was written. A file is absent, torn, or says something: which
boot the CPUID was read in, what the probe printed, which entry the BCD held.
`EditBcd` changes the entry while the boot stays what it was, and `edited` observes in
which boots it did. Without one of the two workarounds Hyper-V does not reach a
desktop while AVX-512 is disabled; with AVX-512 enabled it may or may not (`Boots`).
The manifest holds the files as they were when it was written.

**ProcessorEvidence.** One action per `read_msr`. The thirty-one MSRs are four, by
what the code does with them: the time stamp counter (dropped from the
comparison), the APIC base (its BSP bit is masked), those the analyzer decodes
(`vmx`) and those it does without (`sign`). A reading is a value or the text of an
error, which names the processor if its device could not be opened. `Groups` is the
grouping of the collector; `AllIdentical`, `Mismatches`, `Changed`, `Raises` are the
analyzer, and `Output` what it had printed when it ended or raised. `Hotplug` takes any processor but 0 offline or back, `LoadMicrocode`
changes a register everywhere while all processors are online (Linux refuses it
otherwise), `Reboot` cuts a collection off. `uniform` is an
observation: in which registers the processors agreed when the file was written.

## What is checked

Invariants, action properties `[][A]_vars`, a refinement, and two liveness
properties. Every one has a mutant in `PROJECT.json` that TLC must catch.

| run | instance | question |
|---|---|---|
| `managed` | 2 original entries of 5 configurations, 2 GUIDs, 1 session, all faults but `parse` | what is left in the store: `NoOrphans`, `RemoveLeavesNoTrace`, and the inductive invariant `FullInv`, from which `ManagedPassesAudit` follows |
| `concurrent` | 1 original, 2 GUIDs, 2 sessions, all faults | boot safety with two consoles: `CurrentSurvives`, `NeverBricked`, `DefaultStaysOff`, `ManagedPassesAudit`, the refinement `KeepsPromise`, and the inductive invariant `IInv` of the proofs |
| `one_time` | 2 originals of 3 configurations, 1 GUID, eight scripts, all faults | `ReturnsToSafe`, `ControlIsBaseline`, `DefaultKeepsBooting`, and the inductive invariant `IInv` |
| `rollback` | 1 original of 2 configurations, 3 GUIDs, the scripts with a catch block, faults `hard` and `file` | `MadeEntriesOwned`, `ThrownScriptsDisarm`, `DangerNeedsMenu`, `DefaultKeepsBooting` |
| `stick` | 3 builds, 2 of one configuration, failures and power loss | `FptKept`, `FailureUndone`, `RestWhole`, `RestoreKeepsTree`, `IInv` |
| `evidence` | 2 processor UIDs; every pairing of the CPUID facts; 12 tables of one or two enabled processors and NMI UIDs among 0, 1, 2, 0xFF; boots with and without the bypass, XSAVE, masked CPUID | `ActiveBypassIsReal`, `BypassNeverClean`, `AffectedIsReal`, `ExitCodeExact`, `IInv` |
| `processors` | 2 processors, 2 values, 4 machines, 2 changes per behaviour | `IdenticalIsUniform`, `GroupsAgreeWithDiff`, `CpuZeroSpeaks`, `CollectionEnds`, `IInv` |
| `madt` | 2 processors, 11 firmwares, 18 files, damaged ones among them | `PatchLands`, `ParsersAgree`, `CureFitsDiagnosis`, `WalkEnds`, `IInv` |
| `capture` | 2 boots, every BCD entry, every outcome of the probe | `EvidenceHolds`, `IInv` |

In words:

- *NeverBricked*: no single call, crash or boot turns a store whose unattended
  boots work (the pending one and the default behind it) into one where they do
  not. It depends on the order of calls in setup: Hyper-V goes off before the
  MBEC option goes away.
- *ManagedPassesAudit*: as long as the state file names an existing copy and no
  removal of a value failed unseen, the audit passes, *between any two calls* of
  later runs and after any crash, not only when a script has ended.
- *NoOrphans* / *MadeEntriesOwned*: an entry the scripts made is recorded, owned by a
  script at work, or was given up by a stop or by a rollback that could not delete
  it. True of the failures the catch blocks cover. Three error paths do orphan an
  entry and are outside of it, in the hypotheses as in the runs: a GUID not found
  in the output of `/copy` (`setup-bcd-dual-mode.ps1:50-53` and the same check in the
  older scripts), the manifest of the matrix, written after its `try`
  (`prepare-hyperv-diagnostic-matrix.ps1:228-249`), and any failure of
  `prepare-hyperv-test-boot.ps1` after its copy. The runs `concurrent` and `one_time`
  include the first and the third, and the theorems on boot safety all of them: a
  boot that nobody attends never depends on an orphan.
- *ThrownScriptsDisarm*: a one-time script that passes its checks and then throws
  leaves no boot scheduled. `schedule-hyperv-madt-once.ps1` has no catch block and is
  not one of them: after a failure at `:111` or `:128` its boot stays scheduled.
- *ControlIsBaseline*: the control experiment has none of the isolators, even when
  their removal fails silently, because the script reads them all back.
- *FptKept*: the FPT shell is whole in exactly one of two places at every step.
- *RestWhole*: between operations the active tree is whole, torn files included in
  what "whole" forbids, unless an operation was cut off or its rollback failed.
- *ActiveBypassIsReal*: a bypass is called active only of a boot that ran with it, with
  one exception: the boot lost XSAVE for another cause and somebody set
  `xsavedisable=1` for the next one before the collection read it.
- *BypassNeverClean*: evidence the collector takes of the known processor under the
  bypass is never reported as a healthy machine nor as an affected one. Of another
  signature the validator says Unknown, with exit code 0; a record without the
  Windows sections does not show the bypass.
- *ExitCodeExact*: exit code 0 says neither more nor less than complete evidence, no
  orphan in CPUID, NMI entries that fit the enabled processors, and no lost XSAVE.
- *IdenticalIsUniform*: what `docs/vmx-msr.md` concludes from one group of all
  processors, that none deviates, is true at one moment, the end of the collection,
  although no two processors were read at the same time. It covers what the analyzer
  printed before an exception, too.
- *CpuZeroSpeaks*: the analyzer compares the two collections on processor 0; when
  each is uniform that says it of every processor both of them list.
- *PatchLands*: the builder cuts the NMI records by offset, OpenCore replaces the first
  occurrence of their bytes, and nobody checks that they occur once. In no table of
  any firmware does OpenCore change anything but the UID of an NMI entry. In the
  table the builder was given it makes what the builder predicts, with UIDs that fit,
  *unless* the same bytes come earlier, in the payload of another record
  (`Shadowed`): then that payload is changed and the entries stay as wrong as they were.
- *ParsersAgree*: on tables with nothing the parsers treat differently (`Plain`) the
  dump and the validator agree. On the others they do not, by design or not.
- *CureFitsDiagnosis*: the validator calls a table the builder patches shifted by one,
  and finds nothing in the table the builder predicts. Not the other way round: it
  calls tables shifted that the builder refuses, as one whose entries lie apart.
- *EvidenceHolds*: files that match their manifest come from one boot, which ran
  Hyper-V and executed AVX, whatever runs were cut short. That MBEC was off in it
  they show only if AVX-512 was disabled, or the entry was not edited during that
  boot: the script reads the entry of the *next* boot. With AVX-512 disabled the
  machine itself vouches for it, as Hyper-V with MBEC reaches no desktop; with
  AVX-512 enabled nobody tried (`docs/vmx-msr.md:97`), and if it does boot, an entry
  edited afterwards is signed as the evidence of a boot it does not describe. TLC
  finds that case.
- *CollectionEnds*, *WalkEnds*: a collection ends whatever goes offline; a walk ends
  whatever the bytes, since a record shorter than its own header is refused.

### Where the code departs from what it says

Each is a run expected to be violated, and a finding in `PROJECT.json`.

| run | what the text says | what happens |
|---|---|---|
| `stuck_state` | `setup-bcd-dual-mode.ps1:37`: audit or remove the existing configuration | after a failure at `setup:85` or between `remove:47` and `:51` the file can be neither audited nor removed |
| `lost_fallback` | `docs/workaround.md:37`: setup copies the entry *to preserve the fallback* | a checked call that fails after the base entry was rewritten rolls the copy back, and the fallback is gone |
| `probe_refuses` | `capture_hv06_evidence.ps1:47`: `Probe AVX/AVX2 falhou`; `:50-51` and `docs/workaround.md:96` ask for AVX and AVX2 | the exit code of the probe asks for AVX-512 as well: with AVX-512 disabled in the firmware setup both pass and the capture is refused |

Met while modelling, visible in the model, and not made a run of their own:

- `schedule-hyperv-madt-once.ps1:133` prints that the boot manager returns to
  `{current}`; `/default` is never set, so it returns to the default entry.
  `ReturnsToSafe` exempts this script, `DefaultKeepsBooting` does not. It also exempts
  `prepare-hyperv-7e-capture-once.ps1`, whose manifest records `SafeDefault`
  `{current}` (`:151`) while the script never sets `/default` either.
- `prepare-hyperv-one-lp-capture-once.ps1:101` says that only the number of LPs
  differs; isolators whose removal fails unseen (`:34`) are not read back.
- `prepare-hyperv-diagnostic-matrix.ps1:170` says that the machine must always return
  to this entry; a pending bootsequence of an earlier script is not cleared.
- The three error paths that orphan an entry, above. No document and no test of the
  repository denies them (`tests/powershell/BcdScripts.Tests.ps1:105` is about a failure
  after the GUID was read).
- `docs/opencore-madt-experiment.md:143` restores after the control phase; `restore`
  accepts only the patch-enabled `config.plist` (`deploy_opencore_madt_usb.py:119`).

### Bounds

- *GUIDs*: `GuidsLeft` starts no setup or experiment that would run out of the finite
  set `Ids`. Two fresh GUIDs let a run configure, remove, and configure again, or
  lose one copy and make another; with two sessions, each makes one.
- *Two original entries*: enough for "normal entry is not the default", "remove run
  from another entry", "experiment moved the default".
- *Starting configurations*: those of the investigation: no Hyper-V, the failing
  one, the MBEC fallback, the XSAVE bypass, an experiment left behind.
- *Matrix*: `MatrixTests` has two of the eighteen entries (baseline, and MBEC off). The
  loop body is the same for each; two are needed to fail between entries.
- *Three builds*: a rebuilt staging directory is another configuration than the
  installed one, or the same with another OpenCore; or none at all.
- *Two UIDs, four NMI UIDs*: shifted, missing, extra, disabled and wildcard occur.
- *Two Linux processors, two values, `MaxEvents` = 2*: one processor deviates, goes
  offline, comes back; microcode is loaded between two reads, also between two
  collections. The theorems have no such bound.
- *`N` = 2 processors in a table*: the repository's table has 16. Shifted, correct,
  disabled, wildcard and x2APIC tables occur, a decoy record before the entries, the
  bytes of the entries in a payload before them or behind them, NMI entries that are
  not contiguous, and six ways of being damaged.
- *`MaxBoots` = 2*: a run cut off in one boot and finished in the next; in
  `probe_refuses` one boot is enough.

No symmetry is used. Nothing else is bounded. Deadlock is checked in every run.

### Fairness

Only programs that run by themselves once they are started get any. `FairSpec` of
`ProcessorEvidence` is weak fairness of `ReadNext` and `Write`: a collector that was
started is a loop without input, and the operating system schedules it. `FairSpec`
of `MadtPatch` is weak fairness of `Walk`, `Build`, `Dump` and `Validate`, for the same
reason. Nobody has to start a tool, reboot, or change anything; a reboot in the
middle also ends a collection. Nothing is assumed of the other modules. A
PowerShell session can be abandoned, a machine may stay off, a stick may stay in
a drawer: their properties are safety properties, the promise included
(`BootPromise` says what a boot may give, not that one happens).

## What is proved

`BcdStoreProofs` has the lemmas about the store (`ExecEffect`: a command that succeeds
changes what it should and nothing else; `CopiedEffect`), for every set of GUIDs.
The other `*Proofs` modules have the theorems. They hold for *any* number of entries,
sessions, builds, processors, registers, tables, UIDs and boots, any starting
store and any set of faults; the only assumptions are the named ones of the
modules: constants are of the right sort, `Original` and `InitialEntries` are what
they should be, the settings of a matrix entry are `/set`s of the new entry that
leave `launch`, `vsm` and the description alone (as the eighteen of
`prepare-hyperv-diagnostic-matrix.ps1` do), a firmware publishes a table that adds
up and enables a processor. Hypotheses of a single theorem are in the table.

| theorem | statement |
|---|---|
| `InvariantHolds` (each module) | `Spec => []IInv` |
| `CurrentIsNeverDeleted` | `[]CurrentSurvives` |
| `UnattendedBootsSurvive` | `NeverBricked` |
| `DefaultKeepsHyperVOff` | `DefaultStaysOff` |
| `ImplementsPromise` | `KeepsPromise`: `BcdDualMode` implements `BootPromise` under `mode`, flavour of the default, flavour of the pending boot |
| `FullInvariantHolds`, `AuditAlwaysPasses` | `[]FullInv`, `[]ManagedPassesAudit`, for any number of sessions |
| `NothingIsOrphaned`, `RemovalLeavesNoTrace` | `[]NoOrphans`, `RemoveLeavesNoTrace`, if there is one session (`OneSession`): with two, a setup can start between the check and the file of another, a hazard `PROJECT.json` lists. The first also if no fault is `parse` |
| `ScriptsAreLawful` | every command of every legacy script is one the script may issue (`Lawful`) and has behind it what it relies on (`Follows`) |
| `ManifestReturnsToSafe`, `ControlHasNoIsolators`, `MatrixNeedsMenu`, `DefaultNeverBreaks` | `[]ReturnsToSafe`, `[]ControlIsBaseline`, `[]DangerNeedsMenu`, `DefaultKeepsBooting` of `LegacyBcd`, for any scripts, matrix, sessions and faults; the first of manifests whose script sets a default (`SetNoDefault`) |
| `EntriesHaveOwners` | `[]MadeEntriesOwned` under `Rollbacks`: no fault is `parse` or `late`, and `testboot` is not among the scripts; each of the three orphans an entry |
| `ThrownScriptsLeaveNoBoot` | `ThrownScriptsDisarm`, if no fault is `soft` or `stop`: a catch block whose `bcdedit` fails unseen, or that a power loss cuts off, cannot disarm |
| `IdenticalIsUniformHolds`, `GroupsAgreeWithDiffHolds`, `CpuZeroSpeaksHolds` | the safety properties of `ProcessorEvidence` |
| `PatchAlwaysLands`, `ParsersAlwaysAgree`, `CureAlwaysFits` | the safety properties of `MadtPatch` |
| `EvidenceIsSound` | `EvidenceHolds` of `BootEvidence` |
| `ActiveBypassHolds`, `BypassNeverCleanHolds`, `AffectedHolds`, `ExitCodeIsExact` | the properties of `PlatformValidator` |
| `FptNeverLost`, `RollbackRestores`, `WholeAtRest`, `RestoresKeepTheTree` | the four properties of `UsbDeploy` |

**The invariant of the scripts.** None of the properties is inductive alone. That the
default keeps Hyper-V off needs to know which entries a session may write, and
with several sessions that is an ownership argument. `IInv` adds to the types:
`MachineInv` (sessions exist only while Windows runs; what is referred to exists),
`FileInv` (a state file names a copy that starts Hyper-V without MBEC, beside a
default with Hyper-V off), `OwnershipInv` (setup and remove write the running entry
only, which is never the copy of a state file; a copy in the making is known to
nobody else, boot manager included) and `ProgressInv` (how far each script has come,
which no other session can undo). The last is where concurrency matters: two
sessions work on the *same* running entry, and both only ever turn Hyper-V off.

**Shape of the proof.** `Shape` describes each command of each script by what it may
touch; `StepHasEffect` turns any step of a session into `StepEffect`: one session
moves, one entry may change, the default may become the running entry. `StepInv` is
then about effects, not about thirty-odd commands. The safety theorems and the
refinement use the same lemmas with `PTL`.

**What the audit and the ownership of copies need.** `AuditInv` says what each entry of a
state file holds at each stage of a setup or a removal, as long as no
`/deletevalue` has failed unseen. `CopyInv` says who answers for a copy: its session
until the state file names it, then the file, then the removal. The second is true
with one session only, so `FullInv` carries it under `OneSession`.

**The invariant of the legacy scripts** is about what a script has behind it. The eleven
scripts and four catch blocks are sequences of some thirty commands at most, the
matrix has any number of entries; a proof that split on script and position would
not be readable. Instead `Done(s)` is the *set* of the commands behind session
`s`, and `DoneInv` says what each kind of command has established and nothing since
has undone: after a confirmed `launch off` the running entry does not launch, after
`/default {current}` it is the default, after the check that no boot is pending
whatever is pending is the script's own test entry. `MadeInv` says that nothing
refers to the entries in the making; `MatrixInv` that no matrix entry is scheduled
or a default that launches; `ReportInv` what the last manifest may be trusted for.

**Its proof** has two halves. The first is about the scripts alone: each is cut into
pieces (`CurrentIsOff`, `ClearAll`, `Capture`, ...), each piece is shown `Legal` with the
commands behind it, and `LegalConcat` joins them, for the matrix by induction over
the flattened sequence (`FlattenSeq` of the community modules is a recursive
function, which the well-foundedness of the naturals suffices to unfold). The result
is `ScriptsAreLawful`. The second half never looks at a script again: a command that
passes (`StoreStep`, `PassedInv`), one that throws (`StoreThrown`, `ThrownInv`), and the
commands of its own (copy, manifest, the two deletions) keep the invariant
whatever script they are in. A control script that set an isolator again, or a
catch block that scheduled a boot, would fail in the first half; a `/default` that
came before Hyper-V is off, in `Follows`.

**The invariant of the stick** says for each step of an operation where the trees are
(`PlaceInv`), what a rollback goes back to (`BeforeInv`), that a copy without errors is
complete (`CopyInv`), and that a test that was whole stays so (`WholeInv`).

**The invariant of the collection** has to speak of readings of different moments. For
each register (`ReadInv`): as long as the readings so far are one value, either the
processors agree in it now, or those that were read still hold that value. A
microcode load changes every processor at once and so makes the first true; a read
that agrees keeps the second; a read that disagrees ends the premise. At the end all
listed processors have been read, and both cases say that they agree.

**The invariant of the walks** says that the two lists hold, in order, exactly the offsets
up to the current one that the tool takes (`Lists`). With it `PatchAlwaysLands` is
about places: the NMI records of an accepted table are the only ones of their kind,
so an earlier occurrence of the bytes is a payload (`Shadowed`), or there is none and
the first occurrence, which exists since the naturals are well founded, is the
place the builder cut (`CutIsFirstRecord`). In any other firmware's table a hit is a
run of NMI records or a payload, and both keep the rest. `ShiftDiffers` (raising a nonempty set of UIDs by one gives another set)
uses the same fact.

**The invariant of the capture** says of each step which earlier ones are behind it in
the running boot (`Done`), and of a manifest that it was made of the files of one run
(`Sound`). **That of the validator** says that a file shows one boot and the report is that
of the files; the properties follow without further induction.

Every `IInv` was checked by TLC before it was proved, in the run of its module.

**Only model-checked**: the liveness properties `CollectionEnds` and `WalkEnds` (liveness
under fairness and `ENABLED` are out of the prover's reach), and that the properties
with a hypothesis above hold in the instance of their run. Every invariant and every
action property of a passing run is proved. The three runs that expect a violation
are counterexamples and have no theorem.

## What is not modelled

- `bcdedit`, the boot manager, Windows and OpenCore beyond how the scripts use them.
  A `bcdedit` call is atomic: it has its effect or none.
- Restoring a BCD backup (`/import`): the scripts only export; an operator may import.
- The bytes of a record and the checksum arithmetic (a table adds up or does not), the
  CPUID, MSR and firmware-table calls, the names of decoded bits, the printed text.
- PowerShell's remoting of errors: every uncaught error is an exception, as under
  `$ErrorActionPreference = 'Stop'`, which each script sets.
- `WriteJson` of `PlatformValidator` is atomic; torn evidence files are in `BootEvidence`.
- A staging directory made in part: in `UsbDeploy` (a build of 0), not in `MadtPatch`,
  where `Build` stages a patch or refuses.
- In a MADT, bytes of the patch that straddle the border of two records.
- The components the table above calls not modelled, with the reasons in
  `PROJECT.json`: the firmware and PE tools and the extraction read one input once and
  print or write what they found; the IgnoreMemPart scripts are two short sequences
  around one registry value, and their one hazard is listed.

## Where it could go on

1. Composition: `BcdMachine` with `PlatformValidator` and `BootEvidence`, so that the
   bypass a collector sees is the entry that booted, and `UsbDeploy` with `MadtPatch`,
   so that the patched table is the installed mode.
2. Proofs: `EntriesHaveOwners` with `testboot`, `parse` and `late`, weakened to the
   entries of the scripts and failures that a catch block covers; a refinement of `BootPromise` by `LegacyBcd`, which needs a weaker promise
   (an experiment may move the default).
3. Liveness of a crashed test boot that comes back to the default when the machine
   is switched on again.
4. `IgnoreMemPart` (prepare twice, restore, read-back) and the mount point of
   `collect-efi-bcd-stores.ps1`.
