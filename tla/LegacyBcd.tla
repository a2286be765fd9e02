----------------------------- MODULE LegacyBcd -----------------------------
(***************************************************************************)
(* archive/experiments/legacy-scripts: the scripts of the investigation    *)
(* that prepare Hyper-V experiments in the BCD.  They make one entry or a  *)
(* whole matrix of them out of {current}, schedule one boot of a test      *)
(* entry, and record what they did in manifests that later runs name.      *)
(***************************************************************************)
EXTENDS BcdMachine, SequencesExt

CONSTANTS
    Original,        \* the entries that exist before any script runs
    InitialEntries,  \* what they may hold then
    Experiments,     \* the scripts a run includes
    MatrixTests      \* the settings of each matrix entry: a sequence of sequences of commands

ASSUME LegacyAssumption ==
    /\ Original \subseteq Ids
    /\ InitialEntries \subseteq Entries
    /\ MatrixTests \in Seq(Seq({Set("diag", x, v) : x \in Elements \ {"launch", "vsm", "desc"},
                                                    v \in Values}))

VARIABLES
    tests,      \* the entries named TestEntry in a manifest of prepare-hyperv-test-boot
    atomic,     \* the entries named OneTimeEntry in a manifest of a one-time script
    matrices,   \* the TestEntries of each matrix manifest
    todo,       \* the entries remove-hyperv-diagnostic-matrix has still to delete
    crash,      \* CrashControl\DisplayParameters
    regFile,    \* CrashControl\DisplayParameters in the last .reg export
    report      \* observation: the last manifest written since any script started

legacyVars == <<tests, atomic, matrices, todo, crash, regFile, report>>
vars == <<machineVars, legacyVars>>

NoReport == [op |-> "none", safe |-> NoId, test |-> NoId]

-----------------------------------------------------------------------------
(***************************************************************************)
(* The pieces the scripts share.                                           *)
(***************************************************************************)
Manifest   == Cmd("manifest", "none", "desc", "absent", "throw")
OnlyThese  == Cmd("onlythese", "diag", "desc", "absent", "throw")
ShowCrash  == Cmd("showcrash", "none", "desc", "absent", "throw")
ExportReg  == Cmd("exportreg", "none", "desc", "absent", "throw")
ImportReg  == Cmd("importreg", "none", "desc", "absent", "ignore")
DeleteMade == Cmd("deletemade", "none", "desc", "absent", "ignore")
DeleteTodo == Cmd("deletetodo", "none", "desc", "absent", "throw")

CurrentIsOff  == << Confirm("current", "launch", "off"), Confirm("current", "vsm", "off") >>
TestIsAuto    == << Confirm("diag", "launch", "auto"), Confirm("diag", "vsm", "off") >>
MakeCurrentOff == << Set("current", "launch", "off"), Set("current", "vsm", "off") >>
\* Mutant of MakeTestAuto: the identifier of the wrong entry.
MakeTestAutoCurrent == << Set("current", "launch", "auto"), Set("diag", "vsm", "off") >>
MakeTestAuto  == << Set("diag", "launch", "auto"), Set("diag", "vsm", "off") >>
Capture       == << Set("diag", "capture", "on") >>

\* The twelve isolators of the one-time scripts.
Isolators == << "extra", "numproc", "opts", "vapic", "xsave" >>
ClearAll(elems) == [k \in DOMAIN elems |-> Clear("diag", elems[k])]
\* Mutant of AllAbsent: the cleared elements are not read again.
NoneConfirmed(elems) == << >>
AllAbsent(elems) == [k \in DOMAIN elems |-> Confirm("diag", elems[k], "absent")]

\* What a one-time script demands before it changes anything, and the backup.
OneTimePrelude == CurrentIsOff \o TestIsAuto \o << ConfirmNoSequence, Export >>

\* A one-time script that turns the reusable test entry into one experiment.
OneTime(settings, confirm) ==
    OneTimePrelude \o MakeCurrentOff \o << Default("current") >> \o ClearAll(Isolators)
    \o << Set("diag", "desc", "test") >> \o MakeTestAuto \o settings \o Capture
    \o << Sequence("diag") >> \o CurrentIsOff \o TestIsAuto \o confirm
    \o << Confirm("diag", "capture", "on"), ConfirmSequence("diag"), Export, Manifest >>

-----------------------------------------------------------------------------
(***************************************************************************)
(* The scripts.                                                            *)
(***************************************************************************)
\* Mutant of OpenCoreSafeBoot: {current} does not become the default.
SafeBootNoDefault ==
    << Enum("current"), Export >> \o MakeCurrentOff \o CurrentIsOff \o << Manifest >>

OpenCoreSafeBoot ==
    << Enum("current"), Export >> \o MakeCurrentOff \o << Default("current") >>
    \o CurrentIsOff \o << Manifest >>

\* Mutant of TestBoot: the copy becomes the default.
TestBootDefault ==
    << Export >> \o MakeCurrentOff \o << Copy("current", "test") >> \o MakeTestAuto
    \o << Default("diag"), ShowMenu, OnlyThese, Timeout, Manifest >>

TestBoot ==
    << Export >> \o MakeCurrentOff \o << Copy("current", "test") >> \o MakeTestAuto
    \o << Default("current"), ShowMenu, OnlyThese, Timeout, Manifest >>

MadtOneTimeClean ==
    CurrentIsOff \o << ConfirmNoSequence, Export >> \o MakeCurrentOff
    \o << Default("current"), Copy("current", "test") >> \o MakeTestAuto
    \o << Sequence("diag") >> \o CurrentIsOff \o TestIsAuto
    \o << ConfirmSequence("diag"), Export, Manifest >>

ScheduleMadtOnce ==
    CurrentIsOff \o TestIsAuto
    \o << Export, Sequence("diag"), ReadBootMgr, ConfirmSequence("diag"), Manifest >>

CancelMadtOnce ==
    CurrentIsOff \o TestIsAuto \o << [Unsequence("diag") EXCEPT !.onfail = "throw"] >>

Capture7e ==
    CurrentIsOff \o TestIsAuto \o << ConfirmNoSequence, ExportReg, Export, ShowCrash >>
    \o MakeTestAuto \o Capture \o << Sequence("diag") >> \o TestIsAuto
    \o << Confirm("diag", "capture", "on"), ConfirmSequence("diag"), Export, Manifest >>

OneLp == OneTime(<< Set("diag", "numproc", "on") >>, << Confirm("diag", "numproc", "on") >>)

NoVapic == OneTime(<< Set("diag", "vapic", "off") >>,
                   << Confirm("diag", "vapic", "off"), Confirm("diag", "numproc", "absent") >>)

OpenCoreControl == OneTime(<< >>, AllAbsent(Isolators))

\* Mutants of MatrixEntry: the entry is made the default, or scheduled.
MatrixEntryDefault(settings) ==
    << Copy("current", "test") >> \o MakeTestAuto \o settings \o << Default("diag") >>
MatrixEntrySequence(settings) ==
    << Copy("current", "test") >> \o MakeTestAuto \o settings \o << Sequence("diag") >>

\* Each entry of the matrix: a copy of {current} without its overrides.
MatrixEntry(settings) ==
    << Copy("current", "test") >> \o ClearAll(Append(Isolators, "capture")) \o MakeTestAuto
    \o settings \o << [AddLast("diag") EXCEPT !.onfail = "ignore"] >>

Matrix ==
    << Export >> \o MakeCurrentOff \o << Default("current"), ShowMenu, Timeout >>
    \o FlattenSeq([k \in DOMAIN MatrixTests |-> MatrixEntry(MatrixTests[k])])
    \o << Manifest >>

RemoveMatrix ==
    << Export, DeleteTodo >> \o MakeCurrentOff \o << Default("current"), ShowMenu, Timeout >>

\* Mutant of UndoOneTime: the entry is turned off and stays scheduled.
UndoTurnsOff == << Set("diag", "launch", "off") >>

\* The catch blocks.
UndoOneTime == << Unsequence("diag") >>
UndoClean   == << Unsequence("diag"), DeleteQuietly("diag") >>
UndoCapture == << Unsequence("diag"), ImportReg >>
UndoMatrix  == << DeleteMade >>

Scripts == [safe |-> OpenCoreSafeBoot, testboot |-> TestBoot, clean |-> MadtOneTimeClean,
            madtonce |-> ScheduleMadtOnce, cancel |-> CancelMadtOnce,
            capture7e |-> Capture7e, onelp |-> OneLp, novapic |-> NoVapic,
            control |-> OpenCoreControl, matrix |-> Matrix, unmatrix |-> RemoveMatrix,
            undoonetime |-> UndoOneTime, undoclean |-> UndoClean,
            undocapture |-> UndoCapture, undomatrix |-> UndoMatrix]

OneTimes == {"onelp", "novapic", "control"}

\* The number of commands before the try block of session s's script.
BeforeTry(op) == CASE op \in OneTimes   -> Len(OneTimePrelude)
                   [] op = "capture7e" -> 7
                   [] OTHER            -> 0

\* Mutant of Catch: no script rolls back.
CatchNothing(s) == "none"

\* The catch block that runs if the command session s is at throws; those of
\* the scripts that copy have nothing to do before a GUID is known.  Scheduling
\* the MADT test undoes only a bootsequence that is not confirmed.
Catch(s) ==
    LET r == ses[s]
    IN  CASE r.op \in OneTimes /\ r.pc > BeforeTry(r.op)   -> "undoonetime"
          [] r.op = "madtonce" /\ ScheduleMadtOnce[r.pc] = ConfirmSequence("diag") -> "undoonetime"
          [] r.op = "capture7e" /\ r.pc > BeforeTry(r.op) -> "undocapture"
          [] r.op = "clean" /\ r.did # NoId               -> "undoclean"
          [] r.op = "matrix" /\ r.made # {} /\ r.pc < Len(Matrix) -> "undomatrix"
          [] OTHER                                        -> "none"

-----------------------------------------------------------------------------
(***************************************************************************)
(* Starting a script.  Only what can pass its checks is started: a refusal *)
(* changes nothing.                                                        *)
(***************************************************************************)

\* GuidsLeft bounds the model: no script starts that would run out of GUIDs.
Copies(op) == Cardinality({k \in DOMAIN Scripts[op] : Scripts[op][k].op = "copy"})
GuidsLeft(op) == Cardinality(Ids \ bcd.used) >= Copies(op)

Start(s, op, id) ==
    /\ op \in Experiments
    /\ current # NoId
    /\ AllIdle
    /\ GuidsLeft(op)
    /\ ses' = [ses EXCEPT ![s] = Running(op, NoId, id)]
    /\ swallowed' = FALSE
    /\ report' = NoReport
    /\ UNCHANGED <<bcd, current, mode, leaked, tests, atomic, matrices, crash, regFile>>

StartCopying(s) ==
    /\ \E op \in {"safe", "testboot", "clean", "matrix"} : Start(s, op, NoId)
    /\ UNCHANGED todo

\* The operator names a manifest: of prepare-hyperv-test-boot to schedule or
\* cancel, of a one-time script to run another experiment on its entry.
StartOnTestEntry(s) ==
    /\ \/ \E op \in {"madtonce", "cancel"}, id \in tests : Start(s, op, id)
       \/ \E op \in OneTimes \cup {"capture7e"}, id \in atomic : Start(s, op, id)
    /\ UNCHANGED todo

StartRemoveMatrix(s) ==
    \E m \in matrices : Start(s, "unmatrix", NoId) /\ todo' = m

-----------------------------------------------------------------------------
(***************************************************************************)
(* The commands that are not bcdedit's, or that loop over entries.         *)
(***************************************************************************)
BcdOnly == UNCHANGED legacyVars

\* The manifest: what the operator may name later.  A failure throws; the
\* entries of a matrix or of prepare-hyperv-test-boot, which write it after or
\* without a try block, are then in no manifest and nobody deletes them.
Uncaught(s) == ses[s].made # {} /\ Catch(s) = "none"
WriteManifest(s, c) ==
    LET r == ses[s]
    IN  /\ c.op = "manifest"
        /\ \/ /\ tests' = tests \cup (IF r.op = "testboot" THEN {r.did} ELSE {})
              /\ atomic' = atomic \cup
                    (IF r.op \in OneTimes \cup {"clean", "capture7e", "madtonce"} THEN {r.did}
                                                                           ELSE {})
              /\ matrices' = matrices \cup (IF r.op = "matrix" THEN {r.made} ELSE {})
              /\ report' = [op |-> r.op, safe |-> current, test |-> r.did]
              /\ Advance(s, Scripts[r.op])
           \/ /\ (IF Uncaught(s) THEN "late" ELSE "file") \in Faults
              /\ Throw(s, Catch(s))
              /\ UNCHANGED <<tests, atomic, matrices, report>>
        /\ UNCHANGED <<bcd, current, mode, swallowed, leaked, todo, crash, regFile>>

\* /displayorder with two entries replaces the whole display order.
ReplaceOrder(s, c) ==
    /\ c.op = "onlythese"
    /\ \/ /\ {current, ses[s].did} \subseteq bcd.live
          /\ bcd' = [bcd EXCEPT !.order = {current, ses[s].did}]
          /\ Advance(s, Scripts[ses[s].op])
       \/ /\ "hard" \in Faults
          /\ Throw(s, Catch(s))
          /\ UNCHANGED bcd
    /\ BcdOnly
    /\ UNCHANGED <<current, mode, swallowed, leaked>>

\* The registry values of the 0x7E capture.  Importing a .reg file sets the
\* values it holds; it does not delete a value that the export did not find.
RegistryCommand(s, c) ==
    /\ \/ /\ \/ c.op = "exportreg" /\ regFile' = crash /\ UNCHANGED crash
             \/ c.op = "showcrash" /\ crash' = "on" /\ UNCHANGED regFile
             \/ /\ c.op = "importreg"
                /\ crash' \in {IF regFile = "absent" THEN crash ELSE regFile}
                             \cup (IF "soft" \in Faults THEN {crash} ELSE {})
                /\ UNCHANGED regFile
          /\ Advance(s, Scripts[ses[s].op])
       \/ /\ c.op \in {"exportreg", "showcrash"}
          /\ "file" \in Faults
          /\ Throw(s, Catch(s))
          /\ UNCHANGED <<crash, regFile>>
    /\ UNCHANGED <<bcd, current, mode, swallowed, leaked, tests, atomic, matrices, todo, report>>

\* The catch block of the matrix deletes every entry made, ignoring failures.
DeleteOneMade(s, c) ==
    /\ c.op = "deletemade"
    /\ \E g \in ses[s].made :
          /\ \/ bcd' = Deleted(bcd, g) /\ UNCHANGED leaked
             \/ /\ "soft" \in Faults
                /\ leaked' = leaked \cup {g}
                /\ UNCHANGED bcd
          /\ IF ses[s].made = {g} THEN ses' = [ses EXCEPT ![s] = Idle]
             ELSE ses' = [ses EXCEPT ![s].made = @ \ {g}]
    /\ BcdOnly
    /\ UNCHANGED <<current, mode, swallowed>>

\* remove-hyperv-diagnostic-matrix deletes the entries of the manifest one by
\* one, existing or not, and stops at the first failure.
DeleteOneTodo(s, c) ==
    /\ c.op = "deletetodo"
    /\ \E g \in todo :
          \/ /\ g \in bcd.live
             /\ bcd' = Deleted(bcd, g)
             /\ todo' = todo \ {g}
             /\ IF todo = {g} THEN Advance(s, RemoveMatrix) ELSE UNCHANGED ses
          \/ /\ g \notin bcd.live \/ "hard" \in Faults
             /\ Throw(s, "none")
             /\ todo' = {}
             /\ UNCHANGED bcd
    /\ UNCHANGED <<current, mode, swallowed, leaked, tests, atomic, matrices, crash, regFile, report>>

Step(s) ==
    /\ ses[s].op \in DOMAIN Scripts
    /\ LET script == Scripts[ses[s].op]
           c      == script[ses[s].pc]
       IN  \/ BcdCommand(s, script, c, Catch(s)) /\ BcdOnly
           \/ WriteManifest(s, c)
           \/ ReplaceOrder(s, c)
           \/ RegistryCommand(s, c)
           \/ DeleteOneMade(s, c)
           \/ DeleteOneTodo(s, c)

Down == Stop /\ todo' = {} /\ UNCHANGED <<tests, atomic, matrices, crash, regFile, report>>
Boot == BootUnattended /\ BcdOnly
Pick == BootFromMenu /\ BcdOnly

-----------------------------------------------------------------------------
Fresh == [x \in Elements |-> "absent"]

Init ==
    /\ bcd \in [entry : {e \in [Ids -> InitialEntries \cup {Fresh}] :
                          \A i \in Ids : IF i \in Original THEN e[i] \in InitialEntries
                                                           ELSE e[i] = Fresh},
                live : {Original}, used : {Original}, default : Original,
                seq : {NoId}, order : {Original}, menu : {"no"}]
    /\ current \in Original
    /\ mode = Flavour(bcd, current)
    /\ mode # "broken"
    /\ ses = [s \in Sessions |-> Idle]
    /\ swallowed = FALSE
    /\ leaked = {}
    /\ tests = {} /\ atomic = {} /\ matrices = {} /\ todo = {}
    /\ crash \in {"absent", "off"}
    /\ regFile = "absent"
    /\ report = NoReport

Next == \/ \E s \in Sessions : StartCopying(s) \/ StartOnTestEntry(s) \/ StartRemoveMatrix(s)
        \/ \E s \in Sessions : Step(s)
        \/ Down \/ Boot \/ Pick

Spec == Init /\ [][Next]_vars

-----------------------------------------------------------------------------
(***************************************************************************)
(* Properties.                                                             *)
(***************************************************************************)

\* Every variable has its type, and a running session is at a command of its script.
TypeOK ==
    /\ MachineTypeOK(DOMAIN Scripts)
    /\ \A s \in Sessions :
          \/ ses[s] = Idle
          \/ ses[s].op \in DOMAIN Scripts /\ ses[s].pc \in DOMAIN Scripts[ses[s].op]
    /\ tests \subseteq Ids /\ atomic \subseteq Ids /\ todo \subseteq Ids
    /\ matrices \subseteq SUBSET Ids
    /\ {crash, regFile} \subseteq {"absent", "off", "on"}
    /\ report \in [op : DOMAIN Scripts \cup {"none"}, safe : IdsOrNone, test : IdsOrNone]

\* A default entry that boots keeps booting, whatever experiment runs, fails
\* or is cut off: no step makes it a failing one.
DefaultKeepsBooting ==
    [][Flavour(bcd, bcd.default) \in {"off", "hv"} => Flavour(bcd', bcd'.default) # "broken"]_vars

\* A one-time script that gets past its checks and throws leaves no boot
\* scheduled: its catch block takes the entry out of the boot sequence again.
\* schedule-hyperv-madt-once.ps1 is not one of them: when the boot manager cannot
\* be read (:111) or the manifest not written (:128) its boot stays scheduled.
Done(s) == {Scripts[ses[s].op][k] : k \in 1 .. ses[s].pc - 1}
PastChecks(s) ==
    \/ ses[s].op \in {"undoonetime", "undoclean", "undocapture"}
    \/ ses[s].op \in OneTimes \cup {"clean", "capture7e"} /\ Export \in Done(s)
ThrownScriptsDisarm ==
    [][\A s \in Sessions : PastChecks(s) /\ ses'[s] = Idle /\ report'.op = "none"
                              => bcd'.seq = NoId]_vars

\* From the manifest of a script that sets a default until the next script
\* starts, the default is the entry the manifest calls SafeDefault, with Hyper-V
\* off: the machine returns to it, whatever boots or crashes in between.  It is
\* not so, and not claimed, for schedule-hyperv-madt-once.ps1 (:122) and
\* prepare-hyperv-7e-capture-once.ps1, whose manifests call {current} the
\* SafeDefault although the scripts set no default.
SetNoDefault == {"none", "madtonce", "capture7e"}
ReturnsToSafe ==
    report.op \notin SetNoDefault => bcd.default = report.safe /\ Flavour(bcd, bcd.default) = "off"

\* The control experiment is the baseline it is recorded as: every isolator of
\* the earlier experiments is gone from its entry.
ControlIsBaseline ==
    report.op = "control" =>
        \A k \in DOMAIN Isolators : bcd.entry[report.test][Isolators[k]] = "absent"

\* The entries of a matrix that fail to boot need a choice in the menu: no boot
\* that nobody attends starts one, even while the script is still making them.
MatrixEntries ==
    (UNION matrices) \cup UNION {ses[s].made : s \in {t \in Sessions : ses[t].op \in {"matrix", "undomatrix"}}}
DangerNeedsMenu ==
    NextBoot(bcd) \in MatrixEntries => Flavour(bcd, NextBoot(bcd)) # "broken"

\* An entry the scripts made is named by a manifest, belongs to a session at
\* work, or was given up by a stop or by a rollback that could not delete it.
\* Three error paths do leave an entry behind, and are outside of Rollbacks:
\* a GUID not found in the output of /copy; a failing manifest of the matrix
\* (prepare-hyperv-diagnostic-matrix.ps1:228-249, after its try block); any
\* failure of prepare-hyperv-test-boot.ps1 once it has its copy, for want of one.
Rollbacks == {"parse", "late"} \cap Faults = {} /\ "testboot" \notin Experiments
MadeEntriesOwned ==
    bcd.live \ (Original \cup leaked) \subseteq
        tests \cup atomic \cup (UNION matrices) \cup Unrecorded

-----------------------------------------------------------------------------
(***************************************************************************)
(* The inductive invariant: what the commands a script has behind it have  *)
(* established, while nobody else changes the store.                       *)
(***************************************************************************)
Copying == {"testboot", "clean", "matrix"}               \* scripts that make entries
Reusing == OneTimes \cup {"capture7e"}                    \* scripts that set up an entry made before
Disarms == {"undoonetime", "undoclean", "undocapture"}   \* catch blocks that unschedule one
Named   == tests \cup atomic \cup UNION matrices

TurnOff == Set("current", "launch", "off")
FoundOff == Confirm("current", "launch", "off")
FoundAuto == Confirm("diag", "launch", "auto")
MakeCopy == Copy("current", "test")

\* One script at a time, while Windows runs; what the boot manager and the
\* manifests name exists, or did; no manifest of a matrix names an entry that
\* another one offers for reuse.
MachineInv ==
    /\ \A s, t \in Sessions : ses[s].op # "idle" /\ ses[t].op # "idle" => s = t
    /\ current = NoId => AllIdle
    /\ {bcd.default, bcd.seq} \subseteq bcd.live \cup {NoId}
    /\ bcd.live \cup Named \subseteq bcd.used
    /\ current \in bcd.used \cup {NoId}
    /\ (tests \cup atomic) \cap UNION matrices = {}
    /\ \A s \in Sessions : ses[s].op = "testboot" => "testboot" \in Experiments

\* A manifest is the last thing a script does.
ReportInv == (report.op # "none" => AllIdle) /\ ReturnsToSafe /\ ControlIsBaseline

\* No entry of a matrix is scheduled, and none is the default with Hyper-V on.
MatrixInv ==
    /\ bcd.seq \notin UNION matrices
    /\ bcd.default \in UNION matrices => ~ Launches(bcd.entry[bcd.default])

\* The entries a script made are its own, and nothing else refers to them.
MadeInv(s) ==
    /\ ses[s].made \subseteq bcd.used
    /\ ses[s].made \cap (Named \cup {current, bcd.default}) = {}
    /\ ses[s].op \notin {"clean", "undoclean"} => bcd.seq \notin ses[s].made
    /\ ses[s].op \in {"testboot", "clean"} =>
          /\ ses[s].did = NoId <=> MakeCopy \notin Done(s)
          /\ ses[s].made = {ses[s].did} \ {NoId}
    /\ ses[s].op = "matrix" => ses[s].did \in ses[s].made \cup {NoId}
    /\ ses[s].op = "undoclean" => ses[s].made = {ses[s].did}
    /\ ses[s].op \notin Copying \cup {"undoclean", "undomatrix"} =>
          /\ ses[s].made = {}
          /\ ses[s].did \in IF ses[s].op \in {"safe", "unmatrix"} THEN {NoId} ELSE tests \cup atomic

\* What the commands that script s has behind it have established.
DoneInv(s) ==
    /\ {TurnOff, FoundOff} \cap Done(s) # {} => ~ Launches(bcd.entry[current])
    /\ Default("current") \in Done(s) /\ ses[s].op # "unmatrix" => bcd.default = current
    /\ FoundAuto \in Done(s) /\ ses[s].op \in Reusing => Launches(bcd.entry[ses[s].did])
    /\ ses[s].op = "control" =>
          \A x \in Range(Isolators) : Confirm("diag", x, "absent") \in Done(s) =>
                                         bcd.entry[ses[s].did][x] = "absent"
    /\ ConfirmNoSequence \in Done(s) /\ ses[s].op \in Reusing \cup {"clean"} =>
          bcd.seq \in {NoId, ses[s].did}
    /\ Sequence("diag") \in Done(s) /\ ses[s].op = "madtonce" => bcd.seq = ses[s].did
    /\ ses[s].op \in Disarms =>
          /\ bcd.seq \in {NoId, ses[s].did}
          /\ ses[s].pc > 1 => bcd.seq = NoId \/ "soft" \in Faults

IInv ==
    /\ TypeOK /\ MachineInv /\ ReportInv /\ MatrixInv
    /\ \A s \in Sessions : ses[s].op # "idle" => MadeInv(s) /\ DoneInv(s)
    /\ Rollbacks => MadeEntriesOwned
=============================================================================
