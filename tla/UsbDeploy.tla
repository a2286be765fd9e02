----------------------------- MODULE UsbDeploy -----------------------------
(***************************************************************************)
(* deploy_opencore_madt_usb.py: the tool that swaps the EFI directory of   *)
(* the BIOS_BACKUP stick between the FPT shell it holds and a staged       *)
(* OpenCore test, and that selects the mode of the test.  One operator     *)
(* runs it; any file operation may fail and the stick may be pulled.       *)
(* build_opencore_madt_test.py, which stages the test, may run in between. *)
(***************************************************************************)
EXTENDS Naturals, FiniteSets

CONSTANTS
    Builds,   \* the staged builds, told apart by the hashes of their manifests
    Alike,    \* sets of builds with one configuration, of different OpenCores
    Faults    \* "fs": a file operation fails; "cut": the stick is pulled, power is lost

ASSUME UsbAssumption == /\ 0 \notin Builds /\ Alike \subseteq SUBSET Builds
                        /\ Faults \subseteq {"fs", "cut"}

VARIABLES
    efi,      \* the directory EFI
    backup,   \* EFI-FPT-BACKUP
    saved,    \* EFI-OPENCORE-MADT-SAVED
    staged,   \* the build the staging directory and its manifest hold; 0: a part of one
    run,      \* the running operation: its step, the parts left, whether one failed
    before,   \* observation: the three directories when the last operation began
    outcome,  \* observation: how it ended
    scarred   \* observation: an operation was cut off, or failed beyond its rollback

dirs == <<efi, backup, saved>>
vars == <<efi, backup, saved, staged, run, before, outcome, scarred>>

(***************************************************************************)
(* A directory tree.  An OpenCore tree has a loader, two mode files and    *)
(* the active config.plist, a copy of one of them.  torn: the parts whose   *)
(* bytes are not all there, config.plist apart.                            *)
(***************************************************************************)
Parts   == {"loader", "modes", "config"}
Configs == {"none", "enabled", "control", "torn"}
Trees   == [kind : {"absent", "fpt", "oc"}, build : Builds \cup {0},
            parts : SUBSET Parts, torn : SUBSET Parts, config : Configs]

Tree(kind, build, parts, config) ==
    [kind |-> kind, build |-> build, parts |-> parts, torn |-> {}, config |-> config]

Absent      == Tree("absent", 0, {}, "none")
Fpt         == Tree("fpt", 0, {"loader"}, "none")
Begun(b)    == Tree("oc", b, {}, "none")
Whole(b, m) == Tree("oc", b, Parts, m)

\* An operation: its step, the parts left to copy, whether a copy failed.
Runs == [op : {"idle", "install", "restore", "enabled", "control"},
         at : {"end", "park", "mkdir", "copy", "extras", "rmtree", "unpark",
               "save", "promote", "unsave", "open", "write"},
         todo : SUBSET Parts, failed : BOOLEAN]

Idle == [op |-> "idle", at |-> "end", todo |-> {}, failed |-> FALSE]
At(op, step) == [op |-> op, at |-> step, todo |-> {}, failed |-> FALSE]

\* The tree t with part p copied from the staging directory; config.plist is
\* staged as a copy of config-patch-enabled.plist.
WithPart(t, p) ==
    [t EXCEPT !.parts = @ \cup {p}, !.config = IF p = "config" THEN "enabled" ELSE @]

\* A part of which some bytes arrived.
WithTorn(t, p) ==
    [t EXCEPT !.parts = @ \cup {p}, !.torn = @ \cup {p}, !.config = IF p = "config" THEN "torn" ELSE @]

WithoutPart(t, p) ==
    [t EXCEPT !.parts = @ \ {p}, !.torn = @ \ {p}, !.config = IF p = "config" THEN "none" ELSE @]

SameConfig(a, b) == a = b \/ \E c \in Alike : {a, b} \subseteq c

\* The active config.plist has a hash of the staged manifest, for mode m; nobody
\* looks at the rest of the tree.
ActiveIs(m) == efi.config = m /\ SameConfig(efi.build, staged)

-----------------------------------------------------------------------------
\* An operation begins with the check of the staging directory: nothing is written
\* until its checks have passed.
Begin(r) ==
    /\ run.op = "idle" /\ staged # 0
    /\ run' = r
    /\ before' = dirs
    /\ outcome' = "running"
    /\ UNCHANGED <<efi, backup, saved, staged, scarred>>

\* Mutant of StartInstall: an existing backup is no obstacle.
StartInstallAgain ==
    /\ "loader" \in efi.parts
    /\ Begin(At("install", "park"))

StartInstall ==
    /\ efi.kind # "absent"
    /\ "loader" \in efi.parts
    /\ backup.kind = "absent"
    /\ Begin(At("install", "park"))

Restorable ==
    /\ backup.kind # "absent"
    /\ saved.kind = "absent"
    /\ ActiveIs("enabled")

StartRestore == Restorable /\ Begin(At("restore", "save"))

StartSelect(m) ==
    /\ "modes" \in efi.parts \ efi.torn
    /\ \E active \in {"enabled", "control"} : ActiveIs(active)
    /\ Begin(At(m, "open"))

\* An operation ends, in good order or by an exception.
End(how) == run' = Idle /\ outcome' = how /\ UNCHANGED <<staged, before>>
Goto(step) ==
    run' = [run EXCEPT !.at = step] /\ UNCHANGED <<staged, before, outcome, scarred>>

\* A file operation of step "step" fails.
Fails(step) == run.at = step /\ "fs" \in Faults

-----------------------------------------------------------------------------
(***************************************************************************)
(* install.  copytree copies the entries in the order the directory gives, *)
(* goes on after one that fails, and raises at the end.                    *)
(***************************************************************************)
Park == /\ run.at = "park"
        /\ backup' = efi /\ efi' = Absent
        /\ Goto("mkdir")
        /\ UNCHANGED saved

MakeDirectory ==
    /\ run.at = "mkdir"
    /\ efi' = Begun(staged)
    /\ run' = [run EXCEPT !.at = "copy", !.todo = Parts]
    /\ UNCHANGED <<backup, saved, staged, before, outcome, scarred>>

CopyPart(p) ==
    /\ run.at = "copy"
    /\ p \in run.todo
    /\ \/ efi' = WithPart(efi, p) /\ run' = [run EXCEPT !.todo = @ \ {p}]
       \/ /\ "fs" \in Faults
          /\ efi' \in {efi, WithTorn(efi, p)}
          /\ run' = [run EXCEPT !.todo = @ \ {p}, !.failed = TRUE]
    /\ UNCHANGED <<backup, saved, staged, before, outcome, scarred>>

\* Mutant of CopyDone: the errors copytree collects are forgotten.
CopyDoneAnyway ==
    /\ run.at = "copy" /\ run.todo = {}
    /\ Goto("extras")
    /\ UNCHANGED dirs

CopyDone ==
    /\ run.at = "copy" /\ run.todo = {}
    /\ Goto(IF run.failed THEN "rmtree" ELSE "extras")
    /\ UNCHANGED dirs

\* The manifest and the instructions go to the root of the stick.
CopyExtras ==
    /\ run.at = "extras"
    /\ End("done")
    /\ UNCHANGED <<efi, backup, saved, scarred>>

\* The except block: rmtree what exists of the copy, rename the backup back.
RollBack ==
    /\ Fails("mkdir") \/ Fails("extras")
    /\ Goto(IF efi.kind = "absent" THEN "unpark" ELSE "rmtree")
    /\ UNCHANGED dirs

RemovePart(p) ==
    /\ run.at = "rmtree"
    /\ p \in efi.parts
    /\ efi' = WithoutPart(efi, p)
    /\ UNCHANGED <<backup, saved, staged, run, before, outcome, scarred>>

RemoveDirectory ==
    /\ run.at = "rmtree" /\ efi.parts = {}
    /\ efi' = Absent
    /\ Goto("unpark")
    /\ UNCHANGED <<backup, saved>>

Unpark == /\ run.at = "unpark"
          /\ efi' = backup /\ backup' = Absent
          /\ End("failed")
          /\ UNCHANGED <<saved, scarred>>

-----------------------------------------------------------------------------
\* Mutants of Save and PromoteFails: the test tree is deleted instead of
\* renamed; a failing second rename is not rolled back.
SaveByDeleting ==
    /\ run.at = "save"
    /\ efi' = Absent
    /\ Goto("promote")
    /\ UNCHANGED <<backup, saved>>
PromoteFailsForGood ==
    /\ Fails("promote") /\ End("failed")
    /\ UNCHANGED <<efi, backup, saved, scarred>>

\* restore: two renames, the second with a rollback of the first.
Save == /\ run.at = "save"
        /\ saved' = efi /\ efi' = Absent
        /\ Goto("promote")
        /\ UNCHANGED backup

Promote == /\ run.at = "promote"
           /\ efi' = backup /\ backup' = Absent
           /\ End("done")
           /\ UNCHANGED <<saved, scarred>>

PromoteFails == Fails("promote") /\ Goto("unsave") /\ UNCHANGED dirs

Unsave == /\ run.at = "unsave"
          /\ efi' = saved /\ saved' = Absent
          /\ End("failed")
          /\ UNCHANGED <<backup, scarred>>

-----------------------------------------------------------------------------
\* select_mode: copy2 truncates config.plist and writes it; a failure leaves
\* it torn, or written though the operation fails.
Truncate == /\ run.at = "open"
            /\ efi' = [efi EXCEPT !.config = "torn"]
            /\ Goto("write")
            /\ UNCHANGED <<backup, saved>>

Write == /\ run.at = "write"
         /\ efi' = [efi EXCEPT !.config = run.op]
         /\ End("done")
         /\ UNCHANGED <<backup, saved, scarred>>

WriteFails ==
    /\ Fails("write")
    /\ efi' \in {efi, [efi EXCEPT !.config = run.op]}
    /\ End("broken")
    /\ scarred' = TRUE
    /\ UNCHANGED <<backup, saved>>

-----------------------------------------------------------------------------
\* The first change of an operation fails: there is nothing to roll back.
RefusedChange ==
    /\ \E step \in {"park", "save", "open"} : Fails(step)
    /\ End("failed")
    /\ UNCHANGED <<efi, backup, saved, scarred>>

\* The rollback itself fails: the exception leaves the stick as it is.
RollbackFails ==
    /\ \E step \in {"rmtree", "unpark", "unsave"} : Fails(step)
    /\ End("broken")
    /\ scarred' = TRUE
    /\ UNCHANGED dirs

\* The stick is pulled or power is lost in the middle of an operation.
Cut == /\ run.op # "idle" /\ "cut" \in Faults
       /\ End("broken")
       /\ scarred' = TRUE
       /\ UNCHANGED dirs

\* The test is staged again, from another MADT or another OpenCore; or the build
\* stops after it removed the old one, which a missing manifest shows.
Restage == /\ run.op = "idle"
           /\ staged' \in Builds \cup {0}
           /\ UNCHANGED <<efi, backup, saved, run, before, outcome, scarred>>

Init == /\ efi = Fpt /\ backup = Absent /\ saved = Absent
        /\ staged \in Builds
        /\ run = Idle
        /\ before = dirs
        /\ outcome = "none"
        /\ scarred = FALSE

Install == StartInstall \/ Park \/ MakeDirectory \/ (\E p \in Parts : CopyPart(p)) \/ CopyDone
           \/ CopyExtras \/ RollBack \/ (\E p \in Parts : RemovePart(p)) \/ RemoveDirectory \/ Unpark
Restore == StartRestore \/ Save \/ Promote \/ PromoteFails \/ Unsave
Select  == (\E m \in {"enabled", "control"} : StartSelect(m)) \/ Truncate \/ Write \/ WriteFails

Next == Install \/ Restore \/ Select \/ RefusedChange \/ RollbackFails \/ Cut \/ Restage

Spec == Init /\ [][Next]_vars

-----------------------------------------------------------------------------
(***************************************************************************)
(* Properties.                                                             *)
(***************************************************************************)

\* Every variable has its type.
TypeOK ==
    /\ {efi, backup, saved} \subseteq Trees
    /\ staged \in Builds \cup {0}
    /\ run \in Runs
    /\ before \in Trees \X Trees \X Trees
    /\ outcome \in {"none", "running", "done", "failed", "broken"}
    /\ scarred \in BOOLEAN

\* The FPT shell, the only way to reflash the machine, is always whole, in
\* EFI or in its backup and never in both: after any failure, of the rollback
\* too, and wherever the stick is pulled.
FptKept == (efi = Fpt) # (backup = Fpt)

\* An operation that raises, and whose rollback works, leaves the three
\* directories as they were.
FailureUndone == outcome = "failed" => dirs = before

\* Between operations, unless one was cut off or failed beyond its rollback,
\* either FPT is active and nothing is parked, or it is parked and a whole
\* OpenCore tree in one of the two modes is active.
RestWhole ==
    run.op = "idle" /\ ~ scarred =>
        \/ efi = Fpt /\ backup = Absent
        \/ /\ backup = Fpt
           /\ \E b \in Builds, m \in {"enabled", "control"} : efi = Whole(b, m)

\* A restore that succeeds brings back the directory that install parked and
\* keeps the tree it replaces; one that ends any other way keeps that tree
\* too, in EFI or as the saved one.
RestoreKeepsTree ==
    [][run.op = "restore" /\ run'.op = "idle" =>
          /\ before[1] \in {efi', saved'}
          /\ outcome' = "done" => efi' = before[2] /\ saved' = before[1]]_vars

-----------------------------------------------------------------------------
(***************************************************************************)
(* The inductive invariant: where the trees are at each step.              *)
(***************************************************************************)
Installing == {"mkdir", "copy", "extras", "rmtree", "unpark"}
Restoring  == {"promote", "unsave"}

\* Which operation each step belongs to.
StepInv ==
    /\ run.at = "end" <=> run.op = "idle"
    /\ run.at \in Installing \cup {"park"} <=> run.op = "install"
    /\ run.at \in Restoring \cup {"save"} <=> run.op = "restore"
    /\ run.at \in {"open", "write"} <=> run.op \in {"enabled", "control"}
    /\ outcome = "running" <=> run.op # "idle"
    /\ run.op # "idle" => staged \in Builds

\* The FPT shell is active, or parked while EFI is a test, part of one, or gone.
PlaceInv ==
    /\ saved.kind # "fpt"
    /\ \/ efi = Fpt /\ backup = Absent /\ run.at \in {"end", "park"}
       \/ efi.kind # "fpt" /\ backup = Fpt /\ run.at # "park"
    /\ \A t \in {efi, saved} : t.kind = "absent" => t = Absent
    /\ run.at \in Restoring => efi = Absent
    /\ run.at \in {"save", "open", "write"} => efi.kind = "oc"
    /\ run.at = "save" => saved = Absent

\* What a rollback goes back to.
BeforeInv ==
    /\ run.at \in {"park", "save", "open"} \/ outcome = "failed" => before = dirs
    /\ run.at \in Installing => before = <<Fpt, Absent, saved>>
    /\ run.at \in Restoring => before = <<saved, Fpt, Absent>>

\* The copy is whole when nothing failed and nothing is left to copy.
CopyInv ==
    /\ run.at = "unpark" => efi = Absent
    /\ run.at = "copy" => efi.kind = "oc" /\ efi.build \in Builds
    /\ run.at = "copy" /\ ~ run.failed =>
          /\ efi.parts = Parts \ run.todo /\ efi.torn = {}
          /\ "config" \in efi.parts => efi.config = "enabled"
    /\ run.at = "extras" => \E b \in Builds : efi = Whole(b, "enabled")

\* A test that was whole stays so, its mode apart.
WholeInv ==
    /\ ~ scarred /\ run.at \in Restoring =>
          \E b \in Builds, m \in {"enabled", "control"} : saved = Whole(b, m)
    /\ ~ scarred /\ backup = Fpt /\ run.at \in {"end", "save", "open"} =>
          \E b \in Builds, m \in {"enabled", "control"} : efi = Whole(b, m)
    /\ ~ scarred /\ run.at = "write" => \E b \in Builds : efi = Whole(b, "torn")

IInv == TypeOK /\ StepInv /\ PlaceInv /\ BeforeInv /\ CopyInv /\ WholeInv
=============================================================================
