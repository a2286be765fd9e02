-------------------------- MODULE UsbDeployProofs --------------------------
(***************************************************************************)
(* What UsbDeploy keeps for any set of builds and any faults: the FPT shell*)
(* is never lost, a failure whose rollback works is undone, and at rest a  *)
(* whole tree is active.  IInv is the inductive invariant of all of them.  *)
(***************************************************************************)
EXTENDS UsbDeploy, TLAPS

USE DEF Tree, Absent, Fpt, Begun, Whole, Idle, At, dirs, Parts, Configs,
        Installing, Restoring

-----------------------------------------------------------------------------
(***************************************************************************)
(* Trees.                                                                  *)
(***************************************************************************)

\* A staged file copied into a tree, whole or torn, gives a tree that has it.
LEMMA WithPartTree ==
  ASSUME NEW t \in Trees, NEW p \in Parts
  PROVE  /\ WithPart(t, p) \in Trees
         /\ WithPart(t, p).kind = t.kind
         /\ WithPart(t, p).build = t.build
         /\ WithPart(t, p).torn = t.torn
         /\ WithPart(t, p).parts = t.parts \cup {p}
         /\ WithPart(t, p).config = IF p = "config" THEN "enabled" ELSE t.config
<1> DEFINE c == IF p = "config" THEN "enabled" ELSE t.config
<1>1. t.parts \cup {p} \in SUBSET Parts /\ c \in Configs
  BY DEF Trees
<1>2. WithPart(t, p) = [t EXCEPT !.parts = t.parts \cup {p}, !.config = c]
  BY DEF WithPart
<1> QED
  BY <1>1, <1>2 DEF Trees

LEMMA WithTornTree ==
  ASSUME NEW t \in Trees, NEW p \in Parts
  PROVE  WithTorn(t, p) \in Trees /\ WithTorn(t, p).kind = t.kind /\ WithTorn(t, p).build = t.build
<1> DEFINE c == IF p = "config" THEN "torn" ELSE t.config
<1>1. t.parts \cup {p} \in SUBSET Parts /\ t.torn \cup {p} \in SUBSET Parts /\ c \in Configs
  BY DEF Trees
<1>2. WithTorn(t, p) = [t EXCEPT !.parts = t.parts \cup {p}, !.torn = t.torn \cup {p}, !.config = c]
  BY DEF WithTorn
<1> QED
  BY <1>1, <1>2 DEF Trees

\* A file removed from a tree leaves a tree of the same kind.
LEMMA WithoutPartTree ==
  ASSUME NEW t \in Trees, NEW p \in Parts
  PROVE  WithoutPart(t, p) \in Trees /\ WithoutPart(t, p).kind = t.kind
<1> DEFINE c == IF p = "config" THEN "none" ELSE t.config
<1>1. t.parts \ {p} \in SUBSET Parts /\ t.torn \ {p} \in SUBSET Parts /\ c \in Configs
  BY DEF Trees
<1>2. WithoutPart(t, p) = [t EXCEPT !.parts = t.parts \ {p}, !.torn = t.torn \ {p}, !.config = c]
  BY DEF WithoutPart
<1> QED
  BY <1>1, <1>2 DEF Trees

\* Writing the active config.plist of a whole tree leaves it whole.
LEMMA WrittenTree ==
  ASSUME NEW b \in Builds, NEW c \in Configs, NEW d \in Configs
  PROVE  [Whole(b, c) EXCEPT !.config = d] = Whole(b, d)
  OBVIOUS

-----------------------------------------------------------------------------
(***************************************************************************)
(* The invariant.                                                          *)
(***************************************************************************)

\* It holds before the first operation.
LEMMA InitInv == Init => IInv
<1> SUFFICES ASSUME Init
             PROVE  IInv
  OBVIOUS
<1>1. efi \in Trees /\ backup \in Trees /\ saved \in Trees
  BY UsbAssumption DEF Init, Trees
<1>2. TypeOK
  BY <1>1 DEF Init, TypeOK, Runs
<1>3. StepInv /\ PlaceInv /\ BeforeInv /\ CopyInv /\ WholeInv
  BY DEF Init, StepInv, PlaceInv, BeforeInv, CopyInv, WholeInv
<1> QED
  BY <1>2, <1>3 DEF IInv

\* An install keeps it: the copy, and the rollback of a copy that failed.
LEMMA InstallInv ==
  ASSUME IInv, Install
  PROVE  IInv'
<1>1. CASE StartInstall
  BY <1>1 DEF IInv, Trees, Runs, TypeOK, StepInv, PlaceInv,
     BeforeInv, CopyInv, WholeInv, StartInstall, Begin
<1>2. CASE Park
  BY <1>2 DEF IInv, Trees, Runs, TypeOK, StepInv, PlaceInv,
     BeforeInv, CopyInv, WholeInv, Park, Goto
<1>3. CASE MakeDirectory
  <2>1. run' \in Runs
    <3>1. run' = [op |-> run.op, at |-> "copy", todo |-> Parts, failed |-> run.failed]
      BY <1>3 DEF MakeDirectory, IInv, TypeOK, Runs
    <3> QED
      BY <3>1 DEF IInv, TypeOK, Runs
  <2>2. efi' \in Trees
    BY <1>3 DEF MakeDirectory, IInv, TypeOK, Trees
  <2>3. TypeOK'
    BY <1>3, <2>1, <2>2 DEF MakeDirectory, IInv, TypeOK
  <2> QED
    BY <1>3, <2>3 DEF MakeDirectory, IInv, Trees, Runs, TypeOK, StepInv, PlaceInv,
       BeforeInv, CopyInv, WholeInv
<1>4. ASSUME NEW p \in Parts, CopyPart(p)
      PROVE  IInv'
  <2> DEFINE t == WithPart(efi, p)
             u == WithTorn(efi, p)
  <2>1. efi.kind = "oc" /\ efi.build \in Builds /\ efi \in Trees
    BY <1>4 DEF CopyPart, IInv, TypeOK, CopyInv
  <2>2. /\ t \in Trees /\ u \in Trees
        /\ t.kind = efi.kind /\ t.build = efi.build /\ t.parts = efi.parts \cup {p}
        /\ t.config = IF p = "config" THEN "enabled" ELSE efi.config
        /\ t.torn = efi.torn
    BY <2>1, WithPartTree, WithTornTree
  <2>3. u.kind = t.kind /\ u.build = t.build
    BY <2>1, <2>2, WithTornTree
  <2>4. efi' \in Trees /\ efi'.kind = "oc" /\ efi'.build \in Builds
    <3>1. efi' \in {efi, t, u}
      BY <1>4 DEF CopyPart
    <3> HIDE DEF t, u
    <3> QED
      BY <2>1, <2>2, <2>3, <3>1
  <2>5. /\ run' \in Runs /\ run'.op = run.op /\ run'.at = "copy"
        /\ run'.todo = run.todo \ {p}
    BY <1>4 DEF CopyPart, IInv, TypeOK, Runs
  <2>6. TypeOK'
    BY <1>4, <2>4, <2>5 DEF CopyPart, IInv, TypeOK
  <2>7. ASSUME ~ run'.failed
        PROVE  /\ efi'.parts = Parts \ run'.todo /\ efi'.torn = {}
               /\ "config" \in efi'.parts => efi'.config = "enabled"
    <3>1. efi' = t /\ ~ run.failed /\ p \in run.todo
      BY <1>4, <2>7 DEF CopyPart, IInv, TypeOK, Runs
    <3>2. /\ efi.parts = Parts \ run.todo /\ efi.torn = {}
          /\ "config" \in efi.parts => efi.config = "enabled"
      BY <1>4, <3>1 DEF CopyPart, IInv, CopyInv
    <3> HIDE DEF t
    <3> QED
      BY <2>2, <2>5, <3>1, <3>2
  <2>8. CopyInv'
    BY <2>4, <2>5, <2>7 DEF CopyInv
  <2>9. StepInv' /\ PlaceInv' /\ BeforeInv' /\ WholeInv'
    BY <1>4, <2>4, <2>5 DEF CopyPart, IInv, Trees, Runs, TypeOK, StepInv, PlaceInv,
       BeforeInv, CopyInv, WholeInv
  <2> QED
    BY <2>6, <2>8, <2>9 DEF IInv
<1>5. CASE CopyDone
  BY <1>5 DEF IInv, Trees, Runs, TypeOK, StepInv, PlaceInv,
     BeforeInv, CopyInv, WholeInv, CopyDone, Goto
<1>6. CASE CopyExtras
  BY <1>6 DEF IInv, Trees, Runs, TypeOK, StepInv, PlaceInv,
     BeforeInv, CopyInv, WholeInv, CopyExtras, End
<1>7. CASE RollBack
  BY <1>7 DEF IInv, Trees, Runs, TypeOK, StepInv, PlaceInv,
     BeforeInv, CopyInv, WholeInv, RollBack, Fails, Goto
<1>8. ASSUME NEW p \in Parts, RemovePart(p)
      PROVE  IInv'
  <2>1. efi' \in Trees /\ efi'.kind = efi.kind
    BY <1>8, WithoutPartTree DEF RemovePart, IInv, TypeOK
  <2>2. efi.kind = "oc"
    BY <1>8 DEF RemovePart, IInv, TypeOK, PlaceInv, Trees
  <2> QED
    BY <1>8, <2>1, <2>2 DEF RemovePart, IInv, Trees, Runs, TypeOK, StepInv, PlaceInv,
       BeforeInv, CopyInv, WholeInv
<1>9. CASE RemoveDirectory
  BY <1>9 DEF IInv, Trees, Runs, TypeOK, StepInv, PlaceInv,
     BeforeInv, CopyInv, WholeInv, RemoveDirectory, Goto
<1>10. CASE Unpark
  BY <1>10 DEF IInv, Trees, Runs, TypeOK, StepInv, PlaceInv,
     BeforeInv, CopyInv, WholeInv, Unpark, End
<1> QED
  BY <1>1, <1>2, <1>3, <1>4, <1>5, <1>6, <1>7, <1>8, <1>9, <1>10 DEF Install

\* A restore keeps it.
LEMMA RestoreInv ==
  ASSUME IInv, Restore
  PROVE  IInv'
<1>1. CASE StartRestore
  BY <1>1 DEF IInv, Trees, Runs, TypeOK, StepInv, PlaceInv,
     BeforeInv, CopyInv, WholeInv, StartRestore, Restorable, ActiveIs, Begin
<1>2. CASE Save
  BY <1>2 DEF IInv, Trees, Runs, TypeOK, StepInv, PlaceInv,
     BeforeInv, CopyInv, WholeInv, Save, Goto
<1>3. CASE Promote
  BY <1>3 DEF IInv, Trees, Runs, TypeOK, StepInv, PlaceInv,
     BeforeInv, CopyInv, WholeInv, Promote, End
<1>4. CASE PromoteFails
  BY <1>4 DEF IInv, Trees, Runs, TypeOK, StepInv, PlaceInv,
     BeforeInv, CopyInv, WholeInv, PromoteFails, Fails, Goto
<1>5. CASE Unsave
  <2>1. WholeInv'
    BY <1>5 DEF Unsave, End, IInv, PlaceInv, WholeInv
  <2>2. TypeOK' /\ StepInv' /\ PlaceInv' /\ BeforeInv' /\ CopyInv'
    BY <1>5 DEF Unsave, End, IInv, Trees, Runs, TypeOK, StepInv, PlaceInv,
       BeforeInv, CopyInv, WholeInv
  <2> QED
    BY <2>1, <2>2 DEF IInv
<1> QED
  BY <1>1, <1>2, <1>3, <1>4, <1>5 DEF Restore

\* A change of mode keeps it.
LEMMA SelectInv ==
  ASSUME IInv, Select
  PROVE  IInv'
<1>1. ASSUME NEW m \in {"enabled", "control"}, StartSelect(m)
      PROVE  IInv'
  BY <1>1 DEF IInv, Trees, Runs, TypeOK, StepInv, PlaceInv,
     BeforeInv, CopyInv, WholeInv, StartSelect, ActiveIs, Begin
<1>2. CASE Truncate
  <2>1. ~ scarred' => \E b \in Builds : efi' = Whole(b, "torn")
    <3> SUFFICES ASSUME ~ scarred'
                 PROVE  \E b \in Builds : efi' = Whole(b, "torn")
      OBVIOUS
    <3>1. PICK b \in Builds, m \in {"enabled", "control"} : efi = Whole(b, m)
      BY <1>2 DEF Truncate, Goto, IInv, PlaceInv, WholeInv
    <3>2. efi' = Whole(b, "torn")
      BY <1>2, <3>1, WrittenTree DEF Truncate
    <3> QED
      BY <3>2
  <2>2. WholeInv'
    <3>1. run.at = "open" /\ run'.at = "write" /\ scarred' = scarred
      BY <1>2 DEF Truncate, Goto, IInv, TypeOK, Runs
    <3> QED
      BY <2>1, <3>1 DEF WholeInv
  <2>3. TypeOK' /\ StepInv' /\ PlaceInv' /\ BeforeInv' /\ CopyInv'
    BY <1>2 DEF Truncate, Goto, IInv, Trees, Runs, TypeOK, StepInv, PlaceInv,
       BeforeInv, CopyInv, WholeInv
  <2> QED
    BY <2>2, <2>3 DEF IInv
<1>3. CASE Write
  <2>1. ~ scarred' => \E b \in Builds, m \in {"enabled", "control"} : efi' = Whole(b, m)
    <3> SUFFICES ASSUME ~ scarred'
                 PROVE  \E b \in Builds, m \in {"enabled", "control"} : efi' = Whole(b, m)
      OBVIOUS
    <3>1. PICK b \in Builds : efi = Whole(b, "torn")
      BY <1>3 DEF Write, IInv, WholeInv
    <3>2. run.op \in {"enabled", "control"}
      BY <1>3 DEF Write, IInv, StepInv
    <3>3. efi' = Whole(b, run.op)
      BY <1>3, <3>1, <3>2, WrittenTree DEF Write
    <3> QED
      BY <3>2, <3>3
  <2>2. WholeInv'
    BY <1>3, <2>1 DEF Write, End, WholeInv
  <2>3. TypeOK' /\ StepInv' /\ PlaceInv' /\ BeforeInv' /\ CopyInv'
    BY <1>3 DEF Write, End, IInv, Trees, Runs, TypeOK, StepInv, PlaceInv,
       BeforeInv, CopyInv, WholeInv
  <2> QED
    BY <2>2, <2>3 DEF IInv
<1>4. CASE WriteFails
  BY <1>4 DEF IInv, Trees, Runs, TypeOK, StepInv, PlaceInv,
     BeforeInv, CopyInv, WholeInv, WriteFails, Fails, End
<1> QED
  BY <1>1, <1>2, <1>3, <1>4 DEF Select

\* The faults and a new build keep it.
LEMMA FaultInv ==
  ASSUME IInv, RefusedChange \/ RollbackFails \/ Cut \/ Restage
  PROVE  IInv'
<1>1. CASE RefusedChange
  BY <1>1 DEF IInv, Trees, Runs, TypeOK, StepInv, PlaceInv,
     BeforeInv, CopyInv, WholeInv, RefusedChange, Fails, End
<1>2. CASE RollbackFails
  BY <1>2 DEF IInv, Trees, Runs, TypeOK, StepInv, PlaceInv,
     BeforeInv, CopyInv, WholeInv, RollbackFails, Fails, End
<1>3. CASE Cut
  BY <1>3 DEF IInv, Trees, Runs, TypeOK, StepInv, PlaceInv,
     BeforeInv, CopyInv, WholeInv, Cut, End
<1>4. CASE Restage
  BY <1>4 DEF IInv, Trees, Runs, TypeOK, StepInv, PlaceInv,
     BeforeInv, CopyInv, WholeInv, Restage
<1> QED
  BY <1>1, <1>2, <1>3, <1>4

\* So every step of the tool, of its environment, or of neither keeps it.
LEMMA NextInv == IInv /\ [Next]_vars => IInv'
<1> SUFFICES ASSUME IInv, [Next]_vars
             PROVE  IInv'
  OBVIOUS
<1>1. CASE UNCHANGED vars
  BY <1>1 DEF vars, IInv, Trees, Runs, TypeOK, StepInv, PlaceInv,
     BeforeInv, CopyInv, WholeInv
<1>2. CASE Next
  BY <1>2, InstallInv, RestoreInv, SelectInv, FaultInv DEF Next
<1> QED
  BY <1>1, <1>2

-----------------------------------------------------------------------------
(***************************************************************************)
(* The theorems.                                                           *)
(***************************************************************************)

\* The inductive invariant holds in every reachable state.
THEOREM InvariantHolds == Spec => []IInv
  BY InitInv, NextInv, PTL DEF Spec

\* The FPT shell is always whole in exactly one of its two places, whatever
\* fails and wherever the stick is pulled.
THEOREM FptNeverLost == Spec => []FptKept
<1>1. IInv => FptKept
  BY DEF IInv, PlaceInv, FptKept
<1> QED
  BY <1>1, InvariantHolds, PTL

\* An operation that fails and whose rollback works leaves no trace.
THEOREM RollbackRestores == Spec => []FailureUndone
<1>1. IInv => FailureUndone
  BY DEF IInv, BeforeInv, FailureUndone
<1> QED
  BY <1>1, InvariantHolds, PTL

\* At rest, and unscarred, the active tree is whole and FPT is active or parked.
THEOREM WholeAtRest == Spec => []RestWhole
<1>1. IInv => RestWhole
  <2> SUFFICES ASSUME IInv, run.op = "idle", ~ scarred, ~ (efi = Fpt /\ backup = Absent)
               PROVE  /\ backup = Fpt
                      /\ \E b \in Builds, m \in {"enabled", "control"} : efi = Whole(b, m)
    BY DEF RestWhole
  <2>1. run.at = "end"
    BY DEF IInv, StepInv
  <2>2. backup = Fpt
    BY DEF IInv, PlaceInv
  <2> QED
    BY <2>1, <2>2 DEF IInv, WholeInv
<1> QED
  BY <1>1, InvariantHolds, PTL

\* A restore never loses the tree it replaces, and one that succeeds puts the
\* parked directory back.
THEOREM RestoresKeepTheTree == Spec => RestoreKeepsTree
<1> DEFINE Kept == run.op = "restore" /\ run'.op = "idle" =>
              /\ before[1] \in {efi', saved'}
              /\ outcome' = "done" => efi' = before[2] /\ saved' = before[1]
<1>1. ASSUME IInv, [Next]_vars
      PROVE  [Kept]_vars
  <2> SUFFICES ASSUME Next, run.op = "restore", run'.op = "idle"
               PROVE  /\ before[1] \in {efi', saved'}
                      /\ outcome' = "done" => efi' = before[2] /\ saved' = before[1]
    BY <1>1 DEF vars
  <2>1. run.at \in {"save", "promote", "unsave"}
    BY <1>1 DEF IInv, TypeOK, Runs, StepInv
  <2>2. before = <<saved, Fpt, Absent>> \/ before = dirs
    BY <1>1, <2>1 DEF IInv, BeforeInv
  <2>3. run.at \in Restoring => before = <<saved, Fpt, Absent>> /\ backup = Fpt
    BY <1>1 DEF IInv, BeforeInv, PlaceInv
  <2>4. CASE Install
    BY <2>1, <2>4 DEF Install, StartInstall, Park, MakeDirectory, CopyPart, CopyDone, CopyExtras,
       RollBack, RemovePart, RemoveDirectory, Unpark, Begin, Goto, Fails
  <2>5. CASE Restore
    BY <1>1, <2>1, <2>3, <2>5 DEF IInv, TypeOK, Runs, Restore, StartRestore, Save, Promote, PromoteFails, Unsave,
       Begin, Goto, End
  <2>6. CASE Select
    BY <2>1, <2>6 DEF Select, StartSelect, Truncate, Write, WriteFails, Begin, Goto, Fails
  <2>7. CASE RefusedChange \/ RollbackFails \/ Cut \/ Restage
    BY <2>2, <2>7 DEF RefusedChange, RollbackFails, Cut, Restage, End
  <2> QED
    BY <2>4, <2>5, <2>6, <2>7 DEF Next
<1> QED
  BY <1>1, InvariantHolds, PTL DEF Spec, RestoreKeepsTree
=============================================================================
