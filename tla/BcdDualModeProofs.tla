------------------------- MODULE BcdDualModeProofs -------------------------
(***************************************************************************)
(* Proofs about BcdDualMode, for any number of entries and of sessions, any *)
(* initial store and any choice of faults.                                 *)
(***************************************************************************)
EXTENDS BcdDualMode, BcdStoreProofs

-----------------------------------------------------------------------------
(***************************************************************************)
(* The four scripts, command by command.                                   *)
(***************************************************************************)
\* How long the scripts setup, remove, schedule and the rollback of setup are.
LEMMA ScriptLengths ==
    /\ DOMAIN Script = {"setup", "remove", "schedule", "undo"}
    /\ DOMAIN Script["setup"] = 1 .. 20     /\ Len(Script["setup"]) = 20
    /\ DOMAIN Script["remove"] = 1 .. 9     /\ Len(Script["remove"]) = 9
    /\ DOMAIN Script["schedule"] = 1 .. 2   /\ Len(Script["schedule"]) = 2
    /\ DOMAIN Script["undo"] = 1 .. 1       /\ Len(Script["undo"]) = 1
BY DEF Script, SetupScript, RemoveScript, ScheduleScript, UndoScript

\* The commands of setup-bcd-dual-mode.ps1, in the order it issues them.
LEMMA SetupCommands ==
    /\ Script["setup"][1] = AssertBase
    /\ Script["setup"][2] = Export
    /\ Script["setup"][3] = Copy("normal", "fallback")
    /\ Script["setup"][4] = Set("diag", "launch", "auto")
    /\ Script["setup"][5] = Set("diag", "opts", "mbec")
    /\ Script["setup"][6] = Clear("diag", "xsave")
    /\ Script["setup"][7] = Set("diag", "vsm", "off")
    /\ Script["setup"][8] = Set("diag", "desc", "fallback")
    /\ Script["setup"][9] = AddLast("diag")
    /\ Script["setup"][10] = Set("normal", "launch", "off")
    /\ Script["setup"][11] = Clear("normal", "opts")
    /\ Script["setup"][12] = Clear("normal", "xsave")
    /\ Script["setup"][13] = Clear("normal", "vsm")
    /\ Script["setup"][14] = Set("normal", "desc", "normal")
    /\ Script["setup"][15] = Default("normal")
    /\ Script["setup"][16] = ShowMenu
    /\ Script["setup"][17] = Timeout
    /\ Script["setup"][18] = ClearSequence
    /\ Script["setup"][19] = OpenState
    /\ Script["setup"][20] = WriteState
BY DEF Script, SetupScript

\* The commands of remove-bcd-dual-mode.ps1, of schedule-hyperv-diagnostic-once.ps1
\* and of the catch block of setup.
LEMMA OtherCommands ==
    /\ Script["remove"][1] = Export
    /\ Script["remove"][2] = Set("normal", "launch", "off")
    /\ Script["remove"][3] = Clear("normal", "opts")
    /\ Script["remove"][4] = Clear("normal", "xsave")
    /\ Script["remove"][5] = Clear("normal", "vsm")
    /\ Script["remove"][6] = Default("normal")
    /\ Script["remove"][7] = ClearSequence
    /\ Script["remove"][8] = Delete("diag")
    /\ Script["remove"][9] = Archive
    /\ Script["schedule"][1] = Enum("diag")
    /\ Script["schedule"][2] = Sequence("diag")
    /\ Script["undo"][1] = DeleteQuietly("diag")
BY DEF Script, RemoveScript, ScheduleScript, UndoScript

\* A command has the fields it was made from.
LEMMA CmdFields == \A op, on, elem, val, onfail :
    LET c == Cmd(op, on, elem, val, onfail)
    IN  c.op = op /\ c.on = on /\ c.elem = elem /\ c.val = val /\ c.onfail = onfail
BY DEF Cmd

\* What the invariant needs to know of command k of a script: where it may
\* occur, what it is about, and what it cannot do.
SettingOps == {"set", "deletevalue"}
Hyper      == {"launch", "opts", "xsave", "vsm"}
FileOps    == {"openstate", "writestate", "archive"}
ScriptShape(op, k, c) ==
    /\ WellTyped(c)
    /\ c.op \in BcdEditOps \cup FileOps \cup {"copy", "assertbase"}
    /\ c.op \in EntryOps \cup {"copy"} => c.on \in {"normal", "diag"}
    /\ c.on = "normal" => op \in {"setup", "remove"}
    /\ c.op = "copy" <=> op = "setup" /\ k = 3
    /\ c.op = "copy" => c.on = "normal"
    /\ c.op \in SettingOps /\ c.on = "diag" => op = "setup" /\ k > 3
    /\ c.op \in SettingOps /\ c.on = "diag" /\ c.elem = "launch" => c.val = "auto"
    /\ c.op \in SettingOps /\ c.on = "diag" /\ c.elem = "opts" => c.val = "mbec"
    /\ c.op \in SettingOps /\ c.on = "normal" /\ c.elem = "launch" => c.val = "off"
    /\ c.op \in SettingOps /\ c.on = "diag" /\ c.elem = "xsave" => c.val = "absent"
    /\ c.op \in SettingOps /\ c.on = "diag" /\ c.elem = "vsm" => c.val = "off"
    /\ c.op \in SettingOps /\ c.on = "normal" /\ c.elem # "launch" => TurnedOff(op, k)
    /\ c.op \in SettingOps /\ c.on = "normal" /\ c.elem \in Hyper \ {"launch"} => c.val = "absent"
    /\ c.op = "default" => c.on = "normal" /\ TurnedOff(op, k)
    /\ c.op = "bootsequence" => c.on = "diag" /\ op = "schedule"
    /\ c.op = "delete" => c.on = "diag" /\ (op = "undo" \/ (op = "remove" /\ MadeDefault(op, k)))
    /\ c.op = "assertbase" => op = "setup" /\ k = 1
    /\ c.op = "openstate" => op = "setup"
    /\ c.op = "writestate" <=> op = "setup" /\ k = 20
    /\ c.op = "archive" => op = "remove" /\ k = 9
    /\ c.onfail \in {"throw", "ignore"}
    /\ c.onfail = "ignore" => c.op \in {"deletevalue", "clearsequence", "delete"}
    /\ op = "setup" /\ k = 4 => c = Set("diag", "launch", "auto")
    /\ op = "setup" /\ k = 5 => c = Set("diag", "opts", "mbec")
    /\ (op = "setup" /\ k = 10) \/ (op = "remove" /\ k = 2) => c = Set("normal", "launch", "off")
    /\ (op = "setup" /\ k = 15) \/ (op = "remove" /\ k = 6) => c = Default("normal")

\* Each command of setup has that shape.
LEMMA SetupShape == \A k \in 1 .. 20 : ScriptShape("setup", k, Script["setup"][k])
BY SetupCommands, CmdFields
   DEF ScriptShape, WellTyped, Hyper, Elements, Values, SettingOps, FileOps, BcdEditOps, EntryOps,
      BootMgrOps, TurnedOff, MadeDefault, AssertBase, OpenState, WriteState, Archive, Set, Clear, Enum, Copy, Delete, DeleteQuietly,
      AddLast, Default, Sequence, ClearSequence, ShowMenu, Timeout, Export

\* Each command of remove has it.
LEMMA RemoveShape == \A k \in 1 .. 9 : ScriptShape("remove", k, Script["remove"][k])
BY OtherCommands, CmdFields
   DEF ScriptShape, WellTyped, Hyper, Elements, Values, SettingOps, FileOps, BcdEditOps, EntryOps,
      BootMgrOps, TurnedOff, MadeDefault, AssertBase, OpenState, WriteState, Archive, Set, Clear, Enum, Copy, Delete, DeleteQuietly,
      AddLast, Default, Sequence, ClearSequence, ShowMenu, Timeout, Export

\* Each command of schedule has it.
LEMMA ScheduleShape == \A k \in 1 .. 2 : ScriptShape("schedule", k, Script["schedule"][k])
BY OtherCommands, CmdFields
   DEF ScriptShape, WellTyped, Hyper, Elements, Values, SettingOps, FileOps, BcdEditOps, EntryOps,
      BootMgrOps, TurnedOff, MadeDefault, AssertBase, OpenState, WriteState, Archive, Set, Clear, Enum, Copy, Delete, DeleteQuietly,
      AddLast, Default, Sequence, ClearSequence, ShowMenu, Timeout, Export

\* The command of the rollback has it.
LEMMA UndoShape == \A k \in 1 .. 1 : ScriptShape("undo", k, Script["undo"][k])
BY OtherCommands, CmdFields
   DEF ScriptShape, WellTyped, Hyper, Elements, Values, SettingOps, FileOps, BcdEditOps, EntryOps,
      BootMgrOps, TurnedOff, MadeDefault, AssertBase, OpenState, WriteState, Archive, Set, Clear, Enum, Copy, Delete, DeleteQuietly,
      AddLast, Default, Sequence, ClearSequence, ShowMenu, Timeout, Export

\* So every command of every script of tools/windows/bcd has it.
LEMMA Shape ==
    \A op \in DOMAIN Script : \A k \in DOMAIN Script[op] : ScriptShape(op, k, Script[op][k])
BY ScriptLengths, SetupShape, RemoveShape, ScheduleShape, UndoShape

-----------------------------------------------------------------------------
(***************************************************************************)
(* What a step of session s does to the sessions.                          *)
(***************************************************************************)
Sess == SessionStates(DOMAIN Script)

\* What an idle session is.
LEMMA IdleFields ==
    /\ Idle \in Sess
    /\ Idle.op = "idle" /\ Idle.pc = 0 /\ Idle.nid = NoId /\ Idle.did = NoId /\ Idle.made = {}
BY ScriptLengths DEF Idle, Sess, SessionStates, IdsOrNone

Others(s)    == \A t \in Sessions \ {s} : ses'[t] = ses[t]
Ends(s)      == ses'[s] = Idle
Continues(s) == /\ ses[s].pc + 1 \in DOMAIN Script[ses[s].op]
                /\ ses'[s].op = ses[s].op /\ ses'[s].pc = ses[s].pc + 1
                /\ ses'[s].nid = ses[s].nid /\ ses'[s].did = ses[s].did
                /\ ses'[s].made = ses[s].made
RollsBack(s) == /\ ses[s].op = "setup" /\ ses[s].did # NoId
                /\ ses'[s].op = "undo" /\ ses'[s].pc = 1
                /\ ses'[s].nid = ses[s].nid /\ ses'[s].did = ses[s].did
                /\ ses'[s].made = ses[s].made

Command(s) == Script[ses[s].op][ses[s].pc]

\* The command session s is at has the shape lemma Shape describes.
LEMMA CurrentShape ==
    ASSUME TypeOK, NEW s \in Sessions, ses[s].op \in DOMAIN Script
    PROVE  /\ ses[s] \in Sess
           /\ ses[s].pc \in DOMAIN Script[ses[s].op]
           /\ ScriptShape(ses[s].op, ses[s].pc, Command(s))
           /\ Target(s, Command(s)) \in IdsOrNone
<1>1. ses[s] \in Sess /\ ses[s].pc \in DOMAIN Script[ses[s].op]
  BY IdleFields, ScriptLengths DEF TypeOK, MachineTypeOK, Sess
<1> QED
  BY <1>1, Shape DEF Command, Target, TypeOK, MachineTypeOK, Sess, SessionStates, IdsOrNone

\* A command that is done moves its session on, or ends it at the last command.
LEMMA AdvanceEffect ==
    ASSUME TypeOK, NEW s \in Sessions, ses[s].op \in DOMAIN Script,
           Advance(s, Script[ses[s].op])
    PROVE  /\ ses' \in [Sessions -> Sess]
           /\ Others(s)
           /\ Continues(s) \/ (Ends(s) /\ ses[s].pc = Len(Script[ses[s].op]))
<1>1. ses[s] \in Sess /\ ses[s].pc \in DOMAIN Script[ses[s].op]
  BY CurrentShape
<1>2. CASE ses[s].pc = Len(Script[ses[s].op])
  BY <1>1, <1>2, IdleFields DEF Advance, AfterCommand, Others, Ends, TypeOK, MachineTypeOK, Sess
<1>3. CASE ses[s].pc # Len(Script[ses[s].op])
  <2>1. ses[s].pc + 1 \in DOMAIN Script[ses[s].op] /\ ses[s].pc + 1 \in Nat
    BY <1>1, <1>3, ScriptLengths
  <2>2. ses' = [ses EXCEPT ![s] = [ses[s] EXCEPT !.pc = ses[s].pc + 1]]
    BY <1>3 DEF Advance, AfterCommand
  <2> QED
    BY <1>1, <2>1, <2>2 DEF Others, Continues, TypeOK, MachineTypeOK, Sess, SessionStates
<1> QED
  BY <1>2, <1>3

\* An exception ends the script or, once setup has its copy, starts the rollback.
LEMMA ThrowEffect ==
    ASSUME TypeOK, NEW s \in Sessions, ses[s].op \in DOMAIN Script, Throw(s, Catch(s))
    PROVE  /\ ses' \in [Sessions -> Sess]
           /\ Others(s)
           /\ Ends(s) \/ RollsBack(s)
<1>1. ses[s] \in Sess
  BY CurrentShape
<1>2. CASE ses[s].op = "setup" /\ ses[s].did # NoId
  BY <1>1, <1>2, ScriptLengths DEF Throw, Catch, Others, RollsBack, TypeOK, MachineTypeOK, Sess, SessionStates
<1>3. CASE ~ (ses[s].op = "setup" /\ ses[s].did # NoId)
  BY <1>1, <1>3, IdleFields DEF Throw, Catch, Others, Ends, TypeOK, MachineTypeOK, Sess
<1> QED
  BY <1>2, <1>3

-----------------------------------------------------------------------------
(***************************************************************************)
(* What a step of session s does to the store: it touches the running      *)
(* entry, the copy the session itself is making, and nothing else that     *)
(* existed before.                                                         *)
(***************************************************************************)
EntryStep(s) ==
    \A j \in bcd.used, x \in Hyper :
        \/ bcd'.entry[j][x] = bcd.entry[j][x]
        \/ j = current /\ Configuring(s) /\ x = "launch" /\ bcd'.entry[j][x] = "off"
        \/ /\ j = current /\ x # "launch" /\ TurnedOff(ses[s].op, ses[s].pc)
           /\ bcd'.entry[j][x] = "absent"
        \/ /\ j = ses[s].did /\ ses[s].op = "setup"
           /\ x = "launch" => bcd'.entry[j][x] = "auto"
           /\ x = "opts" => bcd'.entry[j][x] = "mbec"
           /\ x = "xsave" => bcd'.entry[j][x] = "absent"
           /\ x = "vsm" => bcd'.entry[j][x] = "off"

DefaultStep(s) == \/ bcd'.default = bcd.default
                  \/ bcd'.default = current /\ TurnedOff(ses[s].op, ses[s].pc)

SeqStep(s) == \/ bcd'.seq \in {bcd.seq, NoId}
              \/ bcd'.seq = ses[s].did /\ ses[s].op = "schedule"

StoreStep(s) ==
    /\ bcd' \in Stores
    /\ bcd.used \subseteq bcd'.used
    /\ bcd'.live \subseteq bcd'.used
    /\ {current, bcd'.default, bcd'.seq} \subseteq bcd'.live \cup {NoId}
    /\ bcd.order \subseteq bcd.live => bcd'.order \subseteq bcd'.live
    /\ bcd'.menu \in {bcd.menu, "yes"}
    /\ \A g \in bcd.live \ bcd'.live : g = ses[s].did /\ ses[s].op # "setup"
    /\ EntryStep(s) /\ DefaultStep(s) /\ SeqStep(s)

\* A command that leaves the store alone touches nothing it should not.
LEMMA UnchangedStoreStep ==
    ASSUME IInv, NEW s \in Sessions, bcd' = bcd
    PROVE  StoreStep(s)
BY DEF StoreStep, EntryStep, DefaultStep, SeqStep, IInv, TypeOK, MachineTypeOK, MachineInv

\* Nor does bcdedit /copy, whose new entry nothing refers to yet.
LEMMA CopiedStoreStep ==
    ASSUME IInv, NEW s \in Sessions, NEW g \in Ids \ bcd.used, NEW i \in bcd.live, NEW d \in Values,
           bcd' = Copied(bcd, i, g, d)
    PROVE  StoreStep(s)
<1>1. bcd \in Stores /\ bcd.used \subseteq Ids
  BY DEF IInv, TypeOK, MachineTypeOK, Stores
<1>2. \A j \in bcd.used : bcd'.entry[j] = bcd.entry[j]
  BY <1>1, CopiedEffect
<1> QED
  BY <1>1, <1>2, CopiedEffect DEF StoreStep, EntryStep, DefaultStep, SeqStep, IInv, MachineInv

\* The entry a command on "normal" is about is the running one.
LEMMA NormalIsCurrent ==
    ASSUME IInv, NEW s \in Sessions, ses[s].op \in DOMAIN Script
    PROVE  /\ current \in Ids
           /\ Command(s).on = "normal" => Target(s, Command(s)) = current
           /\ Command(s).on = "diag" => Target(s, Command(s)) = ses[s].did
           /\ Configuring(s) => ses[s].did # current
<1>1. current \in Ids
  BY ScriptLengths DEF IInv, TypeOK, MachineTypeOK, MachineInv, AllIdle, IdsOrNone
<1>2. Configuring(s) => ses[s].did # current
  BY <1>1, NoIdAssumption DEF IInv, OwnershipInv, Configuring, Making
<1>3. ScriptShape(ses[s].op, ses[s].pc, Command(s))
  BY CurrentShape DEF IInv
<1> QED
  BY <1>1, <1>2, <1>3 DEF Target, ScriptShape, IInv, OwnershipInv, Configuring

\* Nor does any other bcdedit call the scripts make, if it succeeds.
LEMMA ExecutedStoreStep ==
    ASSUME IInv, NEW s \in Sessions, ses[s].op \in DOMAIN Script,
           Command(s).op \in BcdEditOps, Possible(bcd, Command(s), Target(s, Command(s))),
           bcd' = Exec(bcd, Command(s), Target(s, Command(s)))
    PROVE  StoreStep(s)
<1> DEFINE c == Command(s)
           i == Target(s, Command(s))
<1>1. bcd \in Stores /\ bcd.used \subseteq Ids /\ bcd.live \subseteq bcd.used
  BY DEF IInv, TypeOK, MachineTypeOK, Stores, MachineInv
<1>2. i \in IdsOrNone /\ ScriptShape(ses[s].op, ses[s].pc, c)
  BY CurrentShape DEF IInv
<1>3. /\ WellTyped(c) /\ c.op \in BcdEditOps
      /\ Possible(bcd, c, i) /\ bcd' = Exec(bcd, c, i)
  BY <1>2 DEF ScriptShape
<1> HIDE DEF c, i
<1>4. Effect(bcd, c, i, bcd')
  BY <1>1, <1>2, <1>3, ExecEffect
<1>5. c.op \in EntryOps => i \in bcd.live
  BY <1>3 DEF Possible, EntryOps, BootMgrOps
<1>6. EntryStep(s)
  BY <1>1, <1>2, <1>4, NormalIsCurrent DEF c, i, Effect, EntryStep, Configuring, ScriptShape, SettingOps, EntryOps, Hyper, Elements
<1>7. c.op = "delete" => i # current /\ i # bcd.default
  BY <1>1, <1>2, NormalIsCurrent DEF c, i, Effect, ScriptShape, IInv, OwnershipInv, ProgressInv, Configuring, Making
<1>8. DefaultStep(s)
  BY <1>2, <1>4, <1>7, NormalIsCurrent DEF c, i, Effect, DefaultStep, ScriptShape
<1>9. SeqStep(s)
  BY <1>2, <1>4, NormalIsCurrent DEF c, i, Effect, SeqStep, ScriptShape
<1>10. {current, bcd'.default, bcd'.seq} \subseteq bcd'.live \cup {NoId}
  BY <1>4, <1>5, <1>7 DEF Effect, IInv, MachineInv, EntryOps
<1>11. /\ bcd.order \subseteq bcd.live => bcd'.order \subseteq bcd'.live
       /\ bcd'.menu \in {bcd.menu, "yes"}
  BY <1>4, <1>5 DEF Effect, EntryOps
<1>12. \A g \in bcd.live \ bcd'.live : g = ses[s].did /\ ses[s].op # "setup"
  BY <1>2, <1>4, NormalIsCurrent DEF c, i, Effect, ScriptShape
<1> QED
  BY <1>1, <1>4, <1>6, <1>8, <1>9, <1>10, <1>11, <1>12 DEF Effect, StoreStep

-----------------------------------------------------------------------------
(***************************************************************************)
(* A whole step of session s.                                              *)
(***************************************************************************)
FileStep(s) ==
    \/ file' = file
    \/ file' = Torn /\ ses[s].op = "setup"
    \/ file' = NoFile /\ ses[s].op = "remove" /\ ses[s].pc = 9 /\ bcd' = bcd
    \/ /\ file' = Recorded(ses[s].nid, ses[s].did)
       /\ ses[s].op = "setup" /\ ses[s].pc = 20 /\ bcd' = bcd /\ Ends(s)

GetsCopy(s) == /\ ses[s].op = "setup" /\ ses[s].pc = 3
               /\ ses'[s].op = "setup" /\ ses'[s].pc = 4
               /\ ses'[s].nid = ses[s].nid
               /\ ses'[s].did \in (bcd'.used \cap Ids) \ bcd.used
               /\ ses'[s].did \in bcd'.live /\ ses'[s].made = ses[s].made \cup {ses'[s].did}

\* A command that must not fail has had its effect when the script goes on.
Progresses(s) ==
    LET op == ses[s].op  pc == ses[s].pc
    IN  /\ op = "setup" => pc # 3
        /\ op = "setup" /\ pc = 4 => bcd'.entry[ses[s].did]["launch"] = "auto"
        /\ op = "setup" /\ pc = 5 => bcd'.entry[ses[s].did]["opts"] = "mbec"
        /\ (op = "setup" /\ pc = 10) \/ (op = "remove" /\ pc = 2)
              => bcd'.entry[current]["launch"] = "off"
        /\ (op = "setup" /\ pc = 15) \/ (op = "remove" /\ pc = 6) => bcd'.default = current

SessionStep(s) == /\ Others(s)
                  /\ \/ Ends(s)
                     \/ RollsBack(s)
                     \/ GetsCopy(s)
                     \/ Continues(s) /\ Progresses(s)

Observed == swallowed' \in BOOLEAN /\ leaked' \subseteq Ids

\* Every new entry belongs to the session, if it can read the GUID of its copy.
Accounted(s) == "parse" \notin Faults => bcd'.live \subseteq bcd.live \cup ses'[s].made

StepEffect(s) ==
    /\ ses[s].op \in DOMAIN Script
    /\ ses' \in [Sessions -> Sess]
    /\ StoreStep(s) /\ FileStep(s) /\ SessionStep(s) /\ Observed /\ Accounted(s)
    /\ UNCHANGED <<current, mode>>

\* A bcdedit call that succeeds has the effect described above.
LEMMA SucceedEffect ==
    ASSUME IInv, NEW s \in Sessions, ses[s].op \in DOMAIN Script,
           Succeed(s, Script[ses[s].op], Command(s)), UNCHANGED file
    PROVE  StepEffect(s)
<1> DEFINE c == Command(s)
           i == Target(s, Command(s))
<1>1. /\ c.op \in BcdEditOps /\ Possible(bcd, c, i) /\ bcd' = Exec(bcd, c, i)
      /\ Advance(s, Script[ses[s].op]) /\ UNCHANGED <<current, mode, swallowed, leaked>>
  BY DEF Succeed
<1>2. StoreStep(s)
  BY <1>1, ExecutedStoreStep
<1>3. /\ ScriptShape(ses[s].op, ses[s].pc, c) /\ i \in IdsOrNone /\ ses[s] \in Sess
  BY CurrentShape DEF IInv
<1>4. Effect(bcd, c, i, bcd')
  <2>1. bcd \in Stores /\ WellTyped(c)
    BY <1>3 DEF IInv, TypeOK, MachineTypeOK, ScriptShape
  <2> HIDE DEF c, i
  <2> QED
    BY <1>1, <1>3, <2>1, ExecEffect
<1>5. Progresses(s)
  <2>1. c.op = "set" => i \in Ids
    BY <1>1, <1>3 DEF Possible, BootMgrOps, IInv, TypeOK, MachineTypeOK, Stores
  <2>2. ses[s].op = "setup" => ses[s].pc # 3
    BY <1>1, <1>3 DEF ScriptShape, BcdEditOps, BootMgrOps, EntryOps
  <2>3. ses[s].op = "setup" /\ ses[s].pc = 4 => bcd'.entry[ses[s].did]["launch"] = "auto"
    BY <1>3, <1>4, <2>1, NormalIsCurrent, CmdFields DEF Effect, ScriptShape, Set, Elements
  <2>4. ses[s].op = "setup" /\ ses[s].pc = 5 => bcd'.entry[ses[s].did]["opts"] = "mbec"
    BY <1>3, <1>4, <2>1, NormalIsCurrent, CmdFields DEF Effect, ScriptShape, Set, Elements
  <2>5. (ses[s].op = "setup" /\ ses[s].pc = 10) \/ (ses[s].op = "remove" /\ ses[s].pc = 2)
           => bcd'.entry[current]["launch"] = "off"
    BY <1>3, <1>4, <2>1, NormalIsCurrent, CmdFields DEF Effect, ScriptShape, Set, Elements
  <2>6. (ses[s].op = "setup" /\ ses[s].pc = 15) \/ (ses[s].op = "remove" /\ ses[s].pc = 6)
           => bcd'.default = current
    BY <1>3, <1>4, NormalIsCurrent, CmdFields DEF Effect, ScriptShape, Default
  <2> QED
    BY <2>2, <2>3, <2>4, <2>5, <2>6 DEF Progresses
<1>6. Accounted(s)
  BY <1>4 DEF Effect, Accounted
<1> QED
  BY <1>1, <1>2, <1>5, <1>6, AdvanceEffect
     DEF StepEffect, FileStep, SessionStep, Observed, IInv, TypeOK, MachineTypeOK

\* A bcdedit call that fails, under -AllowFailure or not, has it.
LEMMA FailEffect ==
    ASSUME IInv, NEW s \in Sessions, ses[s].op \in DOMAIN Script, UNCHANGED file,
           \/ FailSoftly(s, Script[ses[s].op], Command(s))
           \/ FailHard(s, Command(s), Catch(s))
    PROVE  StepEffect(s)
<1>1. bcd' = bcd /\ UNCHANGED <<current, mode>>
  BY DEF FailSoftly, FailHard
<1>2. StoreStep(s)
  BY <1>1, UnchangedStoreStep
<1>3. Observed /\ Accounted(s)
  BY <1>1 DEF FailSoftly, FailHard, Observed, Accounted, IInv, TypeOK, MachineTypeOK, Stores
<1>4. ScriptShape(ses[s].op, ses[s].pc, Command(s))
  BY CurrentShape DEF IInv
<1>5. CASE FailSoftly(s, Script[ses[s].op], Command(s))
  <2>1. Progresses(s)
    BY <1>4, <1>5, CmdFields DEF FailSoftly, Progresses, ScriptShape, Set, Default
  <2> QED
    BY <1>1, <1>2, <1>3, <1>5, <2>1, AdvanceEffect
       DEF FailSoftly, StepEffect, FileStep, SessionStep, IInv
<1>6. CASE FailHard(s, Command(s), Catch(s))
  BY <1>1, <1>2, <1>3, <1>6, ThrowEffect DEF FailHard, StepEffect, FileStep, SessionStep, IInv
<1> QED
  BY <1>5, <1>6

\* bcdedit /copy has it: the new GUID becomes the copy of this session alone.
LEMMA CopyEffect ==
    ASSUME IInv, NEW s \in Sessions, ses[s].op \in DOMAIN Script, UNCHANGED file,
           CopyEntry(s, Script[ses[s].op], Command(s))
    PROVE  StepEffect(s)
<1> DEFINE c == Command(s)
           i == Target(s, Command(s))
<1>1. PICK g \in Ids \ bcd.used :
         /\ bcd' = Copied(bcd, i, g, c.val)
         /\ ses' = [ses EXCEPT ![s] = AfterCommand(WithCopy(@, g), Script[ses[s].op])]
  BY DEF CopyEntry
<1>2. /\ c.op = "copy" /\ i \in bcd.live
      /\ UNCHANGED <<current, mode, swallowed, leaked>>
  BY DEF CopyEntry, Possible, BootMgrOps
<1>3. ScriptShape(ses[s].op, ses[s].pc, c) /\ ses[s] \in Sess
  BY CurrentShape DEF IInv
<1>4. c.val \in Values /\ ses[s].op = "setup" /\ ses[s].pc = 3
  BY <1>2, <1>3 DEF ScriptShape, WellTyped
<1>5. StoreStep(s)
  BY <1>1, <1>2, <1>4, CopiedStoreStep
<1>6. /\ Others(s) /\ ses' \in [Sessions -> Sess]
      /\ ses'[s].op = "setup" /\ ses'[s].pc = 4 /\ ses'[s].nid = ses[s].nid /\ ses'[s].did = g
      /\ ses'[s].made = ses[s].made \cup {g}
  <2> DEFINE r == WithCopy(ses[s], g)
  <2>1. /\ r \in Sess /\ r.op = "setup" /\ r.pc = 3 /\ r.nid = ses[s].nid /\ r.did = g
        /\ r.made = ses[s].made \cup {g}
    BY <1>3, <1>4 DEF WithCopy, Sess, SessionStates, IdsOrNone
  <2>2. ses' = [ses EXCEPT ![s] = AfterCommand(r, Script["setup"])]
    BY <1>1, <1>4
  <2> HIDE DEF r
  <2>3. AfterCommand(r, Script["setup"]) = [r EXCEPT !.pc = r.pc + 1]
    BY <2>1, ScriptLengths DEF AfterCommand
  <2>4. ses' = [ses EXCEPT ![s] = [r EXCEPT !.pc = r.pc + 1]]
    BY <2>2, <2>3
  <2> QED
    BY <2>1, <2>4 DEF Others, Sess, SessionStates, IInv, TypeOK, MachineTypeOK
<1>7. g \in bcd'.used /\ g \in bcd'.live
  BY <1>1, <1>2, <1>4, CopiedEffect DEF IInv, TypeOK, MachineTypeOK
<1>8. Accounted(s)
  BY <1>1, <1>2, <1>4, <1>6, CopiedEffect DEF Accounted, IInv, TypeOK, MachineTypeOK
<1> QED
  BY <1>2, <1>4, <1>5, <1>6, <1>7, <1>8
     DEF StepEffect, FileStep, SessionStep, GetsCopy, Observed, IInv, TypeOK, MachineTypeOK

\* A /copy whose output setup cannot read has it: the new entry is nobody's.
LEMMA CopyUnreadEffect ==
    ASSUME IInv, NEW s \in Sessions, ses[s].op \in DOMAIN Script, UNCHANGED file,
           CopyUnread(s, Command(s), Catch(s))
    PROVE  StepEffect(s)
<1> DEFINE c == Command(s)
           i == Target(s, Command(s))
<1>1. PICK g \in Ids \ bcd.used : bcd' = Copied(bcd, i, g, c.val)
  BY DEF CopyUnread
<1>2. /\ c.op = "copy" /\ i \in bcd.live /\ Throw(s, Catch(s)) /\ "parse" \in Faults
      /\ UNCHANGED <<current, mode, swallowed, leaked>>
  BY DEF CopyUnread, Possible, BootMgrOps
<1>3. c.val \in Values
  BY CurrentShape DEF IInv, ScriptShape, WellTyped
<1>4. StoreStep(s)
  BY <1>1, <1>2, <1>3, CopiedStoreStep
<1>5. Accounted(s)
  BY <1>2 DEF Accounted
<1> QED
  BY <1>1, <1>2, <1>4, <1>5, ThrowEffect
     DEF StepEffect, FileStep, SessionStep, Observed, IInv, TypeOK, MachineTypeOK

\* The check of the base entry and the operations on the state file have it.
LEMMA OwnCommandEffect ==
    ASSUME IInv, NEW s \in Sessions, ses[s].op \in DOMAIN Script,
           CheckBase(s, Command(s)) \/ FileCommand(s, Command(s))
    PROVE  StepEffect(s)
<1>1. bcd' = bcd /\ UNCHANGED <<current, mode, swallowed, leaked>>
  BY DEF CheckBase, FileCommand
<1>2. StoreStep(s) /\ Observed /\ Accounted(s)
  BY <1>1, UnchangedStoreStep DEF Observed, Accounted, IInv, TypeOK, MachineTypeOK
<1>3. ScriptShape(ses[s].op, ses[s].pc, Command(s)) /\ TypeOK
  BY CurrentShape DEF IInv
<1>4. CASE CheckBase(s, Command(s))
  <2>1. Command(s).op = "assertbase" /\ ses[s].op = "setup" /\ ses[s].pc = 1 /\ file' = file
    BY <1>3, <1>4 DEF CheckBase, ScriptShape
  <2>2. Script[ses[s].op] = SetupScript
    BY <2>1 DEF Script
  <2>3. Advance(s, Script[ses[s].op]) \/ Throw(s, Catch(s))
    BY <1>4, <2>2 DEF CheckBase
  <2>4. Progresses(s)
    BY <2>1 DEF Progresses
  <2> QED
    BY <1>1, <1>2, <1>3, <2>1, <2>3, <2>4, AdvanceEffect, ThrowEffect
       DEF StepEffect, FileStep, SessionStep
<1>5. CASE FileCommand(s, Command(s))
  <2>1. CASE Throw(s, Catch(s)) /\ UNCHANGED file
    BY <1>1, <1>2, <1>3, <2>1, ThrowEffect DEF StepEffect, FileStep, SessionStep
  <2>2. CASE /\ Advance(s, Script[ses[s].op])
             /\ file' = CASE Command(s).op = "openstate"  -> Torn
                          [] Command(s).op = "writestate" -> Recorded(ses[s].nid, ses[s].did)
                          [] Command(s).op = "archive"    -> NoFile
    <3>1. Command(s).op \in FileOps
      BY <1>5 DEF FileCommand, FileOps
    <3>2. Progresses(s)
      BY <1>3, <3>1, CmdFields DEF Progresses, ScriptShape, FileOps, Set, Default
    <3>3. ses[s].op = "setup" /\ ses[s].pc = 20 => Ends(s)
      <4>1. ses[s].op = "setup" /\ ses[s].pc = 20 => ~ Continues(s)
        BY ScriptLengths DEF Continues
      <4> QED
        BY <1>3, <2>2, <4>1, AdvanceEffect
    <3>4. FileStep(s)
      BY <1>1, <1>3, <2>2, <3>1, <3>3 DEF FileStep, ScriptShape, FileOps
    <3> QED
      BY <1>1, <1>2, <1>3, <2>2, <3>2, <3>4, AdvanceEffect DEF StepEffect, SessionStep
  <2> QED
    BY <1>5, <2>1, <2>2 DEF FileCommand
<1> QED
  BY <1>4, <1>5

\* So every step of a session has the effect described above.
LEMMA StepHasEffect ==
    ASSUME IInv, NEW s \in Sessions, Step(s)
    PROVE  StepEffect(s)
BY SucceedEffect, FailEffect, CopyEffect, CopyUnreadEffect, OwnCommandEffect
   DEF Step, BcdCommand, Command

-----------------------------------------------------------------------------
(***************************************************************************)
(* The invariant is inductive.                                             *)
(***************************************************************************)
\* The three kinds of state file are well formed.
LEMMA FileTypes ==
    /\ NoFile \in Files /\ NoFile.kind = "none" /\ NoFile.diag = NoId
    /\ Torn \in Files /\ Torn.kind = "torn" /\ Torn.diag = NoId
    /\ \A n, d \in IdsOrNone : /\ Recorded(n, d) \in Files
                               /\ Recorded(n, d).kind = "record" /\ Recorded(n, d).diag = d
BY DEF NoFile, Torn, Recorded, Files, IdsOrNone

\* The inductive invariant holds before the first script is run.
LEMMA InitInv == Init => IInv
<1> SUFFICES ASSUME Init PROVE IInv
  OBVIOUS
<1>1. bcd \in Stores
  <2>1. Fresh \in Entries
    BY DEF Fresh, Entries, Elements, Values
  <2>2. bcd.entry \in [Ids -> Entries]
    BY <2>1, OriginalAssumption DEF Init
  <2> QED
    BY <2>2, OriginalAssumption DEF Init, Stores, IdsOrNone
<1>2. TypeOK
  <2>1. current \in Ids /\ mode \in {"off", "hv"}
    BY OriginalAssumption, NoIdAssumption DEF Init, Flavour
  <2>2. ses \in [Sessions -> Sess] /\ \A s \in Sessions : ses[s] = Idle
    BY IdleFields DEF Init
  <2>3. swallowed \in BOOLEAN /\ hadFallback \in BOOLEAN
    BY DEF Init
  <2>4. leaked \subseteq Ids /\ file \in Files
    BY FileTypes DEF Init
  <2> QED
    BY <1>1, <2>1, <2>2, <2>3, <2>4 DEF TypeOK, MachineTypeOK, Sess, IdsOrNone
<1>3. MachineInv
  BY <1>1, IdleFields, NoIdAssumption, OriginalAssumption DEF Init, MachineInv, AllIdle, Flavour
<1>4. FileInv
  BY FileTypes DEF Init, FileInv
<1>5. OwnershipInv /\ ProgressInv
  BY IdleFields DEF Init, OwnershipInv, ProgressInv, Configuring, Making, TurnedOff, MadeDefault
<1> QED
  BY <1>2, <1>3, <1>4, <1>5 DEF IInv

\* Starting a script keeps it: the refusals are what makes its first step safe.
LEMMA StartInv ==
    ASSUME IInv, NEW s \in Sessions, StartSetup(s) \/ StartRemove(s) \/ StartSchedule(s)
    PROVE  IInv'
<1>1. /\ current \in Ids /\ ses[s].op = "idle"
      /\ UNCHANGED <<bcd, current, mode, leaked, file>>
  BY NoIdAssumption DEF StartSetup, StartRemove, StartSchedule, IInv, TypeOK, MachineTypeOK, IdsOrNone
<1>2. PICK op \in {"setup", "remove", "schedule"}, n \in IdsOrNone, d \in IdsOrNone :
         /\ ses' = [ses EXCEPT ![s] = Running(op, n, d)]
         /\ op = "setup" => n = current /\ d = NoId /\ file.kind = "none"
         /\ op # "setup" => n = file.normal /\ d = file.diag /\ file.kind = "record"
         /\ op = "remove" => current # file.diag /\ current = file.normal
  BY <1>1 DEF StartSetup, StartRemove, StartSchedule, IInv, TypeOK, MachineTypeOK, Files, IdsOrNone
<1>3. /\ Running(op, n, d) \in Sess /\ Running(op, n, d).op = op /\ Running(op, n, d).pc = 1
      /\ Running(op, n, d).nid = n /\ Running(op, n, d).did = d
  BY <1>2, ScriptLengths DEF Running, Sess, SessionStates, IdsOrNone
<1>4. /\ ses' \in [Sessions -> Sess] /\ Others(s)
      /\ ses'[s].op = op /\ ses'[s].pc = 1 /\ ses'[s].nid = n /\ ses'[s].did = d
  BY <1>2, <1>3 DEF Others, IInv, TypeOK, MachineTypeOK, Sess
<1>5. TypeOK'
  <2>1. swallowed' \in BOOLEAN /\ hadFallback' \in BOOLEAN
    BY DEF StartSetup, StartRemove, StartSchedule, HasFallback, IInv, TypeOK, MachineTypeOK
  <2>2. \A t \in Sessions :
           \/ ses'[t] = Idle
           \/ ses'[t].op \in DOMAIN Script /\ ses'[t].pc \in DOMAIN Script[ses'[t].op]
    BY <1>2, <1>4, ScriptLengths DEF Others, IInv, TypeOK
  <2> QED
    BY <1>1, <1>4, <2>1, <2>2 DEF IInv, TypeOK, MachineTypeOK, Sess
<1>6. MachineInv'
  BY <1>1, <1>2, <1>4, NoIdAssumption DEF Others, MachineInv, IInv, AllIdle, FileInv
<1>7. FileInv'
  BY <1>1 DEF IInv, FileInv, Fallback, DefaultOff
<1>8. OwnershipInv'
  <2> SUFFICES ASSUME NEW t \in Sessions
               PROVE /\ Configuring(t)' => ses'[t].nid = current /\ file.diag # current
                     /\ ses'[t].op = "setup" => (ses'[t].did = NoId <=> ses'[t].pc <= 3)
                     /\ ses'[t].op = "undo" => ses'[t].did # NoId
                     /\ ses'[t].op = "remove" => ses'[t].did \notin {current, NoId}
                     /\ Making(t)' => /\ ses'[t].did \notin {current, bcd.default, bcd.seq, file.diag}
                                      /\ \A u \in Sessions \ {t} : ses'[u].did # ses'[t].did
    BY <1>1 DEF OwnershipInv
  <2>1. file.kind # "record" \/ file.diag # NoId
    BY DEF IInv, FileInv, Fallback
  <2>2. file.kind = "none" => file.diag = NoId
    BY DEF IInv, FileInv
  <2> QED
    BY <1>1, <1>2, <1>4, <2>1, <2>2, NoIdAssumption DEF Others, IInv, OwnershipInv, Configuring, Making
<1>9. ProgressInv'
  BY <1>1, <1>2, <1>4
     DEF Others, IInv, ProgressInv, FileInv, TurnedOff, MadeDefault, Fallback, DefaultOff
<1> QED
  BY <1>5, <1>6, <1>7, <1>8, <1>9 DEF IInv

\* Every step of a session keeps it, for this session and for the ones that
\* run beside it.
LEMMA StepInv ==
    ASSUME IInv, NEW s \in Sessions, Step(s)
    PROVE  IInv'
<1> DEFINE op == ses[s].op
           pc == ses[s].pc
<1>1. StepEffect(s)
  BY StepHasEffect
<1>2. /\ current \in Ids /\ current' = current /\ mode' = mode
      /\ ses[s] \in Sess /\ op \in DOMAIN Script /\ pc \in DOMAIN Script[op]
      /\ ses' \in [Sessions -> Sess]
      /\ Configuring(s) => ses[s].did # current
  BY <1>1, NormalIsCurrent, CurrentShape DEF IInv, StepEffect
<1>3. TypeOK'
  <2>1. file' \in Files
    BY <1>1, <1>2, FileTypes
       DEF StepEffect, FileStep, Sess, SessionStates, IInv, TypeOK
  <2>2. \A t \in Sessions :
           \/ ses'[t] = Idle
           \/ ses'[t].op \in DOMAIN Script /\ ses'[t].pc \in DOMAIN Script[ses'[t].op]
    BY <1>1, <1>2, ScriptLengths
       DEF StepEffect, SessionStep, Others, Ends, RollsBack, GetsCopy, Continues, IInv, TypeOK
  <2>3. hadFallback' \in BOOLEAN
    BY DEF Step, IInv, TypeOK
  <2> QED
    BY <1>1, <1>2, <2>1, <2>2, <2>3
       DEF StepEffect, StoreStep, Observed, IInv, TypeOK, MachineTypeOK, Sess
<1>4. MachineInv'
  <2>1. \A t \in Sessions : ses'[t].did \in bcd'.used \cup {NoId}
    BY <1>1, <1>2, IdleFields DEF StepEffect, StoreStep, SessionStep, Others, Ends, RollsBack,
       GetsCopy, Continues, IInv, MachineInv
  <2> QED
    BY <1>1, <1>2, <2>1, NoIdAssumption DEF StepEffect, StoreStep, IInv, MachineInv
<1>5. \A t \in Sessions : Making(t) => ses[t].did \in bcd.used
  BY DEF Making, IInv, MachineInv
<1>6. TurnedOff(op, pc) => Configuring(s) /\ ~ Launches(bcd.entry[current])
  BY DEF TurnedOff, Configuring, IInv, ProgressInv
\* A default with Hyper-V off stays off.
<1>7. DefaultOff => DefaultOff'
  <2>1. bcd.default \in bcd.used \cup {NoId} /\ current \in bcd.used
    BY <1>2, NoIdAssumption DEF IInv, MachineInv
  <2>2. op = "setup" => ses[s].did # bcd.default \/ bcd.default = NoId
    BY DEF IInv, OwnershipInv, Making
  <2> QED
    BY <1>1, <1>2, <1>6, <2>1, <2>2, NoIdAssumption
       DEF StepEffect, StoreStep, EntryStep, DefaultStep, Hyper, DefaultOff, Launches
\* A fallback that is neither the running entry nor being made stays one.
<1>8. \A i \in bcd.used : /\ Fallback(i) 
                          /\ Configuring(s) => i # current
                          /\ op = "setup" => i # ses[s].did
                          => Fallback(i)'
  BY <1>1, <1>6 DEF StepEffect, StoreStep, EntryStep, Hyper, Fallback, Launches, Configuring
<1>9. FileInv'
  <2>1. CASE file' = file
    <3>1. file.kind = "record" => /\ file.diag \in bcd.used
                                  /\ op = "setup" => file.diag # ses[s].did
      BY NoIdAssumption DEF IInv, FileInv, OwnershipInv, Making, Fallback
    <3>2. file.kind = "record" => Fallback(file.diag)' /\ DefaultOff'
      BY <1>7, <1>8, <2>1, <3>1 DEF IInv, FileInv, OwnershipInv, Fallback
    <3> QED
      BY <1>1, <2>1, <3>2 DEF IInv, FileInv, StepEffect, StoreStep, Fallback
  <2>2. CASE file' = Torn \/ file' = NoFile
    BY <2>2, FileTypes DEF FileInv
  <2>3. CASE /\ file' = Recorded(ses[s].nid, ses[s].did) /\ bcd' = bcd
             /\ op = "setup" /\ pc = 20
    <3>1. /\ ses[s].did # NoId /\ ses[s].did \in bcd.used
          /\ file'.kind = "record" /\ file'.diag = ses[s].did
      BY <1>2, <2>3, FileTypes DEF IInv, OwnershipInv, MachineInv, Sess, SessionStates
    <3>2. Fallback(ses[s].did) /\ DefaultOff
      BY <1>2, <2>3, <3>1, NoIdAssumption
         DEF IInv, ProgressInv, Fallback, DefaultOff, TurnedOff, MadeDefault
    <3> QED
      BY <2>3, <3>1, <3>2 DEF FileInv, Fallback, DefaultOff
  <2> QED
    BY <1>1, <2>1, <2>2, <2>3 DEF StepEffect, FileStep
<1>10. Configuring(s) => file'.diag # current
  <2>1. Configuring(s) => ses[s].did # current /\ NoId # current /\ file.diag # current
    BY <1>2, NoIdAssumption DEF IInv, OwnershipInv
  <2> QED
    BY <1>1, <1>2, <2>1, FileTypes DEF StepEffect, FileStep, Sess, SessionStates
<1>11. file' # file => Configuring(s)
  BY <1>1 DEF StepEffect, FileStep, Configuring
<1>12. OwnershipInv'
  <2> SUFFICES ASSUME NEW t \in Sessions
               PROVE /\ Configuring(t)' => ses'[t].nid = current' /\ file'.diag # current'
                     /\ ses'[t].op = "setup" => (ses'[t].did = NoId <=> ses'[t].pc <= 3)
                     /\ ses'[t].op = "undo" => ses'[t].did # NoId
                     /\ ses'[t].op = "remove" => ses'[t].did \notin {current', NoId}
                     /\ Making(t)' => /\ ses'[t].did \notin {current', bcd'.default, bcd'.seq, file'.diag}
                                      /\ \A u \in Sessions \ {t} : ses'[u].did # ses'[t].did
    BY DEF OwnershipInv
  <2>1. Configuring(t)' => Configuring(t)
    BY <1>1, IdleFields DEF StepEffect, SessionStep, Others, Ends, RollsBack, GetsCopy, Continues, Configuring
  <2>2. Configuring(t)' => ses'[t].nid = ses[t].nid
    BY <1>1, IdleFields DEF StepEffect, SessionStep, Others, Ends, RollsBack, GetsCopy, Continues, Configuring
  <2>3. Configuring(t)' => ses'[t].nid = current' /\ file'.diag # current'
    BY <1>2, <1>10, <1>11, <2>1, <2>2 DEF IInv, OwnershipInv
  <2>4. /\ ses'[t].op = "setup" => (ses'[t].did = NoId <=> ses'[t].pc <= 3)
        /\ ses'[t].op = "undo" => ses'[t].did # NoId
        /\ ses'[t].op = "remove" => ses'[t].did \notin {current', NoId}
    BY <1>1, <1>2, IdleFields, NoIdAssumption, ScriptLengths
       DEF StepEffect, SessionStep, Others, Ends, RollsBack, GetsCopy, Continues, Progresses, IInv, OwnershipInv
  <2>5. ASSUME Making(t)'
        PROVE  /\ ses'[t].did \notin {current', bcd'.default, bcd'.seq, file'.diag}
               /\ \A u \in Sessions \ {t} : ses'[u].did # ses'[t].did
    <3>1. Configuring(t)' /\ Configuring(t) /\ ses'[t].did # NoId
      BY <2>1, <2>5 DEF Making, Configuring
    <3>2. CASE t = s /\ GetsCopy(s)
      <4>1. ses'[s].did \in (bcd'.used \cap Ids) \ bcd.used /\ op = "setup"
        BY <3>2 DEF GetsCopy
      <4>2. /\ {current, bcd.default, bcd.seq} \subseteq bcd.used \cup {NoId}
            /\ file.diag \in bcd.used \cup {NoId}
        BY DEF IInv, MachineInv, FileInv
      <4>3. bcd'.default \in {bcd.default, current} /\ bcd'.seq \in {bcd.seq, NoId}
        BY <1>1, <4>1 DEF StepEffect, StoreStep, DefaultStep, SeqStep
      <4>4. file'.diag \in {file.diag, NoId}
        BY <1>1, <3>2, FileTypes DEF StepEffect, FileStep, GetsCopy
      <4>5. \A u \in Sessions \ {s} : ses'[u].did \in bcd.used \cup {NoId}
        BY <1>1 DEF StepEffect, SessionStep, Others, IInv, MachineInv
      <4> QED
        BY <1>2, <3>2, <4>1, <4>2, <4>3, <4>4, <4>5, NoIdAssumption
    <3>3. CASE ~ (t = s /\ GetsCopy(s))
      <4>1. ses'[t].did = ses[t].did /\ Making(t)
        BY <1>1, <2>5, <3>1, <3>3, IdleFields
           DEF StepEffect, SessionStep, Others, Ends, RollsBack, Continues, Making
      <4>2. /\ ses[t].did \notin {current, bcd.default, bcd.seq, file.diag}
            /\ \A u \in Sessions \ {t} : ses[u].did # ses[t].did
            /\ ses[t].did \in bcd.used
        BY <1>5, <4>1 DEF IInv, OwnershipInv
      <4>3. ses[t].did \notin {current', bcd'.default, bcd'.seq}
        BY <1>1, <1>2, <3>1, <4>1, <4>2, NoIdAssumption
           DEF StepEffect, StoreStep, DefaultStep, SeqStep, Configuring, Making
      <4>4. ses[t].did # file'.diag
        BY <1>1, <1>2, <4>1, <4>2, <3>1, <2>5, FileTypes, IdleFields
           DEF StepEffect, FileStep, Ends, Making, Sess, SessionStates
      <4>5. ASSUME NEW u \in Sessions \ {t} PROVE ses'[u].did # ses[t].did
        BY <1>1, <4>2, <3>1, <4>1, IdleFields
           DEF StepEffect, SessionStep, Others, Ends, RollsBack, GetsCopy, Continues
      <4> QED
        BY <4>1, <4>3, <4>4, <4>5
    <3> QED
      BY <3>2, <3>3
  <2> QED
    BY <2>3, <2>4, <2>5
<1>13. ProgressInv'
  <2> SUFFICES ASSUME NEW t \in Sessions
               PROVE
        /\ ses'[t].op = "setup" /\ ses'[t].pc > 4 => bcd'.entry[ses'[t].did]["launch"] = "auto"
        /\ ses'[t].op = "setup" /\ ses'[t].pc > 5 => bcd'.entry[ses'[t].did]["opts"] = "mbec"
        /\ TurnedOff(ses'[t].op, ses'[t].pc) => bcd'.entry[current]["launch"] # "auto"
        /\ MadeDefault(ses'[t].op, ses'[t].pc) => bcd'.default = current
        /\ ses'[t].op = "schedule" =>
              /\ Fallback(ses[t].did)' /\ DefaultOff'
              /\ ses'[t].did = current => file'.kind = "record" /\ file'.diag = current
    BY <1>2 DEF ProgressInv, Launches, Fallback
  <2>0. /\ current \in bcd.used
        /\ Making(t) => ses[t].did \in bcd.used /\ ses[t].did # current
        /\ op = "setup" => ses[s].did # current
        /\ op = "setup" /\ Making(t) /\ t # s => ses[s].did # ses[t].did
    BY <1>2, <1>5, NoIdAssumption DEF IInv, MachineInv, OwnershipInv, Making, Configuring
  <2>1. /\ ses'[t].op = "setup" /\ ses'[t].pc > 4 => bcd'.entry[ses'[t].did]["launch"] = "auto"
        /\ ses'[t].op = "setup" /\ ses'[t].pc > 5 => bcd'.entry[ses'[t].did]["opts"] = "mbec"
    <3> SUFFICES ASSUME ses'[t].op = "setup", ses'[t].pc > 4
                 PROVE  /\ bcd'.entry[ses'[t].did]["launch"] = "auto"
                        /\ ses'[t].pc > 5 => bcd'.entry[ses'[t].did]["opts"] = "mbec"
      BY <1>2 DEF Sess, SessionStates
    <3>1. ses[t].op = "setup" /\ ses'[t].did = ses[t].did /\ ses[t].pc > 3
      BY <1>1, <1>2, IdleFields
         DEF StepEffect, SessionStep, Others, Ends, RollsBack, GetsCopy, Continues, Sess, SessionStates
    <3>2. Making(t)
      BY <3>1 DEF Making, IInv, OwnershipInv, TypeOK, MachineTypeOK, SessionStates
    <3>3. CASE t # s
      BY <1>1, <2>0, <3>1, <3>2, <3>3
         DEF StepEffect, StoreStep, EntryStep, Hyper, SessionStep, Others, IInv, ProgressInv, Launches
    <3>4. CASE t = s
      <4>1. Continues(s) /\ Progresses(s)
        BY <1>1, <3>4, IdleFields DEF StepEffect, SessionStep, Ends, RollsBack, GetsCopy
      <4> QED
        BY <1>1, <1>2, <2>0, <3>1, <3>2, <3>4, <4>1, ScriptLengths
           DEF StepEffect, StoreStep, EntryStep, Hyper, Continues, Progresses, IInv, ProgressInv, Launches
    <3> QED
      BY <3>3, <3>4
  <2>3. TurnedOff(ses'[t].op, ses'[t].pc) => bcd'.entry[current]["launch"] # "auto"
    <3>1. ~ Launches(bcd.entry[current]) => bcd'.entry[current]["launch"] # "auto"
      BY <1>1, <2>0 DEF StepEffect, StoreStep, EntryStep, Hyper, Launches
    <3>2. CASE t # s
      BY <1>1, <3>1, <3>2 DEF StepEffect, SessionStep, Others, IInv, ProgressInv
    <3>3. CASE t = s /\ Continues(s) /\ Progresses(s)
      <4>1. TurnedOff(ses'[t].op, ses'[t].pc) =>
               TurnedOff(op, pc) \/ (op = "setup" /\ pc = 10) \/ (op = "remove" /\ pc = 2)
        BY <1>2, <3>3 DEF Continues, TurnedOff, Sess, SessionStates
      <4>2. TurnedOff(op, pc) => ~ Launches(bcd.entry[current])
        BY DEF IInv, ProgressInv
      <4>3. (op = "setup" /\ pc = 10) \/ (op = "remove" /\ pc = 2) => bcd'.entry[current]["launch"] # "auto"
        BY <3>3 DEF Progresses
      <4> QED
        BY <3>1, <4>1, <4>2, <4>3
    <3>4. CASE t = s /\ ~ (Continues(s) /\ Progresses(s))
      BY <1>1, <3>4, IdleFields DEF StepEffect, SessionStep, Ends, RollsBack, GetsCopy, TurnedOff
    <3> QED
      BY <3>2, <3>3, <3>4
  <2>4. MadeDefault(ses'[t].op, ses'[t].pc) => bcd'.default = current
    <3>1. bcd.default = current => bcd'.default = current
      BY <1>1 DEF StepEffect, StoreStep, DefaultStep
    <3>2. CASE t # s
      BY <1>1, <3>1, <3>2 DEF StepEffect, SessionStep, Others, IInv, ProgressInv
    <3>3. CASE t = s /\ Continues(s) /\ Progresses(s)
      <4>1. MadeDefault(ses'[t].op, ses'[t].pc) =>
               MadeDefault(op, pc) \/ (op = "setup" /\ pc = 15) \/ (op = "remove" /\ pc = 6)
        BY <1>2, <3>3 DEF Continues, MadeDefault, Sess, SessionStates
      <4>2. MadeDefault(op, pc) => bcd.default = current
        BY DEF IInv, ProgressInv
      <4>3. (op = "setup" /\ pc = 15) \/ (op = "remove" /\ pc = 6) => bcd'.default = current
        BY <3>3 DEF Progresses
      <4> QED
        BY <3>1, <4>1, <4>2, <4>3
    <3>4. CASE t = s /\ ~ (Continues(s) /\ Progresses(s))
      BY <1>1, <3>4, IdleFields DEF StepEffect, SessionStep, Ends, RollsBack, GetsCopy, MadeDefault
    <3> QED
      BY <3>2, <3>3, <3>4
  <2>5. ASSUME ses'[t].op = "schedule"
        PROVE  /\ Fallback(ses[t].did)' /\ DefaultOff'
               /\ ses'[t].did = current => file'.kind = "record" /\ file'.diag = current
    <3>1. ses[t].op = "schedule" /\ ses'[t].did = ses[t].did
      BY <1>1, <2>5, IdleFields
         DEF StepEffect, SessionStep, Others, Ends, RollsBack, GetsCopy, Continues
    <3>2. /\ Fallback(ses[t].did) /\ DefaultOff /\ ses[t].did \in bcd.used
          /\ ses[t].did = current => file.kind = "record" /\ file.diag = current
      BY <3>1 DEF IInv, ProgressInv, MachineInv, Fallback
    <3>3. Configuring(s) => ses[t].did # current
      BY <3>2 DEF IInv, OwnershipInv
    <3>4. op = "setup" => ses[t].did # ses[s].did
      BY <3>1, <3>2 DEF IInv, OwnershipInv, Making, Fallback
    <3>5. Fallback(ses[t].did)'
      BY <1>8, <3>1, <3>2, <3>3, <3>4 DEF Fallback
    <3> QED
      BY <1>7, <1>11, <3>1, <3>2, <3>3, <3>5
  <2> QED
    BY <2>1, <2>3, <2>4, <2>5
<1> QED
  BY <1>3, <1>4, <1>9, <1>12, <1>13 DEF IInv

\* Windows goes down or comes up: no session runs, and only the one-shot
\* sequence is consumed.
LEMMA NoSessionInv ==
    ASSUME IInv, bcd' \in Stores,
           bcd'.entry = bcd.entry, bcd'.live = bcd.live, bcd'.used = bcd.used,
           bcd'.default = bcd.default, bcd'.seq \in {bcd.seq, NoId},
           ses' = [s \in Sessions |-> Idle],
           current' \in bcd.live \cup {NoId}, mode' \in {"down", "off", "hv"},
           current' = NoId <=> mode' = "down",
           swallowed' = swallowed, leaked' \subseteq Ids, UNCHANGED <<file, hadFallback>>
    PROVE  IInv'
<1>1. \A s \in Sessions : ses'[s] = Idle
  OBVIOUS
<1>2. TypeOK'
  <2>1. ses' \in [Sessions -> Sess]
    BY IdleFields
  <2>2. current' \in IdsOrNone
    BY DEF IInv, TypeOK, MachineTypeOK, Stores, IdsOrNone
  <2> QED
    BY <1>1, <2>1, <2>2 DEF IInv, TypeOK, MachineTypeOK, Sess
<1>3. MachineInv'
  BY <1>1, IdleFields DEF IInv, MachineInv, AllIdle
<1>4. FileInv'
  BY DEF IInv, FileInv, Fallback, DefaultOff
<1>5. OwnershipInv' /\ ProgressInv'
  BY <1>1, IdleFields DEF OwnershipInv, ProgressInv, Configuring, Making, TurnedOff, MadeDefault
<1> QED
  BY <1>2, <1>3, <1>4, <1>5 DEF IInv

\* Windows going down, in the middle of scripts or not, keeps it.
LEMMA DownInv ==
    ASSUME IInv, Down
    PROVE  IInv'
<1>1. bcd \in Stores /\ bcd.live \subseteq Ids /\ leaked \subseteq Ids
  BY DEF IInv, TypeOK, MachineTypeOK, Stores
<1>2. leaked' \subseteq leaked \cup bcd.live
  BY DEF Down, Stop
<1> QED
  BY <1>1, <1>2, NoSessionInv DEF Down, Stop

\* While Windows is down no session runs.
LEMMA AllSessionsIdle ==
    ASSUME IInv, current = NoId
    PROVE  ses = [s \in Sessions |-> Idle]
<1>1. \A s \in Sessions : ses[s] = Idle
  BY ScriptLengths DEF IInv, TypeOK, MachineInv, AllIdle
<1> QED
  BY <1>1 DEF IInv, TypeOK, MachineTypeOK

\* A boot that nobody attends keeps it.
LEMMA BootInv ==
    ASSUME IInv, Boot
    PROVE  IInv'
<1> DEFINE n == NextBoot(bcd)
<1>1. /\ bcd \in Stores /\ n \in bcd.live /\ n # NoId
  BY DEF Boot, BootUnattended, NextBoot, IInv, TypeOK, MachineTypeOK, MachineInv
<1>2. /\ bcd' \in Stores /\ bcd'.entry = bcd.entry /\ bcd'.live = bcd.live /\ bcd'.used = bcd.used
      /\ bcd'.default = bcd.default /\ bcd'.seq = NoId
  BY <1>1 DEF Boot, BootUnattended, Stores, IdsOrNone
<1>3. /\ current' \in bcd.live \cup {NoId} /\ mode' \in {"down", "off", "hv"}
      /\ current' = NoId <=> mode' = "down"
  BY <1>1 DEF Boot, BootUnattended, Flavour
<1>4. ses' = [s \in Sessions |-> Idle]
  BY AllSessionsIdle DEF Boot, BootUnattended
<1>5. swallowed' = swallowed /\ leaked' \subseteq Ids /\ UNCHANGED <<file, hadFallback>>
  BY DEF Boot, BootUnattended, IInv, TypeOK, MachineTypeOK
<1> QED
  BY <1>2, <1>3, <1>4, <1>5, NoSessionInv

\* A boot from the menu keeps it.
LEMMA PickInv ==
    ASSUME IInv, Pick
    PROVE  IInv'
<1>1. PICK i \in bcd.order \cap bcd.live :
         ~ Crashes(bcd.entry[i]) /\ current' = i /\ mode' = Flavour(bcd, i)
  BY DEF Pick, BootFromMenu
<1>2. bcd \in Stores /\ bcd' = bcd /\ i # NoId
  BY <1>1, NoIdAssumption DEF Pick, BootFromMenu, IInv, TypeOK, MachineTypeOK, Stores
<1>3. mode' \in {"off", "hv"} /\ current' = i
  BY <1>1, <1>2 DEF Flavour
<1>4. ses' = [s \in Sessions |-> Idle]
  BY AllSessionsIdle DEF Pick, BootFromMenu
<1>5. swallowed' = swallowed /\ leaked' \subseteq Ids /\ UNCHANGED <<file, hadFallback>>
  BY DEF Pick, BootFromMenu, IInv, TypeOK, MachineTypeOK
<1> QED
  BY <1>2, <1>3, <1>4, <1>5, NoSessionInv

\* A step that changes nothing keeps it.
LEMMA StutterInv ==
    ASSUME IInv, UNCHANGED vars
    PROVE  IInv'
BY DEF vars, IInv, TypeOK, MachineTypeOK, MachineInv, FileInv, OwnershipInv, ProgressInv, AllIdle,
       Configuring, Making, Fallback, DefaultOff, Launches

\* So the invariant is inductive.
LEMMA NextInv == IInv /\ [Next]_vars => IInv'
BY StartInv, StepInv, DownInv, BootInv, PickInv, StutterInv DEF Next

-----------------------------------------------------------------------------
(***************************************************************************)
(* What the audit relies on, for any number of sessions.                   *)
(***************************************************************************)

\* A bcdedit call after which the script goes on had its effect, or was a call
\* under -AllowFailure that failed: it was impossible or it is on record.
LEMMA ContinuedCommand ==
    ASSUME IInv, NEW s \in Sessions, Step(s), Continues(s), Command(s).op \in BcdEditOps
    PROVE  LET c == Command(s)  i == Target(s, Command(s))
           IN  \/ Possible(bcd, c, i) /\ Effect(bcd, c, i, bcd')
               \/ /\ c.onfail = "ignore" /\ bcd' = bcd
                  /\ c.op = "deletevalue" => ~ Possible(bcd, c, i) \/ swallowed'
<1> DEFINE c == Command(s)
           i == Target(s, Command(s))
<1>1. ses[s].op \in DOMAIN Script /\ ses[s].op # "idle"
  BY ScriptLengths DEF Step
<1>2. ScriptShape(ses[s].op, ses[s].pc, c) /\ i \in IdsOrNone
  BY <1>1, CurrentShape DEF IInv
<1>3. \/ Succeed(s, Script[ses[s].op], c)
      \/ FailSoftly(s, Script[ses[s].op], c)
      \/ FailHard(s, c, Catch(s))
  BY DEF Step, BcdCommand, Command, CopyEntry, CopyUnread, CheckBase, FileCommand,
         BcdEditOps, BootMgrOps, EntryOps
<1>4. ~ FailHard(s, c, Catch(s))
  BY <1>1, ThrowEffect, IdleFields DEF FailHard, Ends, RollsBack, Continues, IInv
<1>5. CASE Succeed(s, Script[ses[s].op], c)
  <2>1. /\ bcd \in Stores /\ WellTyped(c) /\ c.op \in BcdEditOps
        /\ Possible(bcd, c, i) /\ bcd' = Exec(bcd, c, i)
    BY <1>2, <1>5 DEF Succeed, ScriptShape, IInv, TypeOK, MachineTypeOK
  <2> HIDE DEF c, i
  <2>2. Effect(bcd, c, i, bcd')
    BY <1>2, <2>1, ExecEffect
  <2> QED
    BY <2>1, <2>2 DEF c, i
<1>6. CASE FailSoftly(s, Script[ses[s].op], c)
  BY <1>6 DEF FailSoftly
<1> QED
  BY <1>3, <1>4, <1>5, <1>6

\* A setting has been made when the script goes on from it.
LEMMA ContinuedSet ==
    ASSUME IInv, NEW s \in Sessions, Step(s), Continues(s),
           NEW i \in bcd.live, Target(s, Command(s)) = i, NEW on, NEW x \in Elements, NEW v,
           Command(s) = Set(on, x, v)
    PROVE  bcd'.entry[i][x] = v
<1> DEFINE c == Command(s)
<1>1. i \in Ids
  BY DEF IInv, TypeOK, MachineTypeOK, Stores
<1>2. c.op = "set" /\ c.elem = x /\ c.val = v /\ c.onfail = "throw"
  BY CmdFields DEF Set
<1>3. c.op \in BcdEditOps
  BY <1>2 DEF BcdEditOps, EntryOps
<1>4. Effect(bcd, c, i, bcd')
  BY <1>2, <1>3, ContinuedCommand
<1> HIDE DEF c
<1> QED
  BY <1>1, <1>2, <1>4 DEF Effect

\* A value to remove is gone when it does, unless that failed unseen.
LEMMA ContinuedClear ==
    ASSUME IInv, NEW s \in Sessions, Step(s), Continues(s),
           NEW i \in bcd.live, Target(s, Command(s)) = i, NEW on, NEW x \in Elements,
           Command(s) = Clear(on, x)
    PROVE  bcd'.entry[i][x] = "absent" \/ swallowed'
<1> DEFINE c == Command(s)
<1>1. i \in Ids
  BY DEF IInv, TypeOK, MachineTypeOK, Stores
<1>2. c.op = "deletevalue" /\ c.elem = x /\ c.val = "absent"
  BY CmdFields DEF Clear
<1>3. c.op \in BcdEditOps /\ c.op \notin BootMgrOps
  BY <1>2 DEF BcdEditOps, BootMgrOps, EntryOps
<1>4. \/ Effect(bcd, c, i, bcd')
      \/ bcd' = bcd /\ (~ Possible(bcd, c, i) \/ swallowed')
  BY <1>2, <1>3, ContinuedCommand
<1> HIDE DEF c
<1>5. CASE Effect(bcd, c, i, bcd')
  BY <1>1, <1>2, <1>5 DEF Effect
<1>6. CASE bcd' = bcd /\ ~ Possible(bcd, c, i)
  BY <1>1, <1>2, <1>3, <1>6 DEF Possible
<1> QED
  BY <1>4, <1>5, <1>6

\* The boot menu is shown once the script has passed /displaybootmenu.
LEMMA ContinuedMenu ==
    ASSUME IInv, NEW s \in Sessions, Step(s), Continues(s), Command(s) = ShowMenu
    PROVE  bcd'.menu = "yes"
<1> DEFINE c == Command(s)
<1>1. c.op = "displaybootmenu" /\ c.onfail = "throw"
  BY CmdFields DEF ShowMenu
<1>2. c.op \in BcdEditOps
  BY <1>1 DEF BcdEditOps, BootMgrOps
<1>3. Effect(bcd, c, Target(s, c), bcd')
  BY <1>1, <1>2, ContinuedCommand
<1> HIDE DEF c
<1> QED
  BY <1>1, <1>3 DEF Effect

\* What setup has done when it goes on from the commands the audit depends on.
LEMMA SetupProgress ==
    ASSUME IInv, AuditInv, NEW s \in Sessions, Step(s), Continues(s), ses[s].op = "setup"
    PROVE  /\ ses[s].pc = 6  => bcd'.entry[ses[s].did]["xsave"] = "absent" \/ swallowed'
           /\ ses[s].pc = 7  => bcd'.entry[ses[s].did]["vsm"] = "off"
           /\ ses[s].pc = 11 => bcd'.entry[current]["opts"] = "absent" \/ swallowed'
           /\ ses[s].pc = 12 => bcd'.entry[current]["xsave"] = "absent" \/ swallowed'
           /\ ses[s].pc = 13 => bcd'.entry[current]["vsm"] = "absent" \/ swallowed'
           /\ ses[s].pc = 16 => bcd'.menu = "yes"
<1>1. ses[s].op \in DOMAIN Script
  BY ScriptLengths
<1>2. /\ current \in bcd.live
      /\ Command(s).on = "normal" => Target(s, Command(s)) = current
      /\ Command(s).on = "diag" => Target(s, Command(s)) = ses[s].did
  BY <1>1, NormalIsCurrent, NoIdAssumption DEF IInv, MachineInv
<1>3. ses[s].pc > 3 => ses[s].did \in bcd.live
  BY <1>1, CurrentShape, ScriptLengths DEF IInv, OwnershipInv, AuditInv
<1>4. {"opts", "xsave", "vsm"} \subseteq Elements /\ {"off", "absent"} \subseteq Values
  BY DEF Elements, Values
<1>5. ASSUME ses[s].pc = 6
      PROVE  bcd'.entry[ses[s].did]["xsave"] = "absent" \/ swallowed'
  <2>1. Command(s) = Clear("diag", "xsave") /\ Command(s).on = "diag"
    BY <1>5, SetupCommands, CmdFields DEF Command, Clear
  <2>2. ses[s].did \in bcd.live /\ Target(s, Command(s)) = ses[s].did
    BY <1>2, <1>3, <1>5, <2>1
  <2> QED
    BY <1>4, <2>1, <2>2, ContinuedClear
<1>6. ASSUME ses[s].pc = 7
      PROVE  bcd'.entry[ses[s].did]["vsm"] = "off"
  <2>1. Command(s) = Set("diag", "vsm", "off") /\ Command(s).on = "diag"
    BY <1>6, SetupCommands, CmdFields DEF Command, Set
  <2>2. ses[s].did \in bcd.live /\ Target(s, Command(s)) = ses[s].did
    BY <1>2, <1>3, <1>6, <2>1
  <2> QED
    BY <1>4, <2>1, <2>2, ContinuedSet
<1>7. ASSUME NEW x \in {"opts", "xsave", "vsm"}, Command(s) = Clear("normal", x)
      PROVE  bcd'.entry[current][x] = "absent" \/ swallowed'
  <2>1. Command(s).on = "normal"
    BY <1>7, CmdFields DEF Clear
  <2> QED
    BY <1>2, <1>4, <1>7, <2>1, ContinuedClear
<1>8. /\ ses[s].pc = 11 => Command(s) = Clear("normal", "opts")
      /\ ses[s].pc = 12 => Command(s) = Clear("normal", "xsave")
      /\ ses[s].pc = 13 => Command(s) = Clear("normal", "vsm")
      /\ ses[s].pc = 16 => Command(s) = ShowMenu
  BY SetupCommands DEF Command
<1> QED
  BY <1>5, <1>6, <1>7, <1>8, ContinuedMenu

\* What failed unseen stays on record until a setup starts afresh, and what was
\* given up stays given up.
LEMMA Observes ==
    ASSUME NEW s \in Sessions, Step(s)
    PROVE  (swallowed => swallowed') /\ leaked \subseteq leaked'
<1> DEFINE script == Script[ses[s].op]
<1>1. CASE Succeed(s, script, Command(s))
  BY <1>1 DEF Succeed
<1>2. CASE FailSoftly(s, script, Command(s))
  <2>1. swallowed' = (swallowed \/ (Command(s).op = "deletevalue" /\ Possible(bcd, Command(s), Target(s, Command(s)))))
    BY <1>2 DEF FailSoftly
  <2>2. leaked \subseteq leaked'
    BY <1>2 DEF FailSoftly
  <2> QED
    BY <2>1, <2>2, Zenon
<1>3. CASE FailHard(s, Command(s), Catch(s))
  BY <1>3 DEF FailHard
<1>4. CASE CopyEntry(s, script, Command(s))
  BY <1>4 DEF CopyEntry
<1>5. CASE CopyUnread(s, Command(s), Catch(s))
  BY <1>5 DEF CopyUnread
<1>6. CASE CheckBase(s, Command(s)) \/ FileCommand(s, Command(s))
  BY <1>6 DEF CheckBase, FileCommand
<1> QED
  BY <1>1, <1>2, <1>3, <1>4, <1>5, <1>6 DEF Step, BcdCommand, Command

\* A step of a session keeps what the audit relies on.
LEMMA StepAudit ==
    ASSUME IInv, AuditInv, NEW s \in Sessions, Step(s)
    PROVE  AuditInv'
<1> DEFINE op == ses[s].op
           pc == ses[s].pc
<1>1. StepEffect(s) /\ (swallowed => swallowed')
  BY StepHasEffect, Observes
<1>2. /\ current \in Ids /\ current' = current /\ current \in bcd.used
      /\ ses[s] \in Sess /\ op \in DOMAIN Script /\ pc \in DOMAIN Script[op]
      /\ Configuring(s) => ses[s].did # current
  BY <1>1, NormalIsCurrent, CurrentShape, NoIdAssumption DEF IInv, StepEffect, MachineInv
<1>3. TurnedOff(op, pc) => Configuring(s)
  BY DEF TurnedOff, Configuring
<1>4. Configuring(s) => ses[s].nid = current
  BY DEF IInv, OwnershipInv
\* Nobody writes to the copy on record, nor to one in the making but its setup.
<1>5. \A j \in bcd.used, x \in Hyper :
         /\ Configuring(s) => j # current
         /\ op = "setup" => j # ses[s].did
         => bcd'.entry[j][x] = bcd.entry[j][x]
  BY <1>1, <1>3 DEF StepEffect, StoreStep, EntryStep
<1>6. file'.kind = "record" =>
          /\ bcd'.default = file'.normal /\ bcd'.menu = "yes"
          /\ bcd'.entry[file'.normal]["launch"] = "off" /\ bcd'.entry[file'.diag]["vsm"] = "off"
          /\ ~ swallowed' => /\ bcd'.entry[file'.diag]["xsave"] = "absent"
                             /\ \A x \in {"opts", "xsave", "vsm"} :
                                   bcd'.entry[file'.normal][x] = "absent"
  <2>1. CASE file' = file /\ file.kind = "record"
    <3>1. /\ file.normal = bcd.default /\ bcd.default \in bcd.used /\ file.diag \in bcd.used
          /\ Configuring(s) => file.normal = current /\ file.diag # current
          /\ op = "setup" => file.diag # ses[s].did /\ bcd.default # ses[s].did
      BY <2>1, NoIdAssumption
         DEF IInv, MachineInv, FileInv, Fallback, DefaultOff, OwnershipInv, AuditInv, Making, Configuring
    <3>2. bcd'.default = file.normal /\ bcd'.menu = "yes"
      BY <1>1, <1>3, <2>1, <3>1 DEF StepEffect, StoreStep, DefaultStep, AuditInv
    <3>3. \A x \in Hyper : bcd'.entry[file.diag][x] = bcd.entry[file.diag][x]
      BY <1>5, <3>1
    <3>4. /\ bcd'.entry[file.normal]["launch"] \in {bcd.entry[file.normal]["launch"], "off"}
          /\ \A x \in {"opts", "xsave", "vsm"} :
                bcd'.entry[file.normal][x] \in {bcd.entry[file.normal][x], "absent"}
      BY <1>1, <3>1 DEF StepEffect, StoreStep, EntryStep, Hyper
    <3> QED
      BY <1>1, <2>1, <3>2, <3>3, <3>4 DEF AuditInv, Hyper
  <2>2. CASE /\ file' = Recorded(ses[s].nid, ses[s].did) /\ bcd' = bcd
             /\ op = "setup" /\ pc = 20
    <3>1. file'.normal = current /\ file'.diag = ses[s].did
      BY <1>4, <2>2 DEF Recorded, Configuring
    <3>2. bcd.default = current /\ bcd.entry[current]["launch"] = "off"
      BY <2>2 DEF IInv, ProgressInv, AuditInv, MadeDefault, TurnedOff
    <3> QED
      BY <1>1, <2>2, <3>1, <3>2 DEF AuditInv
  <2>3. CASE file' = Torn \/ file' = NoFile
    BY <2>3, FileTypes
  <2> QED
    BY <1>1, <2>1, <2>2, <2>3 DEF StepEffect, FileStep
<1>7. ASSUME NEW t \in Sessions
      PROVE  /\ Configuring(t)' /\ file'.kind = "record" => file'.normal = current'
             /\ TurnedOff(ses'[t].op, ses'[t].pc) => bcd'.entry[current']["launch"] = "off"
  <2>1. Configuring(t)' => Configuring(t)
    BY <1>1, IdleFields DEF StepEffect, SessionStep, Others, Ends, RollsBack, GetsCopy, Continues, Configuring
  <2>2. Configuring(t)' /\ file'.kind = "record" => file'.normal = current'
    BY <1>1, <1>2, <1>4, <2>1, FileTypes
       DEF StepEffect, FileStep, Configuring, AuditInv, Recorded
  <2>3. bcd.entry[current]["launch"] = "off" => bcd'.entry[current]["launch"] = "off"
    BY <1>1, <1>2 DEF StepEffect, StoreStep, EntryStep, Hyper, Configuring
  <2>4. TurnedOff(ses'[t].op, ses'[t].pc) => bcd'.entry[current]["launch"] = "off"
    <3>1. CASE t # s
      BY <1>1, <2>3, <3>1 DEF StepEffect, SessionStep, Others, AuditInv
    <3>2. CASE t = s /\ Continues(s) /\ Progresses(s)
      BY <1>2, <2>3, <3>2, ScriptLengths DEF Continues, Progresses, TurnedOff, AuditInv
    <3>3. CASE t = s /\ ~ (Continues(s) /\ Progresses(s))
      BY <1>1, <3>3, IdleFields DEF StepEffect, SessionStep, Ends, RollsBack, GetsCopy, TurnedOff
    <3> QED
      BY <3>1, <3>2, <3>3
  <2> QED
    BY <1>2, <2>2, <2>4
<1>8. ASSUME NEW t \in Sessions, ses'[t].op = "setup"
      PROVE  /\ ses'[t].did \in bcd'.live \cup {NoId}
             /\ ses'[t].pc > 7 => bcd'.entry[ses'[t].did]["vsm"] = "off"
             /\ ses'[t].pc > 16 => bcd'.menu = "yes"
             /\ ~ swallowed' =>
                   /\ ses'[t].pc > 6  => bcd'.entry[ses'[t].did]["xsave"] = "absent"
                   /\ ses'[t].pc > 11 => bcd'.entry[current']["opts"] = "absent"
                   /\ ses'[t].pc > 12 => bcd'.entry[current']["xsave"] = "absent"
                   /\ ses'[t].pc > 13 => bcd'.entry[current']["vsm"] = "absent"
  <2>1. \A x \in {"opts", "xsave", "vsm"} :
           bcd.entry[current][x] = "absent" => bcd'.entry[current][x] = "absent"
    BY <1>1, <1>2 DEF StepEffect, StoreStep, EntryStep, Hyper, Configuring
  <2>2. bcd.menu = "yes" => bcd'.menu = "yes"
    BY <1>1 DEF StepEffect, StoreStep
  <2>3. CASE t # s
    <3>1. ses'[t] = ses[t] /\ ses[t].op = "setup"
      BY <1>1, <1>8, <2>3 DEF StepEffect, SessionStep, Others
    <3>2. CASE ses[t].did = NoId
      <4>1. ses[t].pc <= 3 /\ ses[t].pc \in 1 .. 20
        BY <3>1, <3>2, ScriptLengths, CurrentShape DEF IInv, OwnershipInv
      <4> QED
        BY <3>1, <3>2, <4>1
    <3>3. CASE ses[t].did # NoId
      <4>1. /\ ses[t].did \in bcd.live /\ ses[t].did \in bcd.used
            /\ ses[t].did # current /\ ses[t].did # ses[s].did
        BY <2>3, <3>1, <3>3 DEF IInv, MachineInv, OwnershipInv, AuditInv, Making
      <4>2. /\ ses[t].did \in bcd'.live
            /\ \A x \in Hyper : bcd'.entry[ses[t].did][x] = bcd.entry[ses[t].did][x]
        BY <1>1, <1>5, <4>1 DEF StepEffect, StoreStep
      <4> QED
        BY <1>1, <1>2, <2>1, <2>2, <3>1, <4>1, <4>2 DEF AuditInv, Hyper
    <3> QED
      BY <3>2, <3>3
  <2>4. CASE t = s /\ GetsCopy(s)
    BY <2>4 DEF GetsCopy
  <2>5. CASE t = s /\ ~ GetsCopy(s)
    <3>1. Continues(s) /\ Progresses(s) /\ op = "setup"
      BY <1>1, <1>8, <2>5, IdleFields DEF StepEffect, SessionStep, Ends, RollsBack, Continues
    <3>2. pc \in 1 .. 19 /\ ses'[s].pc = pc + 1 /\ ses'[s].did = ses[s].did /\ pc # 3
      BY <1>2, <3>1, ScriptLengths DEF Continues, Progresses
    <3>3. CASE pc < 3
      <4>1. ses[s].did = NoId
        BY <3>1, <3>2, <3>3 DEF IInv, OwnershipInv
      <4> QED
        BY <2>5, <3>2, <3>3, <4>1
    <3>4. CASE pc > 3
      <4>0. ses[s].did \in bcd.live
        BY <1>2, <3>1, <3>2, <3>4 DEF IInv, OwnershipInv, AuditInv
      <4>1. /\ ses[s].did \in bcd.live /\ ses[s].did \in bcd.used
            /\ ses[s].did \in bcd'.live
        BY <1>1, <3>1, <4>0 DEF IInv, MachineInv, StepEffect, StoreStep
      <4>2. /\ bcd.entry[ses[s].did]["vsm"] = "off" => bcd'.entry[ses[s].did]["vsm"] = "off"
            /\ bcd.entry[ses[s].did]["xsave"] = "absent" => bcd'.entry[ses[s].did]["xsave"] = "absent"
        BY <1>1, <1>2, <3>1, <4>1 DEF StepEffect, StoreStep, EntryStep, Hyper, Configuring
      <4> QED
        BY <1>1, <1>2, <2>1, <2>2, <2>5, <3>1, <3>2, <3>4, <4>1, <4>2, SetupProgress DEF AuditInv
    <3> QED
      BY <3>2, <3>3, <3>4
  <2> QED
    BY <2>3, <2>4, <2>5
<1> QED
  BY <1>6, <1>7, <1>8 DEF AuditInv

\* Starting a script keeps it: a setup forgets what failed unseen before it only
\* when no other script runs.
LEMMA StartAudit ==
    ASSUME IInv, AuditInv, NEW s \in Sessions, StartSetup(s) \/ StartRemove(s) \/ StartSchedule(s)
    PROVE  AuditInv'
<1>1. UNCHANGED <<bcd, current, file>> /\ ses \in [Sessions -> Sess]
  BY DEF StartSetup, StartRemove, StartSchedule, IInv, TypeOK, MachineTypeOK, Sess
<1>2. /\ Others(s) /\ ses'[s].op \in {"setup", "remove", "schedule"} /\ ses'[s].pc = 1
      /\ ses'[s].op = "setup" => ses'[s].did = NoId /\ file.kind = "none"
      /\ ses'[s].op = "remove" => file.normal = current
  BY <1>1 DEF StartSetup, StartRemove, StartSchedule, Running, Others
<1>3. ~ swallowed' => ~ swallowed \/ (file.kind = "none" /\ AllIdle)
  <2>1. CASE StartSetup(s)
    <3>1. swallowed' = (swallowed /\ ~ AllIdle) /\ file.kind = "none"
      BY <2>1 DEF StartSetup
    <3> QED
      BY <3>1, Zenon
  <2>2. CASE StartRemove(s) \/ StartSchedule(s)
    BY <2>2 DEF StartRemove, StartSchedule
  <2> QED
    BY <2>1, <2>2
<1>4. \A t \in Sessions \ {s} : ses'[t] = ses[t] /\ (ses[t].op = "setup" /\ ~ swallowed' => ~ swallowed)
  BY <1>2, <1>3 DEF Others, AllIdle
<1>5. ASSUME NEW t \in Sessions
      PROVE  /\ Configuring(t)' /\ file.kind = "record" => file.normal = current
             /\ TurnedOff(ses'[t].op, ses'[t].pc) => bcd.entry[current]["launch"] = "off"
             /\ ses'[t].op = "setup" =>
                   /\ ses'[t].did \in bcd.live \cup {NoId}
                   /\ ses'[t].pc > 7 => bcd.entry[ses'[t].did]["vsm"] = "off"
                   /\ ses'[t].pc > 16 => bcd.menu = "yes"
                   /\ ~ swallowed' =>
                         /\ ses'[t].pc > 6  => bcd.entry[ses'[t].did]["xsave"] = "absent"
                         /\ ses'[t].pc > 11 => bcd.entry[current]["opts"] = "absent"
                         /\ ses'[t].pc > 12 => bcd.entry[current]["xsave"] = "absent"
                         /\ ses'[t].pc > 13 => bcd.entry[current]["vsm"] = "absent"
  <2>1. CASE t = s
    BY <1>2, <2>1 DEF Configuring, TurnedOff
  <2>2. CASE t # s
    BY <1>4, <2>2 DEF Configuring, AuditInv
  <2> QED
    BY <2>1, <2>2
<1> QED
  BY <1>1, <1>3, <1>5 DEF AuditInv

\* Windows going down or coming up keeps it.
LEMMA NoSessionAudit ==
    ASSUME AuditInv, \A s \in Sessions : ses'[s] = Idle,
           bcd'.entry = bcd.entry, bcd'.default = bcd.default, bcd'.menu = bcd.menu,
           swallowed' = swallowed, file' = file
    PROVE  AuditInv'
BY IdleFields DEF AuditInv, Configuring, TurnedOff

\* The machine alone keeps the three parts of the store that only scripts change.
LEMMA MachineStep ==
    ASSUME IInv, Down \/ Boot \/ Pick
    PROVE  /\ \A s \in Sessions : ses'[s] = Idle
           /\ bcd'.entry = bcd.entry /\ bcd'.default = bcd.default /\ bcd'.menu = bcd.menu
           /\ bcd'.live = bcd.live /\ bcd'.order = bcd.order
           /\ swallowed' = swallowed /\ file' = file
<1>1. CASE Down
  BY <1>1 DEF Down, Stop
<1>2. CASE Boot \/ Pick
  <2>1. ses' = ses /\ \A s \in Sessions : ses[s] = Idle
    BY <1>2, AllSessionsIdle DEF Boot, BootUnattended, Pick, BootFromMenu
  <2>2. bcd' = [bcd EXCEPT !.seq = NoId] \/ bcd' = bcd
    BY <1>2 DEF Boot, BootUnattended, Pick, BootFromMenu
  <2>3. bcd \in Stores
    BY DEF IInv, TypeOK, MachineTypeOK
  <2> QED
    BY <1>2, <2>1, <2>2, <2>3 DEF Boot, BootUnattended, Pick, BootFromMenu, Stores
<1> QED
  BY <1>1, <1>2

\* So what the audit relies on is inductive, beside IInv.
LEMMA AuditInductive ==
    /\ Init => AuditInv
    /\ IInv /\ AuditInv /\ [Next]_vars => AuditInv'
<1>1. Init => AuditInv
  BY IdleFields, FileTypes DEF Init, AuditInv, Configuring, TurnedOff
<1>2. IInv /\ AuditInv /\ (Down \/ Boot \/ Pick) => AuditInv'
  BY MachineStep, NoSessionAudit
<1>3. AuditInv /\ UNCHANGED vars => AuditInv'
  BY DEF vars, AuditInv, Configuring
<1> QED
  BY <1>1, <1>2, <1>3, StartAudit, StepAudit DEF Next

-----------------------------------------------------------------------------
(***************************************************************************)
(* Who answers for a copy, when one operator works at a time.              *)
(***************************************************************************)

\* A session that ends while it has a copy of its own has put it on record,
\* deleted it, or given it up: setup can only end by writing the state file,
\* since whatever it throws starts its rollback.
LEMMA EndsMaking ==
    ASSUME IInv, NEW s \in Sessions, Step(s), Making(s), Ends(s), ses[s].did \in bcd'.live
    PROVE  ses[s].did \in leaked' \/ file'.diag = ses[s].did
<1> DEFINE c == Command(s)
<1>1. /\ ses[s].op \in DOMAIN Script /\ ses[s] \in Sess /\ ses \in [Sessions -> Sess]
      /\ ses[s].pc \in DOMAIN Script[ses[s].op]
  BY CurrentShape DEF Step, IInv, TypeOK, MachineTypeOK, Sess
<1>2. CASE ses[s].op = "setup"
  <2>1. ~ Throw(s, Catch(s))
    <3>1. Catch(s) = "undo"
      BY <1>2 DEF Catch, Making
    <3>2. ~ RollsBack(s) /\ ses'[s].op = "idle"
      BY IdleFields DEF RollsBack, Ends
    <3> QED
      BY <1>1, <3>1, <3>2 DEF Throw, Sess, SessionStates
  <2>2. ses[s].pc > 3
    BY <1>1, <1>2, ScriptLengths DEF Making, IInv, OwnershipInv
  <2>3. \/ Advance(s, Script["setup"]) /\ c.op # "copy"
        \/ c.op = "copy"
    BY <1>2, <2>1
       DEF Step, BcdCommand, Succeed, FailSoftly, FailHard, CopyEntry, CopyUnread, CheckBase,
           FileCommand, Script, Command, BcdEditOps, BootMgrOps, EntryOps
  <2>4. ScriptShape("setup", ses[s].pc, c)
    BY <1>1, <1>2, CurrentShape DEF IInv
  <2>5. Advance(s, Script["setup"])
    BY <2>2, <2>3, <2>4 DEF ScriptShape
  <2>6. ses[s].pc = 20
    <3>1. ~ Continues(s)
      BY <1>2, IdleFields DEF Ends, Continues
    <3> QED
      BY <1>1, <1>2, <2>5, <3>1, AdvanceEffect, ScriptLengths DEF IInv
  <2>7. c.op = "writestate"
    BY <1>2, <2>6, SetupCommands, CmdFields DEF Command, WriteState
  <2>8. file' = Recorded(ses[s].nid, ses[s].did)
    BY <2>1, <2>7 DEF Step, BcdCommand, Succeed, FailSoftly, FailHard, CopyEntry, CopyUnread,
       CheckBase, FileCommand, Command, BcdEditOps, BootMgrOps, EntryOps
  <2> QED
    BY <2>8 DEF Recorded
<1>3. CASE ses[s].op = "undo"
  <2>1. c = DeleteQuietly("diag")
    BY <1>1, <1>3, ScriptLengths, OtherCommands DEF Command
  <2>2. c.op = "delete" /\ c.on = "diag" /\ c.onfail = "ignore"
    BY <2>1, CmdFields DEF DeleteQuietly
  <2>3. Target(s, c) = ses[s].did
    BY <2>2 DEF Target
  <2>4. Succeed(s, Script[ses[s].op], c) \/ FailSoftly(s, Script[ses[s].op], c)
    BY <2>2 DEF Step, BcdCommand, FailHard, CopyEntry, CopyUnread, CheckBase, FileCommand, Command
  <2>5. CASE FailSoftly(s, Script[ses[s].op], c)
    BY <2>2, <2>3, <2>5 DEF FailSoftly
  <2>6. CASE Succeed(s, Script[ses[s].op], c)
    <3>1. bcd' = Deleted(bcd, ses[s].did)
      BY <2>2, <2>3, <2>6 DEF Succeed, Exec
    <3>2. bcd'.live = bcd.live \ {ses[s].did}
      BY <3>1 DEF Deleted, IInv, TypeOK, MachineTypeOK, Stores
    <3> QED
      BY <3>2
  <2> QED
    BY <2>4, <2>5, <2>6
<1> QED
  BY <1>2, <1>3 DEF Making

\* Remove goes on from the deletion of the copy only when it is gone.
LEMMA RemoveDeletes ==
    ASSUME IInv, NEW s \in Sessions, Step(s), Continues(s), ses[s].op = "remove", ses[s].pc = 8
    PROVE  ses[s].did \notin bcd'.live
<1> DEFINE c == Command(s)
<1>1. c = Delete("diag")
  BY OtherCommands DEF Command
<1>2. c.op = "delete" /\ c.on = "diag" /\ c.onfail = "throw"
  BY <1>1, CmdFields DEF Delete
<1>3. c.op \in BcdEditOps /\ Target(s, c) = ses[s].did
  BY <1>2 DEF BcdEditOps, EntryOps, Target
<1>4. Effect(bcd, c, ses[s].did, bcd')
  BY <1>2, <1>3, ContinuedCommand
<1> HIDE DEF c
<1> QED
  BY <1>2, <1>4 DEF Effect

\* A step of the only session keeps it.
LEMMA StepCopies ==
    ASSUME IInv, OneSession, CopyInv, NEW s \in Sessions, Step(s)
    PROVE  CopyInv'
<1> DEFINE op == ses[s].op
           pc == ses[s].pc
<1>1. StepEffect(s) /\ leaked \subseteq leaked'
  BY StepHasEffect, Observes
<1>2. Sessions = {s} /\ current' = current
  BY <1>1 DEF OneSession, StepEffect
<1>3. /\ ses[s] \in Sess /\ op \in DOMAIN Script /\ pc \in DOMAIN Script[op]
      /\ bcd' \in Stores
  BY <1>1, CurrentShape DEF IInv, StepEffect, StoreStep
<1>4. Unrecorded = ses[s].made /\ Unrecorded' = ses'[s].made
  BY <1>2 DEF Unrecorded
<1>5. GetsCopy(s) => ses[s].did = NoId /\ ~ Making(s)
  BY DEF GetsCopy, IInv, OwnershipInv, Making
<1>6. bcd'.order \subseteq bcd'.live
  BY <1>1 DEF StepEffect, StoreStep, CopyInv
<1>7. ASSUME "parse" \notin Faults, NEW g \in bcd'.live, g \notin Original, g \notin leaked'
      PROVE  g = file'.diag \/ g \in ses'[s].made
  <2>1. CASE g \notin bcd.live
    BY <1>1, <1>7, <2>1 DEF StepEffect, Accounted
  <2>2. CASE g \in bcd.live /\ g = file.diag
    <3>1. file.kind = "record" /\ op # "setup"
      BY <1>3, <1>7, <2>2, NoIdAssumption DEF IInv, FileInv, CopyInv, Stores
    <3>2. op = "remove" /\ pc = 9 => g \notin bcd.live
      <4>1. pc = 9 => pc > 8
        OBVIOUS
      <4> QED
        BY <2>2, <4>1 DEF CopyInv
    <3>3. file' = file
      BY <1>1, <2>2, <3>1, <3>2 DEF StepEffect, FileStep
    <3> QED
      BY <2>2, <3>3
  <2>3. CASE g \in bcd.live /\ g # file.diag
    <3>1. g \in ses[s].made
      BY <1>1, <1>4, <1>7, <2>3 DEF CopyInv, NoOrphans
    <3>2. Making(s) /\ g = ses[s].did
      BY <3>1 DEF CopyInv
    <3>3. CASE Ends(s)
      BY <1>7, <3>2, <3>3, EndsMaking
    <3>4. CASE ~ Ends(s)
      BY <1>1, <1>5, <3>1, <3>2, <3>4 DEF StepEffect, SessionStep, RollsBack, Continues
    <3> QED
      BY <3>3, <3>4
  <2> QED
    BY <2>1, <2>2, <2>3
<1>8. ses'[s].made = IF Making(s)' THEN {ses'[s].did} ELSE {}
  <2>1. CASE Ends(s)
    BY <2>1, IdleFields DEF Ends, Making
  <2>2. CASE RollsBack(s)
    BY <2>2 DEF RollsBack, Making, CopyInv
  <2>3. CASE GetsCopy(s)
    BY <1>5, <2>3, NoIdAssumption DEF GetsCopy, Making, CopyInv
  <2>4. CASE Continues(s)
    BY <2>4 DEF Continues, Making, CopyInv
  <2> QED
    BY <1>1, <2>1, <2>2, <2>3, <2>4 DEF StepEffect, SessionStep
<1>9. ses'[s].op = "setup" => file'.kind # "record"
  <2>1. ses'[s].op = "setup" => op = "setup" /\ ~ Ends(s)
    BY <1>1, IdleFields DEF StepEffect, SessionStep, Ends, RollsBack, GetsCopy, Continues
  <2> QED
    BY <1>1, <2>1, FileTypes DEF StepEffect, FileStep, CopyInv
<1>10. ASSUME ses'[s].op = "remove"
       PROVE  /\ file'.kind = "record" /\ file'.normal = current /\ file'.diag = ses'[s].did
              /\ ses'[s].pc > 8 => ses'[s].did \notin bcd'.live
  <2>1. op = "remove" /\ Continues(s)
    BY <1>1, <1>10, IdleFields DEF StepEffect, SessionStep, Ends, RollsBack, GetsCopy, Continues
  <2>2. pc \in 1 .. 8 /\ ses'[s].pc = pc + 1 /\ ses'[s].did = ses[s].did
    BY <1>3, <2>1, ScriptLengths DEF Continues
  <2>3. file' = file
    BY <1>1, <2>1, <2>2 DEF StepEffect, FileStep
  <2>4. ses'[s].pc > 8 => ses[s].did \notin bcd'.live
    BY <2>1, <2>2, RemoveDeletes
  <2> QED
    BY <2>1, <2>2, <2>3, <2>4 DEF CopyInv
<1>11. "parse" \notin Faults => NoOrphans'
  BY <1>4, <1>7 DEF NoOrphans
<1> QED
  BY <1>2, <1>6, <1>8, <1>9, <1>10, <1>11 DEF CopyInv

\* So does starting a script.
LEMMA StartCopies ==
    ASSUME IInv, OneSession, CopyInv, NEW s \in Sessions,
           StartSetup(s) \/ StartRemove(s) \/ StartSchedule(s)
    PROVE  CopyInv'
<1>1. /\ UNCHANGED <<bcd, current, file, leaked>> /\ ses \in [Sessions -> Sess] /\ Sessions = {s}
      /\ ses[s] = Idle
  BY ScriptLengths
     DEF StartSetup, StartRemove, StartSchedule, OneSession, IInv, TypeOK, MachineTypeOK, Sess
<1>2. /\ ses'[s].op \in {"setup", "remove", "schedule"} /\ ses'[s].pc = 1 /\ ses'[s].made = {}
      /\ ses'[s].op = "setup" => ses'[s].did = NoId /\ file.kind = "none"
      /\ ses'[s].op = "remove" => /\ file.kind = "record" /\ file.normal = current
                                  /\ file.diag = ses'[s].did
  BY <1>1 DEF StartSetup, StartRemove, StartSchedule, Running
<1>3. Unrecorded = {} /\ Unrecorded' = {}
  BY <1>1, <1>2, IdleFields DEF Unrecorded
<1>4. "parse" \notin Faults => NoOrphans'
  BY <1>1, <1>3 DEF NoOrphans, CopyInv
<1>5. ses'[s].made = IF Making(s)' THEN {ses'[s].did} ELSE {}
  BY <1>2 DEF Making
<1> QED
  BY <1>1, <1>2, <1>4, <1>5 DEF CopyInv

\* So does the machine: what a stop cuts off from its owner counts as given up.
LEMMA MachineCopies ==
    ASSUME IInv, CopyInv, Down \/ Boot \/ Pick
    PROVE  CopyInv'
<1>1. /\ \A s \in Sessions : ses'[s] = Idle
      /\ bcd'.live = bcd.live /\ bcd'.order = bcd.order /\ file' = file
  BY MachineStep
<1>2. Unrecorded \cap bcd.live \subseteq leaked' /\ leaked \subseteq leaked'
  <2>1. CASE Down
    BY <2>1 DEF Down, Stop
  <2>2. CASE Boot \/ Pick
    <3>1. \A s \in Sessions : ses[s] = Idle
      BY <2>2, AllSessionsIdle DEF Boot, BootUnattended, Pick, BootFromMenu
    <3> QED
      BY <2>2, <3>1, IdleFields DEF Unrecorded, Boot, BootUnattended, Pick, BootFromMenu
  <2> QED
    BY <2>1, <2>2
<1>3. "parse" \notin Faults => NoOrphans'
  BY <1>1, <1>2 DEF NoOrphans, CopyInv
<1>4. \A s \in Sessions : ~ Making(s)' /\ ses'[s].made = {} /\ ses'[s].op = "idle"
  BY <1>1, IdleFields DEF Making
<1> QED
  BY <1>1, <1>3, <1>4 DEF CopyInv

\* So who answers for which copy is inductive, with one session at a time.
LEMMA CopiesInductive ==
    /\ Init => CopyInv
    /\ IInv /\ OneSession /\ CopyInv /\ [Next]_vars => CopyInv'
<1>1. Init => CopyInv
  BY IdleFields DEF Init, CopyInv, NoOrphans, Making
<1>2. CopyInv /\ UNCHANGED vars => CopyInv'
  BY DEF vars, CopyInv, NoOrphans, Unrecorded, Making
<1> QED
  BY <1>1, <1>2, StartCopies, StepCopies, MachineCopies DEF Next

-----------------------------------------------------------------------------
(***************************************************************************)
(* The theorems.                                                           *)
(***************************************************************************)

\* The inductive invariant holds in every reachable state, for any number of
\* concurrent sessions and whatever fails: BcdCommon.ps1's Invoke-BcdEdit may
\* throw at any call, and the machine may stop between any two.
THEOREM InvariantHolds == Spec => []IInv
BY InitInv, NextInv, PTL DEF Spec

\* Every variable keeps its type, and a session is at a command of its script.
THEOREM TypeCorrect == Spec => []TypeOK
<1>1. IInv => TypeOK
  BY DEF IInv
<1> QED
  BY <1>1, InvariantHolds, PTL

\* The entry Windows runs from is never deleted: remove refuses to run from
\* the copy, and setup's rollback deletes only what it made.
THEOREM CurrentIsNeverDeleted == Spec => []CurrentSurvives
<1>1. IInv => CurrentSurvives
  BY DEF IInv, MachineInv, CurrentSurvives
<1> QED
  BY <1>1, InvariantHolds, PTL

\* Beside the invariant holds what the audit relies on and, for one operator at
\* a time, who answers for each copy.
THEOREM FullInvariantHolds == Spec => []FullInv
<1>1. Init => FullInv
  BY InitInv, AuditInductive, CopiesInductive DEF FullInv
<1>2. FullInv /\ [Next]_vars => FullInv'
  BY NextInv, AuditInductive, CopiesInductive DEF FullInv, OneSession
<1> QED
  BY <1>1, <1>2, PTL DEF Spec

\* Whatever two sessions do at the same time, and wherever the machine stops: a
\* state file that names an existing copy describes a configuration that
\* audit-bcd-dual-mode.ps1 accepts, unless a /deletevalue failed unseen.
THEOREM AuditAlwaysPasses == Spec => []ManagedPassesAudit
<1>1. FullInv => ManagedPassesAudit
  <2> SUFFICES ASSUME IInv, AuditInv, file.kind = "record", file.diag \in bcd.live, ~ swallowed
               PROVE  AuditPasses(bcd, file)
    BY DEF FullInv, ManagedPassesAudit
  <2>1. /\ bcd.default = file.normal /\ bcd.default \in bcd.live
        /\ bcd.entry[file.diag]["launch"] = "auto" /\ bcd.entry[file.diag]["opts"] = "mbec"
    BY DEF IInv, MachineInv, FileInv, DefaultOff, Fallback, Launches, AuditInv
  <2> QED
    BY <2>1 DEF AuditInv, AuditPasses
<1> QED
  BY <1>1, FullInvariantHolds, PTL

\* With one operator at a time, and a setup that can read the GUID of its copy,
\* no copy is ever lost: it is on record, its script is still at work, or a stop
\* or a rollback that could not delete it gave it up.  The copy whose GUID is
\* not found (setup-bcd-dual-mode.ps1:50-53) is lost: hence the hypothesis.
THEOREM NothingIsOrphaned ==
    ASSUME OneSession, "parse" \notin Faults
    PROVE  Spec => []NoOrphans
<1>1. FullInv => NoOrphans
  BY DEF FullInv, CopyInv
<1> QED
  BY <1>1, FullInvariantHolds, PTL

\* With one operator at a time, remove-bcd-dual-mode.ps1 archives the state file
\* only when nothing refers to the copy and Hyper-V is off by default.
THEOREM RemovalLeavesNoTrace ==
    ASSUME OneSession
    PROVE  Spec => RemoveLeavesNoTrace
<1>1. FullInv /\ [Next]_vars =>
         [file.kind = "record" /\ file'.kind = "none" =>
             /\ file.diag \notin bcd'.live \cup bcd'.order \cup {bcd'.default, bcd'.seq}
             /\ bcd'.default = file.normal
             /\ Flavour(bcd', file.normal) = "off"]_vars
  <2> SUFFICES ASSUME FullInv, [Next]_vars, file.kind = "record", file'.kind = "none"
               PROVE  /\ file.diag \notin bcd'.live \cup bcd'.order \cup {bcd'.default, bcd'.seq}
                      /\ bcd'.default = file.normal
                      /\ Flavour(bcd', file.normal) = "off"
    OBVIOUS
  <2>1. IInv /\ CopyInv
    BY DEF FullInv
  <2>2. file' # file
    OBVIOUS
  <2>3. PICK s \in Sessions : Step(s)
    BY <2>2 DEF Next, StartSetup, StartRemove, StartSchedule, Down, Boot, Pick, vars
  <2>4. ses[s].op = "remove" /\ ses[s].pc = 9 /\ bcd' = bcd
    <3>1. StepEffect(s) /\ ses[s].nid \in IdsOrNone /\ ses[s].did \in IdsOrNone
      BY <2>1, <2>3, StepHasEffect DEF IInv, TypeOK, MachineTypeOK, SessionStates
    <3> QED
      BY <2>2, <3>1, FileTypes DEF StepEffect, FileStep
  <2>5. /\ file.normal = current /\ file.diag = ses[s].did
        /\ ses[s].did \notin bcd.live /\ ses[s].did # NoId /\ bcd.order \subseteq bcd.live
    <3>1. ses[s].did # NoId
      BY <2>1, <2>4 DEF IInv, OwnershipInv
    <3>2. ses[s].pc > 8
      BY <2>4
    <3> QED
      BY <2>1, <2>4, <3>1, <3>2 DEF CopyInv
  <2>6. /\ bcd.default = current /\ ~ Launches(bcd.entry[current])
        /\ {current, bcd.default, bcd.seq} \subseteq bcd.live \cup {NoId}
    BY <2>1, <2>4 DEF IInv, ProgressInv, MachineInv, TurnedOff, MadeDefault
  <2>7. current # NoId
    BY <2>1, <2>4 DEF IInv, MachineInv, AllIdle
  <2> QED
    BY <2>4, <2>5, <2>6, <2>7 DEF Flavour, Crashes
<1> QED
  BY <1>1, FullInvariantHolds, PTL DEF RemoveLeavesNoTrace, Spec

\* What a step of a session does to what an entry boots: nothing, or it turns
\* Hyper-V off; the copy that setup is still making is the exception.
LEMMA FlavourStep ==
    ASSUME IInv, NEW s \in Sessions, StepEffect(s), NEW i \in bcd.used \cup {NoId},
           ses[s].op = "setup" => i # ses[s].did \/ i = NoId
    PROVE  Flavour(bcd', i) \in {Flavour(bcd, i), "off"}
<1>1. CASE i = NoId
  BY <1>1 DEF Flavour
<1>2. CASE i # NoId /\ TurnedOff(ses[s].op, ses[s].pc) /\ i = current
  <2>1. bcd.entry[i]["launch"] # "auto"
    BY <1>2 DEF IInv, ProgressInv, Launches
  <2>2. bcd'.entry[i]["launch"] # "auto"
    BY <1>2, <2>1 DEF StepEffect, StoreStep, EntryStep, Hyper
  <2> QED
    BY <1>2, <2>2 DEF Flavour, Crashes, Launches
<1>3. CASE i # NoId /\ ~ (TurnedOff(ses[s].op, ses[s].pc) /\ i = current)
  <2>1. \/ bcd'.entry[i]["launch"] = "off"
        \/ \A x \in Hyper : bcd'.entry[i][x] = bcd.entry[i][x]
    BY <1>3 DEF StepEffect, StoreStep, EntryStep, Hyper
  <2> QED
    BY <1>3, <2>1 DEF Flavour, Crashes, Launches, Hyper
<1> QED
  BY <1>1, <1>2, <1>3

\* What a step of a session does to the boots nobody attends.
LEMMA UnattendedStep ==
    ASSUME IInv, NEW s \in Sessions, Step(s)
    PROVE  /\ mode # "down" /\ mode' = mode
           /\ Flavour(bcd', bcd'.default) \in {Flavour(bcd, bcd.default), "off"}
           /\ \/ Flavour(bcd', bcd'.seq) \in {Flavour(bcd, bcd.seq), "none", "off"}
              \/ /\ Flavour(bcd, bcd.default) = "off"
                 /\ Flavour(bcd', bcd'.seq) = "hv"
                 /\ Flavour(bcd', bcd'.default) = Flavour(bcd, bcd.default)
<1>1. StepEffect(s)
  BY StepHasEffect
<1>2. mode # "down" /\ mode' = mode /\ current \in Ids
  BY <1>1, NormalIsCurrent, NoIdAssumption DEF StepEffect, IInv, MachineInv
<1>3. /\ {bcd.default, bcd.seq, ses[s].did} \subseteq bcd.used \cup {NoId}
      /\ ses[s].op = "setup" => /\ bcd.default # ses[s].did \/ bcd.default = NoId
                                /\ bcd.seq # ses[s].did \/ bcd.seq = NoId
  BY DEF IInv, MachineInv, OwnershipInv, Making
<1>4. Flavour(bcd', bcd'.default) \in {Flavour(bcd, bcd.default), "off"}
  <2>1. CASE bcd'.default = bcd.default
    BY <1>1, <1>3, <2>1, FlavourStep
  <2>2. CASE bcd'.default = current /\ TurnedOff(ses[s].op, ses[s].pc)
    <3>1. bcd'.entry[current]["launch"] # "auto"
      <4>1. bcd.entry[current]["launch"] # "auto" /\ current \in bcd.used
        BY <1>2, <2>2, NoIdAssumption DEF IInv, MachineInv, ProgressInv, Launches
      <4>2. ses[s].op = "setup" => ses[s].did # current
        BY <1>1, NormalIsCurrent DEF StepEffect, Configuring
      <4> QED
        BY <1>1, <4>1, <4>2 DEF StepEffect, StoreStep, EntryStep, Hyper
    <3> QED
      BY <1>2, <2>2, <3>1, NoIdAssumption DEF Flavour, Crashes, Launches
  <2> QED
    BY <1>1, <2>1, <2>2 DEF StepEffect, StoreStep, DefaultStep
<1>5. CASE bcd'.seq = bcd.seq
  <2>1. Flavour(bcd', bcd'.seq) \in {Flavour(bcd, bcd.seq), "off"}
    BY <1>1, <1>3, <1>5, FlavourStep
  <2> QED
    BY <1>2, <1>4, <2>1
<1>6. CASE bcd'.seq = NoId
  BY <1>2, <1>4, <1>6 DEF Flavour
<1>7. CASE bcd'.seq = ses[s].did /\ ses[s].op = "schedule"
  <2>1. /\ Fallback(ses[s].did) /\ DefaultOff /\ ses[s].did \in bcd.used
        /\ ~ Configuring(s) /\ ~ TurnedOff(ses[s].op, ses[s].pc)
    BY <1>3, <1>7 DEF IInv, ProgressInv, Fallback, Configuring, TurnedOff
  <2>2. \A x \in Hyper : bcd'.entry[ses[s].did][x] = bcd.entry[ses[s].did][x]
    BY <1>1, <1>7, <2>1 DEF StepEffect, StoreStep, EntryStep
  <2>3. Flavour(bcd', bcd'.seq) = "hv"
    BY <1>7, <2>1, <2>2 DEF Flavour, Crashes, Launches, Fallback, Hyper
  <2>4. Flavour(bcd, bcd.default) = "off"
    BY <2>1 DEF DefaultOff, Flavour, Crashes
  <2> QED
    BY <1>2, <1>4, <2>3, <2>4
<1> QED
  BY <1>1, <1>5, <1>6, <1>7 DEF StepEffect, StoreStep, SeqStep

\* What the steps of the machine and the start of a script do to them.
LEMMA StoreKept ==
    ASSUME NEW s \in Sessions, StartSetup(s) \/ StartRemove(s) \/ StartSchedule(s)
    PROVE  bcd' = bcd /\ mode' = mode
BY DEF StartSetup, StartRemove, StartSchedule

\* A boot that nobody attends only consumes the one-shot sequence.
LEMMA BootStep ==
    ASSUME IInv, Boot
    PROVE  /\ bcd'.entry = bcd.entry /\ bcd'.default = bcd.default
           /\ bcd'.seq = NoId /\ NextBoot(bcd) # NoId
BY DEF Boot, BootUnattended, IInv, TypeOK, MachineTypeOK, Stores

\* No bcdedit call of setup-, remove- or schedule-*.ps1, no crash between two
\* calls and no boot turns a machine whose unattended boots work into one
\* whose unattended boots fail.
THEOREM UnattendedBootsSurvive == Spec => NeverBricked
<1>1. IInv /\ [Next]_vars => [Survives(bcd) => Survives(bcd')]_vars
  <2> SUFFICES ASSUME IInv, [Next]_vars, Survives(bcd)
               PROVE  Survives(bcd')
    OBVIOUS
  <2>1. CASE \E s \in Sessions : Step(s)
    BY <2>1, UnattendedStep DEF Survives
  <2>2. CASE Boot
    BY <2>2, BootStep DEF Survives, Flavour
  <2>3. CASE bcd' = bcd
    BY <2>3
  <2>4. Down \/ Pick \/ UNCHANGED vars => bcd' = bcd
    BY DEF Down, Stop, Pick, BootFromMenu, vars
  <2> QED
    BY <2>1, <2>2, <2>3, <2>4, StoreKept DEF Next
<1> QED
  BY <1>1, InvariantHolds, PTL DEF NeverBricked, Spec

\* Once the default entry has Hyper-V off, it has until somebody else changes
\* it: what setup sets up, neither remove nor a half-done rerun takes away.
THEOREM DefaultKeepsHyperVOff == Spec => DefaultStaysOff
<1>1. IInv /\ [Next]_vars =>
         [Flavour(bcd, bcd.default) = "off" => Flavour(bcd', bcd'.default) = "off"]_vars
  <2> SUFFICES ASSUME IInv, [Next]_vars, Flavour(bcd, bcd.default) = "off"
               PROVE  Flavour(bcd', bcd'.default) = "off"
    OBVIOUS
  <2>1. CASE \E s \in Sessions : Step(s)
    BY <2>1, UnattendedStep
  <2>2. CASE Boot
    BY <2>2, BootStep DEF Flavour
  <2>3. CASE bcd' = bcd
    BY <2>3
  <2>4. Down \/ Pick \/ UNCHANGED vars => bcd' = bcd
    BY DEF Down, Stop, Pick, BootFromMenu, vars
  <2> QED
    BY <2>1, <2>2, <2>3, <2>4, StoreKept DEF Next
<1> QED
  BY <1>1, InvariantHolds, PTL DEF DefaultStaysOff, Spec

\* The dual-mode scripts implement BootPromise: Hyper-V never becomes what an
\* unattended machine starts by default, and a scheduled start of it is always
\* followed by a default with Hyper-V off.
THEOREM ImplementsPromise == Spec => KeepsPromise
<1>1. Init => Promise!Init
  <2> SUFFICES ASSUME Init PROVE Promise!Init
    OBVIOUS
  <2>1. mode \in {"off", "hv"}
    BY OriginalAssumption, NoIdAssumption DEF Init, Flavour
  <2> QED
    BY <2>1 DEF Promise!Init, Promise!Flavours, Flavour
<1>2. IInv /\ [Next]_vars => [Promise!Next]_(Promise!vars)
  <2> SUFFICES ASSUME IInv, [Next]_vars
               PROVE  Promise!Next \/ UNCHANGED Promise!vars
    OBVIOUS
  <2>1. CASE \E s \in Sessions : Step(s)
    BY <2>1, UnattendedStep DEF Promise!Next, Promise!Settle, Promise!Arm
  <2>2. CASE \E s \in Sessions : StartSetup(s) \/ StartRemove(s) \/ StartSchedule(s)
    BY <2>2, StoreKept DEF Promise!vars
  <2>3. CASE UNCHANGED vars
    BY <2>3 DEF vars, Promise!vars
  <2>4. CASE Down
    BY <2>4 DEF Down, Stop, Promise!Next, Promise!Halt, IInv, MachineInv
  <2>5. CASE Boot
    <3>1. mode = "down"
      BY <2>5 DEF Boot, BootUnattended, IInv, MachineInv
    <3>2. /\ Flavour(bcd', bcd'.default) = Flavour(bcd, bcd.default)
          /\ Flavour(bcd', bcd'.seq) = "none"
      BY <2>5, BootStep DEF Flavour
    <3>3. /\ NextBoot(bcd) # NoId
          /\ mode' = IF Flavour(bcd, NextBoot(bcd)) = "broken" THEN "down"
                     ELSE Flavour(bcd, NextBoot(bcd))
      BY <2>5 DEF Boot, BootUnattended
    <3>4. Flavour(bcd, NextBoot(bcd)) =
             IF Flavour(bcd, bcd.seq) # "none" THEN Flavour(bcd, bcd.seq)
             ELSE Flavour(bcd, bcd.default)
      BY DEF NextBoot, Flavour
    <3>5. Flavour(bcd, NextBoot(bcd)) # "none"
      BY <3>3 DEF Flavour
    <3> QED
      BY <3>1, <3>2, <3>3, <3>4, <3>5 DEF Promise!Next, Promise!Unattended
  <2>6. CASE Pick
    <3>1. mode = "down" /\ bcd' = bcd /\ Flavour(bcd, bcd.seq) = "none"
      BY <2>6 DEF Pick, BootFromMenu, IInv, MachineInv, Flavour
    <3>2. mode' \in {"off", "hv"}
      BY <2>6, NoIdAssumption
         DEF Pick, BootFromMenu, Flavour, IInv, TypeOK, MachineTypeOK, Stores
    <3> QED
      BY <3>1, <3>2 DEF Promise!Next, Promise!Attended
  <2> QED
    BY <2>1, <2>2, <2>3, <2>4, <2>5, <2>6 DEF Next
<1> QED
  BY <1>1, <1>2, InvariantHolds, PTL DEF KeepsPromise, Promise!Spec, Spec
=============================================================================

