---------------------------- MODULE BcdDualMode ----------------------------
(***************************************************************************)
(* tools/windows/bcd: the scripts that give the machine a normal entry     *)
(* (Hyper-V off, the default) and a diagnostic copy of it that starts      *)
(* Hyper-V without hardware MBEC, that schedule one boot of the copy, and  *)
(* that remove it again.  A managed state file names the two entries.      *)
(***************************************************************************)
EXTENDS BcdMachine

CONSTANTS
    Original,        \* the entries that exist before any script runs
    InitialEntries   \* what they may hold then

ASSUME OriginalAssumption ==
    /\ Original \subseteq Ids
    /\ InitialEntries \subseteq Entries

\* A GUID not handed out yet has an entry nobody reads.
Fresh == [x \in Elements |-> "absent"]

VARIABLES
    file,           \* %ProgramData%\BiosInterposer\bcd-dual-mode.json
    hadFallback     \* observation: an MBEC fallback existed when the last setup began

vars == <<bcd, current, mode, ses, swallowed, leaked, file, hadFallback>>

NoFile == [kind |-> "none", normal |-> NoId, diag |-> NoId]
Torn   == [kind |-> "torn", normal |-> NoId, diag |-> NoId]
Recorded(n, d) == [kind |-> "record", normal |-> n, diag |-> d]

Files == [kind : {"none", "torn", "record"}, normal : IdsOrNone, diag : IdsOrNone]

\* An existing entry starts Hyper-V without hardware MBEC.
HasFallback ==
    \E i \in bcd.live : Launches(bcd.entry[i]) /\ bcd.entry[i]["opts"] = "mbec"

-----------------------------------------------------------------------------
\* An entry setup accepts as its base: no experimental override, except the
\* load option of the MBEC fallback itself.
AcceptedBase(e) ==
    /\ \A x \in {"numproc", "vapic", "capture", "extra"} : e[x] = "absent"
    /\ e["opts"] \in {"absent", "mbec"}

AssertBase == Cmd("assertbase", "normal", "desc", "absent", "throw")
OpenState  == Cmd("openstate", "none", "desc", "absent", "throw")
WriteState == Cmd("writestate", "none", "desc", "absent", "throw")
Archive    == Cmd("archive", "none", "desc", "absent", "throw")

\* setup-bcd-dual-mode.ps1 from the assertion on; the try block follows Export.
SetupScript ==
    << AssertBase,
       Export,
       Copy("normal", "fallback"),
       Set("diag", "launch", "auto"),
       Set("diag", "opts", "mbec"),
       Clear("diag", "xsave"),
       Set("diag", "vsm", "off"),
       Set("diag", "desc", "fallback"),
       AddLast("diag"),
       Set("normal", "launch", "off"),
       Clear("normal", "opts"),
       Clear("normal", "xsave"),
       Clear("normal", "vsm"),
       Set("normal", "desc", "normal"),
       Default("normal"),
       ShowMenu,
       Timeout,
       ClearSequence,
       OpenState,
       WriteState >>

\* remove-bcd-dual-mode.ps1 after its refusals; no catch block.
RemoveScript ==
    << Export,
       Set("normal", "launch", "off"),
       Clear("normal", "opts"),
       Clear("normal", "xsave"),
       Clear("normal", "vsm"),
       Default("normal"),
       ClearSequence,
       Delete("diag"),
       Archive >>

\* Mutant of ScheduleScript: /default instead of /bootsequence.
ScheduleAsDefault == << Enum("diag"), Default("diag") >>

\* schedule-hyperv-diagnostic-once.ps1 after it has read the state file.
ScheduleScript == << Enum("diag"), Sequence("diag") >>

\* The catch block of setup, once the GUID of the copy is known.
UndoScript == << DeleteQuietly("diag") >>

\* Mutants of Script.  Setup clears the load options twice and xsavedisable
\* never; it clears the MBEC option of the base before turning Hyper-V off; it
\* schedules the copy instead of listing it; it makes a copy with hardware MBEC.
MutatedScript(setup, remove) ==
    [setup |-> setup, remove |-> remove, schedule |-> ScheduleScript, undo |-> UndoScript]
ScriptSkipsXsave == MutatedScript([SetupScript EXCEPT ![12] = Clear("normal", "opts")], RemoveScript)
ScriptClearsFirst ==
    MutatedScript([SetupScript EXCEPT ![10] = SetupScript[11], ![11] = SetupScript[10]], RemoveScript)
ScriptTestsAtOnce == MutatedScript([SetupScript EXCEPT ![9] = Sequence("diag")], RemoveScript)
ScriptKeepsMbec == MutatedScript([SetupScript EXCEPT ![5] = Clear("diag", "opts")], RemoveScript)

\* Another: remove goes on when it cannot delete the copy.
ScriptSoftDelete == MutatedScript(SetupScript, [RemoveScript EXCEPT ![8] = DeleteQuietly("diag")])

Script == [setup |-> SetupScript, remove |-> RemoveScript,
           schedule |-> ScheduleScript, undo |-> UndoScript]

\* Mutant of Catch: setup has no rollback.
CatchNothing(s) == "none"

Catch(s) == IF ses[s].op = "setup" /\ ses[s].did # NoId THEN "undo" ELSE "none"

-----------------------------------------------------------------------------
\* Setup refuses while a state file exists, whatever it holds.  GuidsLeft
\* bounds the model: it starts no setup that would run out of GUIDs.
GuidsLeft == Cardinality(Ids \ bcd.used) >
             Cardinality({s \in Sessions : ses[s].op = "setup" /\ ses[s].did = NoId})

StartSetup(s) ==
    /\ current # NoId
    /\ ses[s].op = "idle"
    /\ file.kind = "none"
    /\ GuidsLeft
    /\ ses' = [ses EXCEPT ![s] = Running("setup", current, NoId)]
    /\ swallowed' = (swallowed /\ ~ AllIdle)
    /\ hadFallback' = HasFallback
    /\ UNCHANGED <<bcd, current, mode, leaked, file>>

\* Mutant of StartRemove: it does not look at the entry Windows runs from.
StartRemoveAnywhere(s) ==
    /\ current # NoId
    /\ ses[s].op = "idle"
    /\ file.kind = "record"
    /\ ses' = [ses EXCEPT ![s] = Running("remove", file.normal, file.diag)]
    /\ hadFallback' = FALSE
    /\ UNCHANGED <<bcd, current, mode, swallowed, leaked, file>>

\* Remove and schedule read the two GUIDs of a well-formed state file; remove
\* also refuses unless Windows runs from the normal entry.
StartRemove(s) ==
    /\ current # NoId
    /\ ses[s].op = "idle"
    /\ file.kind = "record"
    /\ current # file.diag
    /\ current = file.normal
    /\ ses' = [ses EXCEPT ![s] = Running("remove", file.normal, file.diag)]
    /\ hadFallback' = FALSE
    /\ UNCHANGED <<bcd, current, mode, swallowed, leaked, file>>

StartSchedule(s) ==
    /\ current # NoId
    /\ ses[s].op = "idle"
    /\ file.kind = "record"
    /\ ses' = [ses EXCEPT ![s] = Running("schedule", file.normal, file.diag)]
    /\ UNCHANGED <<bcd, current, mode, swallowed, leaked, file, hadFallback>>

-----------------------------------------------------------------------------
\* Assert-NoUnsafeInheritedBcdOverrides -AllowMbecFallback on the base entry.
CheckBase(s, c) ==
    /\ c.op = "assertbase"
    /\ IF AcceptedBase(bcd.entry[ses[s].nid]) THEN Advance(s, SetupScript)
                                              ELSE Throw(s, Catch(s))
    /\ UNCHANGED <<bcd, current, mode, swallowed, leaked, file>>

\* Set-Content creates or truncates the file, then writes it; Move-Item
\* renames it away.  Each may fail, which setup catches.
FileCommand(s, c) ==
    /\ c.op \in {"openstate", "writestate", "archive"}
    /\ \/ /\ file' = CASE c.op = "openstate"  -> Torn
                       [] c.op = "writestate" -> Recorded(ses[s].nid, ses[s].did)
                       [] c.op = "archive"    -> NoFile
          /\ c.op = "archive" => file.kind # "none"
          /\ Advance(s, Script[ses[s].op])
       \/ /\ "file" \in Faults \/ (c.op = "archive" /\ file.kind = "none")
          /\ Throw(s, Catch(s))
          /\ UNCHANGED file
    /\ UNCHANGED <<bcd, current, mode, swallowed, leaked>>

Step(s) ==
    /\ ses[s].op \in DOMAIN Script
    /\ LET script == Script[ses[s].op]
           c      == script[ses[s].pc]
       IN  \/ BcdCommand(s, script, c, Catch(s)) /\ UNCHANGED file
           \/ CheckBase(s, c)
           \/ FileCommand(s, c)
    /\ UNCHANGED hadFallback

Down == Stop /\ UNCHANGED <<file, hadFallback>>
Boot == BootUnattended /\ UNCHANGED <<file, hadFallback>>
Pick == BootFromMenu /\ UNCHANGED <<file, hadFallback>>

-----------------------------------------------------------------------------
\* Before the first script: Windows runs from an entry that boots, and the
\* boot menu lists the entries that exist, whichever is default or pending.
Init ==
    /\ bcd \in [entry : {e \in [Ids -> InitialEntries \cup {Fresh}] :
                          \A i \in Ids : IF i \in Original THEN e[i] \in InitialEntries
                                                           ELSE e[i] = Fresh},
                live : {Original}, used : {Original}, default : Original \cup {NoId},
                seq : Original \cup {NoId}, order : {Original}, menu : {"no"}]
    /\ current \in Original
    /\ mode = Flavour(bcd, current)
    /\ mode # "broken"
    /\ ses = [s \in Sessions |-> Idle]
    /\ swallowed = FALSE
    /\ leaked = {}
    /\ file = NoFile
    /\ hadFallback = FALSE

Next == \/ \E s \in Sessions : StartSetup(s) \/ StartRemove(s) \/ StartSchedule(s)
        \/ \E s \in Sessions : Step(s)
        \/ Down \/ Boot \/ Pick

Spec == Init /\ [][Next]_vars

-----------------------------------------------------------------------------
(***************************************************************************)
(* Properties.                                                             *)
(***************************************************************************)

\* Every variable has its type, and a running session is at a command of its script.
TypeOK ==
    /\ MachineTypeOK(DOMAIN Script)
    /\ file \in Files
    /\ hadFallback \in BOOLEAN
    /\ \A s \in Sessions :
          \/ ses[s] = Idle
          \/ ses[s].op \in DOMAIN Script /\ ses[s].pc \in DOMAIN Script[ses[s].op]

\* audit-bcd-dual-mode.ps1: the ten checks of store b against state file f.
AuditPasses(b, f) ==
    LET n == b.entry[f.normal]  d == b.entry[f.diag]
    IN  /\ f.kind = "record" /\ {f.normal, f.diag} \subseteq b.live
        /\ n["opts"] = "absent" /\ n["launch"] = "off"
        /\ n["vsm"] = "absent" /\ n["xsave"] = "absent"
        /\ d["launch"] = "auto" /\ d["vsm"] = "off"
        /\ d["opts"] = "mbec" /\ d["xsave"] = "absent"
        /\ b.default = f.normal /\ b.menu = "yes"

\* As long as the state file names an existing copy, and no /deletevalue has
\* failed unseen, the audit passes: between any two calls, after any crash.
ManagedPassesAudit ==
    file.kind = "record" /\ file.diag \in bcd.live /\ ~ swallowed
        => AuditPasses(bcd, file)

\* No single call, crash or boot turns a store whose unattended boots work
\* into one whose unattended boots fail: the order of the calls matters,
\* since the base entry may launch Hyper-V with the MBEC option until it is off.
NeverBricked == [][Survives(bcd) => Survives(bcd')]_vars

\* A default entry with Hyper-V off never becomes anything else.
DefaultStaysOff ==
    [][Flavour(bcd, bcd.default) = "off" => Flavour(bcd', bcd'.default) = "off"]_vars

\* A copy the scripts made is recorded in the state file, owned by a session
\* still at work, or was given up by a stop or by a rollback that could not
\* delete it: a setup that throws leaves no copy of its own behind.  This holds
\* of a setup that can read the GUID of its copy, that is without the fault
\* "parse": setup-bcd-dual-mode.ps1:50-53 throws with the copy made and its
\* GUID unknown, so that the catch block does not delete it.
NoOrphans ==
    bcd.live \ (Original \cup leaked) \subseteq
        {file.diag} \cup Unrecorded

\* The entry Windows runs from is never deleted.
CurrentSurvives == current # NoId => current \in bcd.live

\* When the state file goes, so has every trace of the copy, and the normal
\* entry is the default with Hyper-V off.
RemoveLeavesNoTrace ==
    [][file.kind = "record" /\ file'.kind = "none" =>
          /\ file.diag \notin bcd'.live \cup bcd'.order \cup {bcd'.default, bcd'.seq}
          /\ bcd'.default = file.normal
          /\ Flavour(bcd', file.normal) = "off"]_vars

\* Setup run on a machine that has an MBEC fallback leaves it with one, also
\* when it is run from that entry, which it turns into the normal one.
FallbackPreserved == AllIdle /\ hadFallback => HasFallback

\* Between scripts, an existing state file can be audited or removed.
StateFileUsable ==
    AllIdle /\ file.kind # "none" => file.kind = "record" /\ file.diag \in bcd.live

\* The scripts keep the promise made to whoever only switches the machine on.
Promise == INSTANCE BootPromise WITH
    mode <- mode, dflt <- Flavour(bcd, bcd.default), pend <- Flavour(bcd, bcd.seq)
KeepsPromise == Promise!Spec

-----------------------------------------------------------------------------
(***************************************************************************)
(* The inductive invariant: what every step relies on, whatever the other  *)
(* sessions are doing.                                                     *)
(***************************************************************************)
Configuring(s) == ses[s].op \in {"setup", "remove", "undo"}
Making(s)      == ses[s].op \in {"setup", "undo"} /\ ses[s].did # NoId

\* The commands of a script that come after Set("normal", "launch", "off"),
\* and those that come after Default("normal").
TurnedOff(op, pc)   == (op = "setup" /\ pc > 10) \/ (op = "remove" /\ pc > 2)
MadeDefault(op, pc) == (op = "setup" /\ pc > 15) \/ (op = "remove" /\ pc > 6)

DefaultOff  == bcd.default # NoId /\ ~ Launches(bcd.entry[bcd.default])
Fallback(i) == i # NoId /\ Launches(bcd.entry[i]) /\ bcd.entry[i]["opts"] = "mbec"

\* Sessions exist only while Windows runs; what the boot manager and the
\* sessions refer to exists, or did.
MachineInv ==
    /\ current = NoId <=> mode = "down"
    /\ current = NoId => AllIdle
    /\ {current, bcd.default, bcd.seq} \subseteq bcd.live \cup {NoId}
    /\ bcd.live \subseteq bcd.used
    /\ \A s \in Sessions : ses[s].did \in bcd.used \cup {NoId}

\* The state file names a copy that starts Hyper-V without MBEC, beside a
\* default with Hyper-V off.
FileInv ==
    /\ file.diag \in bcd.used \cup {NoId}
    /\ file.kind # "record" => file.diag = NoId
    /\ file.kind = "record" => Fallback(file.diag) /\ DefaultOff

\* Setup, its rollback and remove work on the running entry, which is never
\* the copy; the copy setup makes is known to nobody else, boot manager included.
OwnershipInv ==
    \A s \in Sessions :
        /\ Configuring(s) => ses[s].nid = current /\ file.diag # current
        /\ ses[s].op = "setup" => (ses[s].did = NoId <=> ses[s].pc <= 3)
        /\ ses[s].op = "undo" => ses[s].did # NoId
        /\ ses[s].op = "remove" => ses[s].did \notin {current, NoId}
        /\ Making(s) => /\ ses[s].did \notin {current, bcd.default, bcd.seq, file.diag}
                        /\ \A t \in Sessions \ {s} : ses[t].did # ses[s].did

\* How far each script has come, whatever other sessions did meanwhile.
ProgressInv ==
    \A s \in Sessions :
        /\ ses[s].op = "setup" /\ ses[s].pc > 4 => Launches(bcd.entry[ses[s].did])
        /\ ses[s].op = "setup" /\ ses[s].pc > 5 => bcd.entry[ses[s].did]["opts"] = "mbec"
        /\ TurnedOff(ses[s].op, ses[s].pc) => ~ Launches(bcd.entry[current])
        /\ MadeDefault(ses[s].op, ses[s].pc) => bcd.default = current
        /\ ses[s].op = "schedule" =>
              /\ Fallback(ses[s].did) /\ DefaultOff
              /\ ses[s].did = current => file.kind = "record" /\ file.diag = current

IInv == TypeOK /\ MachineInv /\ FileInv /\ OwnershipInv /\ ProgressInv

\* What the audit finds of a configuration on record, and how much of it a setup
\* under way has done: the removal of values only if none failed unseen.  Whoever configures works on the normal entry.
AuditInv ==
    /\ file.kind = "record" =>
          /\ bcd.default = file.normal /\ bcd.menu = "yes"
          /\ bcd.entry[file.normal]["launch"] = "off" /\ bcd.entry[file.diag]["vsm"] = "off"
          /\ ~ swallowed => /\ bcd.entry[file.diag]["xsave"] = "absent"
                            /\ \A x \in {"opts", "xsave", "vsm"} :
                                  bcd.entry[file.normal][x] = "absent"
    /\ \A s \in Sessions :
          /\ Configuring(s) /\ file.kind = "record" => file.normal = current
          /\ TurnedOff(ses[s].op, ses[s].pc) => bcd.entry[current]["launch"] = "off"
          /\ ses[s].op = "setup" =>
                /\ ses[s].did \in bcd.live \cup {NoId}
                /\ ses[s].pc > 7 => bcd.entry[ses[s].did]["vsm"] = "off"
                /\ ses[s].pc > 16 => bcd.menu = "yes"
                /\ ~ swallowed =>
                      /\ ses[s].pc > 6  => bcd.entry[ses[s].did]["xsave"] = "absent"
                      /\ ses[s].pc > 11 => bcd.entry[current]["opts"] = "absent"
                      /\ ses[s].pc > 12 => bcd.entry[current]["xsave"] = "absent"
                      /\ ses[s].pc > 13 => bcd.entry[current]["vsm"] = "absent"

\* One operator at a time: two setups that both find no state file would each
\* make a copy, and the file keeps one of them.
OneSession == \A s, t \in Sessions : s = t

\* Under OneSession, who answers for a copy: setup and its rollback for the one
\* they made, remove for the one of the state file until it is gone.
CopyInv ==
    /\ bcd.order \subseteq bcd.live
    /\ "parse" \notin Faults => NoOrphans
    /\ \A s \in Sessions :
          /\ ses[s].made = IF Making(s) THEN {ses[s].did} ELSE {}
          /\ ses[s].op = "setup" => file.kind # "record"
          /\ ses[s].op = "remove" =>
                /\ file.kind = "record" /\ file.normal = current /\ file.diag = ses[s].did
                /\ ses[s].pc > 8 => ses[s].did \notin bcd.live

\* IInv, with what the audit and the ownership of copies rely on.
FullInv == IInv /\ AuditInv /\ (OneSession => CopyInv)
=============================================================================
