----------------------------- MODULE MadtPatch -----------------------------
(***************************************************************************)
(* The MADT through the experiment: the firmware publishes it, Windows     *)
(* dumps it, build_opencore_madt_test.py stages a patch for it, OpenCore   *)
(* applies the patch at boot, and dump_acpi_windows.py and                 *)
(* validate_platform.py say what came out.  Three programs walk the table; *)
(* a walk is taken record by record.                                       *)
(***************************************************************************)
EXTENDS Integers, Sequences, FiniteSets

CONSTANTS
    N,          \* the processors the builder expects
    Tables,     \* the tables a file may hold
    Firmwares,  \* those a firmware publishes
    Wildcard    \* an NMI UID that stands for every processor

(***************************************************************************)
(* A table: its header, and the record that starts at each offset behind   *)
(* the header.  valid: its bytes add up to 0.  rest: the bytes of a record *)
(* besides type, length, UID and the enabled bit.  echo: the offsets inside *)
(* a record at which its payload reads as other records, and as which.     *)
(***************************************************************************)
LocalApic  == 0
ApicNmi    == 4
LocalX2    == 9
X2Nmi      == 10
Recs       == [kind : Nat, len : Nat, uid : Nat, enabled : BOOLEAN, rest : Nat]
NoTable    == [oem |-> 0, declared |-> 0, valid |-> FALSE, size |-> 0, recs |-> <<>>, echo |-> <<>>]

\* Records follow each other without a gap, up to a malformed one.
WellLaid(t) ==
    /\ t.size \in Nat /\ DOMAIN t.recs \subseteq 0 .. t.size - 1
    /\ t.size > 0 => 0 \in DOMAIN t.recs
    /\ \A o \in DOMAIN t.recs :
          /\ t.recs[o] \in Recs
          /\ t.recs[o].len >= 2 => \A p \in DOMAIN t.recs : p > o => p >= o + t.recs[o].len
          /\ t.recs[o].len >= 2 /\ o + t.recs[o].len < t.size => o + t.recs[o].len \in DOMAIN t.recs

\* An echo lies in the payload of one record; records of six bytes each.
Echoes(t) ==
    /\ DOMAIN t.echo \subseteq (0 .. t.size - 1) \ DOMAIN t.recs
    /\ \A o \in DOMAIN t.echo : \E p \in DOMAIN t.recs :
          p < o /\ o + 6 * Len(t.echo[o]) <= p + t.recs[p].len

IsTable(t) ==
    /\ DOMAIN t = {"oem", "declared", "valid", "size", "recs", "echo"}
    /\ t.valid \in BOOLEAN /\ WellLaid(t) /\ Echoes(t)

ASSUME FirmwaresAssumption ==
    Firmwares \subseteq {t \in Tables : t.valid /\ t.declared = t.size /\ t.size > 0}
ASSUME SizeAssumption == N \in Nat \ {0} /\ Wildcard \in Nat /\ Wildcard > N
ASSUME TablesAssumption == \A t \in Tables : IsTable(t)

VARIABLES
    visible,  \* the table Windows got at this boot
    file,     \* apic.dat
    walk,     \* the parser that runs, where it is, and the records it took
    staged,   \* what the builder staged: the patch, and the table it expects
    report,   \* what dump_acpi_windows.py said of it
    verdict   \* the issues validate_platform.py found in apic.dat

vars == <<visible, file, walk, staged, report, verdict>>

Tools     == {"build", "dump", "validate"}
NoWalk    == [tool |-> "none", table |-> NoTable, at |-> 0, cpus |-> <<>>, nmis |-> <<>>]
NoStage   == [on |-> FALSE, of |-> NoTable, find |-> <<>>, reference |-> NoTable]
NoReport  == [done |-> FALSE, valid |-> FALSE, match |-> FALSE]
NoVerdict == [done |-> FALSE, issues |-> {}]

-----------------------------------------------------------------------------
(***************************************************************************)
(* The walk.                                                               *)
(***************************************************************************)

\* The header: the dump describes a table whatever its checksum.
HeaderRefused(tool, t) ==
    tool # "dump" /\ (t.declared # t.size \/ ~ t.valid)

\* Mutant of Malformed: a record may be empty.
MalformedOverrun(t, o) == o + 2 > t.size \/ o + t.recs[o].len > t.size

Malformed(t, o) == o + 2 > t.size \/ t.recs[o].len < 2 \/ o + t.recs[o].len > t.size

\* The records each program counts as a processor, and as an NMI entry.
IsCpu(tool, r) ==
    CASE tool = "build"    -> r.kind = LocalApic
      [] tool = "dump"     -> r.kind = LocalApic /\ r.len >= 8
      [] tool = "validate" -> /\ r.enabled
                              /\ \/ r.kind = LocalApic /\ r.len >= 8
                                 \/ r.kind = LocalX2 /\ r.len >= 16
IsNmi(tool, r) ==
    CASE tool = "build"    -> r.kind = ApicNmi
      [] tool = "dump"     -> r.kind = ApicNmi /\ r.len >= 6
      [] tool = "validate" -> \/ r.kind = ApicNmi /\ r.len >= 6
                              \/ r.kind = X2Nmi /\ r.len >= 12

Uids(t, os) == {t.recs[os[i]].uid : i \in DOMAIN os}

-----------------------------------------------------------------------------
(***************************************************************************)
(* The patch: the NMI records of the table, found as one sequence of bytes *)
(* and replaced by the same records with UIDs from 0.                      *)
(***************************************************************************)

\* Mutant of Replacement: UIDs from 1.
ReplacementFromOne(find) == [i \in DOMAIN find |-> [find[i] EXCEPT !.uid = i]]

Replacement(find) == [i \in DOMAIN find |-> [find[i] EXCEPT !.uid = i - 1]]

\* The bytes from o on become those of the records new, six each: records of the
\* table, or the payload of one.
Patched(t, o, new) ==
    IF o \in DOMAIN t.recs
    THEN [t EXCEPT !.valid = TRUE,
                   !.recs = [p \in DOMAIN t.recs |->
                       IF \E i \in DOMAIN new : p = o + 6 * (i - 1)
                       THEN new[CHOOSE i \in DOMAIN new : p = o + 6 * (i - 1)] ELSE t.recs[p]]]
    ELSE [t EXCEPT !.valid = TRUE,
                   !.echo = [p \in DOMAIN t.echo |-> IF p = o THEN new ELSE t.echo[p]]]

\* Mutant of BuilderAccepts: the UIDs of the NMI entries are not looked at.
BuilderAcceptsAny(t, cpus, nmis) ==
    /\ Len(cpus) = N /\ Len(nmis) = N
    /\ \A i \in 1 .. N : t.recs[nmis[i]].len = 6 /\ nmis[i] = nmis[1] + 6 * (i - 1)
    /\ \A i \in 1 .. N : t.recs[cpus[i]].uid = i - 1

\* The builder refuses any table but the one with UIDs off by one.
BuilderAccepts(t, cpus, nmis) ==
    /\ Len(cpus) = N /\ Len(nmis) = N
    /\ \A i \in 1 .. N : t.recs[nmis[i]].len = 6 /\ nmis[i] = nmis[1] + 6 * (i - 1)
    /\ \A i \in 1 .. N : t.recs[nmis[i]].uid = i
    /\ \A i \in 1 .. N : t.recs[cpus[i]].uid = i - 1

Stage(t, nmis) ==
    LET find == [i \in 1 .. N |-> t.recs[nmis[i]]]
    IN  [on |-> TRUE, of |-> t, find |-> find, reference |-> Patched(t, nmis[1], Replacement(find))]

\* Where OpenCore finds the patch's bytes in a table: it looks at every offset
\* and knows nothing of records.
Occurrences(t, find) ==
    {o \in DOMAIN t.recs : \A i \in DOMAIN find :
        o + 6 * (i - 1) \in DOMAIN t.recs /\ t.recs[o + 6 * (i - 1)] = find[i]}
    \cup {o \in DOMAIN t.echo : t.echo[o] = find}

\* A patch is tried on a table of the same OEM table id and length, and
\* replaces the first occurrence only.
OpenCore(s, t) ==
    LET os == Occurrences(t, s.find)
    IN  IF t.oem = s.of.oem /\ t.declared = s.of.declared /\ os # {}
        THEN Patched(t, CHOOSE o \in os : \A p \in os : o <= p, Replacement(s.find))
        ELSE t

-----------------------------------------------------------------------------
(***************************************************************************)
(* The verdicts.                                                           *)
(***************************************************************************)

\* validate_madt, of the UIDs it found.
Issues(cpus, nmis) ==
    LET concrete == nmis \ {Wildcard}
        wild     == Wildcard \in nmis
    IN  (IF concrete \ cpus # {} \/ (~ wild /\ cpus \ concrete # {})
         THEN {"MADT_NMI_UID_MISMATCH"} ELSE {})
        \cup (IF ~ wild /\ {u + 1 : u \in cpus} = concrete
              THEN {"NMI_UID_OFFSET_PLUS_ONE"} ELSE {})

-----------------------------------------------------------------------------
(***************************************************************************)
(* Steps.                                                                  *)
(***************************************************************************)

\* A parser starts on its table: the dump on what Windows sees, the other two on
\* the file.  The dump walks no table whose length is not the declared one.
Start(tool) ==
    /\ walk.tool = "none"
    /\ LET t == IF tool = "dump" THEN visible ELSE file
       IN  /\ t # NoTable
           /\ ~ HeaderRefused(tool, t)
           /\ walk' = [tool |-> tool, table |-> t, cpus |-> <<>>, nmis |-> <<>>,
                       at |-> IF t.declared = t.size THEN 0 ELSE t.size]
    /\ UNCHANGED <<visible, file, staged, report, verdict>>

\* Mutant of Walk: the length is taken without the two bytes of its header.
WalkPastHeader ==
    /\ walk.tool # "none" /\ walk.at < walk.table.size
    /\ walk' = [walk EXCEPT !.at = @ + walk.table.recs[@].len + 2]
    /\ UNCHANGED <<visible, file, staged, report, verdict>>

\* The next record is counted or passed over, and the offset moves by its length.
\* A malformed one raises.
Walk ==
    /\ walk.tool # "none" /\ walk.at < walk.table.size
    /\ LET r == walk.table.recs[walk.at]
           next(os, take) == IF take THEN Append(os, walk.at) ELSE os
       IN  IF Malformed(walk.table, walk.at) THEN walk' = NoWalk
           ELSE walk' = [walk EXCEPT !.at = @ + r.len,
                                     !.cpus = next(@, IsCpu(walk.tool, r)),
                                     !.nmis = next(@, IsNmi(walk.tool, r))]
    /\ UNCHANGED <<visible, file, staged, report, verdict>>

AtEnd(tool) == walk.tool = tool /\ walk.at >= walk.table.size

\* The builder replaces its staging directory if it accepts the table.
Build ==
    /\ AtEnd("build")
    /\ staged' = IF BuilderAccepts(walk.table, walk.cpus, walk.nmis)
                 THEN Stage(walk.table, walk.nmis) ELSE staged
    /\ walk' = NoWalk
    /\ UNCHANGED <<visible, file, report, verdict>>

\* The table is written to apic.dat, or no file was asked for.
Save(t) ==
    \/ file' = t /\ verdict' = NoVerdict
    \/ UNCHANGED <<file, verdict>>

\* Mutant of Dump: it compares how many UIDs there are.
DumpByCount ==
    /\ AtEnd("dump")
    /\ report' = [done |-> TRUE, valid |-> walk.table.valid,
                  match |-> Len(walk.nmis) = Len(walk.cpus)]
    /\ Save(walk.table) /\ walk' = NoWalk
    /\ UNCHANGED <<visible, staged>>

\* The table is described, and saved if a file was asked for.
Dump ==
    /\ AtEnd("dump")
    /\ report' = [done |-> TRUE,
                  valid |-> walk.table.declared <= walk.table.size /\ walk.table.valid,
                  match |-> /\ walk.table.declared = walk.table.size
                            /\ Uids(walk.table, walk.nmis) = Uids(walk.table, walk.cpus)]
    /\ Save(walk.table) /\ walk' = NoWalk
    /\ UNCHANGED <<visible, staged>>

Validate ==
    /\ AtEnd("validate")
    /\ verdict' = [done |-> TRUE, issues |-> Issues(Uids(walk.table, walk.cpus), Uids(walk.table, walk.nmis))]
    /\ walk' = NoWalk
    /\ UNCHANGED <<visible, file, staged, report>>

\* Somebody names another file.
GiveFile ==
    /\ walk.tool = "none"
    /\ file' \in Tables /\ verdict' = NoVerdict
    /\ UNCHANGED <<visible, walk, staged, report>>

\* A boot, directly, through the control configuration or with the patch, after
\* an update of the firmware or not.  It ends what ran.
Boot ==
    /\ \E fw \in Firmwares :
          visible' \in {fw} \cup (IF staged.on THEN {OpenCore(staged, fw)} ELSE {})
    /\ walk' = NoWalk /\ report' = NoReport
    /\ UNCHANGED <<file, staged, verdict>>

Init ==
    /\ visible \in Firmwares /\ file = NoTable /\ walk = NoWalk
    /\ staged = NoStage /\ report = NoReport /\ verdict = NoVerdict

Next == \/ \E tool \in Tools : Start(tool)
        \/ Walk \/ Build \/ Dump \/ Validate \/ GiveFile \/ Boot

Spec == Init /\ [][Next]_vars

\* A parser that was started runs until it ends.
FairSpec == Spec /\ WF_vars(Walk) /\ WF_vars(Build) /\ WF_vars(Dump) /\ WF_vars(Validate)
-----------------------------------------------------------------------------
(***************************************************************************)
(* Properties.                                                             *)
(***************************************************************************)

\* The offsets of the records up to a point that satisfy P.
CpusOf(tool, t, end) == {o \in DOMAIN t.recs : o < end /\ IsCpu(tool, t.recs[o])}
NmisOf(tool, t, end) == {o \in DOMAIN t.recs : o < end /\ IsNmi(tool, t.recs[o])}
UidsAt(t, os) == {t.recs[o].uid : o \in os}

\* A list of the offsets in S, in order.
Lists(os, S) ==
    /\ os \in Seq(S) /\ \A o \in S : \E i \in DOMAIN os : os[i] = o
    /\ \A i, j \in DOMAIN os : i < j => os[i] < os[j]

\* The inductive invariant: a walk has taken, in order, exactly the records up
\* to where it is; what was staged, printed and judged follows from the table.
FileInv ==
    /\ IsTable(visible) /\ IsTable(file) /\ IsTable(walk.table)
    /\ visible.declared = visible.size
    /\ walk.tool \in Tools \cup {"none"} /\ DOMAIN walk = DOMAIN NoWalk
WalkInv ==
    walk.tool # "none" =>
        /\ walk.at \in 0 .. walk.table.size
        /\ walk.at < walk.table.size => walk.at \in DOMAIN walk.table.recs
        /\ walk.tool # "dump" => walk.table = file /\ walk.table.valid
        /\ walk.tool = "dump" => walk.table = visible
        /\ Lists(walk.cpus, CpusOf(walk.tool, walk.table, walk.at))
        /\ Lists(walk.nmis, NmisOf(walk.tool, walk.table, walk.at))
StageInv ==
    staged = NoStage \/
        /\ IsTable(staged.of) /\ staged.of.valid
        /\ \E nmis \in [1 .. N -> DOMAIN staged.of.recs] :
              /\ staged = Stage(staged.of, nmis)
              /\ Lists(nmis, NmisOf("build", staged.of, staged.of.size))
              /\ \E cpus \in [1 .. N -> DOMAIN staged.of.recs] :
                    /\ Lists(cpus, CpusOf("build", staged.of, staged.of.size))
                    /\ BuilderAccepts(staged.of, cpus, nmis)
ReportInv ==
    report.done => report.match =
        (UidsAt(visible, NmisOf("dump", visible, visible.size))
            = UidsAt(visible, CpusOf("dump", visible, visible.size)))
VerdictInv ==
    verdict.done => verdict.issues =
        Issues(UidsAt(file, CpusOf("validate", file, file.size)),
               UidsAt(file, NmisOf("validate", file, file.size)))
IInv == FileInv /\ WalkInv /\ StageInv /\ ReportInv /\ VerdictInv

\* The patch's bytes also lie in a record in front of the NMI entries.
Shadowed(s) ==
    \E o \in DOMAIN s.of.echo :
        s.of.echo[o] = s.find /\ \A p \in NmisOf("build", s.of, s.of.size) : o < p

\* The tables have the same records, but for the UIDs of NMI entries.
SameButUids(t, new) ==
    /\ DOMAIN new.recs = DOMAIN t.recs
    /\ \A o \in DOMAIN t.recs : new.recs[o] # t.recs[o] =>
          IsNmi("build", t.recs[o]) /\ new.recs[o] = [t.recs[o] EXCEPT !.uid = new.recs[o].uid]

\* The builder patches by offset and OpenCore by searching for bytes, and nobody
\* checks that they occur once.  In no table of any firmware does OpenCore change
\* a record in anything but the UID of an NMI entry.  In the table the builder
\* was given it makes what the builder predicts, with UIDs that fit, unless the
\* bytes come earlier in a payload: then the entries stay as wrong as they were.
PatchLands ==
    staged.on =>
        LET t == staged.of  got == OpenCore(staged, t)
        IN  /\ \A fw \in Firmwares \cup {t} : SameButUids(fw, OpenCore(staged, fw))
            /\ IF Shadowed(staged) THEN got.recs = t.recs
               ELSE /\ got = staged.reference
                    /\ UidsAt(got, NmisOf("build", got, t.size)) = UidsAt(got, CpusOf("build", got, t.size))

\* Every processor is enabled, no entry is an x2APIC one, none stands for all.
Plain(t) ==
    \A o \in DOMAIN t.recs :
        LET r == t.recs[o]
        IN  /\ r.kind \notin {LocalX2, X2Nmi}
            /\ r.kind = LocalApic => r.enabled /\ r.len >= 8
            /\ r.kind = ApicNmi => r.uid # Wildcard /\ r.len >= 6

\* On a plain table the gate of docs/opencore-madt-experiment.md
\* (nmi_uid_set_matches_cpu_uid_set) and the validator give one answer.
ParsersAgree ==
    report.done /\ verdict.done /\ file = visible /\ Plain(visible) =>
        report.match = ("MADT_NMI_UID_MISMATCH" \notin verdict.issues)

\* The validator calls the table the builder patches shifted by one, and finds
\* nothing in the table the builder predicts.  (It calls others so that the
\* builder refuses.)
CureFitsDiagnosis ==
    staged.on /\ verdict.done /\ Plain(staged.of) =>
        /\ file = staged.of =>
              verdict.issues = {"MADT_NMI_UID_MISMATCH", "NMI_UID_OFFSET_PLUS_ONE"}
        /\ file = staged.reference => verdict.issues = {}

\* A walk ends, whatever the bytes of the table.
WalkEnds == walk.tool # "none" ~> walk.tool = "none"
=============================================================================
