------------------------- MODULE ProcessorEvidence -------------------------
(***************************************************************************)
(* tools/collect/linux: the collector reads every MSR of its table on      *)
(* every online logical processor, one after the other, while the machine  *)
(* goes on; the analyzer compares the processors of each collection and    *)
(* the two collections with each other.                                    *)
(***************************************************************************)
EXTENDS Integers

CONSTANTS
    Cpus,      \* the logical processors, 0 boots the machine
    Values,    \* what a register may hold
    Absent,    \* the processor does not have the register
    Machines,  \* what the registers may hold after a boot
    MaxEvents  \* bound: how often a processor or the microcode changes

\* The MSRs by what the code does with them: the clock is dropped; the APIC
\* base loses its BSP bit; the analyzer decodes apic and vmx (feature control,
\* VMX basic, controls and EPT/VPID) and does without sign (microcode, VMX misc).
MsrTable  == <<"clock", "apic", "sign", "vmx">>
Msrs      == {"clock", "apic", "sign", "vmx"}
Registers == {"apic", "sign", "vmx"}
Decoded   == {"apic", "vmx"}
Runs      == {"on", "off"}     \* the two collections

ASSUME CpusAssumption == Cpus \subseteq Nat /\ 0 \in Cpus
ASSUME ValuesAssumption == Values \subseteq Nat /\ Absent \notin Values
ASSUME EventsAssumption == MaxEvents \in Nat
ASSUME MachinesAssumption == Machines \subseteq [Cpus -> [Registers -> Values \cup {Absent}]]

VARIABLES
    regs,     \* the registers of each processor
    online,   \* the processors that are online
    driver,   \* the msr driver is loaded
    run,      \* the collection that runs, "none" if none does
    listed,   \* the processors it found online when it started
    cpu,      \* the one it reads
    next,     \* the index of the MSR it reads next
    got,      \* what it has read
    file,     \* tgl-vmx-msrs.json of each collection
    printed,  \* what the analyzer has just printed
    uniform,  \* observation: the registers the listed processors agreed in when
              \* the file was written
    events    \* how many changes there were

vars == <<regs, online, driver, run, listed, cpu, next, got, file, printed, uniform, events>>
collector == <<run, listed, cpu, next, got>>

-----------------------------------------------------------------------------
(***************************************************************************)
(* A reading is a value or the text of an error.  The text names the       *)
(* processor when its device cannot be opened; it does not when the read   *)
(* fails, because the register is absent or the processor is gone by then. *)
(***************************************************************************)
IoError == -1
Gone    == -2
Unread  == -3
Read(v, b) == [ok |-> TRUE, value |-> v, bsp |-> b, text |-> 0]
Error(t)   == [ok |-> FALSE, value |-> 0, bsp |-> FALSE, text |-> t]
NotRead    == Error(Unread)
Readings   == [ok : {TRUE}, value : Nat, bsp : BOOLEAN, text : {0}] \cup
              [ok : {FALSE}, value : {0}, bsp : {FALSE}, text : Cpus \cup {IoError, Gone, Unread}]
Nothing    == [c \in Cpus |-> [m \in Msrs |-> NotRead]]

ReadMsr(c, m) ==
    IF ~ driver THEN {Error(c)}
    ELSE IF c \notin online THEN {Error(c), Error(Gone)}
    ELSE IF m = "clock" THEN {Read(c, FALSE)}
    ELSE IF regs[c][m] = Absent THEN {Error(IoError)}
    ELSE {Read(regs[c][m], m = "apic" /\ c = 0)}

First(S) == CHOOSE c \in S : \A d \in S : c <= d

\* What has to agree between processors.
Fingerprint(g, c) == [m \in Registers |-> [g[c][m] EXCEPT !.bsp = FALSE]]
Groups(g, S) == {{d \in S : Fingerprint(g, d) = Fingerprint(g, c)} : c \in S}

Files  == [state : {"none", "torn", "whole"}, listed : SUBSET Cpus,
           groups : SUBSET SUBSET Cpus, got : [Cpus -> [Msrs -> Readings]]]
NoFile == [state |-> "none", listed |-> {}, groups |-> {}, got |-> Nothing]
Torn   == [NoFile EXCEPT !.state = "torn"]
Report(S, g) == [state |-> "whole", listed |-> S, groups |-> Groups(g, S), got |-> g]

-----------------------------------------------------------------------------
(***************************************************************************)
(* The analyzer: a function of the two files.                              *)
(***************************************************************************)
AllIdentical(f) == f.groups = {f.listed}

\* summarize looks processor 0 up and decodes three of its entries.
SummaryRaises(f) == 0 \notin f.listed \/ \E m \in Decoded : ~ f.got[0][m].ok

\* Mutant of Mismatches: the BSP bit counts.
MismatchesWithBsp(f) ==
    {m \in Registers : \E c \in f.listed : f.got[c][m] # f.got[First(f.listed)][m]}

\* The registers in which a processor differs from the first, the BSP bit apart.
Mismatches(f) ==
    LET ref == f.got[First(f.listed)]
    IN  {m \in Registers : \E c \in f.listed :
            /\ f.got[c][m] # ref[m]
            /\ ~ (m = "apic" /\ ref[m].ok /\ f.got[c][m].value = ref[m].value)}

\* The mask of the APIC base cannot be taken of an error.
CrossRaises(f) ==
    LET ref == f.got[First(f.listed)]
    IN  ref["apic"].ok /\ \E c \in f.listed : ~ f.got[c]["apic"].ok

Raises(f) == SummaryRaises(f) \/ CrossRaises(f)

\* Mutant of Changed: only the registers with a value in both count.
ChangedOk(a, b) ==
    {"clock"} \cup {m \in Registers : a.got[0][m].ok /\ b.got[0][m].ok /\ a.got[0][m] # b.got[0][m]}

\* Processor 0 in one collection and in the other; no clock reads the same twice.
Changed(a, b) == {"clock"} \cup {m \in Registers : a.got[0][m] # b.got[0][m]}

\* It prints as it goes: the group verdict of "on", its own comparison, both of
\* "off", then the difference.  What it raises on ends it; what it has printed
\* stays.  A missing cpuinfo.txt ends it after all of that.
NoOutput == [done |-> FALSE, identical |-> {}, compared |-> {}, clean |-> {}, changed |-> {}]
Compared == {r \in Runs : ~ Raises(file["on"]) /\ ~ Raises(file[r])}
Judged   == {"on"} \cup (IF "on" \in Compared THEN {"off"} ELSE {})
Output ==
    [done |-> TRUE,
     identical |-> {r \in Judged : AllIdentical(file[r])},
     compared |-> Compared, clean |-> {r \in Compared : Mismatches(file[r]) = {}},
     changed |-> IF Compared = Runs THEN Changed(file["on"], file["off"]) ELSE {}]

-----------------------------------------------------------------------------
(***************************************************************************)
(* The collection.                                                         *)
(***************************************************************************)

\* The shell creates the file, modprobe may fail, the list of processors is
\* read once.
Start(r) ==
    /\ run = "none" /\ file[r].state # "whole"
    /\ run' = r
    /\ driver' \in BOOLEAN
    /\ listed' = online /\ cpu' = First(online) /\ next' = 1 /\ got' = Nothing
    /\ file' = [file EXCEPT ![r] = Torn]
    /\ printed' = NoOutput
    /\ UNCHANGED <<regs, online, uniform, events>>

\* Mutant of After: it starts one too far.
AfterSkips(c) == {d \in listed : d > c + 1}

\* The processors still to be read after c.
After(c) == {d \in listed : d > c}

\* Moves to the next MSR, or to the next processor after the last one.
Advance ==
    IF next = 4 /\ After(cpu) # {}
    THEN \E c \in After(cpu) : (\A d \in After(cpu) : c <= d) /\ cpu' = c /\ next' = 1
    ELSE cpu' = cpu /\ next' = next + 1

\* Mutants of ReadNext: a failed read is tried again; the readings of all
\* processors share one dictionary.
ReadNextRetry ==
    /\ run # "none" /\ next <= 4
    /\ \E r \in ReadMsr(cpu, MsrTable[next]) :
          r.ok /\ got' = [got EXCEPT ![cpu][MsrTable[next]] = r]
    /\ Advance
    /\ printed' = NoOutput
    /\ UNCHANGED <<regs, online, driver, run, listed, file, uniform, events>>
ReadNextShared ==
    /\ run # "none" /\ next <= 4
    /\ \E r \in ReadMsr(cpu, MsrTable[next]) :
          got' = [c \in Cpus |-> [got[c] EXCEPT ![MsrTable[next]] = r]]
    /\ Advance
    /\ printed' = NoOutput
    /\ UNCHANGED <<regs, online, driver, run, listed, file, uniform, events>>

\* One read_msr: an error is recorded, and the loop goes on.
ReadNext ==
    /\ run # "none" /\ next <= 4
    /\ \E r \in ReadMsr(cpu, MsrTable[next]) : got' = [got EXCEPT ![cpu][MsrTable[next]] = r]
    /\ Advance
    /\ printed' = NoOutput
    /\ UNCHANGED <<regs, online, driver, run, listed, file, uniform, events>>

\* The registers in which the processors of S agree.
Uniform(S) == {m \in Registers : \A c, d \in S : regs[c][m] = regs[d][m]}

\* The report is printed at the end.
Write ==
    /\ run # "none" /\ next = 5
    /\ file' = [file EXCEPT ![run] = Report(listed, got)]
    /\ uniform' = [uniform EXCEPT ![run] = Uniform(listed)]
    /\ run' = "none" /\ listed' = {} /\ cpu' = 0 /\ next' = 1 /\ got' = Nothing
    /\ printed' = NoOutput
    /\ UNCHANGED <<regs, online, driver, events>>

\* The analyzer needs both files; a torn one is no JSON.
Analyze ==
    /\ run = "none" /\ ~ printed.done
    /\ \A r \in Runs : file[r].state = "whole"
    /\ printed' = Output
    /\ UNCHANGED <<regs, online, driver, file, uniform, events>> /\ UNCHANGED collector

-----------------------------------------------------------------------------
(***************************************************************************)
(* The machine.                                                            *)
(***************************************************************************)

\* A processor other than 0 is taken offline or brought back.
Hotplug ==
    /\ events < MaxEvents /\ events' = events + 1
    /\ \E c \in Cpus \ {0} :
          online' = IF c \in online THEN online \ {c} ELSE online \cup {c}
    /\ printed' = NoOutput
    /\ UNCHANGED <<regs, driver, file, uniform>> /\ UNCHANGED collector

\* A late microcode load changes a register of every processor at once; the
\* kernel refuses it while a processor is offline.
LoadMicrocode ==
    /\ online = Cpus
    /\ events < MaxEvents /\ events' = events + 1
    /\ \E m \in {"sign", "vmx"}, v \in Values :
          regs' = [c \in Cpus |-> [regs[c] EXCEPT ![m] = v]]
    /\ printed' = NoOutput
    /\ UNCHANGED <<online, driver, file, uniform>> /\ UNCHANGED collector

\* A reboot, with VMX on or off in the firmware, ends a collection.
Reboot ==
    /\ regs' \in Machines
    /\ online' = Cpus
    /\ driver' = FALSE
    /\ run' = "none" /\ listed' = {} /\ cpu' = 0 /\ next' = 1 /\ got' = Nothing
    /\ printed' = NoOutput
    /\ UNCHANGED <<file, uniform, events>>

Init ==
    /\ regs \in Machines
    /\ online = Cpus /\ driver = FALSE
    /\ run = "none" /\ listed = {} /\ cpu = 0 /\ next = 1 /\ got = Nothing
    /\ file = [r \in Runs |-> NoFile]
    /\ printed = NoOutput
    /\ uniform = [r \in Runs |-> {}] /\ events = 0

Next == \/ \E r \in Runs : Start(r)
        \/ ReadNext \/ Write \/ Analyze
        \/ Hotplug \/ LoadMicrocode \/ Reboot

Spec == Init /\ [][Next]_vars

\* A collector that was started is scheduled until it ends; nobody has to
\* start one, and nothing else has to happen.
FairSpec == Spec /\ WF_vars(ReadNext) /\ WF_vars(Write)

-----------------------------------------------------------------------------
(***************************************************************************)
(* Properties.                                                             *)
(***************************************************************************)

\* The inductive invariant.  Types; where the loop is; and, of the readings of
\* one register so far: if they are all the same value, the processors that
\* were read hold one value now, whatever was loaded in between.
BspOfApic(g) == \A c \in Cpus, m \in Msrs : g[c][m].bsp => m = "apic"
TypeInv ==
    /\ regs \in [Cpus -> [Registers -> Values \cup {Absent}]]
    /\ uniform \in [Runs -> SUBSET Registers]
    /\ online \subseteq Cpus /\ 0 \in online
    /\ driver \in BOOLEAN /\ events \in Nat
    /\ run \in Runs \cup {"none"}
    /\ listed \subseteq Cpus /\ cpu \in Cpus /\ next \in 1 .. 5
    /\ got \in [Cpus -> [Msrs -> Readings]]
    /\ file \in [Runs -> Files]
LoopInv ==
    /\ run # "none" => cpu \in listed /\ 0 \in listed
    /\ run = "none" => listed = {} /\ next = 1 /\ got = Nothing
    /\ next = 5 => After(cpu) = {}
    /\ BspOfApic(got)
    /\ \A c \in Cpus, i \in 1 .. 4 :
          (got[c][MsrTable[i]] # NotRead) =
              (run # "none" /\ c \in listed /\ (c < cpu \/ (c = cpu /\ i < next)))
\* The processors that were read gave one value.
OneValue(g, m) ==
    \A c, d \in Cpus : g[c][m] # NotRead /\ g[d][m] # NotRead =>
        g[c][m].ok /\ g[c][m].value = g[d][m].value
ReadInv ==
    \A m \in Registers : OneValue(got, m) =>
        \/ \A c, d \in Cpus : regs[c][m] = regs[d][m]
        \/ \A c \in Cpus : got[c][m] # NotRead => regs[c][m] = got[c][m].value
FileInv ==
    \A r \in Runs :
        /\ file[r] \in {NoFile, Torn} \/ file[r] = Report(file[r].listed, file[r].got)
        /\ file[r].state = "whole" => 0 \in file[r].listed
        /\ BspOfApic(file[r].got)
        /\ \A c \in Cpus, m \in Msrs : (file[r].got[c][m] # NotRead) = (c \in file[r].listed)
        /\ file[r].state = "whole" =>
              \A m \in Registers : OneValue(file[r].got, m) => m \in uniform[r]
OutputInv == printed = NoOutput \/ ((\A r \in Runs : file[r].state = "whole") /\ printed = Output)
IInv == TypeInv /\ LoopInv /\ ReadInv /\ FileInv /\ OutputInv

\* docs/vmx-msr.md refutes a deviating processor from one group of all LPs:
\* when ALL LPs IDENTICAL is printed of a collection, even by a run that raises
\* later, the listed processors held the same value in each register that could
\* be read at the moment the file was written, although they were read one after
\* the other.
IdenticalIsUniform ==
    printed.done => \A r \in printed.identical, m \in Registers :
        (\A c \in file[r].listed : file[r].got[c][m].ok) => m \in uniform[r]

\* The collector's groups and the analyzer's own comparison are two algorithms
\* for one question: where both are printed they give one answer.
GroupsAgreeWithDiff ==
    \A r \in printed.compared : r \in printed.identical <=> r \in printed.clean

\* The analyzer compares the two collections on processor 0 only.  When each
\* collection is uniform, a register it does not list as changed read the same
\* on every processor that both collections list.
CpuZeroSpeaks ==
    printed.compared = Runs /\ printed.identical = Runs =>
        \A c \in file["on"].listed \cap file["off"].listed, m \in Registers \ printed.changed :
            Fingerprint(file["on"].got, c)[m] = Fingerprint(file["off"].got, c)[m]

\* A collection ends, whatever fails and whatever the machine does meanwhile.
CollectionEnds == \A r \in Runs : run = r ~> run = "none"
=============================================================================
