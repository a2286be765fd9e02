---------------------- MODULE ProcessorEvidenceProofs ----------------------
(***************************************************************************)
(* Theorems about ProcessorEvidence, for any processors, values, machines  *)
(* and number of changes.                                                  *)
(***************************************************************************)
EXTENDS ProcessorEvidence, TLAPS

-----------------------------------------------------------------------------
(***************************************************************************)
(* The operators.                                                          *)
(***************************************************************************)

\* The first processor of a list with processor 0 is processor 0.
LEMMA FirstIsZero ==
    ASSUME NEW S \in SUBSET Nat, 0 \in S
    PROVE  First(S) = 0
<1>1. 0 \in S /\ \A d \in S : 0 <= d
  OBVIOUS
<1>2. ASSUME NEW c \in S, \A d \in S : c <= d PROVE c = 0
  <2>1. c \in Nat /\ c <= 0
    BY <1>2
  <2> QED BY <2>1
<1> QED BY <1>1, <1>2 DEF First

\* An error text and a value are readings, and not the mark of an unread MSR.
LEMMA ErrorType ==
    ASSUME NEW t \in Cpus \cup {IoError, Gone}
    PROVE  Error(t) \in Readings /\ Error(t) # NotRead /\ ~ Error(t).ok /\ ~ Error(t).bsp
<1>1. t # Unread
  BY CpusAssumption DEF IoError, Gone, Unread
<1>2. Error(t).text = t /\ NotRead.text = Unread
  BY DEF Error, NotRead
<1> QED BY <1>1, <1>2 DEF Error, NotRead, Readings, Unread

LEMMA ReadType ==
    ASSUME NEW v \in Nat, NEW b \in BOOLEAN
    PROVE  /\ Read(v, b) \in Readings /\ Read(v, b) # NotRead
           /\ Read(v, b).value = v /\ Read(v, b).bsp = b
<1>1. Read(v, b).ok /\ ~ NotRead.ok
  BY DEF Read, Error, NotRead
<1> QED BY <1>1, CpusAssumption DEF Read, Readings

\* A reading of an MSR is a reading, and shows what the register holds.
LEMMA ReadMsrType ==
    ASSUME TypeInv, NEW c \in Cpus, NEW m \in Msrs, NEW r \in ReadMsr(c, m)
    PROVE  /\ r \in Readings
           /\ r # NotRead
           /\ r.bsp => m = "apic"
           /\ r.ok /\ m # "clock" => r.value = regs[c][m] /\ regs[c][m] \in Values
<1>1. ASSUME ~ driver \/ c \notin online PROVE r \in {Error(c), Error(Gone)}
  BY <1>1 DEF ReadMsr
<1>2. CASE ~ driver \/ c \notin online
  BY <1>1, <1>2, ErrorType
<1>3. CASE driver /\ c \in online /\ m = "clock"
  <2>1. r = Read(c, FALSE) /\ c \in Nat
    BY <1>3, CpusAssumption DEF ReadMsr
  <2> QED BY <2>1, <1>3, ReadType
<1>4. CASE driver /\ c \in online /\ m # "clock" /\ regs[c][m] = Absent
  <2>1. r = Error(IoError)
    BY <1>4 DEF ReadMsr
  <2> QED BY <2>1, ErrorType
<1>5. CASE driver /\ c \in online /\ m # "clock" /\ regs[c][m] # Absent
  <2>1. m \in Registers
    BY <1>5 DEF Msrs, Registers
  <2>2. regs[c][m] \in Values /\ regs[c][m] \in Nat
    BY <1>5, <2>1, ValuesAssumption DEF TypeInv
  <2>3. r = Read(regs[c][m], m = "apic" /\ c = 0)
    BY <1>5 DEF ReadMsr
  <2> QED BY <2>2, <2>3, ReadType
<1> QED BY <1>2, <1>3, <1>4, <1>5

\* One group that holds every listed processor: all fingerprints are equal.
LEMMA OneGroup ==
    ASSUME NEW g, NEW S, 0 \in S
    PROVE  Groups(g, S) = {S} <=> \A c \in S : Fingerprint(g, c) = Fingerprint(g, 0)
<1>1. ASSUME Groups(g, S) = {S} PROVE \A c \in S : Fingerprint(g, c) = Fingerprint(g, 0)
  <2>1. {d \in S : Fingerprint(g, d) = Fingerprint(g, 0)} \in Groups(g, S)
    BY DEF Groups
  <2> QED BY <1>1, <2>1
<1>2. ASSUME \A c \in S : Fingerprint(g, c) = Fingerprint(g, 0) PROVE Groups(g, S) = {S}
  <2>1. \A c \in S : {d \in S : Fingerprint(g, d) = Fingerprint(g, c)} = S
    BY <1>2
  <2> QED BY <2>1 DEF Groups
<1> QED BY <1>1, <1>2

-----------------------------------------------------------------------------
(***************************************************************************)
(* The inductive invariant.                                                *)
(***************************************************************************)

\* The table names every MSR once.
LEMMA TableOfMsrs ==
    /\ \A i \in 1 .. 4 : MsrTable[i] \in Msrs
    /\ \A i, j \in 1 .. 4 : MsrTable[i] = MsrTable[j] => i = j
    /\ \A m \in Msrs : \E i \in 1 .. 4 : m = MsrTable[i]
<1>1. /\ MsrTable[1] = "clock" /\ MsrTable[2] = "apic"
      /\ MsrTable[3] = "sign" /\ MsrTable[4] = "vmx"
  BY DEF MsrTable
<1>2. \A i \in 1 .. 4 : i = 1 \/ i = 2 \/ i = 3 \/ i = 4
  OBVIOUS
<1>3. \A i \in 1 .. 4 : MsrTable[i] \in Msrs
  BY <1>1, <1>2 DEF Msrs
<1>4. \A i, j \in 1 .. 4 : MsrTable[i] = MsrTable[j] => i = j
  BY <1>1, <1>2
<1>5. \A m \in Msrs : \E i \in 1 .. 4 : m = MsrTable[i]
  BY <1>1 DEF Msrs
<1> QED BY <1>3, <1>4, <1>5

\* Nothing was read when nothing runs.
LEMMA NothingIsUnread ==
    /\ Nothing \in [Cpus -> [Msrs -> Readings]]
    /\ \A c \in Cpus, m \in Msrs : Nothing[c][m] = NotRead
    /\ BspOfApic(Nothing)
    /\ NoFile \in Files /\ Torn \in Files
<1>1. NotRead \in Readings
  BY DEF NotRead, Error, Readings
<1>2. ~ NotRead.bsp
  BY DEF NotRead, Error
<1> QED BY <1>1, <1>2 DEF Nothing, NoFile, Torn, Files, BspOfApic

LEMMA InitInv == Init => IInv
<1> SUFFICES ASSUME Init PROVE IInv
  OBVIOUS
<1> USE CpusAssumption, MachinesAssumption, EventsAssumption, NothingIsUnread
<1>1. TypeInv
  <2>1. regs \in [Cpus -> [Registers -> Values \cup {Absent}]]
    BY DEF Init
  <2>2. uniform \in [Runs -> SUBSET Registers] /\ file \in [Runs -> Files]
    BY DEF Init
  <2>3. /\ online \subseteq Cpus /\ 0 \in online /\ events \in Nat
        /\ run \in Runs \cup {"none"} /\ listed \subseteq Cpus /\ cpu \in Cpus /\ next \in 1 .. 5
        /\ got \in [Cpus -> [Msrs -> Readings]]
    BY DEF Init
  <2>4. driver \in BOOLEAN
    BY DEF Init
  <2> QED BY <2>1, <2>2, <2>3, <2>4 DEF TypeInv
<1>2. LoopInv
  BY TableOfMsrs DEF Init, LoopInv
<1>3. ReadInv
  BY DEF Init, ReadInv, Registers, Msrs
<1>4. FileInv
  BY DEF Init, FileInv, NoFile, Runs
<1>5. OutputInv
  BY DEF Init, OutputInv
<1> QED BY <1>1, <1>2, <1>3, <1>4, <1>5 DEF IInv

\* The machine's own steps, and the analyzer's, leave the collector alone.
LEMMA MachineStepInv ==
    ASSUME IInv, Analyze \/ Hotplug \/ LoadMicrocode \/ Reboot
    PROVE  IInv'
<1> USE CpusAssumption, MachinesAssumption, EventsAssumption, NothingIsUnread DEF IInv, collector
<1>1. TypeInv'
  <2>1. CASE Analyze
    BY <2>1 DEF Analyze, TypeInv
  <2>2. CASE Hotplug
    BY <2>2 DEF Hotplug, TypeInv
  <2>3. CASE LoadMicrocode
    <3>0. PICK m \in {"sign", "vmx"}, v \in Values : regs' = [c \in Cpus |-> [regs[c] EXCEPT ![m] = v]]
      BY <2>3 DEF LoadMicrocode
    <3>1. regs' \in [Cpus -> [Registers -> Values \cup {Absent}]]
      BY <3>0 DEF TypeInv
    <3> QED BY <3>1, <2>3 DEF LoadMicrocode, TypeInv
  <2>4. CASE Reboot
    <3>1. regs' \in [Cpus -> [Registers -> Values \cup {Absent}]] /\ driver' \in BOOLEAN
      BY <2>4 DEF Reboot
    <3> QED BY <3>1, <2>4 DEF Reboot, TypeInv
  <2> QED BY <2>1, <2>2, <2>3, <2>4
<1>2. LoopInv'
  <2>1. CASE Analyze \/ Hotplug \/ LoadMicrocode
    BY <2>1 DEF Analyze, Hotplug, LoadMicrocode, LoopInv, After, BspOfApic
  <2>2. CASE Reboot
    BY <2>2, TableOfMsrs DEF Reboot, LoopInv
  <2> QED BY <2>1, <2>2
<1>3. ReadInv'
  <2>1. CASE Analyze \/ Hotplug
    BY <2>1 DEF Analyze, Hotplug, ReadInv, OneValue
  <2>2. CASE LoadMicrocode
    <3>1. PICK m \in {"sign", "vmx"}, v \in Values : regs' = [c \in Cpus |-> [regs[c] EXCEPT ![m] = v]]
      BY <2>2 DEF LoadMicrocode
    <3>2. \A c \in Cpus : regs'[c][m] = v /\ \A k \in Registers \ {m} : regs'[c][k] = regs[c][k]
      BY <3>1 DEF TypeInv, Registers
    <3>3. got' = got
      BY <2>2 DEF LoadMicrocode
    <3>4. \A k \in Registers : OneValue(got', k) => OneValue(got, k)
      BY <3>3 DEF OneValue
    <3>5. \A c, d \in Cpus : regs'[c][m] = regs'[d][m]
      BY <3>2
    <3>6. ASSUME NEW k \in Registers, k # m, OneValue(got', k)
          PROVE  \/ \A c, d \in Cpus : regs'[c][k] = regs'[d][k]
                 \/ \A c \in Cpus : got'[c][k] # NotRead => regs'[c][k] = got'[c][k].value
      <4>1. \/ \A c, d \in Cpus : regs[c][k] = regs[d][k]
            \/ \A c \in Cpus : got[c][k] # NotRead => regs[c][k] = got[c][k].value
        BY <3>4, <3>6 DEF ReadInv
      <4>2. \A c \in Cpus : regs'[c][k] = regs[c][k] /\ got'[c][k] = got[c][k]
        BY <3>2, <3>3, <3>6
      <4> HIDE DEF NotRead, ReadInv
      <4> QED BY ONLY <4>1, <4>2
    <3>7. \A k \in Registers : OneValue(got', k) =>
             \/ \A c, d \in Cpus : regs'[c][k] = regs'[d][k]
             \/ \A c \in Cpus : got'[c][k] # NotRead => regs'[c][k] = got'[c][k].value
      BY <3>5, <3>6
    <3> QED BY <3>7 DEF ReadInv, OneValue
  <2>3. CASE Reboot
    BY <2>3 DEF Reboot, ReadInv, Registers, Msrs
  <2> QED BY <2>1, <2>2, <2>3
<1>4. FileInv'
  <2>1. file' = file /\ uniform' = uniform
    BY DEF Analyze, Hotplug, LoadMicrocode, Reboot
  <2>2. FileInv
    OBVIOUS
  <2> QED BY ONLY <2>1, <2>2 DEF FileInv
<1>5. OutputInv'
  BY DEF Analyze, Hotplug, LoadMicrocode, Reboot, OutputInv, Output, Judged, Compared
<1> QED BY <1>1, <1>2, <1>3, <1>4, <1>5

LEMMA StartInv ==
    ASSUME IInv, NEW r \in Runs, Start(r)
    PROVE  IInv'
<1> USE CpusAssumption, NothingIsUnread DEF IInv
<1>0. First(online) = 0
  BY FirstIsZero DEF TypeInv
<1>1. TypeInv'
  BY <1>0 DEF Start, TypeInv
<1>2. LoopInv'
  <2>1. /\ run' # "none" /\ listed' = online /\ cpu' = 0 /\ next' = 1 /\ got' = Nothing
    BY <1>0 DEF Start, Runs
  <2>2. \A c \in Cpus, i \in 1 .. 4 : ~ (c < cpu' \/ (c = cpu' /\ i < next'))
    BY <2>1
  <2> QED BY <2>1, <2>2, TableOfMsrs DEF LoopInv, TypeInv
<1>3. ReadInv'
  BY DEF Start, ReadInv, Registers, Msrs
<1>4. FileInv'
  <2>1. file'[r] = Torn /\ \A q \in Runs \ {r} : file'[q] = file[q]
    BY DEF Start, TypeInv
  <2>2. uniform' = uniform
    BY DEF Start
  <2>3. Torn.listed = {} /\ Torn.state = "torn" /\ Torn.got = Nothing
    BY DEF Torn, NoFile
  <2>4. SUFFICES ASSUME NEW q \in Runs
        PROVE  /\ file'[q] \in {NoFile, Torn} \/ file'[q] = Report(file'[q].listed, file'[q].got)
               /\ file'[q].state = "whole" => 0 \in file'[q].listed
               /\ BspOfApic(file'[q].got)
               /\ \A c \in Cpus, m \in Msrs :
                     (file'[q].got[c][m] # NotRead) = (c \in file'[q].listed)
               /\ file'[q].state = "whole" => \A m \in Registers :
                     OneValue(file'[q].got, m) => m \in uniform'[q]
    BY DEF FileInv, OneValue, BspOfApic
  <2>5. CASE q = r
    <3>1. /\ file'[q].got = Nothing /\ file'[q].listed = {} /\ file'[q].state # "whole"
          /\ file'[q] \in {NoFile, Torn}
      BY <2>1, <2>3, <2>5
    <3> QED BY <3>1
  <2>6. CASE q # r
    BY <2>1, <2>2, <2>6 DEF FileInv
  <2> QED BY <2>5, <2>6
<1>5. OutputInv'
  BY DEF Start, OutputInv
<1> QED BY <1>1, <1>2, <1>3, <1>4, <1>5

\* One reading: the register it comes from holds, now, what it shows.
LEMMA ReadNextInv == ASSUME IInv, ReadNext PROVE IInv'
<1> USE CpusAssumption, NothingIsUnread DEF IInv
<1> DEFINE m == MsrTable[next]
<1>1. /\ run # "none" /\ next \in 1 .. 4 /\ cpu \in listed /\ cpu \in Cpus /\ m \in Msrs
      /\ UNCHANGED <<regs, online, driver, run, listed, file, uniform, events>>
      /\ printed' = NoOutput /\ Advance
  BY TableOfMsrs DEF ReadNext, TypeInv, LoopInv
<1>2. PICK r \in ReadMsr(cpu, m) : got' = [got EXCEPT ![cpu][m] = r]
  BY DEF ReadNext
<1>3. /\ r \in Readings /\ r # NotRead /\ (r.bsp => m = "apic")
      /\ r.ok /\ m # "clock" => r.value = regs[cpu][m] /\ regs[cpu][m] \in Values
  BY <1>1, ReadMsrType
<1>4. /\ got'[cpu][m] = r
      /\ \A c \in Cpus, k \in Msrs : c # cpu \/ k # m => got'[c][k] = got[c][k]
      /\ got' \in [Cpus -> [Msrs -> Readings]]
  BY <1>1, <1>2, <1>3 DEF TypeInv
<1>5. got[cpu][m] = NotRead
  BY <1>1 DEF LoopInv, TypeInv
<1>6. /\ cpu' \in listed /\ next' \in 1 .. 5
      /\ \A c \in listed, i \in 1 .. 4 :
            (c < cpu' \/ (c = cpu' /\ i < next')) <=> (c < cpu \/ (c = cpu /\ i < next) \/ (c = cpu /\ i = next))
      /\ next' = 5 => After(cpu') = {}
  <2>1. CASE next = 4 /\ After(cpu) # {}
    <3>1. PICK d \in After(cpu) : (\A e \in After(cpu) : d <= e) /\ cpu' = d /\ next' = 1
      BY <1>1, <2>1 DEF Advance
    <3>2. d \in listed /\ d > cpu /\ \A e \in listed : e > cpu => d <= e
      BY <3>1 DEF After
    <3>3. \A c \in listed : c \in Nat /\ cpu \in Nat /\ d \in Nat
      BY <1>1, <3>2 DEF TypeInv
    <3>4. ASSUME NEW c \in listed PROVE (c < d) <=> (c < cpu \/ c = cpu)
      <4>1. c \in Nat /\ cpu \in Nat /\ d \in Nat /\ d > cpu
        BY <3>2, <3>3
      <4>2. c > cpu => d <= c
        BY <3>2
      <4> QED BY <4>1, <4>2
    <3>5. \A i \in 1 .. 4 : ~ (i < 1) /\ (i < 4 \/ i = 4)
      OBVIOUS
    <3> QED BY <2>1, <3>1, <3>2, <3>4, <3>5
  <2>2. CASE ~ (next = 4 /\ After(cpu) # {})
    <3>1. cpu' = cpu /\ next' = next + 1
      BY <1>1, <2>2 DEF Advance
    <3>2. \A i \in 1 .. 4 : i < next + 1 <=> i < next \/ i = next
      BY <1>1
    <3>3. next' \in 1 .. 5 /\ (next' = 5 => After(cpu) = {})
      BY <1>1, <2>2, <3>1
    <3> QED BY <1>1, <3>1, <3>2, <3>3
  <2> QED BY <2>1, <2>2
<1>7. TypeInv'
  BY <1>1, <1>4, <1>6 DEF TypeInv
<1>8. LoopInv'
  <2>1. \A c \in Cpus, i \in 1 .. 4 :
           got'[c][MsrTable[i]] # NotRead <=>
               (run # "none" /\ c \in listed /\ (c < cpu' \/ (c = cpu' /\ i < next')))
    <3>1. SUFFICES ASSUME NEW c \in Cpus, NEW i \in 1 .. 4
          PROVE  got'[c][MsrTable[i]] # NotRead <=>
                     (run # "none" /\ c \in listed /\ (c < cpu' \/ (c = cpu' /\ i < next')))
      OBVIOUS
    <3>2. MsrTable[i] \in Msrs /\ (MsrTable[i] = m <=> i = next)
      BY <1>1, TableOfMsrs
    <3>3. got[c][MsrTable[i]] # NotRead <=>
              (run # "none" /\ c \in listed /\ (c < cpu \/ (c = cpu /\ i < next)))
      BY DEF LoopInv
    <3>4. CASE c = cpu /\ i = next
      BY <1>1, <1>3, <1>4, <1>6, <3>4
    <3>5. CASE ~ (c = cpu /\ i = next)
      <4>1. got'[c][MsrTable[i]] = got[c][MsrTable[i]]
        BY <1>4, <3>2, <3>5
      <4>2. c \in listed => ((c < cpu' \/ (c = cpu' /\ i < next')) <=> (c < cpu \/ (c = cpu /\ i < next)))
        BY <1>6, <3>5
      <4> QED BY <3>3, <4>1, <4>2
    <3> QED BY <3>4, <3>5
  <2>2. next' = 5 => {d \in listed' : d > cpu'} = {}
    BY <1>1, <1>6 DEF After
  <2>3. 0 \in listed
    BY <1>1 DEF LoopInv
  <2>4. BspOfApic(got')
    BY <1>3, <1>4 DEF LoopInv, BspOfApic
  <2> QED BY <1>1, <1>6, <2>1, <2>2, <2>3, <2>4 DEF LoopInv, After, BspOfApic
<1>9. ReadInv'
  <2>1. SUFFICES ASSUME NEW k \in Registers, OneValue(got', k)
        PROVE  \/ \A c, d \in Cpus : regs[c][k] = regs[d][k]
               \/ \A c \in Cpus : got'[c][k] # NotRead => regs[c][k] = got'[c][k].value
    BY <1>1 DEF ReadInv, OneValue
  <2>2. k \in Msrs /\ k # "clock"
    BY DEF Registers, Msrs
  <2>3. CASE k = m
    <3>1. r.ok /\ regs[cpu][k] = r.value
      <4>1. got'[cpu][k] = r /\ r # NotRead /\ cpu \in Cpus
        BY <1>1, <1>3, <1>4, <2>3
      <4> QED BY <1>3, <2>1, <2>2, <2>3, <4>1 DEF OneValue
    <3>2. \A c \in Cpus : got[c][k] # NotRead => c # cpu /\ got'[c][k] = got[c][k]
      BY <1>4, <1>5, <2>2, <2>3
    <3>3. OneValue(got, k)
      BY <2>1, <3>2 DEF OneValue
    <3>4. \/ \A c, d \in Cpus : regs[c][k] = regs[d][k]
          \/ \A c \in Cpus : got[c][k] # NotRead => regs[c][k] = got[c][k].value
      BY <3>3 DEF ReadInv
    <3> QED BY <1>4, <2>2, <2>3, <3>1, <3>2, <3>4
  <2>4. CASE k # m
    <3>1. \A c \in Cpus : got'[c][k] = got[c][k]
      BY <1>4, <2>2, <2>4
    <3>2. OneValue(got, k)
      BY <2>1, <3>1 DEF OneValue
    <3> QED BY <3>1, <3>2 DEF ReadInv
  <2> QED BY <2>3, <2>4
<1>10. FileInv'
  <2>1. file' = file /\ uniform' = uniform
    BY <1>1
  <2>2. FileInv
    OBVIOUS
  <2> QED BY ONLY <2>1, <2>2 DEF FileInv
<1>11. OutputInv'
  BY <1>1 DEF OutputInv
<1> QED BY <1>7, <1>8, <1>9, <1>10, <1>11

\* A file is written when every listed processor was read.
LEMMA WriteInv == ASSUME IInv, Write PROVE IInv'
<1> USE CpusAssumption, NothingIsUnread DEF IInv
<1>1. /\ run \in Runs /\ next = 5 /\ After(cpu) = {} /\ 0 \in listed /\ cpu \in listed
      /\ listed \subseteq Cpus
  BY DEF Write, TypeInv, LoopInv
<1>2. \A c \in Cpus, m \in Msrs : (got[c][m] # NotRead) = (c \in listed)
  <2>1. \A c \in listed : c \in Nat /\ cpu \in Nat /\ ~ (c > cpu)
    BY <1>1 DEF After, TypeInv
  <2>2. \A c \in listed, i \in 1 .. 4 : c < cpu \/ (c = cpu /\ i < next)
    BY <1>1, <2>1
  <2>3. \A c \in Cpus, i \in 1 .. 4 : (got[c][MsrTable[i]] # NotRead) = (c \in listed)
    BY <1>1, <2>2 DEF Write, LoopInv
  <2>4. ASSUME NEW c \in Cpus, NEW m \in Msrs PROVE (got[c][m] # NotRead) = (c \in listed)
    <3>1. PICK i \in 1 .. 4 : m = MsrTable[i]
      BY TableOfMsrs
    <3> QED BY <2>3, <3>1
  <2> QED BY <2>4
<1>3. /\ file'[run] = Report(listed, got) /\ uniform'[run] = Uniform(listed)
      /\ \A q \in Runs \ {run} : file'[q] = file[q] /\ uniform'[q] = uniform[q]
  BY <1>1 DEF Write, TypeInv
<1>4. Groups(got, listed) \in SUBSET SUBSET Cpus
  BY <1>1 DEF Groups
<1>5. Report(listed, got) \in Files /\ Uniform(listed) \in SUBSET Registers
  BY <1>1, <1>4 DEF Report, Files, Uniform, TypeInv
<1>6. TypeInv'
  BY <1>1, <1>5 DEF Write, TypeInv
<1>7. LoopInv'
  BY TableOfMsrs DEF Write, LoopInv
<1>8. ReadInv'
  BY DEF Write, ReadInv, Registers, Msrs
<1>9. FileInv'
  <2>1. SUFFICES ASSUME NEW q \in Runs
        PROVE  /\ file'[q] \in {NoFile, Torn} \/ file'[q] = Report(file'[q].listed, file'[q].got)
               /\ file'[q].state = "whole" => 0 \in file'[q].listed
               /\ BspOfApic(file'[q].got)
               /\ \A c \in Cpus, m \in Msrs :
                     (file'[q].got[c][m] # NotRead) = (c \in file'[q].listed)
               /\ file'[q].state = "whole" => \A m \in Registers :
                     OneValue(file'[q].got, m) => m \in uniform'[q]
    BY DEF FileInv, OneValue, BspOfApic
  <2>2. CASE q = run
    <3>1. file'[q].listed = listed /\ file'[q].got = got
      BY <1>3, <2>2 DEF Report
    <3>2. ASSUME NEW m \in Registers, OneValue(got, m)
          PROVE  m \in Uniform(listed)
      <4>1. m \in Msrs
        BY DEF Registers, Msrs
      <4>2. \/ \A c, d \in Cpus : regs[c][m] = regs[d][m]
            \/ \A c \in Cpus : got[c][m] # NotRead => regs[c][m] = got[c][m].value
        BY <3>2 DEF ReadInv
      <4>3. \A c, d \in listed : regs[c][m] = regs[d][m]
        BY <1>1, <1>2, <3>2, <4>1, <4>2 DEF OneValue
      <4> QED BY <4>3 DEF Uniform
    <3>3. BspOfApic(got)
      BY DEF LoopInv
    <3> QED BY <1>1, <1>2, <1>3, <2>2, <3>1, <3>2, <3>3
  <2>3. CASE q # run
    BY <1>3, <2>3 DEF FileInv
  <2> QED BY <2>2, <2>3
<1>10. OutputInv'
  BY DEF Write, OutputInv
<1> QED BY <1>6, <1>7, <1>8, <1>9, <1>10

\* The invariant holds in every behaviour.
THEOREM InvariantHolds == Spec => []IInv
<1>1. IInv /\ [Next]_vars => IInv'
  <2> SUFFICES ASSUME IInv, [Next]_vars PROVE IInv'
    OBVIOUS
  <2>1. CASE UNCHANGED vars
    <3>1. TypeInv'
      BY <2>1 DEF vars, IInv, TypeInv
    <3>2. LoopInv'
      BY <2>1 DEF vars, IInv, LoopInv, After, BspOfApic
    <3>3. ReadInv'
      BY <2>1 DEF vars, IInv, ReadInv, OneValue
    <3>4. FileInv'
      BY <2>1 DEF vars, IInv, FileInv, OneValue, BspOfApic
    <3>5. OutputInv'
      BY <2>1 DEF vars, IInv, OutputInv, Output, Judged, Compared
    <3> QED BY <3>1, <3>2, <3>3, <3>4, <3>5 DEF IInv
  <2>2. CASE \E r \in Runs : Start(r)
    BY <2>2, StartInv
  <2> QED BY <2>1, <2>2, ReadNextInv, WriteInv, MachineStepInv DEF Next
<1> QED BY <1>1, InitInv, PTL DEF Spec

-----------------------------------------------------------------------------
(***************************************************************************)
(* What the analyzer prints.                                               *)
(***************************************************************************)

\* When it has printed something, both files are whole, list processor 0, and
\* are the report of their own readings.
LEMMA PrintedFiles ==
    ASSUME IInv, printed.done
    PROVE  /\ printed = Output
           /\ \A r \in Runs :
                 /\ file[r].state = "whole" /\ 0 \in file[r].listed
                 /\ file[r].groups = Groups(file[r].got, file[r].listed)
                 /\ file[r].listed \in SUBSET Cpus /\ First(file[r].listed) = 0
<1>1. printed # NoOutput
  BY DEF NoOutput
<1>2. printed = Output /\ \A r \in Runs : file[r].state = "whole"
  BY <1>1 DEF IInv, OutputInv
<1>3. NoFile.state = "none" /\ Torn.state = "torn"
  BY DEF NoFile, Torn
<1>4. ASSUME NEW r \in Runs
      PROVE  /\ 0 \in file[r].listed
             /\ file[r].groups = Groups(file[r].got, file[r].listed)
             /\ file[r].listed \in SUBSET Cpus /\ First(file[r].listed) = 0
  <2>1. 0 \in file[r].listed /\ file[r] = Report(file[r].listed, file[r].got)
    BY <1>2, <1>3 DEF IInv, FileInv
  <2>2. file[r].groups = Groups(file[r].got, file[r].listed)
    BY <2>1 DEF Report
  <2>3. file[r].listed \in SUBSET Cpus
    BY DEF IInv, TypeInv, Files
  <2> QED BY <2>1, <2>2, <2>3, FirstIsZero, CpusAssumption
<1> QED BY <1>2, <1>4

\* What was printed, as far as the analyzer came.
LEMMA PrintedFields ==
    ASSUME printed = Output
    PROVE  /\ printed.done
           /\ printed.compared = Compared /\ Compared \subseteq Judged /\ Judged \subseteq Runs
           /\ printed.identical = {r \in Judged : AllIdentical(file[r])}
           /\ printed.clean = {r \in Compared : Mismatches(file[r]) = {}}
           /\ Compared = Runs => printed.changed = Changed(file["on"], file["off"])
           /\ \A r \in Compared : ~ CrossRaises(file[r])
<1>1. Compared \subseteq Judged /\ Judged \subseteq Runs
  BY DEF Compared, Judged, Runs
<1> QED BY <1>1 DEF Output, Compared, Raises

\* Where something was compared, something was printed.
LEMMA ComparedIsPrinted == ASSUME IInv, printed.compared # {} PROVE printed.done
<1>1. printed # NoOutput
  BY DEF NoOutput
<1> QED BY <1>1, PrintedFields DEF IInv, OutputInv

\* Processors of one group agree, the BSP bit apart.
LEMMA IdenticalAgree ==
    ASSUME IInv, printed.done, NEW r \in printed.identical, NEW c \in file[r].listed
    PROVE  Fingerprint(file[r].got, c) = Fingerprint(file[r].got, 0)
<1>1. r \in Runs /\ AllIdentical(file[r])
  BY PrintedFiles, PrintedFields
<1> QED BY <1>1, PrintedFiles, OneGroup DEF AllIdentical

\* Two readings with one fingerprint show the same outcome.
LEMMA FingerprintShows ==
    ASSUME NEW g \in [Cpus -> [Msrs -> Readings]], NEW c \in Cpus, NEW d \in Cpus, NEW m \in Registers
    PROVE  /\ Fingerprint(g, c)[m] = Fingerprint(g, d)[m] <=>
                 /\ g[c][m].ok = g[d][m].ok
                 /\ g[c][m].value = g[d][m].value
                 /\ g[c][m].text = g[d][m].text
<1>1. m \in Msrs /\ g[c][m] \in Readings /\ g[d][m] \in Readings
  BY DEF Registers, Msrs
<1>2. ASSUME NEW e \in Cpus, g[e][m] \in Readings
      PROVE  Fingerprint(g, e)[m] =
                [ok |-> g[e][m].ok, value |-> g[e][m].value, bsp |-> FALSE, text |-> g[e][m].text]
  BY <1>2 DEF Fingerprint, Readings
<1> DEFINE p == Fingerprint(g, c)[m]
           q == Fingerprint(g, d)[m]
<1>3. /\ p = [ok |-> g[c][m].ok, value |-> g[c][m].value, bsp |-> FALSE, text |-> g[c][m].text]
      /\ q = [ok |-> g[d][m].ok, value |-> g[d][m].value, bsp |-> FALSE, text |-> g[d][m].text]
  BY <1>1, <1>2
<1>4. /\ p.ok = g[c][m].ok /\ p.value = g[c][m].value /\ p.text = g[c][m].text
      /\ q.ok = g[d][m].ok /\ q.value = g[d][m].value /\ q.text = g[d][m].text
  BY <1>3
<1> HIDE DEF p, q
<1>5. ASSUME p = q
      PROVE  g[c][m].ok = g[d][m].ok /\ g[c][m].value = g[d][m].value /\ g[c][m].text = g[d][m].text
  BY <1>4, <1>5
<1>6. ASSUME g[c][m].ok = g[d][m].ok, g[c][m].value = g[d][m].value, g[c][m].text = g[d][m].text
      PROVE  p = q
  BY <1>3, <1>6
<1> QED BY <1>5, <1>6 DEF p, q

\* Collections printed as identical are uniform, whatever the machine did while
\* the processors were read.
THEOREM IdenticalIsUniformHolds == Spec => []IdenticalIsUniform
<1>1. IInv => IdenticalIsUniform
  <2>1. SUFFICES ASSUME IInv, printed.done, NEW r \in printed.identical, NEW m \in Registers,
                        \A c \in file[r].listed : file[r].got[c][m].ok
                 PROVE  m \in uniform[r]
    BY DEF IdenticalIsUniform
  <2>2. r \in Runs
    BY <2>1, PrintedFiles, PrintedFields
  <2>3. 0 \in file[r].listed /\ file[r].listed \subseteq Cpus /\ file[r].state = "whole"
    BY <2>1, <2>2, PrintedFiles
  <2>4. file[r].got \in [Cpus -> [Msrs -> Readings]] /\ m \in Msrs
    BY <2>1, <2>2 DEF IInv, TypeInv, Files, Registers, Msrs
  <2>5. ASSUME NEW c \in file[r].listed
        PROVE  file[r].got[c][m].ok /\ file[r].got[c][m].value = file[r].got[0][m].value
    <3>1. Fingerprint(file[r].got, c)[m] = Fingerprint(file[r].got, 0)[m]
      BY <2>1, IdenticalAgree
    <3> QED BY <2>1, <2>3, <2>4, <3>1, FingerprintShows
  <2>6. \A c \in Cpus : (file[r].got[c][m] # NotRead) = (c \in file[r].listed)
    BY <2>1, <2>2, <2>4 DEF IInv, FileInv
  <2>7. OneValue(file[r].got, m)
    BY <2>5, <2>6 DEF OneValue
  <2> QED BY <2>1, <2>2, <2>3, <2>7 DEF IInv, FileInv
<1> QED BY <1>1, InvariantHolds, PTL

\* In a whole report, one group means no register in which a processor differs,
\* if the analyzer got past the APIC base.
LEMMA GroupsMatchMismatches ==
    ASSUME IInv, printed.done, NEW r \in Runs, ~ CrossRaises(file[r])
    PROVE  AllIdentical(file[r]) <=> Mismatches(file[r]) = {}
<1> DEFINE S == file[r].listed
           g == file[r].got
<1>1. /\ 0 \in S /\ S \in SUBSET Cpus /\ First(S) = 0
      /\ file[r].groups = Groups(g, S)
  BY PrintedFiles
<1>2. g \in [Cpus -> [Msrs -> Readings]] /\ BspOfApic(g) /\ Registers \subseteq Msrs
  BY DEF IInv, TypeInv, Files, FileInv, Registers, Msrs
<1>3. g[0]["apic"].ok => \A c \in S : g[c]["apic"].ok
  BY <1>1 DEF CrossRaises
<1>4. AllIdentical(file[r]) <=> \A c \in S : Fingerprint(g, c) = Fingerprint(g, 0)
  BY <1>1, OneGroup DEF AllIdentical
<1>5. Mismatches(file[r]) = {m \in Registers : \E c \in S :
          /\ g[c][m] # g[0][m]
          /\ ~ (m = "apic" /\ g[0][m].ok /\ g[c][m].value = g[0][m].value)}
  BY <1>1 DEF Mismatches
<1> HIDE DEF S, g
<1>6. ASSUME NEW c \in S, NEW m \in Registers
      PROVE  Fingerprint(g, c)[m] = Fingerprint(g, 0)[m] <=>
                \/ g[c][m] = g[0][m]
                \/ m = "apic" /\ g[0][m].ok /\ g[c][m].value = g[0][m].value
  <2>1. c \in Cpus /\ 0 \in Cpus /\ g[c][m] \in Readings /\ g[0][m] \in Readings
    BY <1>1, <1>2, CpusAssumption
  <2>2. (g[c][m].bsp => m = "apic") /\ (g[0][m].bsp => m = "apic")
    BY <1>2, <2>1 DEF BspOfApic
  <2>3. Fingerprint(g, c)[m] = Fingerprint(g, 0)[m] <=>
           /\ g[c][m].ok = g[0][m].ok
           /\ g[c][m].value = g[0][m].value
           /\ g[c][m].text = g[0][m].text
    BY <1>2, <2>1, FingerprintShows
  <2>4. ASSUME m = "apic", g[0][m].ok, g[c][m].value = g[0][m].value
        PROVE  Fingerprint(g, c)[m] = Fingerprint(g, 0)[m]
    BY <1>3, <2>1, <2>3, <2>4 DEF Readings
  <2>5. ASSUME Fingerprint(g, c)[m] = Fingerprint(g, 0)[m], ~ (m = "apic" /\ g[0][m].ok)
        PROVE  g[c][m] = g[0][m]
    <3>1. g[c][m].bsp = FALSE /\ g[0][m].bsp = FALSE
      BY <2>1, <2>2, <2>3, <2>5 DEF Readings
    <3>2. /\ g[c][m] = [ok |-> g[c][m].ok, value |-> g[c][m].value,
                         bsp |-> FALSE, text |-> g[c][m].text]
          /\ g[0][m] = [ok |-> g[0][m].ok, value |-> g[0][m].value,
                         bsp |-> FALSE, text |-> g[0][m].text]
      BY <2>1, <3>1 DEF Readings
    <3> QED BY <2>3, <2>5, <3>2
  <2> QED BY <2>3, <2>4, <2>5
<1>7. \A c \in S : Fingerprint(g, c) = Fingerprint(g, 0) <=>
          \A m \in Registers : Fingerprint(g, c)[m] = Fingerprint(g, 0)[m]
  BY DEF Fingerprint
<1> QED BY <1>4, <1>5, <1>6, <1>7

\* Grouping by fingerprint and comparing with the first processor, register by
\* register, give the same verdict on every report.
THEOREM GroupsAgreeWithDiffHolds == Spec => []GroupsAgreeWithDiff
<1>1. IInv => GroupsAgreeWithDiff
  <2>1. SUFFICES ASSUME IInv, NEW r \in printed.compared
                 PROVE  r \in printed.identical <=> r \in printed.clean
    BY DEF GroupsAgreeWithDiff
  <2>2. printed.done /\ printed = Output
    BY <2>1, ComparedIsPrinted, PrintedFiles
  <2>3. r \in Compared /\ r \in Judged /\ r \in Runs /\ ~ CrossRaises(file[r])
    BY <2>1, <2>2, PrintedFields
  <2>4. AllIdentical(file[r]) <=> Mismatches(file[r]) = {}
    BY <2>1, <2>2, <2>3, GroupsMatchMismatches
  <2> QED BY <2>2, <2>3, <2>4, PrintedFields
<1> QED BY <1>1, InvariantHolds, PTL

\* Between two uniform collections, processor 0 speaks for all.
THEOREM CpuZeroSpeaksHolds == Spec => []CpuZeroSpeaks
<1>1. IInv => CpuZeroSpeaks
  <2>1. SUFFICES ASSUME IInv, printed.compared = Runs, printed.identical = Runs,
                        NEW c \in file["on"].listed \cap file["off"].listed,
                        NEW m \in Registers \ printed.changed
                 PROVE  Fingerprint(file["on"].got, c)[m] = Fingerprint(file["off"].got, c)[m]
    BY DEF CpuZeroSpeaks
  <2>2. printed.done /\ printed = Output
    <3>1. printed.done
      BY <2>1, ComparedIsPrinted DEF Runs
    <3> QED BY <2>1, <3>1, PrintedFiles
  <2>3. file["on"].got[0][m] = file["off"].got[0][m]
    BY <2>1, <2>2, PrintedFields DEF Changed
  <2>4. Fingerprint(file["on"].got, 0)[m] = Fingerprint(file["off"].got, 0)[m]
    BY <2>1, <2>3 DEF Fingerprint
  <2>5. "on" \in printed.identical /\ "off" \in printed.identical
    BY <2>1 DEF Runs
  <2> QED BY <2>1, <2>2, <2>4, <2>5, IdenticalAgree
<1> QED BY <1>1, InvariantHolds, PTL
=============================================================================
