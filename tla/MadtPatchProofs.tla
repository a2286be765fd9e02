-------------------------- MODULE MadtPatchProofs --------------------------
(***************************************************************************)
(* For any number of processors, any tables and any firmware: the walks     *)
(* take the records they should, the patch lands where the builder says,   *)
(* and the three programs agree about the result.                          *)
(***************************************************************************)
EXTENDS MadtPatch, WellFoundedInduction, TLAPS

(***************************************************************************)
(* The walk.                                                               *)
(***************************************************************************)

\* A record that is not malformed takes the walk to the next record or to the
\* end, and there is none in between.
LEMMA NextRecord ==
    ASSUME NEW t, WellLaid(t), NEW o \in DOMAIN t.recs, ~ Malformed(t, o)
    PROVE  LET n == o + t.recs[o].len
           IN  /\ n \in 0 .. t.size
               /\ n < t.size => n \in DOMAIN t.recs
               /\ \A p \in DOMAIN t.recs : p < n <=> p < o \/ p = o
  BY DEF WellLaid, Malformed, Recs

\* A list takes one more offset, behind those it has.
LEMMA ListsAppend ==
    ASSUME NEW S \in SUBSET Nat, NEW os, Lists(os, S), NEW o \in Nat, \A p \in S : p < o
    PROVE  Lists(Append(os, o), S \cup {o})
<1> DEFINE new == Append(os, o)
<1>1. os \in Seq(S) /\ os \in Seq(S \cup {o})
  BY DEF Lists
<1>2. new \in Seq(S \cup {o}) /\ Len(new) = Len(os) + 1 /\ Len(os) \in Nat
      /\ (\A i \in 1 .. Len(os) : new[i] = os[i]) /\ new[Len(os) + 1] = o
  BY <1>1
<1>3. DOMAIN os = 1 .. Len(os) /\ DOMAIN new = 1 .. Len(os) + 1
  BY <1>1, <1>2
<1>4. \A p \in S \cup {o} : \E i \in DOMAIN new : new[i] = p
  BY <1>2, <1>3 DEF Lists
<1>5. \A i \in 1 .. Len(os) : os[i] \in S
  BY <1>1
<1>6. \A i, j \in DOMAIN new : i < j => new[i] < new[j]
  <2> SUFFICES ASSUME NEW i \in 1 .. Len(os) + 1, NEW j \in 1 .. Len(os) + 1, i < j
               PROVE  new[i] < new[j]
    BY <1>3
  <2>1. i \in 1 .. Len(os) /\ new[i] = os[i]
    BY <1>2
  <2>2. CASE j = Len(os) + 1
    BY <2>1, <2>2, <1>2, <1>5
  <2>3. CASE j \in 1 .. Len(os)
    <3>1. os[i] < os[j]
      BY <2>1, <2>3, <1>3 DEF Lists
    <3> QED
      BY <3>1, <2>1, <2>3, <1>2
  <2> QED
    BY <2>2, <2>3, <1>2
<1> QED
  BY <1>2, <1>4, <1>6 DEF Lists

\* A list has the offsets of its set and no others.
LEMMA ListRange ==
    ASSUME NEW S, NEW os, Lists(os, S)
    PROVE  {os[i] : i \in DOMAIN os} = S
<1>1. \A i \in DOMAIN os : os[i] \in S
  BY DEF Lists
<1> QED
  BY <1>1 DEF Lists

\* The UIDs of a list are those of its set.
LEMMA ListedUids ==
    ASSUME NEW t, NEW S, NEW os, Lists(os, S)
    PROVE  Uids(t, os) = UidsAt(t, S)
<1>1. \A i \in DOMAIN os : os[i] \in S
  BY DEF Lists
<1> QED
  BY <1>1 DEF Lists, Uids, UidsAt

(***************************************************************************)
(* The patch.                                                              *)
(***************************************************************************)

\* What the patch at o makes of a table: the UIDs count from 0, in N places.
Writes(t, o, new) ==
    /\ DOMAIN new = DOMAIN t /\ new.valid = TRUE
    /\ new.oem = t.oem /\ new.declared = t.declared /\ new.size = t.size
    /\ new.echo = t.echo /\ DOMAIN new.recs = DOMAIN t.recs
    /\ \A i \in 1 .. N :
          new.recs[o + 6 * (i - 1)] = [t.recs[o + 6 * (i - 1)] EXCEPT !.uid = i - 1]
    /\ \A p \in DOMAIN t.recs :
          (\A i \in 1 .. N : p # o + 6 * (i - 1)) => new.recs[p] = t.recs[p]

\* The builder's patch of a table.
LEMMA PatchWrites ==
    ASSUME NEW t, IsTable(t), NEW o \in Nat, NEW find,
           find = [i \in 1 .. N |-> t.recs[o + 6 * (i - 1)]],
           \A i \in 1 .. N : o + 6 * (i - 1) \in DOMAIN t.recs
    PROVE  Writes(t, o, Patched(t, o, Replacement(find)))
<1> DEFINE repl == Replacement(find)
           recs == [p \in DOMAIN t.recs |->
                      IF \E i \in 1 .. N : p = o + 6 * (i - 1)
                      THEN repl[CHOOSE i \in 1 .. N : p = o + 6 * (i - 1)] ELSE t.recs[p]]
           new == Patched(t, o, repl)
<1>0. N \in Nat /\ o \in DOMAIN t.recs
  <2>1. N \in Nat /\ 1 \in 1 .. N
    BY SizeAssumption
  <2>2. o + 6 * (1 - 1) = o
    OBVIOUS
  <2> QED
    BY <2>1, <2>2
<1>1. repl = [i \in 1 .. N |-> [find[i] EXCEPT !.uid = i - 1]] /\ DOMAIN repl = 1 .. N
  BY DEF Replacement
<1>2. new = [t EXCEPT !.valid = TRUE, !.recs = recs]
  BY <1>0, <1>1 DEF Patched, IsTable
<1>3. \A i \in 1 .. N : (CHOOSE j \in 1 .. N : o + 6 * (i - 1) = o + 6 * (j - 1)) = i
  BY <1>0
<1>4. \A i \in 1 .. N : recs[o + 6 * (i - 1)] = [t.recs[o + 6 * (i - 1)] EXCEPT !.uid = i - 1]
  BY <1>1, <1>3
<1>5. \A p \in DOMAIN t.recs :
         (\A i \in 1 .. N : p # o + 6 * (i - 1)) => recs[p] = t.recs[p]
  OBVIOUS
<1>6. DOMAIN recs = DOMAIN t.recs
  OBVIOUS
<1> HIDE DEF recs, repl
<1>7. /\ DOMAIN new = DOMAIN t /\ new.valid = TRUE /\ new.recs = recs /\ new.echo = t.echo
      /\ new.oem = t.oem /\ new.declared = t.declared /\ new.size = t.size
  BY <1>2 DEF IsTable
<1> QED
  BY <1>4, <1>5, <1>6, <1>7 DEF repl, Writes

\* A table that differs from another in UIDs at most.
Keeps(t, new) ==
    /\ IsTable(new)
    /\ \A p \in DOMAIN t.recs :
          /\ new.recs[p] \in Recs
          /\ new.recs[p] = [t.recs[p] EXCEPT !.uid = new.recs[p].uid]
          /\ new.recs[p].kind = t.recs[p].kind /\ new.recs[p].len = t.recs[p].len
          /\ new.recs[p].enabled = t.recs[p].enabled

\* It changes UIDs and nothing else, so it leaves a table.
LEMMA PatchKeeps ==
    ASSUME NEW t, IsTable(t), NEW o \in Nat, NEW find,
           find = [i \in 1 .. N |-> t.recs[o + 6 * (i - 1)]],
           \A i \in 1 .. N : o + 6 * (i - 1) \in DOMAIN t.recs
    PROVE  Keeps(t, Patched(t, o, Replacement(find)))
<1> DEFINE new == Patched(t, o, Replacement(find))
<1>0. N \in Nat
  BY SizeAssumption
<1>1. Writes(t, o, new)
  BY PatchWrites
<1> HIDE DEF new
<1>2. \A p \in DOMAIN t.recs : t.recs[p] \in Recs
  BY DEF IsTable, WellLaid
<1>3. ASSUME NEW p \in DOMAIN t.recs
      PROVE  /\ new.recs[p] \in Recs
             /\ new.recs[p] = [t.recs[p] EXCEPT !.uid = new.recs[p].uid]
             /\ new.recs[p].kind = t.recs[p].kind /\ new.recs[p].len = t.recs[p].len
             /\ new.recs[p].enabled = t.recs[p].enabled
  <2>1. CASE \A i \in 1 .. N : p # o + 6 * (i - 1)
    <3>1. new.recs[p] = t.recs[p]
      BY <2>1, <1>1 DEF Writes
    <3>2. t.recs[p] = [t.recs[p] EXCEPT !.uid = t.recs[p].uid]
      BY <1>2 DEF Recs
    <3> QED
      BY <3>1, <3>2, <1>2
  <2>2. ASSUME NEW i \in 1 .. N, p = o + 6 * (i - 1)
        PROVE  /\ new.recs[p] \in Recs
               /\ new.recs[p] = [t.recs[p] EXCEPT !.uid = new.recs[p].uid]
               /\ new.recs[p].kind = t.recs[p].kind /\ new.recs[p].len = t.recs[p].len
               /\ new.recs[p].enabled = t.recs[p].enabled
    <3>1. new.recs[p] = [t.recs[p] EXCEPT !.uid = i - 1]
      BY <2>2, <1>1 DEF Writes
    <3>2. i - 1 \in Nat
      BY <1>0
    <3> QED
      BY <3>1, <3>2, <1>2 DEF Recs
  <2> QED
    BY <2>1, <2>2
<1>4. WellLaid(new)
  <2>1. \A p \in DOMAIN t.recs : new.recs[p] \in Recs /\ new.recs[p].len = t.recs[p].len
    BY <1>3
  <2> QED
    BY <1>1, <2>1 DEF Writes, IsTable, WellLaid
<1>5. Echoes(new)
  <2>1. new.echo = t.echo /\ new.size = t.size /\ DOMAIN new.recs = DOMAIN t.recs /\ Echoes(t)
    BY <1>1 DEF Writes, IsTable
  <2>2. \A p \in DOMAIN t.recs : new.recs[p].len = t.recs[p].len
    BY <1>3
  <2> QED
    BY <2>1, <2>2 DEF Echoes
<1>6. IsTable(new)
  BY <1>1, <1>4, <1>5 DEF Writes, IsTable
<1> QED
  BY <1>3, <1>6 DEF new, Keeps

(***************************************************************************)
(* What the builder staged.                                                *)
(***************************************************************************)

\* A stage as StageInv describes it: of a table t the builder accepted, with the
\* offsets of its NMI entries and of its processors.
Staged(t, cpus, nmis) ==
    /\ IsTable(t) /\ t.valid
    /\ cpus \in [1 .. N -> DOMAIN t.recs] /\ nmis \in [1 .. N -> DOMAIN t.recs]
    /\ Lists(nmis, NmisOf("build", t, t.size)) /\ Lists(cpus, CpusOf("build", t, t.size))
    /\ BuilderAccepts(t, cpus, nmis)

\* The first occurrence of the patch's sequence is where its NMI entries are.
Found(t, nmis, find) ==
    /\ nmis[1] \in Nat /\ find = [i \in 1 .. N |-> t.recs[nmis[1] + 6 * (i - 1)]]
    /\ \A i \in 1 .. N : nmis[1] + 6 * (i - 1) \in DOMAIN t.recs
    /\ nmis[1] = CHOOSE o \in Occurrences(t, find) : \A p \in Occurrences(t, find) : o <= p
    /\ nmis[1] \in Occurrences(t, find)

\* The builder's cut of t is an occurrence, and the first one among the records.
CutAt(t, nmis, find) ==
    /\ nmis[1] \in Nat /\ find = [i \in 1 .. N |-> t.recs[nmis[1] + 6 * (i - 1)]]
    /\ \A i \in 1 .. N : nmis[1] + 6 * (i - 1) \in DOMAIN t.recs
    /\ Occurrences(t, find) \in SUBSET Nat /\ nmis[1] \in Occurrences(t, find)
    /\ nmis[1] \in NmisOf("build", t, t.size)
    /\ \A o \in NmisOf("build", t, t.size) : nmis[1] <= o
    /\ \A o \in Occurrences(t, find) : o \in DOMAIN t.recs => nmis[1] <= o
    /\ \A o \in Occurrences(t, find) :
          o \notin DOMAIN t.recs => o \in DOMAIN t.echo /\ t.echo[o] = find

\* Among the records OpenCore finds the patch where the builder cut it out: an
\* earlier occurrence would begin with an NMI entry the builder has not seen.
LEMMA CutIsFirstRecord ==
    ASSUME NEW t, NEW cpus, NEW nmis, Staged(t, cpus, nmis)
    PROVE  CutAt(t, nmis, [i \in 1 .. N |-> t.recs[nmis[i]]])
<1> DEFINE find == [i \in 1 .. N |-> t.recs[nmis[i]]]
           os   == Occurrences(t, find)
<1>0. N \in Nat \ {0} /\ 1 \in 1 .. N /\ DOMAIN t.recs \subseteq 0 .. t.size - 1 /\ t.size \in Nat
  BY SizeAssumption DEF Staged, IsTable, WellLaid
<1>1. nmis[1] \in DOMAIN t.recs /\ nmis[1] \in Nat /\ DOMAIN nmis = 1 .. N
  BY <1>0 DEF Staged
<1>2. \A i \in 1 .. N : nmis[i] = nmis[1] + 6 * (i - 1) /\ nmis[i] \in DOMAIN t.recs
  BY DEF Staged, BuilderAccepts
<1>3. find = [i \in 1 .. N |-> t.recs[nmis[1] + 6 * (i - 1)]] /\ DOMAIN find = 1 .. N
  BY <1>2
<1>4. nmis[1] \in os
  BY <1>1, <1>2, <1>3 DEF Occurrences
<1>5. nmis[1] \in NmisOf("build", t, t.size)
  BY <1>0, <1>1 DEF Staged, Lists
<1>6. ASSUME NEW o \in NmisOf("build", t, t.size) PROVE nmis[1] <= o
  <2>1. PICK j \in 1 .. N : nmis[j] = o
    BY <1>1 DEF Staged, Lists
  <2> QED
    BY <2>1, <1>2, <1>1, <1>0
<1>7. ASSUME NEW o \in os, o \in DOMAIN t.recs PROVE nmis[1] <= o
  <2>1. o \in Nat /\ o < t.size
    BY <1>0, <1>7
  <2>2. o \notin DOMAIN t.echo
    BY <1>7 DEF Staged, IsTable, Echoes
  <2>3. \A i \in 1 .. N : t.recs[o + 6 * (i - 1)] = find[i]
    BY <2>2, <1>3 DEF Occurrences
  <2>4. t.recs[o] = t.recs[nmis[1]]
    BY <2>1, <2>3, <1>0
  <2>5. o \in NmisOf("build", t, t.size)
    BY <2>1, <2>4, <1>5, <1>7 DEF NmisOf
  <2> QED
    BY <2>5, <1>6
<1>8. os \in SUBSET Nat
  BY <1>0 DEF Occurrences, Staged, IsTable, Echoes
<1>9. \A o \in os : o \notin DOMAIN t.recs => o \in DOMAIN t.echo /\ t.echo[o] = find
  BY DEF Occurrences
<1>10. \A i \in 1 .. N : nmis[1] + 6 * (i - 1) \in DOMAIN t.recs
  BY <1>2
<1> HIDE DEF find
<1>11. CutAt(t, nmis, find)
  BY <1>1, <1>3, <1>4, <1>5, <1>6, <1>7, <1>8, <1>9, <1>10, Zenon DEF CutAt
<1> QED
  BY <1>11 DEF find

\* Unless the bytes lie in a record in front of the NMI entries, OpenCore finds the
\* patch where the builder cut it out.
LEMMA FoundWhereCut ==
    ASSUME NEW t, NEW cpus, NEW nmis, Staged(t, cpus, nmis), ~ Shadowed(Stage(t, nmis))
    PROVE  Found(t, nmis, [i \in 1 .. N |-> t.recs[nmis[i]]])
<1> DEFINE find == [i \in 1 .. N |-> t.recs[nmis[i]]]
           os   == Occurrences(t, find)
<1>1. /\ nmis[1] \in Nat /\ find = [i \in 1 .. N |-> t.recs[nmis[1] + 6 * (i - 1)]]
      /\ \A i \in 1 .. N : nmis[1] + 6 * (i - 1) \in DOMAIN t.recs
      /\ os \in SUBSET Nat /\ nmis[1] \in os
      /\ \A o \in NmisOf("build", t, t.size) : nmis[1] <= o
      /\ \A o \in os : o \in DOMAIN t.recs => nmis[1] <= o
      /\ \A o \in os : o \notin DOMAIN t.recs => o \in DOMAIN t.echo /\ t.echo[o] = find
  <2>1. CutAt(t, nmis, find)
    BY CutIsFirstRecord, Zenon
  <2> QED
    BY <2>1, Zenon DEF CutAt
<1>2. \A o \in DOMAIN t.echo : t.echo[o] = find => \E p \in NmisOf("build", t, t.size) : ~ (o < p)
  BY DEF Shadowed, Stage
<1> HIDE DEF os, find
<1>3. \A p \in NmisOf("build", t, t.size) : p \in Nat
  BY DEF NmisOf, Staged, IsTable, WellLaid
<1>4. ASSUME NEW o \in os PROVE nmis[1] <= o /\ o \in Nat
  <2>1. CASE o \in DOMAIN t.recs
    BY <2>1, <1>1
  <2>2. CASE o \notin DOMAIN t.recs
    <3>1. PICK p \in NmisOf("build", t, t.size) : ~ (o < p)
      BY <2>2, <1>1, <1>2
    <3>2. nmis[1] <= p /\ p \in Nat /\ o \in Nat
      BY <3>1, <1>1, <1>3
    <3> QED
      BY <3>1, <3>2, <1>1
  <2> QED
    BY <2>1, <2>2
<1>5. \A o \in os : (\A p \in os : o <= p) <=> o = nmis[1]
  BY <1>1, <1>4
<1>6. nmis[1] = CHOOSE o \in os : \A p \in os : o <= p
  BY <1>1, <1>5, Zenon
<1> QED
  BY <1>1, <1>6 DEF os, find, Found

\* What patching t into new changes, and the UIDs before and after.
Locals(t) == {p \in DOMAIN t.recs : t.recs[p].kind = LocalApic}
Nmis(t)   == {p \in DOMAIN t.recs : t.recs[p].kind = ApicNmi}
Cured(t, new) ==
    /\ new.valid /\ new.size = t.size /\ new.declared = t.declared /\ DOMAIN new.recs = DOMAIN t.recs
    /\ Keeps(t, new)
    /\ \A p \in DOMAIN t.recs : new.recs[p] # t.recs[p] => t.recs[p].kind = ApicNmi
    /\ \A p \in Nmis(t) : t.recs[p].len = 6
    /\ UidsAt(t, Locals(t)) = 0 .. N - 1 /\ UidsAt(t, Nmis(t)) = 1 .. N
    /\ UidsAt(new, Locals(t)) = 0 .. N - 1 /\ UidsAt(new, Nmis(t)) = 0 .. N - 1

\* The UIDs before the patch and after it.
LEMMA StagedUids ==
    ASSUME NEW t, NEW cpus, NEW nmis, Staged(t, cpus, nmis)
    PROVE  Cured(t, Stage(t, nmis).reference)
<1> DEFINE find == [i \in 1 .. N |-> t.recs[nmis[i]]]
           new  == Patched(t, nmis[1], Replacement(find))
<1>0. N \in Nat \ {0} /\ IsTable(t) /\ DOMAIN t.recs \subseteq 0 .. t.size - 1 /\ t.size \in Nat
  BY SizeAssumption DEF Staged, IsTable, WellLaid
<1>1. /\ nmis[1] \in Nat /\ find = [i \in 1 .. N |-> t.recs[nmis[1] + 6 * (i - 1)]]
      /\ \A i \in 1 .. N : nmis[1] + 6 * (i - 1) \in DOMAIN t.recs
  <2>1. CutAt(t, nmis, find)
    BY CutIsFirstRecord, Zenon
  <2> QED
    BY <2>1, Zenon DEF CutAt
<1>2. Writes(t, nmis[1], new)
  BY <1>0, <1>1, PatchWrites, Zenon
<1>3. Keeps(t, new)
  BY <1>0, <1>1, PatchKeeps, Zenon
<1>4. Stage(t, nmis).reference = new
  BY DEF Stage
<1> HIDE DEF new
<1>5. /\ \A p \in DOMAIN t.recs : t.recs[p].kind = ApicNmi <=> \E i \in 1 .. N : p = nmis[1] + 6 * (i - 1)
      /\ \A p \in DOMAIN t.recs : t.recs[p].kind = ApicNmi => t.recs[p].len = 6
      /\ \A i \in 1 .. N : t.recs[nmis[1] + 6 * (i - 1)].uid = i
  <2>1. /\ DOMAIN nmis = 1 .. N
        /\ \A i \in 1 .. N : /\ nmis[i] = nmis[1] + 6 * (i - 1) /\ t.recs[nmis[i]].len = 6
                            /\ t.recs[nmis[i]].uid = i
    BY DEF Staged, BuilderAccepts
  <2>2. NmisOf("build", t, t.size) = Nmis(t)
    BY <1>0 DEF Nmis, NmisOf, IsNmi
  <2>3. {nmis[i] : i \in 1 .. N} = Nmis(t)
    <3>1. Lists(nmis, NmisOf("build", t, t.size))
      BY DEF Staged
    <3>2. {nmis[i] : i \in DOMAIN nmis} = NmisOf("build", t, t.size)
      BY <3>1, ListRange, Zenon
    <3> QED
      BY <3>2, <2>1, <2>2
  <2> QED
    BY <2>1, <2>3 DEF Nmis
<1>6. /\ {t.recs[p].uid : p \in Nmis(t)} = 1 .. N
      /\ {new.recs[p].uid : p \in Nmis(t)} = 0 .. N - 1
  <2>1. \A i \in 1 .. N : new.recs[nmis[1] + 6 * (i - 1)].uid = i - 1
    <3>1. \A p \in DOMAIN t.recs : t.recs[p] \in Recs
      BY <1>0 DEF IsTable, WellLaid
    <3> QED
      BY <3>1, <1>1, <1>2 DEF Writes, Recs
  <2>2. {t.recs[p].uid : p \in Nmis(t)} = 1 .. N
    BY <1>1, <1>5 DEF Nmis
  <2>3. {new.recs[p].uid : p \in Nmis(t)} = {i - 1 : i \in 1 .. N}
    BY <1>1, <1>5, <2>1 DEF Nmis
  <2>4. {i - 1 : i \in 1 .. N} = 0 .. N - 1
    BY <1>0
  <2> QED
    BY <2>2, <2>3, <2>4
<1>7. \A p \in DOMAIN t.recs : new.recs[p] # t.recs[p] => t.recs[p].kind = ApicNmi
  BY <1>2, <1>5 DEF Writes
<1>8. {t.recs[p].uid : p \in Locals(t)} = 0 .. N - 1
  <2>1. DOMAIN cpus = 1 .. N /\ \A i \in 1 .. N : t.recs[cpus[i]].uid = i - 1
    BY DEF Staged, BuilderAccepts
  <2>2. CpusOf("build", t, t.size) = Locals(t)
    BY <1>0 DEF Locals, CpusOf, IsCpu
  <2>3. {cpus[i] : i \in 1 .. N} = Locals(t)
    <3>1. Lists(cpus, CpusOf("build", t, t.size))
      BY DEF Staged
    <3>2. {cpus[i] : i \in DOMAIN cpus} = CpusOf("build", t, t.size)
      BY <3>1, ListRange, Zenon
    <3> QED
      BY <3>2, <2>1, <2>2
  <2>4. {t.recs[p].uid : p \in {cpus[i] : i \in 1 .. N}} = {i - 1 : i \in 1 .. N}
    BY <2>1
  <2>5. {i - 1 : i \in 1 .. N} = 0 .. N - 1
    BY <1>0
  <2> QED
    BY <2>3, <2>4, <2>5
<1>9. {new.recs[p].uid : p \in Locals(t)} = 0 .. N - 1
  <2>1. \A p \in Locals(t) : new.recs[p] = t.recs[p]
    BY <1>7 DEF Locals, LocalApic, ApicNmi
  <2> QED
    BY <2>1, <1>8
<1> QED
  BY <1>2, <1>3, <1>4, <1>5, <1>6, <1>7, <1>8, <1>9 DEF Writes, Cured, UidsAt, Nmis

\* Of some offsets one is the first.
LEMMA FirstOf ==
    ASSUME NEW S \in SUBSET Nat, S # {}
    PROVE  \E o \in S : \A p \in S : o <= p
<1> DEFINE R == {ss \in Nat \X Nat : ss[1] < ss[2]}
<1>1. IsWellFoundedOn(R, Nat)
  BY NatLessThanWellFounded DEF OpToRel
<1> HIDE DEF R
<1>2. PICK o \in S : \A p \in S : ~ (<<p, o>> \in R)
  BY <1>1, WFMin, Zenon
<1>3. \A p \in S : o <= p
  <2> SUFFICES ASSUME NEW p \in S, p < o PROVE FALSE
    OBVIOUS
  <2>1. <<p, o>> \in Nat \X Nat /\ <<p, o>>[1] = p /\ <<p, o>>[2] = o
    OBVIOUS
  <2>2. <<p, o>> \in R
    BY <2>1 DEF R
  <2> QED
    BY <2>2, <1>2
<1> QED
  BY <1>3
\* OpenCore changes nothing, or it writes at the first of the patch's occurrences.
LEMMA OpenCoreWrites ==
    ASSUME NEW t, IsTable(t), NEW s
    PROVE  \/ OpenCore(s, t) = t
           \/ \E o \in Occurrences(t, s.find) :
                 /\ \A p \in Occurrences(t, s.find) : o <= p
                 /\ OpenCore(s, t) = Patched(t, o, Replacement(s.find))
<1> DEFINE os == Occurrences(t, s.find)
           o  == CHOOSE q \in os : \A p \in os : q <= p
<1>1. CASE t.oem = s.of.oem /\ t.declared = s.of.declared /\ os # {}
  <2>1. os \in SUBSET Nat
    BY DEF Occurrences, IsTable, WellLaid, Echoes
  <2>2. o \in os /\ \A p \in os : o <= p
    <3>1. \E q \in os : \A p \in os : q <= p
      BY <2>1, <1>1, FirstOf, Zenon
    <3> HIDE DEF os
    <3> QED
      BY <3>1, Zenon
  <2>3. OpenCore(s, t) = Patched(t, o, Replacement(s.find))
    BY <1>1 DEF OpenCore
  <2> QED
    BY <2>2, <2>3, Zenon
<1>2. CASE ~ (t.oem = s.of.oem /\ t.declared = s.of.declared /\ os # {})
  BY <1>2 DEF OpenCore
<1> QED
  BY <1>1, <1>2

\* Writing into the payload of a record leaves the records.
LEMMA EchoKeeps ==
    ASSUME NEW t, IsTable(t), NEW o \in DOMAIN t.echo, NEW new, Len(new) = Len(t.echo[o])
    PROVE  /\ IsTable(Patched(t, o, new)) /\ Patched(t, o, new).recs = t.recs
           /\ Patched(t, o, new).declared = t.declared /\ Patched(t, o, new).size = t.size
<1> DEFINE echo == [p \in DOMAIN t.echo |-> IF p = o THEN new ELSE t.echo[p]]
           got  == Patched(t, o, new)
<1>1. o \notin DOMAIN t.recs
  BY DEF IsTable, Echoes
<1>2. got = [t EXCEPT !.valid = TRUE, !.echo = echo]
  BY <1>1 DEF Patched
<1>3. DOMAIN echo = DOMAIN t.echo /\ \A p \in DOMAIN t.echo : Len(echo[p]) = Len(t.echo[p])
  OBVIOUS
<1> HIDE DEF echo
<1>4. /\ DOMAIN got = DOMAIN t /\ got.valid = TRUE /\ got.recs = t.recs /\ got.echo = echo
      /\ got.oem = t.oem /\ got.declared = t.declared /\ got.size = t.size
  BY <1>2 DEF IsTable
<1> HIDE DEF got
<1>5. WellLaid(got)
  BY <1>4 DEF WellLaid, IsTable
<1>6. Echoes(got)
  BY <1>3, <1>4 DEF Echoes, IsTable
<1> QED
  BY <1>4, <1>5, <1>6 DEF IsTable, got

\* What OpenCore makes of any table with a staged patch is a table of the same
\* size, and of the same records but for the UIDs of NMI entries.
LEMMA OpenCoreKeeps ==
    ASSUME NEW t, IsTable(t), NEW s, NEW f, s.find = [i \in 1 .. N |-> f[i]],
           \A i \in 1 .. N : f[i].kind = ApicNmi
    PROVE  /\ IsTable(OpenCore(s, t)) /\ SameButUids(t, OpenCore(s, t))
           /\ OpenCore(s, t).declared = t.declared /\ OpenCore(s, t).size = t.size
<1> DEFINE got == OpenCore(s, t)
<1>1. CASE got = t
  BY <1>1 DEF SameButUids
<1>2. ASSUME NEW o \in Occurrences(t, s.find), o \in DOMAIN t.recs,
             got = Patched(t, o, Replacement(s.find))
      PROVE  IsTable(got) /\ SameButUids(t, got) /\ got.declared = t.declared /\ got.size = t.size
  <2>0. DOMAIN s.find = 1 .. N /\ o \in Nat /\ o \notin DOMAIN t.echo
    BY <1>2 DEF IsTable, WellLaid, Echoes
  <2>1. \A i \in 1 .. N : o + 6 * (i - 1) \in DOMAIN t.recs /\ t.recs[o + 6 * (i - 1)] = s.find[i]
    BY <2>0 DEF Occurrences
  <2>2. s.find = [i \in 1 .. N |-> t.recs[o + 6 * (i - 1)]]
    BY <2>1
  <2>3. Keeps(t, got) /\ Writes(t, o, got)
    BY <1>2, <2>0, <2>1, <2>2, PatchKeeps, PatchWrites
  <2>4. \A i \in 1 .. N : t.recs[o + 6 * (i - 1)].kind = ApicNmi
    BY <2>1
  <2> HIDE DEF got
  <2>5. SameButUids(t, got)
    <3>1. ASSUME NEW p \in DOMAIN t.recs, got.recs[p] # t.recs[p]
          PROVE  t.recs[p].kind = ApicNmi
      <4>1. PICK i \in 1 .. N : p = o + 6 * (i - 1)
        BY <2>3, <3>1 DEF Writes
      <4> QED
        BY <4>1, <2>4
    <3> QED
      BY <3>1, <2>3 DEF Keeps, Writes, SameButUids, IsNmi
  <2> QED
    BY <2>3, <2>5 DEF Keeps, Writes
<1>3. ASSUME NEW o \in Occurrences(t, s.find), o \notin DOMAIN t.recs,
             got = Patched(t, o, Replacement(s.find))
      PROVE  IsTable(got) /\ SameButUids(t, got) /\ got.declared = t.declared /\ got.size = t.size
  <2>1. o \in DOMAIN t.echo /\ t.echo[o] = s.find
    BY <1>3 DEF Occurrences
  <2>2. Len(Replacement(s.find)) = Len(t.echo[o])
    BY <2>1, SizeAssumption DEF Replacement
  <2> DEFINE new == Replacement(s.find)
  <2> HIDE DEF new
  <2>3. IsTable(Patched(t, o, new)) /\ Patched(t, o, new).recs = t.recs
        /\ Patched(t, o, new).declared = t.declared /\ Patched(t, o, new).size = t.size
    <3>1. Len(new) = Len(t.echo[o])
      BY <2>2 DEF new
    <3> QED
      BY <3>1, <2>1, EchoKeeps, Zenon
  <2>4. got = Patched(t, o, new)
    BY <1>3 DEF new
  <2> HIDE DEF got
  <2> QED
    BY <2>3, <2>4 DEF SameButUids
<1> QED
  <2>1. CASE got = t
    BY <1>1, <2>1
  <2>2. CASE \E o \in Occurrences(t, s.find) : got = Patched(t, o, Replacement(s.find))
    BY <1>2, <1>3, <2>2
  <2> QED
    BY <2>1, <2>2, OpenCoreWrites

\* The same of a stage the builder made.
LEMMA StagedKeeps ==
    ASSUME NEW t, IsTable(t), NEW of, NEW cpus, NEW nmis, Staged(of, cpus, nmis)
    PROVE  LET got == OpenCore(Stage(of, nmis), t)
           IN  /\ IsTable(got) /\ SameButUids(t, got)
               /\ got.declared = t.declared /\ got.size = t.size
<1> DEFINE s == Stage(of, nmis)
           f == [i \in 1 .. N |-> of.recs[nmis[i]]]
<1>1. s.find = [i \in 1 .. N |-> f[i]]
  BY DEF Stage
<1>2. \A i \in 1 .. N : f[i].kind = ApicNmi
  <2>1. \A i \in DOMAIN nmis : nmis[i] \in NmisOf("build", of, of.size)
    <3>1. Lists(nmis, NmisOf("build", of, of.size))
      BY DEF Staged
    <3>2. {nmis[i] : i \in DOMAIN nmis} = NmisOf("build", of, of.size)
      BY <3>1, ListRange, Zenon
    <3> QED
      BY <3>2
  <2>2. DOMAIN nmis = 1 .. N
    BY DEF Staged
  <2> QED
    BY <2>1, <2>2 DEF NmisOf, IsNmi
<1> HIDE DEF s, f
<1>3. /\ IsTable(OpenCore(s, t)) /\ SameButUids(t, OpenCore(s, t))
      /\ OpenCore(s, t).declared = t.declared /\ OpenCore(s, t).size = t.size
  BY <1>1, <1>2, OpenCoreKeeps
<1> QED
  BY <1>3, Zenon DEF s

(***************************************************************************)
(* The invariant.                                                          *)
(***************************************************************************)

\* No table is a table without a record.
LEMMA NoTableIsTable == IsTable(NoTable) /\ NoTable.size = 0
  BY DEF NoTable, IsTable, WellLaid, Echoes

\* Before the first step nothing was walked, staged, printed or judged.
LEMMA InitInv == Init => IInv
<1> SUFFICES ASSUME Init PROVE IInv
  OBVIOUS
<1>1. FileInv
  BY NoTableIsTable, FirmwaresAssumption, TablesAssumption DEF Init, FileInv, NoWalk
<1>2. WalkInv /\ StageInv /\ ReportInv /\ VerdictInv
  BY DEF Init, WalkInv, StageInv, ReportInv, VerdictInv, NoWalk, NoReport, NoVerdict
<1> QED
  BY <1>1, <1>2 DEF IInv

\* A parser starts with no record behind it.
LEMMA StartInv ==
    ASSUME IInv, NEW tool \in Tools, Start(tool)
    PROVE  IInv'
<1> DEFINE t == IF tool = "dump" THEN visible ELSE file
<1>1. /\ walk' = [tool |-> tool, table |-> t, cpus |-> <<>>, nmis |-> <<>>,
                   at |-> IF t.declared = t.size THEN 0 ELSE t.size]
      /\ ~ HeaderRefused(tool, t)
      /\ UNCHANGED <<visible, file, staged, report, verdict>>
  BY DEF Start
<1>2. IsTable(t) /\ t.declared = t.size /\ (tool # "dump" => t.valid)
  BY <1>1 DEF IInv, FileInv, HeaderRefused, IsTable
<1>3. walk'.at = 0 /\ walk'.table = t /\ walk'.tool = tool /\ walk'.cpus = <<>> /\ walk'.nmis = <<>>
  BY <1>1, <1>2
<1>4. CpusOf(tool, t, 0) = {} /\ NmisOf(tool, t, 0) = {}
  BY <1>2 DEF CpusOf, NmisOf, IsTable, WellLaid
<1>5. Lists(<<>>, {})
  BY DEF Lists
<1>6. t.size \in Nat /\ (0 < t.size => 0 \in DOMAIN t.recs)
  BY <1>2 DEF IsTable, WellLaid
<1>7. WalkInv'
  <2>1. /\ walk'.at \in 0 .. walk'.table.size
        /\ walk'.at < walk'.table.size => walk'.at \in DOMAIN walk'.table.recs
    BY <1>3, <1>6
  <2>2. /\ walk'.tool # "dump" => walk'.table = file' /\ walk'.table.valid
        /\ walk'.tool = "dump" => walk'.table = visible'
    BY <1>1, <1>2, <1>3
  <2>3. /\ Lists(walk'.cpus, CpusOf(walk'.tool, walk'.table, walk'.at))
        /\ Lists(walk'.nmis, NmisOf(walk'.tool, walk'.table, walk'.at))
    BY <1>3, <1>4, <1>5
  <2> QED
    BY <2>1, <2>2, <2>3 DEF WalkInv
<1>8. FileInv'
  <2>1. DOMAIN walk' = DOMAIN NoWalk
    BY <1>1 DEF NoWalk
  <2> QED
    BY <2>1, <1>1, <1>2, <1>3 DEF IInv, FileInv
<1>9. StageInv' /\ ReportInv' /\ VerdictInv'
  BY <1>1 DEF IInv, StageInv, ReportInv, VerdictInv
<1> QED
  BY <1>7, <1>8, <1>9 DEF IInv
\* A walk goes on: the record is in its list if it counts, and the walk is at
\* the next one.
LEMMA WalkStepInv ==
    ASSUME IInv, Walk
    PROVE  IInv'
<1> DEFINE t == walk.table
           o == walk.at
           r == t.recs[o]
           next(os, take) == IF take THEN Append(os, o) ELSE os
<1>0. UNCHANGED <<visible, file, staged, report, verdict>>
  BY DEF Walk
<1>1. StageInv' /\ ReportInv' /\ VerdictInv'
  BY <1>0 DEF IInv, StageInv, ReportInv, VerdictInv
<1>2. CASE Malformed(t, o)
  <2>1. walk' = NoWalk
    BY <1>2 DEF Walk
  <2> QED
    BY <2>1, <1>0, <1>1, NoTableIsTable DEF IInv, FileInv, WalkInv, NoWalk
<1>3. CASE ~ Malformed(t, o)
  <2>1. /\ walk.tool # "none" /\ o < t.size
        /\ walk' = [walk EXCEPT !.at = o + r.len,
                                !.cpus = next(walk.cpus, IsCpu(walk.tool, r)),
                                !.nmis = next(walk.nmis, IsNmi(walk.tool, r))]
    BY <1>3 DEF Walk
  <2>2. /\ o \in DOMAIN t.recs /\ IsTable(t) /\ WellLaid(t) /\ o \in Nat
        /\ DOMAIN walk = {"tool", "table", "at", "cpus", "nmis"}
    <3>1. o \in DOMAIN t.recs /\ IsTable(t) /\ WellLaid(t)
      BY <2>1 DEF IInv, WalkInv, FileInv, IsTable
    <3>2. o \in Nat
      BY <3>1 DEF WellLaid
    <3> QED
      BY <3>1, <3>2 DEF IInv, FileInv, NoWalk
  <2>3. /\ walk'.tool = walk.tool /\ walk'.table = t /\ walk'.at = o + r.len
        /\ walk'.cpus = next(walk.cpus, IsCpu(walk.tool, r))
        /\ walk'.nmis = next(walk.nmis, IsNmi(walk.tool, r))
    BY <2>1, <2>2
  <2>4. /\ o + r.len \in 0 .. t.size
        /\ o + r.len < t.size => o + r.len \in DOMAIN t.recs
        /\ \A p \in DOMAIN t.recs : p < o + r.len <=> p < o \/ p = o
    BY <1>3, <2>2, NextRecord
  <2>5. Lists(walk'.cpus, CpusOf(walk.tool, t, o + r.len))
    <3>1. Lists(walk.cpus, CpusOf(walk.tool, t, o)) /\ CpusOf(walk.tool, t, o) \in SUBSET Nat
      BY <2>1, <2>2 DEF IInv, WalkInv, CpusOf, WellLaid
    <3>2. CASE IsCpu(walk.tool, r)
      <4>1. CpusOf(walk.tool, t, o + r.len) = CpusOf(walk.tool, t, o) \cup {o}
        BY <3>2, <2>2, <2>4 DEF CpusOf
      <4>2. \A p \in CpusOf(walk.tool, t, o) : p < o
        BY DEF CpusOf
      <4>3. Lists(Append(walk.cpus, o), CpusOf(walk.tool, t, o) \cup {o})
        BY <3>1, <4>2, <2>2, ListsAppend
      <4> QED
        BY <4>1, <4>3, <2>3, <3>2
    <3>3. CASE ~ IsCpu(walk.tool, r)
      <4>1. CpusOf(walk.tool, t, o + r.len) = CpusOf(walk.tool, t, o)
        BY <3>3, <2>2, <2>4 DEF CpusOf
      <4> QED
        BY <4>1, <3>1, <2>3, <3>3
    <3> QED
      BY <3>2, <3>3
  <2>6. Lists(walk'.nmis, NmisOf(walk.tool, t, o + r.len))
    <3>1. Lists(walk.nmis, NmisOf(walk.tool, t, o)) /\ NmisOf(walk.tool, t, o) \in SUBSET Nat
      BY <2>1, <2>2 DEF IInv, WalkInv, NmisOf, WellLaid
    <3>2. CASE IsNmi(walk.tool, r)
      <4>1. NmisOf(walk.tool, t, o + r.len) = NmisOf(walk.tool, t, o) \cup {o}
        BY <3>2, <2>2, <2>4 DEF NmisOf
      <4>2. \A p \in NmisOf(walk.tool, t, o) : p < o
        BY DEF NmisOf
      <4>3. Lists(Append(walk.nmis, o), NmisOf(walk.tool, t, o) \cup {o})
        BY <3>1, <4>2, <2>2, ListsAppend
      <4> QED
        BY <4>1, <4>3, <2>3, <3>2
    <3>3. CASE ~ IsNmi(walk.tool, r)
      <4>1. NmisOf(walk.tool, t, o + r.len) = NmisOf(walk.tool, t, o)
        BY <3>3, <2>2, <2>4 DEF NmisOf
      <4> QED
        BY <4>1, <3>1, <2>3, <3>3
    <3> QED
      BY <3>2, <3>3
  <2>7. WalkInv'
    BY <2>1, <2>3, <2>4, <2>5, <2>6, <1>0 DEF IInv, WalkInv
  <2>8. FileInv'
    <3>1. DOMAIN walk' = DOMAIN walk
      BY <2>1
    <3> QED
      BY <3>1, <2>2, <2>3, <1>0 DEF IInv, FileInv
  <2> QED
    BY <2>7, <2>8, <1>1 DEF IInv
<1> QED
  BY <1>2, <1>3

\* At the end of a table a walk has all of its records.
LEMMA AllTaken ==
    ASSUME IInv, NEW tool \in Tools, AtEnd(tool)
    PROVE  LET t == walk.table
           IN  /\ IsTable(t) /\ walk.tool = tool
               /\ Lists(walk.cpus, CpusOf(tool, t, t.size)) /\ Lists(walk.nmis, NmisOf(tool, t, t.size))
               /\ tool # "dump" => t = file /\ t.valid
               /\ tool = "dump" => t = visible
<1>1. walk.tool = tool /\ walk.tool # "none" /\ walk.at \in 0 .. walk.table.size
      /\ walk.at >= walk.table.size /\ walk.table.size \in Nat /\ IsTable(walk.table)
  BY DEF IInv, WalkInv, FileInv, AtEnd, Tools, IsTable, WellLaid
<1>2. walk.at = walk.table.size
  BY <1>1
<1> QED
  BY <1>1, <1>2 DEF IInv, WalkInv

\* The table the builder stages is one it accepted.
LEMMA BuildInv ==
    ASSUME IInv, Build
    PROVE  IInv'
<1> DEFINE t == walk.table
<1>0. /\ walk' = NoWalk /\ UNCHANGED <<visible, file, report, verdict>> /\ AtEnd("build")
      /\ staged' = IF BuilderAccepts(t, walk.cpus, walk.nmis) THEN Stage(t, walk.nmis) ELSE staged
  BY DEF Build
<1>1. FileInv' /\ WalkInv' /\ ReportInv' /\ VerdictInv'
  BY <1>0, NoTableIsTable DEF IInv, FileInv, WalkInv, ReportInv, VerdictInv, NoWalk
<1>2. CASE BuilderAccepts(t, walk.cpus, walk.nmis)
  <2>1. staged' = Stage(t, walk.nmis) /\ staged'.of = t
    BY <1>0, <1>2 DEF Stage
  <2>2. /\ IsTable(t) /\ t.valid
        /\ Lists(walk.cpus, CpusOf("build", t, t.size)) /\ Lists(walk.nmis, NmisOf("build", t, t.size))
    BY <1>0, AllTaken DEF Tools
  <2>3. walk.cpus \in Seq(DOMAIN t.recs) /\ walk.nmis \in Seq(DOMAIN t.recs)
    BY <2>2 DEF Lists, CpusOf, NmisOf
  <2>4. walk.cpus \in [1 .. N -> DOMAIN t.recs] /\ walk.nmis \in [1 .. N -> DOMAIN t.recs]
    BY <2>3, <1>2 DEF BuilderAccepts
  <2>5. StageInv'
    BY <2>1, <2>2, <2>4, <1>2 DEF StageInv
  <2> QED
    BY <2>5, <1>1 DEF IInv
<1>3. CASE ~ BuilderAccepts(t, walk.cpus, walk.nmis)
  BY <1>0, <1>1, <1>3 DEF IInv, StageInv
<1> QED
  BY <1>2, <1>3

\* What was printed fits the table Windows sees, which is also the one saved.
LEMMA DumpInv ==
    ASSUME IInv, Dump
    PROVE  IInv'
<1> DEFINE t == walk.table
<1>0. /\ walk' = NoWalk /\ UNCHANGED <<visible, staged>> /\ AtEnd("dump")
      /\ report'.match = (t.declared = t.size /\ Uids(t, walk.nmis) = Uids(t, walk.cpus))
      /\ (file' = t /\ verdict' = NoVerdict) \/ UNCHANGED <<file, verdict>>
  BY DEF Dump, Save
<1>1. /\ IsTable(t) /\ t = visible /\ t.declared = t.size
      /\ Lists(walk.cpus, CpusOf("dump", t, t.size)) /\ Lists(walk.nmis, NmisOf("dump", t, t.size))
  BY <1>0, AllTaken DEF Tools, IInv, FileInv
<1>2. FileInv' /\ WalkInv'
  BY <1>0, <1>1, NoTableIsTable DEF IInv, FileInv, WalkInv, NoWalk
<1>3. StageInv'
  BY <1>0 DEF IInv, StageInv
<1>4. ReportInv'
  <2>1. Uids(t, walk.cpus) = UidsAt(t, CpusOf("dump", t, t.size))
        /\ Uids(t, walk.nmis) = UidsAt(t, NmisOf("dump", t, t.size))
    BY <1>1, ListedUids, Zenon
  <2> QED
    BY <2>1, <1>0, <1>1 DEF ReportInv
<1>5. VerdictInv'
  BY <1>0 DEF IInv, VerdictInv, NoVerdict
<1> QED
  BY <1>2, <1>3, <1>4, <1>5 DEF IInv

\* What was found fits the file.
LEMMA ValidateInv ==
    ASSUME IInv, Validate
    PROVE  IInv'
<1> DEFINE t == walk.table
<1>0. /\ walk' = NoWalk /\ UNCHANGED <<visible, file, staged, report>> /\ AtEnd("validate")
      /\ verdict'.issues = Issues(Uids(t, walk.cpus), Uids(t, walk.nmis))
  BY DEF Validate
<1>1. /\ IsTable(t) /\ t = file
      /\ Lists(walk.cpus, CpusOf("validate", t, t.size)) /\ Lists(walk.nmis, NmisOf("validate", t, t.size))
  BY <1>0, AllTaken DEF Tools
<1>2. FileInv' /\ WalkInv' /\ StageInv' /\ ReportInv'
  BY <1>0, NoTableIsTable DEF IInv, FileInv, WalkInv, StageInv, ReportInv, NoWalk
<1>3. VerdictInv'
  <2>1. Uids(t, walk.cpus) = UidsAt(t, CpusOf("validate", t, t.size))
        /\ Uids(t, walk.nmis) = UidsAt(t, NmisOf("validate", t, t.size))
    BY <1>1, ListedUids, Zenon
  <2> QED
    BY <2>1, <1>0, <1>1 DEF VerdictInv
<1> QED
  BY <1>2, <1>3 DEF IInv

\* A boot shows a table of the firmware, or one OpenCore patched.
LEMMA BootInv ==
    ASSUME IInv, Boot
    PROVE  IInv'
<1>0. /\ walk' = NoWalk /\ report' = NoReport /\ UNCHANGED <<file, staged, verdict>>
  BY DEF Boot
<1>1. PICK fw \in Firmwares : visible' = fw \/ (staged.on /\ visible' = OpenCore(staged, fw))
  BY DEF Boot
<1>2. IsTable(fw) /\ fw.declared = fw.size
  BY FirmwaresAssumption, TablesAssumption
<1>3. IsTable(visible') /\ visible'.declared = visible'.size
  <2>1. CASE visible' = fw
    BY <2>1, <1>2
  <2>2. CASE staged.on /\ visible' = OpenCore(staged, fw)
    <3>1. staged # NoStage
      BY <2>2 DEF NoStage
    <3>2. PICK cpus, nmis : Staged(staged.of, cpus, nmis) /\ staged = Stage(staged.of, nmis)
      BY <3>1 DEF IInv, StageInv, Staged
    <3> QED
      BY <2>2, <3>2, <1>2, StagedKeeps
  <2> QED
    BY <2>1, <2>2, <1>1
<1>4. FileInv'
  BY <1>0, <1>3, NoTableIsTable DEF IInv, FileInv, NoWalk
<1>5. WalkInv' /\ StageInv' /\ ReportInv' /\ VerdictInv'
  BY <1>0 DEF IInv, WalkInv, StageInv, ReportInv, VerdictInv, NoWalk, NoReport
<1> QED
  BY <1>4, <1>5 DEF IInv

\* Every step keeps the invariant.
LEMMA StepInv == IInv /\ [Next]_vars => IInv'
<1> SUFFICES ASSUME IInv, [Next]_vars PROVE IInv'
  OBVIOUS
<1>1. ASSUME NEW tool \in Tools, Start(tool) PROVE IInv'
  BY <1>1, StartInv
<1>2. CASE Walk
  BY <1>2, WalkStepInv
<1>3. CASE Build
  BY <1>3, BuildInv
<1>4. CASE Dump
  BY <1>4, DumpInv
<1>5. CASE Validate
  BY <1>5, ValidateInv
<1>6. CASE GiveFile
  BY <1>6, TablesAssumption DEF GiveFile, IInv, FileInv, WalkInv, StageInv, ReportInv, VerdictInv, NoVerdict
<1>7. CASE Boot
  BY <1>7, BootInv
<1>8. CASE UNCHANGED vars
  BY <1>8 DEF vars, IInv, FileInv, WalkInv, StageInv, ReportInv, VerdictInv
<1> QED
  BY <1>1, <1>2, <1>3, <1>4, <1>5, <1>6, <1>7, <1>8 DEF Next

\* The invariant holds in every behaviour.
THEOREM InvariantHolds == Spec => []IInv
  BY InitInv, StepInv, PTL DEF Spec

(***************************************************************************)
(* The properties.                                                         *)
(***************************************************************************)

\* What StageInv says of a stage, in the words of the lemmas above.
LEMMA StagedIs ==
    ASSUME IInv, staged.on
    PROVE  \E cpus, nmis : Staged(staged.of, cpus, nmis) /\ staged = Stage(staged.of, nmis)
<1>1. staged # NoStage
  BY DEF NoStage
<1> QED
  BY <1>1 DEF IInv, StageInv, Staged

\* OpenCore changes no table in anything but the UIDs of NMI entries; of the table
\* the patch was built from it makes the one the builder predicts, whose UIDs fit,
\* or, if the bytes come earlier in some payload, one with the records it had.
THEOREM PatchAlwaysLands == Spec => []PatchLands
<1>1. IInv => PatchLands
  <2> SUFFICES ASSUME IInv, staged.on PROVE PatchLands
    BY DEF PatchLands
  <2> DEFINE t   == staged.of
             new == staged.reference
             got == OpenCore(staged, t)
  <2>1. PICK cpus, nmis : Staged(t, cpus, nmis) /\ staged = Stage(t, nmis)
    BY StagedIs
  <2> DEFINE find == [i \in 1 .. N |-> t.recs[nmis[i]]]
  <2>2. staged.find = find /\ new = Patched(t, nmis[1], Replacement(find))
    BY <2>1 DEF Stage
  <2>3. \A fw \in Firmwares \cup {t} : SameButUids(fw, OpenCore(staged, fw))
    <3>1. \A fw \in Firmwares \cup {t} : IsTable(fw)
      BY <2>1, FirmwaresAssumption, TablesAssumption DEF Staged
    <3> QED
      BY <3>1, <2>1, StagedKeeps
  <2>4. ASSUME ~ Shadowed(staged)
        PROVE  /\ got = new
               /\ UidsAt(got, NmisOf("build", got, t.size)) = UidsAt(got, CpusOf("build", got, t.size))
    <3>1. Found(t, nmis, find)
      <4>1. ~ Shadowed(Stage(t, nmis))
        BY <2>1, <2>4
      <4> QED
        BY <4>1, <2>1, FoundWhereCut, Zenon
    <3> HIDE DEF find
    <3>2. got = new
      BY <3>1, <2>2 DEF OpenCore, Found
    <3>3. Cured(t, new)
      <4>1. Cured(t, Stage(t, nmis).reference)
        BY <2>1, StagedUids, Zenon
      <4> QED
        BY <4>1, <2>1
    <3>4. /\ DOMAIN new.recs = DOMAIN t.recs
          /\ \A o \in DOMAIN t.recs : new.recs[o].kind = t.recs[o].kind /\ o < t.size
      <4>1. \A o \in DOMAIN t.recs : o < t.size
        BY <2>1 DEF Staged, IsTable, WellLaid
      <4> QED
        BY <4>1, <3>3 DEF Cured, Keeps
    <3>5. NmisOf("build", new, t.size) = Nmis(t)
      BY <3>4 DEF NmisOf, IsNmi, Nmis
    <3>6. CpusOf("build", new, t.size) = Locals(t)
      BY <3>4 DEF CpusOf, IsCpu, Locals
    <3> HIDE DEF new, got
    <3> QED
      BY <3>2, <3>3, <3>5, <3>6 DEF Cured
  <2>5. ASSUME Shadowed(staged) PROVE got.recs = t.recs
    <3>1. PICK q \in DOMAIN t.echo :
            t.echo[q] = find /\ \A p \in NmisOf("build", t, t.size) : q < p
      BY <2>2, <2>5 DEF Shadowed
    <3>2. /\ nmis[1] \in Nat /\ Occurrences(t, find) \in SUBSET Nat
          /\ nmis[1] \in NmisOf("build", t, t.size)
          /\ \A o \in Occurrences(t, find) : o \in DOMAIN t.recs => nmis[1] <= o
          /\ \A o \in Occurrences(t, find) : o \notin DOMAIN t.recs => o \in DOMAIN t.echo /\ t.echo[o] = find
      <4>1. CutAt(t, nmis, find)
        BY <2>1, CutIsFirstRecord, Zenon
      <4> QED
        BY <4>1, Zenon DEF CutAt
    <3>3. q \in Occurrences(t, find) /\ q < nmis[1]
      BY <3>1, <3>2 DEF Occurrences
    <3>4. CASE got = t
      BY <3>4
    <3>5. CASE \E o \in Occurrences(t, find) :
                 /\ \A p \in Occurrences(t, find) : o <= p
                 /\ got = Patched(t, o, Replacement(find))
      <4>1. PICK o \in Occurrences(t, find) :
                 /\ \A p \in Occurrences(t, find) : o <= p
                 /\ got = Patched(t, o, Replacement(find))
        BY <3>5
      <4> HIDE DEF find
      <4>2. o \in DOMAIN t.echo /\ t.echo[o] = find
        <5>1. o <= q /\ o \in Nat /\ q \in Nat
          BY <4>1, <3>2, <3>3
        <5>2. ~ (nmis[1] <= o)
          BY <5>1, <3>2, <3>3
        <5> QED
          BY <5>2, <3>2
      <4>3. Len(Replacement(find)) = Len(find)
        BY SizeAssumption DEF Replacement, find
      <4>4. IsTable(t)
        BY <2>1 DEF Staged
      <4> QED
        BY <4>1, <4>2, <4>3, <4>4, EchoKeeps
    <3>6. IsTable(t) /\ staged.find = find
      BY <2>1, <2>2 DEF Staged
    <3> QED
      BY <3>4, <3>5, <3>6, OpenCoreWrites
  <2> HIDE DEF got, new
  <2> QED
    BY <2>2, <2>3, <2>4, <2>5 DEF PatchLands, got, new
<1> QED
  BY <1>1, InvariantHolds, PTL

\* On a plain table dump_acpi_windows.py and validate_platform.py take the same
\* records.
LEMMA PlainSets ==
    ASSUME NEW t, IsTable(t), Plain(t)
    PROVE  \A tool \in {"dump", "validate"} :
              CpusOf(tool, t, t.size) = Locals(t) /\ NmisOf(tool, t, t.size) = Nmis(t)
<1>1. \A o \in DOMAIN t.recs : o < t.size
  BY DEF IsTable, WellLaid
<1>2. ASSUME NEW o \in DOMAIN t.recs, NEW tool \in {"dump", "validate"}
      PROVE  /\ IsCpu(tool, t.recs[o]) <=> t.recs[o].kind = LocalApic
             /\ IsNmi(tool, t.recs[o]) <=> t.recs[o].kind = ApicNmi
  BY DEF Plain, IsCpu, IsNmi
<1>3. ASSUME NEW tool \in {"dump", "validate"}
      PROVE  CpusOf(tool, t, t.size) = Locals(t)
  BY <1>1, <1>2 DEF CpusOf, Locals
<1>4. ASSUME NEW tool \in {"dump", "validate"}
      PROVE  NmisOf(tool, t, t.size) = Nmis(t)
  BY <1>1, <1>2 DEF NmisOf, Nmis
<1> QED
  BY <1>3, <1>4

\* The dump's gate and the validator give one answer about a plain table.
THEOREM ParsersAlwaysAgree == Spec => []ParsersAgree
<1>1. IInv => ParsersAgree
  <2> SUFFICES ASSUME IInv, report.done, verdict.done, file = visible, Plain(visible)
               PROVE  report.match = ("MADT_NMI_UID_MISMATCH" \notin verdict.issues)
    BY DEF ParsersAgree
  <2> DEFINE cpus == UidsAt(visible, Locals(visible))
             nmis == UidsAt(visible, Nmis(visible))
  <2>1. IsTable(visible)
    BY DEF IInv, FileInv
  <2>2. /\ CpusOf("dump", visible, visible.size) = Locals(visible)
        /\ NmisOf("dump", visible, visible.size) = Nmis(visible)
        /\ CpusOf("validate", visible, visible.size) = Locals(visible)
        /\ NmisOf("validate", visible, visible.size) = Nmis(visible)
    BY <2>1, PlainSets
  <2>3. report.match = (nmis = cpus) /\ verdict.issues = Issues(cpus, nmis)
    BY <2>2 DEF IInv, ReportInv, VerdictInv
  <2>4. Wildcard \notin nmis
    BY DEF Plain, Nmis, UidsAt
  <2> HIDE DEF cpus, nmis
  <2>5. nmis \ {Wildcard} = nmis
    BY <2>4
  <2>6. "MADT_NMI_UID_MISMATCH" \in Issues(cpus, nmis) <=> (nmis \ cpus # {} \/ cpus \ nmis # {})
    BY <2>4, <2>5 DEF Issues
  <2>7. (nmis \ cpus # {} \/ cpus \ nmis # {}) <=> nmis # cpus
    OBVIOUS
  <2> QED
    BY <2>3, <2>6, <2>7
<1> QED
  BY <1>1, InvariantHolds, PTL

\* A table that the builder patches is diagnosed by the validator, which finds nothing
\* in the predicted one.  The converse is not claimed: the validator names the same
\* issues for a shifted table whose entries do not follow each other, and the
\* builder refuses that one.
THEOREM CureAlwaysFits == Spec => []CureFitsDiagnosis
<1>1. IInv => CureFitsDiagnosis
  <2> SUFFICES ASSUME IInv, staged.on, verdict.done, Plain(staged.of)
               PROVE  /\ file = staged.of =>
                            verdict.issues = {"MADT_NMI_UID_MISMATCH", "NMI_UID_OFFSET_PLUS_ONE"}
                      /\ file = staged.reference => verdict.issues = {}
    BY DEF CureFitsDiagnosis
  <2> DEFINE t == staged.of
             new == staged.reference
  <2>0. N \in Nat \ {0} /\ Wildcard \in Nat /\ Wildcard > N
    BY SizeAssumption
  <2>1. PICK cpus, nmis : Staged(t, cpus, nmis) /\ staged = Stage(t, nmis)
    BY StagedIs
  <2>2. Cured(t, new) /\ IsTable(t)
    <3>1. Cured(t, Stage(t, nmis).reference)
      BY <2>1, StagedUids, Zenon
    <3> QED
      BY <3>1, <2>1 DEF Staged
  <2>3. verdict.issues = Issues(UidsAt(file, CpusOf("validate", file, file.size)),
                                UidsAt(file, NmisOf("validate", file, file.size)))
    BY DEF IInv, VerdictInv
  <2>4. ASSUME file = t PROVE verdict.issues = {"MADT_NMI_UID_MISMATCH", "NMI_UID_OFFSET_PLUS_ONE"}
    <3>1. verdict.issues = Issues(0 .. N - 1, 1 .. N)
      BY <2>2, <2>3, <2>4, PlainSets DEF Cured
    <3>2. (1 .. N) \ {Wildcard} = 1 .. N /\ Wildcard \notin 1 .. N
      BY <2>0
    <3>3. N \in 1 .. N /\ N \notin 0 .. N - 1 /\ {u + 1 : u \in 0 .. N - 1} = 1 .. N
      BY <2>0
    <3> QED
      BY <3>1, <3>2, <3>3 DEF Issues
  <2>5. ASSUME file = new PROVE verdict.issues = {}
    <3>1. Plain(new) /\ IsTable(new) /\ Locals(new) = Locals(t) /\ Nmis(new) = Nmis(t)
      <4>1. \A o \in Nmis(t) : new.recs[o].uid \in UidsAt(new, Nmis(t))
        BY DEF UidsAt
      <4>2. \A o \in Nmis(t) : new.recs[o].uid # Wildcard
        BY <4>1, <2>2, <2>0 DEF Cured
      <4> QED
        BY <4>2, <2>2 DEF Cured, Keeps, Plain, Nmis, Locals
    <3>2. verdict.issues = Issues(0 .. N - 1, 0 .. N - 1)
      BY <3>1, <2>2, <2>3, <2>5, PlainSets DEF Cured
    <3>3. (0 .. N - 1) \ {Wildcard} = 0 .. N - 1 /\ Wildcard \notin 0 .. N - 1
      BY <2>0
    <3>4. {u + 1 : u \in 0 .. N - 1} # 0 .. N - 1
      <4>1. N - 1 \in 0 .. N - 1 /\ N \notin 0 .. N - 1 /\ N = (N - 1) + 1
        BY <2>0
      <4>2. N \in {u + 1 : u \in 0 .. N - 1}
        BY <4>1
      <4> QED
        BY <4>1, <4>2
    <3> QED
      BY <3>2, <3>3, <3>4 DEF Issues
  <2> QED
    BY <2>4, <2>5
<1> QED
  BY <1>1, InvariantHolds, PTL
=============================================================================
