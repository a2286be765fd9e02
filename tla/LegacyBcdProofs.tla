-------------------------- MODULE LegacyBcdProofs --------------------------
(***************************************************************************)
(* Proofs about LegacyBcd, for any number of entries and of sessions, any  *)
(* initial entries, any choice of scripts, any matrix and any faults.      *)
(***************************************************************************)
EXTENDS LegacyBcd, BcdStoreProofs, SequenceTheorems, WellFoundedInduction

-----------------------------------------------------------------------------
(***************************************************************************)
(* Sequences.                                                              *)
(***************************************************************************)
\* Of some numbers one is the least.
LEMMA LeastOf ==
    ASSUME NEW N \in SUBSET Nat, N # {}
    PROVE  \E m \in N : \A k \in N : m <= k
<1> DEFINE R == {mk \in Nat \X Nat : mk[1] < mk[2]}
<1>1. IsWellFoundedOn(R, Nat)
  BY NatLessThanWellFounded DEF OpToRel
<1> HIDE DEF R
<1>2. PICK m \in N : \A k \in N : ~ (<<k, m>> \in R)
  BY <1>1, WFMin, Zenon
<1>3. \A k \in N : m <= k
  <2> SUFFICES ASSUME NEW k \in N, k < m PROVE FALSE
    OBVIOUS
  <2>1. <<k, m>> \in Nat \X Nat /\ <<k, m>>[1] = k /\ <<k, m>>[2] = m
    OBVIOUS
  <2> QED
    BY <2>1, <1>2 DEF R
<1> QED
  BY <1>3

\* What the concatenation of two sequences is.
LEMMA ConcatSeq ==
    ASSUME NEW S, NEW a \in Seq(S), NEW b \in Seq(S)
    PROVE  /\ a \o b \in Seq(S)
           /\ Len(a \o b) = Len(a) + Len(b)
           /\ \A k \in 1 .. Len(a) : (a \o b)[k] = a[k]
           /\ \A k \in 1 .. Len(b) : (a \o b)[Len(a) + k] = b[k]
OBVIOUS

\* f concatenates the first m sequences of ss, step by step.
Flattens(f, ss, m) == f = [i \in 1 .. m |-> IF i = 1 THEN ss[i] ELSE f[i - 1] \o ss[i]]

\* There are such functions, for as many sequences as there are.
LEMMA SomeFlatten ==
    ASSUME NEW S, NEW ss \in Seq(Seq(S)), NEW n \in Nat, n <= Len(ss)
    PROVE  \E f \in [1 .. n -> Seq(S)] : Flattens(f, ss, n)
<1> DEFINE Bad == {m \in 0 .. n : ~ \E f \in [1 .. m -> Seq(S)] : Flattens(f, ss, m)}
<1>1. SUFFICES ASSUME Bad # {} PROVE FALSE
  <2>1. n \in 0 .. n
    OBVIOUS
  <2> QED
    BY <2>1
<1>2. Bad \subseteq Nat
  OBVIOUS
<1>3. PICK m \in Bad : \A k \in Bad : m <= k
  BY <1>1, <1>2, LeastOf
<1>4. CASE m = 0
  <2>1. Flattens(<< >>, ss, 0) /\ << >> \in [1 .. 0 -> Seq(S)]
    BY DEF Flattens
  <2> QED
    BY <1>3, <1>4, <2>1
<1>5. CASE m # 0
  <2>1. m - 1 \in 0 .. n /\ m - 1 \notin Bad /\ m \in 1 .. n
    BY <1>3, <1>5
  <2>2. PICK f \in [1 .. m - 1 -> Seq(S)] : Flattens(f, ss, m - 1)
    BY <2>1
  <2>3. \A i \in 1 .. m - 1 : f[i] = IF i = 1 THEN ss[i] ELSE f[i - 1] \o ss[i]
    BY <2>2 DEF Flattens
  <2> DEFINE last == IF m = 1 THEN ss[m] ELSE f[m - 1] \o ss[m]
             g    == [i \in 1 .. m |-> IF i = m THEN last ELSE f[i]]
  <2>4. ss[m] \in Seq(S)
    BY <2>1
  <2>5. last \in Seq(S)
    <3>1. CASE m = 1
      BY <2>4, <3>1
    <3>2. CASE m # 1
      <4>1. f[m - 1] \in Seq(S)
        BY <2>1, <2>2, <3>2
      <4> QED
        BY <2>4, <4>1, <3>2, ConcatSeq
    <3> QED
      BY <3>1, <3>2
  <2> HIDE DEF last
  <2>6. g \in [1 .. m -> Seq(S)]
    BY <2>1, <2>5
  <2>7. \A i \in 1 .. m : g[i] = IF i = 1 THEN ss[i] ELSE g[i - 1] \o ss[i]
    <3>1. \A i \in 1 .. m - 1 : g[i] = f[i]
      BY <2>1
    <3>2. g[m] = last
      BY <2>1
    <3> HIDE DEF g
    <3>3. SUFFICES ASSUME NEW i \in 1 .. m, i # 1 PROVE g[i] = g[i - 1] \o ss[i]
      <4>1. g[1] = ss[1]
        <5>1. CASE m = 1
          BY <5>1, <3>2 DEF last
        <5>2. CASE m # 1
          <6>1. 1 \in 1 .. m - 1
            BY <5>2, <2>1
          <6> QED
            BY <6>1, <2>3, <3>1
        <5> QED
          BY <5>1, <5>2
      <4> QED
        BY <4>1
    <3>4. i - 1 \in 1 .. m - 1 /\ g[i - 1] = f[i - 1]
      BY <3>1, <3>3, <2>1
    <3>5. CASE i = m
      BY <3>2, <3>3, <3>4, <3>5 DEF last
    <3>6. CASE i # m
      <4>1. i \in 1 .. m - 1
        BY <3>6, <2>1
      <4>2. f[i] = f[i - 1] \o ss[i]
        BY <4>1, <2>3, <3>3
      <4> QED
        BY <4>1, <4>2, <3>1, <3>4
    <3> QED
      BY <3>5, <3>6
  <2>8. Flattens(g, ss, m)
    BY <2>6, <2>7 DEF Flattens
  <2> QED
    BY <2>6, <2>8, <1>3
<1> QED
  BY <1>4, <1>5

\* Flattening sequences over S gives a sequence over S.
LEMMA FlattenSeqType ==
    ASSUME NEW S, NEW ss \in Seq(Seq(S))
    PROVE  FlattenSeq(ss) \in Seq(S)
<1> DEFINE n  == Len(ss)
           fl == CHOOSE f : f = [i \in 1 .. n |-> IF i = 1 THEN ss[i] ELSE f[i - 1] \o ss[i]]
<1>1. n \in Nat /\ \A i \in 1 .. n : ss[i] \in Seq(S)
  OBVIOUS
<1>2. CASE n = 0
  <2>1. FlattenSeq(ss) = ss /\ ss = << >>
    BY <1>2 DEF FlattenSeq
  <2> QED
    BY <2>1
<1>3. CASE n # 0
  <2>1. FlattenSeq(ss) = fl[n]
    BY <1>3, Zenon DEF FlattenSeq
  <2>2. \E f : Flattens(f, ss, n)
    BY <1>1, SomeFlatten
  <2>3. fl = [i \in 1 .. n |-> IF i = 1 THEN ss[i] ELSE fl[i - 1] \o ss[i]]
    BY <2>2, Zenon DEF Flattens
  <2> HIDE DEF fl
  <2> DEFINE Bad == {m \in 1 .. n : fl[m] \notin Seq(S)}
  <2>4. SUFFICES ASSUME Bad # {} PROVE FALSE
    BY <1>1, <1>3, <2>1
  <2>5. Bad \subseteq Nat
    OBVIOUS
  <2>6. PICK m \in Bad : \A k \in Bad : m <= k
    BY <2>4, <2>5, LeastOf
  <2>7. fl[m] = IF m = 1 THEN ss[m] ELSE fl[m - 1] \o ss[m]
    BY <2>3, <2>6
  <2>8. ss[m] \in Seq(S) /\ (m # 1 => fl[m - 1] \in Seq(S))
    BY <1>1, <2>6
  <2> QED
    BY <2>6, <2>7, <2>8, ConcatSeq
<1> QED
  BY <1>2, <1>3

-----------------------------------------------------------------------------
(***************************************************************************)
(* The scripts, as lists of commands of which each relies on earlier ones. *)
(***************************************************************************)
SettingOps == {"set", "deletevalue"}
OwnOps     == {"manifest", "onlythese", "showcrash", "exportreg", "importreg", "deletemade", "deletetodo"}
Commands   == [op : BcdEditOps \cup OwnOps \cup {"copy"}, on : {"current", "diag", "bootmgr", "none"},
               elem : Elements, val : Values, onfail : {"throw", "ignore"}]
Undoing    == Disarms \cup {"undomatrix"}
Recording  == Copying \cup Reusing \cup {"safe", "madtonce"}   \* scripts that end with a manifest

\* The commands script op may consist of.
Lawful(op, c) ==
    /\ c \in Commands
    /\ c.op \in EntryOps \cup {"copy"} => c.on \in {"current", "diag"}
    /\ c.op = "copy" => c = MakeCopy /\ op \in Copying
    /\ c.op \in SettingOps /\ c.on = "current" => c.elem \in {"launch", "vsm"} /\ c.val = "off"
    /\ c.op \in SettingOps => op \notin Undoing
    /\ c.op \in SettingOps /\ c.on = "diag" =>
          /\ op \in Copying \cup Reusing
          /\ c.elem = "launch" => c.val = "auto"
          /\ op = "capture7e" => c.elem \in {"launch", "vsm", "capture"}
          /\ op = "control" /\ c.elem \in Range(Isolators) => c.val = "absent"
    /\ c.op = "default" => c = Default("current") /\ op \notin Undoing
    /\ c.op = "bootsequence" => c = Sequence("diag") /\ op \in {"clean", "madtonce"} \cup Reusing
    /\ c.op = "unsequence" => c.on = "diag" /\ op \in Disarms \cup {"cancel"}
    /\ c.op = "delete" => c.on = "diag" /\ op = "undoclean"
    /\ c.op # "clearsequence"
    /\ c.op = "manifest" => op \in Recording
    /\ c.op = "onlythese" => op = "testboot"
    /\ c.op \in {"showcrash", "exportreg"} => op = "capture7e"
    /\ c.op = "importreg" => op = "undocapture"
    /\ c.op = "deletemade" <=> op = "undomatrix"
    /\ c.op = "deletetodo" => op = "unmatrix"
    /\ c.onfail = "ignore" =>
          c.op \in {"deletevalue", "displayorder", "delete", "unsequence", "importreg", "deletemade"}
    /\ op \in Disarms => c.onfail = "ignore" /\ c.op \in {"unsequence", "delete", "importreg"}

\* What script op must have behind it, P, where it issues command c.
Follows(op, c, P) ==
    /\ \A e \in P : e.op # "manifest"
    /\ c.op \in SettingOps /\ op \in Reusing => {FoundOff, FoundAuto} \subseteq P
    /\ c.op \in SettingOps /\ c.on = "diag" /\ op \in OneTimes => Default("current") \in P
    /\ c.op = "default" => TurnOff \in P
    /\ c.op = "copy" /\ op = "clean" => ConfirmNoSequence \in P
    /\ c.op = "copy" /\ op \in {"testboot", "clean"} => MakeCopy \notin P
    /\ c = Export /\ op \in Reusing \cup {"clean"} => ConfirmNoSequence \in P
    /\ c = ConfirmSequence("diag") /\ op = "madtonce" => Sequence("diag") \in P
    /\ c.op = "manifest" =>
          /\ op \notin SetNoDefault => {TurnOff, Default("current")} \subseteq P
          /\ op \in {"testboot", "clean"} => MakeCopy \in P
          /\ op = "control" => \A x \in Range(Isolators) : Confirm("diag", x, "absent") \in P

Before(z, k) == {z[j] : j \in 1 .. k - 1}

\* Commands z, issued with P behind them, are lawful for op and each has
\* behind it what it relies on.
Legal(op, z, P) ==
    /\ z \in Seq(Commands)
    /\ \A k \in 1 .. Len(z) : Lawful(op, z[k]) /\ Follows(op, z[k], P \cup Before(z, k))

\* Two such pieces make one.
LEMMA LegalConcat ==
    ASSUME NEW op, NEW a, NEW b, Legal(op, a, {}), Legal(op, b, Range(a))
    PROVE  Legal(op, a \o b, {}) /\ Range(a \o b) = Range(a) \cup Range(b)
<1> DEFINE z == a \o b
<1>1. a \in Seq(Commands) /\ b \in Seq(Commands) /\ Len(a) \in Nat /\ Len(b) \in Nat
      /\ DOMAIN a = 1 .. Len(a) /\ DOMAIN b = 1 .. Len(b)
  BY DEF Legal
<1>2. /\ z \in Seq(Commands) /\ Len(z) = Len(a) + Len(b) /\ DOMAIN z = 1 .. Len(a) + Len(b)
      /\ \A k \in 1 .. Len(a) : z[k] = a[k]
      /\ \A k \in 1 .. Len(b) : z[Len(a) + k] = b[k]
  BY <1>1, ConcatSeq
<1> HIDE DEF z
<1>3. \A k \in 1 .. Len(z) : k \in 1 .. Len(a) \/ k - Len(a) \in 1 .. Len(b)
  BY <1>1, <1>2
<1>4. Range(z) = Range(a) \cup Range(b)
  <2>1. ASSUME NEW k \in 1 .. Len(z) PROVE z[k] \in Range(a) \cup Range(b)
    <3>1. CASE k \in 1 .. Len(a)
      BY <1>1, <1>2, <3>1 DEF Range
    <3>2. CASE k - Len(a) \in 1 .. Len(b)
      <4>1. Len(a) + (k - Len(a)) = k
        BY <1>1
      <4>2. z[k] = b[k - Len(a)]
        BY <1>2, <3>2, <4>1
      <4> QED
        BY <1>1, <3>2, <4>2 DEF Range
    <3> QED
      BY <1>3, <3>1, <3>2
  <2>2. \A k \in 1 .. Len(a) : a[k] \in Range(z)
    BY <1>1, <1>2 DEF Range
  <2>3. \A k \in 1 .. Len(b) : b[k] \in Range(z)
    <3>1. \A k \in 1 .. Len(b) : Len(a) + k \in 1 .. Len(a) + Len(b)
      BY <1>1
    <3> QED
      BY <1>1, <1>2, <3>1 DEF Range
  <2> QED
    BY <1>1, <1>2, <2>1, <2>2, <2>3 DEF Range
<1>5. ASSUME NEW k \in 1 .. Len(z)
      PROVE  Lawful(op, z[k]) /\ Follows(op, z[k], Before(z, k))
  <2>1. CASE k \in 1 .. Len(a)
    <3>1. z[k] = a[k] /\ \A j \in 1 .. k - 1 : j \in 1 .. Len(a) /\ z[j] = a[j]
      BY <1>1, <1>2, <2>1
    <3>2. Before(z, k) = Before(a, k)
      BY <3>1 DEF Before
    <3>3. {} \cup Before(a, k) = Before(a, k)
      OBVIOUS
    <3> QED
      BY <2>1, <3>1, <3>2, <3>3 DEF Legal
  <2>2. CASE k - Len(a) \in 1 .. Len(b)
    <3> DEFINE m == k - Len(a)
    <3>1. m \in 1 .. Len(b) /\ Len(a) + m = k /\ z[k] = b[m]
      BY <1>1, <1>2, <2>2
    <3>2. Before(z, k) = Range(a) \cup Before(b, m)
      <4>1. \A j \in 1 .. k - 1 : z[j] \in Range(a) \cup Before(b, m)
        <5> SUFFICES ASSUME NEW j \in 1 .. k - 1 PROVE z[j] \in Range(a) \cup Before(b, m)
          OBVIOUS
        <5>1. CASE j \in 1 .. Len(a)
          BY <1>1, <1>2, <5>1 DEF Range
        <5>2. CASE j \notin 1 .. Len(a)
          <6>1. j - Len(a) \in 1 .. m - 1 /\ j - Len(a) \in 1 .. Len(b) /\ Len(a) + (j - Len(a)) = j
            BY <1>1, <5>2, <3>1
          <6>2. z[j] = b[j - Len(a)]
            BY <1>2, <6>1
          <6> QED
            BY <6>1, <6>2 DEF Before
        <5> QED
          BY <5>1, <5>2
      <4>2. \A j \in 1 .. Len(a) : a[j] \in Before(z, k)
        <5>1. \A j \in 1 .. Len(a) : j \in 1 .. k - 1
          BY <1>1, <3>1
        <5> QED
          BY <1>2, <5>1 DEF Before
      <4>3. \A j \in 1 .. m - 1 : b[j] \in Before(z, k)
        <5>1. \A j \in 1 .. m - 1 : j \in 1 .. Len(b) /\ Len(a) + j \in 1 .. k - 1
          BY <1>1, <3>1
        <5> QED
          BY <1>2, <5>1 DEF Before
      <4> QED
        BY <1>1, <4>1, <4>2, <4>3 DEF Before, Range
    <3> HIDE DEF m
    <3> QED
      BY <3>1, <3>2 DEF Legal
  <2> QED
    BY <1>3, <2>1, <2>2
<1>6. \A k : {} \cup Before(z, k) = Before(z, k)
  OBVIOUS
<1> QED
  BY <1>2, <1>4, <1>5, <1>6 DEF Legal, z

\* Command c of script op is lawful, with P behind it.
Fits(op, c, P) == Lawful(op, c) /\ Follows(op, c, P)

\* A piece of one command.
LEMMA Legal1 ==
    ASSUME NEW op, NEW P, NEW c,
           Fits(op, c, P)
    PROVE  Legal(op, << c >>, P) /\ Range(<< c >>) = {c}
<1> DEFINE z == << c >>
<1>1. z[1] = c
  OBVIOUS
<1>2. z \in Seq(Commands) /\ Len(z) = 1 /\ DOMAIN z = 1 .. 1
  BY DEF Fits, Lawful
<1> HIDE DEF z
<1>3. P \cup Before(z, 1) = P
  BY <1>1 DEF Before
<1>4. \A k \in 1 .. 1 : k = 1
  OBVIOUS
<1>5. Range(z) = {c}
  BY <1>1, <1>2, <1>4 DEF Range
<1>6. \A k \in 1 .. 1 : Fits(op, z[k], P \cup Before(z, k))
  BY <1>1, <1>3, <1>4
<1> QED
  BY <1>2, <1>5, <1>6 DEF Legal, Fits, z

\* A piece of two commands.
LEMMA Legal2 ==
    ASSUME NEW op, NEW P, NEW c, NEW d,
           Fits(op, c, P), Fits(op, d, P \cup {c})
    PROVE  Legal(op, << c, d >>, P) /\ Range(<< c, d >>) = {c, d}
<1> DEFINE z == << c, d >>
<1>1. z[1] = c /\ z[2] = d
  OBVIOUS
<1>2. z \in Seq(Commands) /\ Len(z) = 2 /\ DOMAIN z = 1 .. 2
  BY DEF Fits, Lawful
<1> HIDE DEF z
<1>3. P \cup Before(z, 1) = P
  BY <1>1 DEF Before
<1>4. P \cup Before(z, 2) = P \cup {c}
  BY <1>1 DEF Before
<1>5. \A k \in 1 .. 2 : k = 1 \/ k = 2
  OBVIOUS
<1>6. Range(z) = {c, d}
  BY <1>1, <1>2, <1>5 DEF Range
<1>7. \A k \in 1 .. 2 : Fits(op, z[k], P \cup Before(z, k))
  BY <1>1, <1>3, <1>4, <1>5
<1> QED
  BY <1>2, <1>6, <1>7 DEF Legal, Fits, z

\* A piece of three commands.
LEMMA Legal3 ==
    ASSUME NEW op, NEW P, NEW c, NEW d, NEW e,
           Fits(op, c, P), Fits(op, d, P \cup {c}), Fits(op, e, P \cup {c, d})
    PROVE  Legal(op, << c, d, e >>, P) /\ Range(<< c, d, e >>) = {c, d, e}
<1> DEFINE z == << c, d, e >>
<1>1. z[1] = c /\ z[2] = d /\ z[3] = e
  OBVIOUS
<1>2. z \in Seq(Commands) /\ Len(z) = 3 /\ DOMAIN z = 1 .. 3
  BY DEF Fits, Lawful
<1> HIDE DEF z
<1>3. P \cup Before(z, 1) = P
  BY <1>1 DEF Before
<1>4. P \cup Before(z, 2) = P \cup {c}
  BY <1>1 DEF Before
<1>5. P \cup Before(z, 3) = P \cup {c, d}
  BY <1>1 DEF Before
<1>6. \A k \in 1 .. 3 : k = 1 \/ k = 2 \/ k = 3
  OBVIOUS
<1>7. Range(z) = {c, d, e}
  BY <1>1, <1>2, <1>6 DEF Range
<1>8. \A k \in 1 .. 3 : Fits(op, z[k], P \cup Before(z, k))
  BY <1>1, <1>3, <1>4, <1>5, <1>6
<1> QED
  BY <1>2, <1>7, <1>8 DEF Legal, Fits, z

\* A piece of four commands.
LEMMA Legal4 ==
    ASSUME NEW op, NEW P, NEW c, NEW d, NEW e, NEW f,
           Fits(op, c, P), Fits(op, d, P \cup {c}), Fits(op, e, P \cup {c, d}), Fits(op, f, P \cup {c, d, e})
    PROVE  Legal(op, << c, d, e, f >>, P) /\ Range(<< c, d, e, f >>) = {c, d, e, f}
<1> DEFINE z == << c, d, e, f >>
<1>1. z[1] = c /\ z[2] = d /\ z[3] = e /\ z[4] = f
  OBVIOUS
<1>2. z \in Seq(Commands) /\ Len(z) = 4 /\ DOMAIN z = 1 .. 4
  BY DEF Fits, Lawful
<1> HIDE DEF z
<1>3. P \cup Before(z, 1) = P
  BY <1>1 DEF Before
<1>4. P \cup Before(z, 2) = P \cup {c}
  BY <1>1 DEF Before
<1>5. P \cup Before(z, 3) = P \cup {c, d}
  BY <1>1 DEF Before
<1>6. P \cup Before(z, 4) = P \cup {c, d, e}
  BY <1>1 DEF Before
<1>7. \A k \in 1 .. 4 : k = 1 \/ k = 2 \/ k = 3 \/ k = 4
  OBVIOUS
<1>8. Range(z) = {c, d, e, f}
  BY <1>1, <1>2, <1>7 DEF Range
<1>9. \A k \in 1 .. 4 : Fits(op, z[k], P \cup Before(z, k))
  BY <1>1, <1>3, <1>4, <1>5, <1>6, <1>7
<1> QED
  BY <1>2, <1>8, <1>9 DEF Legal, Fits, z

\* A piece of five commands.
LEMMA Legal5 ==
    ASSUME NEW op, NEW P, NEW c, NEW d, NEW e, NEW f, NEW g,
           Fits(op, c, P), Fits(op, d, P \cup {c}), Fits(op, e, P \cup {c, d}), Fits(op, f, P \cup {c, d, e}), Fits(op, g, P \cup {c, d, e, f})
    PROVE  Legal(op, << c, d, e, f, g >>, P) /\ Range(<< c, d, e, f, g >>) = {c, d, e, f, g}
<1> DEFINE z == << c, d, e, f, g >>
<1>1. z[1] = c /\ z[2] = d /\ z[3] = e /\ z[4] = f /\ z[5] = g
  OBVIOUS
<1>2. z \in Seq(Commands) /\ Len(z) = 5 /\ DOMAIN z = 1 .. 5
  BY DEF Fits, Lawful
<1> HIDE DEF z
<1>3. P \cup Before(z, 1) = P
  BY <1>1 DEF Before
<1>4. P \cup Before(z, 2) = P \cup {c}
  BY <1>1 DEF Before
<1>5. P \cup Before(z, 3) = P \cup {c, d}
  BY <1>1 DEF Before
<1>6. P \cup Before(z, 4) = P \cup {c, d, e}
  BY <1>1 DEF Before
<1>7. P \cup Before(z, 5) = P \cup {c, d, e, f}
  BY <1>1 DEF Before
<1>8. \A k \in 1 .. 5 : k = 1 \/ k = 2 \/ k = 3 \/ k = 4 \/ k = 5
  OBVIOUS
<1>9. Range(z) = {c, d, e, f, g}
  BY <1>1, <1>2, <1>8 DEF Range
<1>10. \A k \in 1 .. 5 : Fits(op, z[k], P \cup Before(z, k))
  BY <1>1, <1>3, <1>4, <1>5, <1>6, <1>7, <1>8
<1> QED
  BY <1>2, <1>9, <1>10 DEF Legal, Fits, z

\* A command has the fields it was made from.
LEMMA CmdFields == \A op, on, elem, val, onfail :
    LET c == Cmd(op, on, elem, val, onfail)
    IN  c.op = op /\ c.on = on /\ c.elem = elem /\ c.val = val /\ c.onfail = onfail
BY DEF Cmd

NoManifest(P) == \A e \in P : e.op # "manifest"

\* A confirmation fits anywhere.
LEMMA ConfirmFits ==
    ASSUME NEW op, op \notin Undoing, NEW P, NoManifest(P),
           NEW on \in {"current", "diag"}, NEW x \in Elements, NEW v \in Values
    PROVE  Fits(op, Confirm(on, x, v), P) /\ Confirm(on, x, v).op = "confirm"
<1> DEFINE c == Confirm(on, x, v)
<1>1. c.op = "confirm" /\ c.on = on /\ c.elem = x /\ c.val = v /\ c.onfail = "throw"
  BY CmdFields DEF Confirm
<1>2. c \in Commands
  BY DEF Confirm, Cmd, Commands, BcdEditOps, EntryOps
<1>3. Export.op = "export" /\ ConfirmSequence("diag").op = "confirmsequence"
  BY CmdFields DEF Export, ConfirmSequence
<1> HIDE DEF c
<1>4. Lawful(op, c)
  BY <1>1, <1>2 DEF Lawful, SettingOps, Undoing
<1>5. Follows(op, c, P)
  BY <1>1, <1>3 DEF Follows, SettingOps, NoManifest
<1> QED
  BY <1>1, <1>4, <1>5 DEF Fits, c

\* Setting {current} off fits the scripts that reuse an entry once they know
\* that it is another one.
LEMMA SetCurrentFits ==
    ASSUME NEW op, op \notin Undoing, NEW P, NoManifest(P), NEW x \in {"launch", "vsm"},
           op \in Reusing => {FoundOff, FoundAuto} \subseteq P
    PROVE  Fits(op, Set("current", x, "off"), P) /\ Set("current", x, "off").op = "set"
<1> DEFINE c == Set("current", x, "off")
<1>1. c.op = "set" /\ c.on = "current" /\ c.elem = x /\ c.val = "off" /\ c.onfail = "throw"
  BY CmdFields DEF Set
<1>2. c \in Commands
  BY DEF Set, Cmd, Commands, BcdEditOps, EntryOps, Elements, Values
<1>3. Export.op = "export" /\ ConfirmSequence("diag").op = "confirmsequence"
  BY CmdFields DEF Export, ConfirmSequence
<1> HIDE DEF c
<1>4. Lawful(op, c)
  BY <1>1, <1>2 DEF Lawful, SettingOps, Undoing
<1>5. Follows(op, c, P)
  BY <1>1, <1>3 DEF Follows, SettingOps, NoManifest
<1> QED
  BY <1>1, <1>4, <1>5 DEF Fits, c

\* What a script may do to its test entry, and when.
LEMMA SetDiagFits ==
    ASSUME NEW op \in Copying \cup Reusing, NEW P, NoManifest(P), NEW x \in Elements, NEW v \in Values,
           op \in Reusing => {FoundOff, FoundAuto} \subseteq P,
           op \in OneTimes => Default("current") \in P,
           x = "launch" => v = "auto",
           op = "capture7e" => x \in {"launch", "vsm", "capture"},
           op = "control" /\ x \in Range(Isolators) => v = "absent",
           NEW c, c = Set("diag", x, v) \/ (v = "absent" /\ c = Clear("diag", x))
    PROVE  Fits(op, c, P) /\ c.op \in SettingOps
<1>1. c.op \in SettingOps /\ c.on = "diag" /\ c.elem = x /\ c.val = v
      /\ (c.onfail = "ignore" => c.op = "deletevalue")
  BY CmdFields DEF Set, Clear, SettingOps
<1>2. c \in Commands
  BY DEF Set, Clear, Cmd, Commands, BcdEditOps, EntryOps, Elements, Values
<1>3. Export.op = "export" /\ ConfirmSequence("diag").op = "confirmsequence"
  BY CmdFields DEF Export, ConfirmSequence
<1>4. op \notin Undoing
  BY DEF Undoing, Copying, Reusing, OneTimes, Disarms
<1>5. Lawful(op, c)
  BY <1>1, <1>2, <1>4 DEF Lawful, SettingOps, Undoing
<1>6. Follows(op, c, P)
  BY <1>1, <1>3 DEF Follows, SettingOps, NoManifest
<1> QED
  BY <1>1, <1>5, <1>6 DEF Fits

\* The commands that change no entry fit anywhere, those of one script in it.
LEMMA PlainFits ==
    ASSUME NEW op, op \notin Undoing, NEW P, NoManifest(P),
           NEW c, \/ c \in {Enum("current"), ShowMenu, Timeout, ReadBootMgr, ConfirmNoSequence}
                  \/ c = OnlyThese /\ op = "testboot"
                  \/ c \in {ExportReg, ShowCrash} /\ op = "capture7e"
                  \/ c = DeleteTodo /\ op = "unmatrix"
    PROVE  Fits(op, c, P) /\ c.op \notin SettingOps \cup {"manifest", "copy"}
<1>1. /\ c.op \in {"enum", "displaybootmenu", "timeout", "enumbootmgr", "confirmnosequence", "onlythese",
                     "exportreg", "showcrash", "deletetodo"}
      /\ c.op = "enum" => c.on = "current"
      /\ c.op = "onlythese" => op = "testboot"
      /\ c.op \in {"exportreg", "showcrash"} => op = "capture7e"
      /\ c.op = "deletetodo" => op = "unmatrix"
      /\ c.onfail = "throw"
  BY CmdFields DEF Enum, ShowMenu, Timeout, ReadBootMgr, ConfirmNoSequence, OnlyThese, ExportReg, ShowCrash,
                   DeleteTodo
<1>2. c \in Commands
  BY DEF Enum, ShowMenu, Timeout, ReadBootMgr, ConfirmNoSequence, OnlyThese, ExportReg, ShowCrash, DeleteTodo,
         Cmd, Commands, BcdEditOps, EntryOps, BootMgrOps, OwnOps, Elements, Values
<1>3. Export.op = "export" /\ ConfirmSequence("diag").op = "confirmsequence"
  BY CmdFields DEF Export, ConfirmSequence
<1>4. Lawful(op, c)
  BY <1>1, <1>2 DEF Lawful, SettingOps, Undoing, EntryOps
<1>5. Follows(op, c, P)
  BY <1>1, <1>3 DEF Follows, SettingOps, NoManifest
<1> QED
  BY <1>1, <1>4, <1>5 DEF Fits, SettingOps

\* The boot manager may be pointed at the entries the scripts work on.
LEMMA BootMgrFits ==
    ASSUME NEW op, op \notin Undoing, NEW P, NoManifest(P),
           NEW c, \/ c = Export /\ (op \in Reusing \cup {"clean"} => ConfirmNoSequence \in P)
                  \/ c = Default("current") /\ TurnOff \in P
                  \/ c = Sequence("diag") /\ op \in {"clean", "madtonce"} \cup Reusing
                  \/ c = ConfirmSequence("diag") /\ (op = "madtonce" => Sequence("diag") \in P)
                  \/ c = [AddLast("diag") EXCEPT !.onfail = "ignore"]
                  \/ c = [Unsequence("diag") EXCEPT !.onfail = "throw"] /\ op = "cancel"
    PROVE  Fits(op, c, P) /\ c.op \notin SettingOps \cup {"manifest", "copy"}
<1>1. /\ c.op \in {"export", "default", "bootsequence", "confirmsequence", "displayorder", "unsequence"}
      /\ c.op \notin {"export", "default"} => c.on = "diag"
      /\ c.op = "default" => c = Default("current") /\ TurnOff \in P /\ c.on = "current"
      /\ c.op = "bootsequence" => c = Sequence("diag") /\ op \in {"clean", "madtonce"} \cup Reusing
      /\ c.op = "unsequence" => op = "cancel"
      /\ c.onfail = "ignore" => c.op = "displayorder"
  BY CmdFields DEF Export, Default, Sequence, ConfirmSequence, AddLast, Unsequence, Cmd
<1>2. c \in Commands
  BY DEF Export, Default, Sequence, ConfirmSequence, AddLast, Unsequence,
         Cmd, Commands, BcdEditOps, EntryOps, BootMgrOps, Elements, Values
<1>3. /\ c = Export /\ op \in Reusing \cup {"clean"} => ConfirmNoSequence \in P
      /\ c = ConfirmSequence("diag") /\ op = "madtonce" => Sequence("diag") \in P
  BY DEF Export, Default, Sequence, ConfirmSequence, AddLast, Unsequence, Cmd
<1>4. Lawful(op, c)
  BY <1>1, <1>2 DEF Lawful, SettingOps, Undoing, EntryOps
<1>5. Follows(op, c, P)
  BY <1>1, <1>3 DEF Follows, SettingOps, NoManifest
<1> QED
  BY <1>1, <1>4, <1>5 DEF Fits, SettingOps

\* A script that is known by its copy makes one, and clean one that nothing
\* can be scheduled before.
LEMMA CopyFits ==
    ASSUME NEW op \in Copying, NEW P, NoManifest(P),
           op # "matrix" => MakeCopy \notin P, op = "clean" => ConfirmNoSequence \in P
    PROVE  Fits(op, MakeCopy, P) /\ MakeCopy.op = "copy"
<1>1. MakeCopy.op = "copy" /\ MakeCopy.on = "current" /\ MakeCopy.onfail = "throw"
  BY CmdFields DEF MakeCopy, Copy
<1>2. MakeCopy \in Commands
  BY DEF MakeCopy, Copy, Cmd, Commands, Elements, Values
<1>3. Export.op = "export" /\ ConfirmSequence("diag").op = "confirmsequence"
  BY CmdFields DEF Export, ConfirmSequence
<1>4. op \notin Undoing
  BY DEF Undoing, Copying, Disarms
<1>5. Lawful(op, MakeCopy)
  BY <1>1, <1>2, <1>4 DEF Lawful, SettingOps, Undoing, EntryOps
<1>6. Follows(op, MakeCopy, P)
  BY <1>1, <1>3 DEF Follows, SettingOps, NoManifest, Copying
<1> QED
  BY <1>1, <1>5, <1>6 DEF Fits

\* When a script may write its manifest.
LEMMA ManifestFits ==
    ASSUME NEW op \in Recording, NEW P, NoManifest(P),
           op \notin SetNoDefault => {TurnOff, Default("current")} \subseteq P,
           op \in {"testboot", "clean"} => MakeCopy \in P,
           op = "control" => \A x \in Range(Isolators) : Confirm("diag", x, "absent") \in P
    PROVE  Fits(op, Manifest, P) /\ Manifest.op = "manifest"
<1>1. Manifest.op = "manifest" /\ Manifest.on = "none" /\ Manifest.onfail = "throw"
  BY CmdFields DEF Manifest
<1>2. Manifest \in Commands
  BY DEF Manifest, Cmd, Commands, OwnOps, Elements, Values
<1>3. Export.op = "export" /\ ConfirmSequence("diag").op = "confirmsequence"
  BY CmdFields DEF Export, ConfirmSequence
<1>4. op \notin Undoing
  BY DEF Recording, Undoing, Copying, Reusing, OneTimes, Disarms
<1>5. Lawful(op, Manifest)
  BY <1>1, <1>2, <1>4 DEF Lawful, SettingOps, Undoing, EntryOps
<1>6. Follows(op, Manifest, P)
  BY <1>1, <1>3 DEF Follows, SettingOps, NoManifest
<1> QED
  BY <1>1, <1>5, <1>6 DEF Fits

\* The catch blocks undo, whatever fails.
LEMMA UndoFits ==
    ASSUME NEW op \in Undoing, NEW P, NoManifest(P),
           NEW c, \/ c = Unsequence("diag") /\ op \in Disarms
                  \/ c = DeleteQuietly("diag") /\ op = "undoclean"
                  \/ c = ImportReg /\ op = "undocapture"
                  \/ c = DeleteMade /\ op = "undomatrix"
    PROVE  Fits(op, c, P) /\ c.op # "manifest"
<1>1. /\ c.op \in {"unsequence", "delete", "importreg", "deletemade"}
      /\ c.op \in {"unsequence", "delete"} => c.on = "diag"
      /\ c.op = "unsequence" => op \in Disarms
      /\ c.op = "delete" => op = "undoclean"
      /\ c.op = "importreg" => op = "undocapture"
      /\ c.op = "deletemade" <=> op = "undomatrix"
      /\ c.onfail = "ignore"
  BY CmdFields DEF Unsequence, DeleteQuietly, ImportReg, DeleteMade, Disarms
<1>2. c \in Commands
  BY DEF Unsequence, DeleteQuietly, ImportReg, DeleteMade, Cmd, Commands, OwnOps, BcdEditOps, EntryOps,
         Elements, Values
<1>3. Export.op = "export" /\ ConfirmSequence("diag").op = "confirmsequence"
  BY CmdFields DEF Export, ConfirmSequence
<1>4. Lawful(op, c)
  BY <1>1, <1>2 DEF Lawful, SettingOps, EntryOps, Disarms, Undoing
<1>5. Follows(op, c, P)
  BY <1>1, <1>3 DEF Follows, SettingOps, NoManifest
<1> QED
  BY <1>1, <1>4, <1>5 DEF Fits

-----------------------------------------------------------------------------
(***************************************************************************)
(* The pieces the scripts share.                                           *)
(***************************************************************************)
NoCopy(P) == \A e \in P : e.op # "copy"

\* What the scripts read of the entries before and after they change them.
LEMMA ConfirmingPieces ==
    ASSUME NEW op, op \notin Undoing, NEW P, NoManifest(P)
    PROVE  /\ Legal(op, CurrentIsOff, P) /\ Legal(op, TestIsAuto, P)
           /\ FoundOff \in Range(CurrentIsOff) /\ FoundAuto \in Range(TestIsAuto)
           /\ NoManifest(Range(CurrentIsOff)) /\ NoCopy(Range(CurrentIsOff))
           /\ NoManifest(Range(TestIsAuto)) /\ NoCopy(Range(TestIsAuto))
<1> DEFINE a == Confirm("current", "launch", "off")
           b == Confirm("current", "vsm", "off")
           c == Confirm("diag", "launch", "auto")
           d == Confirm("diag", "vsm", "off")
<1>1. {a.op, b.op, c.op, d.op} = {"confirm"}
  BY CmdFields DEF Confirm
<1>2. NoManifest(P \cup {a}) /\ NoManifest(P \cup {c})
  BY <1>1 DEF NoManifest
<1>3. {"launch", "vsm"} \subseteq Elements /\ {"off", "auto"} \subseteq Values
  BY DEF Elements, Values
<1>4. Fits(op, a, P) /\ Fits(op, c, P) /\ Fits(op, b, P \cup {a}) /\ Fits(op, d, P \cup {c})
  BY <1>2, <1>3, ConfirmFits
<1> HIDE DEF a, b, c, d
<1>5. Legal(op, << a, b >>, P) /\ Range(<< a, b >>) = {a, b}
  BY <1>4, Legal2
<1>6. Legal(op, << c, d >>, P) /\ Range(<< c, d >>) = {c, d}
  BY <1>4, Legal2
<1> QED
  BY <1>1, <1>5, <1>6 DEF CurrentIsOff, TestIsAuto, FoundOff, FoundAuto, NoManifest, NoCopy, a, b, c, d

\* What they make of the entry Windows runs from.
LEMMA CurrentOffPiece ==
    ASSUME NEW op, op \notin Undoing, NEW P, NoManifest(P),
           op \in Reusing => {FoundOff, FoundAuto} \subseteq P
    PROVE  /\ Legal(op, MakeCurrentOff, P)
           /\ TurnOff \in Range(MakeCurrentOff)
           /\ NoManifest(Range(MakeCurrentOff)) /\ NoCopy(Range(MakeCurrentOff))
<1> DEFINE a == Set("current", "launch", "off")
           b == Set("current", "vsm", "off")
<1>1. {a.op, b.op} = {"set"}
  BY CmdFields DEF Set
<1>2. NoManifest(P \cup {a})
  BY <1>1 DEF NoManifest
<1>3. Fits(op, a, P) /\ Fits(op, b, P \cup {a})
  BY <1>2, SetCurrentFits
<1> HIDE DEF a, b
<1>4. Legal(op, << a, b >>, P) /\ Range(<< a, b >>) = {a, b}
  BY <1>3, Legal2
<1> QED
  BY <1>1, <1>4 DEF MakeCurrentOff, TurnOff, NoManifest, NoCopy, a, b

\* A script may set up its test entry once it knows that it is another entry
\* than the running one and, for a one-time script, than the default.
MaySetUp(op, P) == /\ op \in Copying \cup Reusing
                   /\ NoManifest(P)
                   /\ op \in Reusing => {FoundOff, FoundAuto} \subseteq P
                   /\ op \in OneTimes => Default("current") \in P

\* More commands behind it change nothing of that.
LEMMA MaySetUpMore ==
    ASSUME NEW op, NEW P, MaySetUp(op, P), NEW Q, NoManifest(Q)
    PROVE  MaySetUp(op, P \cup Q)
BY DEF MaySetUp, NoManifest

\* What the scripts make of the test entry.
LEMMA TestAutoPiece ==
    ASSUME NEW op, NEW P, MaySetUp(op, P)
    PROVE  /\ Legal(op, MakeTestAuto, P)
           /\ NoManifest(Range(MakeTestAuto)) /\ NoCopy(Range(MakeTestAuto))
<1> DEFINE a == Set("diag", "launch", "auto")
           b == Set("diag", "vsm", "off")
<1>1. {a.op, b.op} = {"set"}
  BY CmdFields DEF Set
<1>2. MaySetUp(op, P \cup {a})
  BY <1>1, MaySetUpMore DEF NoManifest
<1>3. /\ {"launch", "vsm"} \subseteq Elements /\ {"off", "auto"} \subseteq Values
      /\ {"launch", "vsm"} \cap Range(Isolators) = {}
  BY DEF Elements, Values, Isolators, Range
<1>4. Fits(op, a, P) /\ Fits(op, b, P \cup {a})
  BY <1>2, <1>3, SetDiagFits DEF MaySetUp
<1> HIDE DEF a, b
<1>5. Legal(op, << a, b >>, P) /\ Range(<< a, b >>) = {a, b}
  BY <1>4, Legal2
<1> QED
  BY <1>1, <1>5 DEF MakeTestAuto, NoManifest, NoCopy, a, b

\* One setting of the test entry.
LEMMA SettingPiece ==
    ASSUME NEW op, NEW P, MaySetUp(op, P), NEW x \in Elements \ {"launch"}, NEW v \in Values,
           op = "capture7e" => x \in {"vsm", "capture"},
           op = "control" => x \notin Range(Isolators)
    PROVE  /\ Legal(op, << Set("diag", x, v) >>, P)
           /\ NoManifest(Range(<< Set("diag", x, v) >>)) /\ NoCopy(Range(<< Set("diag", x, v) >>))
<1> DEFINE c == Set("diag", x, v)
<1>1. c.op = "set"
  BY CmdFields DEF Set
<1>2. Fits(op, c, P)
  BY SetDiagFits DEF MaySetUp
<1> HIDE DEF c
<1>3. Legal(op, << c >>, P) /\ Range(<< c >>) = {c}
  BY <1>2, Legal1
<1> QED
  BY <1>1, <1>3 DEF NoManifest, NoCopy, c

\* Clearing any list of elements of the test entry but its launch type.
LEMMA ClearAllPiece ==
    ASSUME NEW op, NEW P, MaySetUp(op, P), op # "capture7e", NEW elems \in Seq(Elements \ {"launch"})
    PROVE  /\ Legal(op, ClearAll(elems), P)
           /\ NoManifest(Range(ClearAll(elems))) /\ NoCopy(Range(ClearAll(elems)))
<1> DEFINE z == ClearAll(elems)
<1>1. Len(elems) \in Nat /\ DOMAIN elems = 1 .. Len(elems)
      /\ \A k \in 1 .. Len(elems) : elems[k] \in Elements \ {"launch"}
  OBVIOUS
<1>2. z = [k \in 1 .. Len(elems) |-> Clear("diag", elems[k])]
  BY <1>1 DEF ClearAll
<1>3. \A k \in 1 .. Len(elems) : z[k] = Clear("diag", elems[k]) /\ z[k].op = "deletevalue"
  BY <1>2, CmdFields DEF Clear
<1>4. "absent" \in Values
  BY DEF Values
<1> HIDE DEF z
<1>5. \A k \in 1 .. Len(elems) : Fits(op, z[k], P \cup Before(z, k))
  <2> SUFFICES ASSUME NEW k \in 1 .. Len(elems) PROVE Fits(op, z[k], P \cup Before(z, k))
    OBVIOUS
  <2>1. \A j \in 1 .. k - 1 : j \in 1 .. Len(elems)
    BY <1>1
  <2>2. MaySetUp(op, P \cup Before(z, k))
    BY <1>3, <2>1, MaySetUpMore DEF NoManifest, Before
  <2> QED
    BY <1>1, <1>3, <1>4, <2>2, SetDiagFits DEF MaySetUp
<1>6. z \in Seq(Commands) /\ Len(z) = Len(elems) /\ DOMAIN z = 1 .. Len(elems)
  <2>1. \A k \in 1 .. Len(elems) : z[k] \in Commands
    BY <1>5 DEF Fits, Lawful
  <2>2. z \in [1 .. Len(elems) -> Commands]
    BY <1>2, <2>1
  <2> QED
    BY <1>1, <2>2
<1> QED
  BY <1>3, <1>5, <1>6 DEF Legal, Fits, NoManifest, NoCopy, Range, z

\* Confirming that any list of elements of the test entry is absent.
LEMMA AllAbsentPiece ==
    ASSUME NEW op, op \notin Undoing, NEW P, NoManifest(P), NEW elems \in Seq(Elements)
    PROVE  /\ Legal(op, AllAbsent(elems), P)
           /\ NoManifest(Range(AllAbsent(elems))) /\ NoCopy(Range(AllAbsent(elems)))
           /\ \A x \in Range(elems) : Confirm("diag", x, "absent") \in Range(AllAbsent(elems))
<1> DEFINE z == AllAbsent(elems)
<1>1. Len(elems) \in Nat /\ DOMAIN elems = 1 .. Len(elems)
      /\ \A k \in 1 .. Len(elems) : elems[k] \in Elements
  OBVIOUS
<1>2. z = [k \in 1 .. Len(elems) |-> Confirm("diag", elems[k], "absent")]
  BY <1>1 DEF AllAbsent
<1>3. \A k \in 1 .. Len(elems) : z[k] = Confirm("diag", elems[k], "absent") /\ z[k].op = "confirm"
  BY <1>2, CmdFields DEF Confirm
<1>4. "absent" \in Values /\ "diag" \in {"current", "diag"}
  BY DEF Values
<1> HIDE DEF z
<1>5. \A k \in 1 .. Len(elems) : Fits(op, z[k], P \cup Before(z, k))
  <2> SUFFICES ASSUME NEW k \in 1 .. Len(elems) PROVE Fits(op, z[k], P \cup Before(z, k))
    OBVIOUS
  <2>1. \A j \in 1 .. k - 1 : j \in 1 .. Len(elems)
    BY <1>1
  <2>2. NoManifest(P \cup Before(z, k))
    BY <1>3, <2>1 DEF NoManifest, Before
  <2> QED
    BY <1>1, <1>3, <1>4, <2>2, ConfirmFits
<1>6. z \in Seq(Commands) /\ Len(z) = Len(elems) /\ DOMAIN z = 1 .. Len(elems)
  <2>1. \A k \in 1 .. Len(elems) : z[k] \in Commands
    BY <1>5 DEF Fits, Lawful
  <2>2. z \in [1 .. Len(elems) -> Commands]
    BY <1>2, <2>1
  <2> QED
    BY <1>1, <2>2
<1>7. \A x \in Range(elems) : Confirm("diag", x, "absent") \in Range(z)
  BY <1>1, <1>3, <1>6 DEF Range
<1> QED
  BY <1>3, <1>5, <1>6, <1>7 DEF Legal, Fits, NoManifest, NoCopy, Range, z

-----------------------------------------------------------------------------
(***************************************************************************)
(* The scripts, piece by piece.                                            *)
(***************************************************************************)
Starts(z, a) == Len(a) \in Nat /\ Len(a) <= Len(z) /\ \A j \in 1 .. Len(a) : z[j] = a[j]

\* z is the beginning of script op, itself beginning with a, and has X in it.
Part(op, z, a, X) ==
    Legal(op, z, {}) /\ NoManifest(Range(z)) /\ Starts(z, a) /\ X \subseteq Range(z)

\* z is the whole of script op.
Whole(op, z, a) ==
    /\ Legal(op, z, {}) /\ z # << >> /\ Starts(z, a)
    /\ op \in Recording => z[Len(z)].op = "manifest"

\* The next piece of a script, and its last one.
LEMMA PartJoin ==
    ASSUME NEW op, NEW z, NEW a, NEW X, Part(op, z, a, X),
           NEW b, Legal(op, b, Range(z)), NEW Y \in SUBSET Range(b)
    PROVE  /\ Range(z \o b) = Range(z) \cup Range(b)
           /\ NoManifest(Range(b)) => Part(op, z \o b, a, X \cup Y)
           /\ b # << >> /\ (op \in Recording => b[Len(b)].op = "manifest") => Whole(op, z \o b, a)
<1>1. Legal(op, z \o b, {}) /\ Range(z \o b) = Range(z) \cup Range(b)
  BY LegalConcat DEF Part
<1>2. z \in Seq(Commands) /\ b \in Seq(Commands)
  BY DEF Part, Legal
<1>3. Len(z) \in Nat /\ Len(b) \in Nat /\ (b # << >> => Len(b) >= 1)
  BY <1>2
<1>4. /\ Len(z \o b) = Len(z) + Len(b)
      /\ \A k \in 1 .. Len(z) : (z \o b)[k] = z[k]
      /\ \A k \in 1 .. Len(b) : (z \o b)[Len(z) + k] = b[k]
  BY <1>2, ConcatSeq
<1>5. Starts(z \o b, a)
  <2>1. Starts(z, a)
    BY DEF Part
  <2>2. Len(a) \in Nat /\ Len(a) <= Len(z) /\ \A j \in 1 .. Len(a) : z[j] = a[j] /\ j \in 1 .. Len(z)
    BY <1>3, <2>1 DEF Starts
  <2> QED
    BY <1>3, <1>4, <2>2 DEF Starts
<1>6. ASSUME b # << >> PROVE z \o b # << >> /\ (z \o b)[Len(z \o b)] = b[Len(b)]
  <2>1. Len(z \o b) >= 1 /\ Len(b) \in 1 .. Len(b)
    BY <1>3, <1>4, <1>6
  <2> QED
    BY <1>4, <2>1
<1> QED
  BY <1>1, <1>5, <1>6 DEF Part, Whole, NoManifest

\* A script begins with nothing, and then with whatever it has begun with.
LEMMA PartNone == \A op : Part(op, << >>, << >>, {})
<1>1. << >> \in Seq(Commands) /\ Len(<< >>) = 0 /\ Range(<< >>) = {}
  BY DEF Range
<1> QED
  BY <1>1 DEF Part, Legal, NoManifest, Starts

LEMMA PartStarts ==
    ASSUME NEW op, NEW z, NEW a, NEW X, Part(op, z, a, X)
    PROVE  Part(op, z, z, X)
BY DEF Part, Starts, Legal

\* Nothing is behind the first command.
LEMMA NothingBehind == NoManifest({}) /\ NoCopy({})
BY DEF NoManifest, NoCopy

\* The plain commands, and those about the boot manager, that fit with P behind
\* them.
PlainIn(op, P) == {Enum("current"), ShowMenu, Timeout, ReadBootMgr, ConfirmNoSequence}
                  \cup {Confirm("diag", x, v) : x \in Elements, v \in Values}
                  \cup (IF op = "testboot" THEN {OnlyThese} ELSE {})
                  \cup (IF op = "capture7e" THEN {ExportReg, ShowCrash} ELSE {})
                  \cup (IF op = "unmatrix" THEN {DeleteTodo} ELSE {})
                  \cup (IF op \in Reusing \cup {"clean"} /\ ConfirmNoSequence \notin P THEN {} ELSE {Export})
                  \cup (IF TurnOff \in P THEN {Default("current")} ELSE {})
                  \cup (IF op \in {"clean", "madtonce"} \cup Reusing THEN {Sequence("diag")} ELSE {})
                  \cup (IF op = "madtonce" /\ Sequence("diag") \notin P THEN {} ELSE {ConfirmSequence("diag")})
                  \cup (IF op = "cancel" THEN {[Unsequence("diag") EXCEPT !.onfail = "throw"]} ELSE {})

\* Those commands fit, and neither copy nor record anything.
LEMMA PlainInFits ==
    ASSUME NEW op, op \notin Undoing, NEW P, NoManifest(P), NEW c \in PlainIn(op, P)
    PROVE  Fits(op, c, P) /\ c.op \notin {"manifest", "copy"} /\ NoManifest(P \cup {c})
<1>1. CASE c \in {Confirm("diag", x, v) : x \in Elements, v \in Values}
  BY <1>1, ConfirmFits DEF NoManifest
<1>2. CASE \/ c \in {Enum("current"), ShowMenu, Timeout, ReadBootMgr, ConfirmNoSequence}
           \/ c = OnlyThese /\ op = "testboot"
           \/ c \in {ExportReg, ShowCrash} /\ op = "capture7e"
           \/ c = DeleteTodo /\ op = "unmatrix"
  BY <1>2, PlainFits DEF NoManifest
<1>3. CASE \/ c = Export /\ (op \in Reusing \cup {"clean"} => ConfirmNoSequence \in P)
           \/ c = Default("current") /\ TurnOff \in P
           \/ c = Sequence("diag") /\ op \in {"clean", "madtonce"} \cup Reusing
           \/ c = ConfirmSequence("diag") /\ (op = "madtonce" => Sequence("diag") \in P)
           \/ c = [Unsequence("diag") EXCEPT !.onfail = "throw"] /\ op = "cancel"
  BY <1>3, BootMgrFits DEF NoManifest
<1> QED
  BY <1>1, <1>2, <1>3 DEF PlainIn

\* More commands behind them change nothing of that.
LEMMA PlainInMore ==
    ASSUME NEW op, NEW P, NEW Q, P \subseteq Q
    PROVE  PlainIn(op, P) \subseteq PlainIn(op, Q)
BY DEF PlainIn

\* Up to four such commands in a row.
LEMMA PlainList ==
    ASSUME NEW op, op \notin Undoing, NEW P, NoManifest(P),
           NEW c \in PlainIn(op, P), NEW d \in PlainIn(op, P \cup {c}),
           NEW e \in PlainIn(op, P \cup {c, d}), NEW f \in PlainIn(op, P \cup {c, d, e})
    PROVE  /\ Fits(op, c, P) /\ Fits(op, d, P \cup {c})
           /\ Fits(op, e, P \cup {c, d}) /\ Fits(op, f, P \cup {c, d, e})
           /\ NoManifest(P \cup {c}) /\ NoManifest(P \cup {c, d})
           /\ NoManifest(P \cup {c, d, e}) /\ NoManifest(P \cup {c, d, e, f})
<1>1. /\ P \cup {c, d} = (P \cup {c}) \cup {d}
      /\ P \cup {c, d, e} = (P \cup {c, d}) \cup {e}
      /\ P \cup {c, d, e, f} = (P \cup {c, d, e}) \cup {f}
  OBVIOUS
<1>2. Fits(op, c, P) /\ NoManifest(P \cup {c})
  BY PlainInFits
<1>3. Fits(op, d, P \cup {c}) /\ NoManifest(P \cup {c, d})
  BY <1>1, <1>2, PlainInFits
<1>4. Fits(op, e, P \cup {c, d}) /\ NoManifest(P \cup {c, d, e})
  BY <1>1, <1>3, PlainInFits
<1>5. Fits(op, f, P \cup {c, d, e}) /\ NoManifest(P \cup {c, d, e, f})
  BY <1>1, <1>4, PlainInFits
<1> QED
  BY <1>2, <1>3, <1>4, <1>5

\* What each kind of piece adds to a script.
LEMMA JoinPlain ==
    ASSUME NEW op, op \notin Undoing, NEW z, NEW a, NEW X, Part(op, z, a, X),
           NEW c \in PlainIn(op, X)
    PROVE  Part(op, z \o << c >>, a, X \cup {c})
<1> DEFINE P == Range(z)
<1>1. NoManifest(P) /\ X \subseteq P
  BY DEF Part
<1> HIDE DEF P
<1>2. c \in PlainIn(op, P)
  <2>1. X \subseteq P
    BY <1>1
  <2> QED
    BY <2>1, PlainInMore
<1>3. ShowMenu \in PlainIn(op, P \cup {c}) /\ ShowMenu \in PlainIn(op, P \cup {c, ShowMenu}) /\ ShowMenu \in PlainIn(op, P \cup {c, ShowMenu, ShowMenu})
  BY DEF PlainIn
<1>4. Fits(op, c, P) /\ NoManifest(P \cup {c})
  BY <1>1, <1>2, <1>3, PlainList
<1>5. Legal(op, << c >>, P) /\ Range(<< c >>) = {c}
  BY <1>4, Legal1
<1>6. NoManifest(Range(<< c >>)) /\ {c} \in SUBSET Range(<< c >>)
  BY <1>4, <1>5 DEF NoManifest
<1> QED
  BY <1>5, <1>6, PartJoin DEF P

LEMMA JoinPlain2 ==
    ASSUME NEW op, op \notin Undoing, NEW z, NEW a, NEW X, Part(op, z, a, X),
           NEW c \in PlainIn(op, X), NEW d \in PlainIn(op, X \cup {c})
    PROVE  Part(op, z \o << c, d >>, a, X \cup {c, d})
<1> DEFINE P == Range(z)
<1>1. NoManifest(P) /\ X \subseteq P
  BY DEF Part
<1> HIDE DEF P
<1>2. c \in PlainIn(op, P) /\ d \in PlainIn(op, P \cup {c})
  <2>1. X \subseteq P /\ X \cup {c} \subseteq P \cup {c}
    BY <1>1
  <2> QED
    BY <2>1, PlainInMore
<1>3. ShowMenu \in PlainIn(op, P \cup {c, d}) /\ ShowMenu \in PlainIn(op, P \cup {c, d, ShowMenu})
  BY DEF PlainIn
<1>4. Fits(op, c, P) /\ Fits(op, d, P \cup {c}) /\ NoManifest(P \cup {c, d})
  BY <1>1, <1>2, <1>3, PlainList
<1>5. Legal(op, << c, d >>, P) /\ Range(<< c, d >>) = {c, d}
  BY <1>4, Legal2
<1>6. NoManifest(Range(<< c, d >>)) /\ {c, d} \in SUBSET Range(<< c, d >>)
  BY <1>4, <1>5 DEF NoManifest
<1> QED
  BY <1>5, <1>6, PartJoin DEF P

LEMMA JoinPlain3 ==
    ASSUME NEW op, op \notin Undoing, NEW z, NEW a, NEW X, Part(op, z, a, X),
           NEW c \in PlainIn(op, X), NEW d \in PlainIn(op, X \cup {c}), NEW e \in PlainIn(op, X \cup {c, d})
    PROVE  Part(op, z \o << c, d, e >>, a, X \cup {c, d, e})
<1> DEFINE P == Range(z)
<1>1. NoManifest(P) /\ X \subseteq P
  BY DEF Part
<1> HIDE DEF P
<1>2. c \in PlainIn(op, P) /\ d \in PlainIn(op, P \cup {c}) /\ e \in PlainIn(op, P \cup {c, d})
  <2>1. X \subseteq P /\ X \cup {c} \subseteq P \cup {c} /\ X \cup {c, d} \subseteq P \cup {c, d}
    BY <1>1
  <2> QED
    BY <2>1, PlainInMore
<1>3. ShowMenu \in PlainIn(op, P \cup {c, d, e})
  BY DEF PlainIn
<1>4. Fits(op, c, P) /\ Fits(op, d, P \cup {c}) /\ Fits(op, e, P \cup {c, d}) /\ NoManifest(P \cup {c, d, e})
  BY <1>1, <1>2, <1>3, PlainList
<1>5. Legal(op, << c, d, e >>, P) /\ Range(<< c, d, e >>) = {c, d, e}
  BY <1>4, Legal3
<1>6. NoManifest(Range(<< c, d, e >>)) /\ {c, d, e} \in SUBSET Range(<< c, d, e >>)
  BY <1>4, <1>5 DEF NoManifest
<1> QED
  BY <1>5, <1>6, PartJoin DEF P

LEMMA JoinPlain4 ==
    ASSUME NEW op, op \notin Undoing, NEW z, NEW a, NEW X, Part(op, z, a, X),
           NEW c \in PlainIn(op, X), NEW d \in PlainIn(op, X \cup {c}), NEW e \in PlainIn(op, X \cup {c, d}), NEW f \in PlainIn(op, X \cup {c, d, e})
    PROVE  Part(op, z \o << c, d, e, f >>, a, X \cup {c, d, e, f})
<1> DEFINE P == Range(z)
<1>1. NoManifest(P) /\ X \subseteq P
  BY DEF Part
<1> HIDE DEF P
<1>2. c \in PlainIn(op, P) /\ d \in PlainIn(op, P \cup {c}) /\ e \in PlainIn(op, P \cup {c, d}) /\ f \in PlainIn(op, P \cup {c, d, e})
  <2>1. X \subseteq P /\ X \cup {c} \subseteq P \cup {c} /\ X \cup {c, d} \subseteq P \cup {c, d} /\ X \cup {c, d, e} \subseteq P \cup {c, d, e}
    BY <1>1
  <2> QED
    BY <2>1, PlainInMore
<1>3. Fits(op, c, P) /\ Fits(op, d, P \cup {c}) /\ Fits(op, e, P \cup {c, d}) /\ Fits(op, f, P \cup {c, d, e}) /\ NoManifest(P \cup {c, d, e, f})
  BY <1>1, <1>2, PlainList
<1>4. Legal(op, << c, d, e, f >>, P) /\ Range(<< c, d, e, f >>) = {c, d, e, f}
  BY <1>3, Legal4
<1>5. NoManifest(Range(<< c, d, e, f >>)) /\ {c, d, e, f} \in SUBSET Range(<< c, d, e, f >>)
  BY <1>3, <1>4 DEF NoManifest
<1> QED
  BY <1>4, <1>5, PartJoin DEF P

LEMMA JoinConfirming ==
    ASSUME NEW op, op \notin Undoing, NEW z, NEW a, NEW X, Part(op, z, a, X)
    PROVE  /\ Part(op, z \o CurrentIsOff, a, X \cup {FoundOff})
           /\ Part(op, z \o TestIsAuto, a, X \cup {FoundAuto})
<1>1. NoManifest(Range(z))
  BY DEF Part
<1>2. /\ Legal(op, CurrentIsOff, Range(z)) /\ Legal(op, TestIsAuto, Range(z))
      /\ {FoundOff} \in SUBSET Range(CurrentIsOff) /\ {FoundAuto} \in SUBSET Range(TestIsAuto)
      /\ NoManifest(Range(CurrentIsOff)) /\ NoManifest(Range(TestIsAuto))
  BY <1>1, ConfirmingPieces
<1>3. Part(op, z \o CurrentIsOff, a, X \cup {FoundOff})
  BY <1>2, PartJoin
<1>4. Part(op, z \o TestIsAuto, a, X \cup {FoundAuto})
  BY <1>2, PartJoin
<1> QED
  BY <1>3, <1>4

LEMMA JoinCurrentOff ==
    ASSUME NEW op, op \notin Undoing, NEW z, NEW a, NEW X, Part(op, z, a, X),
           op \in Reusing => {FoundOff, FoundAuto} \subseteq X
    PROVE  Part(op, z \o MakeCurrentOff, a, X \cup {TurnOff})
<1>1. NoManifest(Range(z)) /\ X \subseteq Range(z)
  BY DEF Part
<1>2. /\ Legal(op, MakeCurrentOff, Range(z)) /\ NoManifest(Range(MakeCurrentOff))
      /\ {TurnOff} \in SUBSET Range(MakeCurrentOff)
  BY <1>1, CurrentOffPiece
<1> QED
  BY <1>2, PartJoin

\* b sets up the test entry of script op, whenever it may.
SetsUp(op, b) == \A P : MaySetUp(op, P) => Legal(op, b, P) /\ NoManifest(Range(b))

\* A piece that only does that.
LEMMA JoinSetUp ==
    ASSUME NEW op, NEW z, NEW a, NEW X, Part(op, z, a, X), op \in Copying \cup Reusing,
           op \in Reusing => {FoundOff, FoundAuto} \subseteq X,
           op \in OneTimes => Default("current") \in X,
           NEW b, SetsUp(op, b)
    PROVE  Part(op, z \o b, a, X)
<1>1. NoManifest(Range(z)) /\ X \subseteq Range(z)
  BY DEF Part
<1>2. MaySetUp(op, Range(z))
  BY <1>1 DEF MaySetUp
<1>3. Legal(op, b, Range(z)) /\ NoManifest(Range(b)) /\ {} \in SUBSET Range(b) /\ X \cup {} = X
  BY <1>2 DEF SetsUp
<1>4. Part(op, z \o b, a, X \cup {})
  BY <1>3, PartJoin
<1> QED
  BY <1>3, <1>4

\* The pieces that do.
LEMMA TestAutoSetsUp == \A op : SetsUp(op, MakeTestAuto)
BY TestAutoPiece DEF SetsUp

LEMMA SettingSetsUp ==
    ASSUME NEW op, NEW x \in Elements \ {"launch"}, NEW v \in Values,
           op = "capture7e" => x \in {"vsm", "capture"},
           op = "control" => x \notin Range(Isolators)
    PROVE  SetsUp(op, << Set("diag", x, v) >>)
BY SettingPiece DEF SetsUp

LEMMA ClearAllSetsUp ==
    ASSUME NEW op, op # "capture7e", NEW elems \in Seq(Elements \ {"launch"})
    PROVE  SetsUp(op, ClearAll(elems))
BY ClearAllPiece DEF SetsUp

LEMMA CaptureSetsUp == \A op : SetsUp(op, Capture)
<1>1. /\ "capture" \in Elements \ {"launch"} /\ "on" \in Values /\ "capture" \notin Range(Isolators)
  BY DEF Elements, Values, Isolators, Range
<1>2. \A op : SetsUp(op, << Set("diag", "capture", "on") >>)
  BY <1>1, SettingSetsUp
<1> QED
  BY <1>2 DEF Capture

\* The isolators of the one-time scripts are elements of the test entry.
LEMMA IsolatorElements == Isolators \in Seq(Elements \ {"launch", "capture"})
BY DEF Isolators, Elements

\* The manifest ends a script, alone or after plain commands.
LEMMA Close ==
    ASSUME NEW op \in Recording, op \notin Undoing, NEW z, NEW a, NEW X, Part(op, z, a, X),
           op \notin SetNoDefault => {TurnOff, Default("current")} \subseteq X,
           op \in {"testboot", "clean"} => MakeCopy \in X,
           op = "control" => \A x \in Range(Isolators) : Confirm("diag", x, "absent") \in X
    PROVE  Whole(op, z \o << Manifest >>, a)
<1> DEFINE P == Range(z)
<1>1. NoManifest(P) /\ X \subseteq P
  BY DEF Part
<1> HIDE DEF P
<1>6. Fits(op, Manifest, P) /\ Manifest.op = "manifest"
  BY <1>1, ManifestFits
<1>7. Legal(op, << Manifest >>, P)
  BY <1>6, Legal1
<1>8. << Manifest >> # << >> /\ << Manifest >>[Len(<< Manifest >>)] = Manifest /\ {} \in SUBSET Range(<< Manifest >>)
  OBVIOUS
<1> QED
  BY <1>6, <1>7, <1>8, PartJoin DEF P

LEMMA Close2 ==
    ASSUME NEW op \in Recording, op \notin Undoing, NEW z, NEW a, NEW X, Part(op, z, a, X),
           NEW c \in PlainIn(op, X), NEW d \in PlainIn(op, X \cup {c}),
           op \notin SetNoDefault => {TurnOff, Default("current")} \subseteq X \cup {c, d},
           op \in {"testboot", "clean"} => MakeCopy \in X \cup {c, d},
           op = "control" => \A x \in Range(Isolators) : Confirm("diag", x, "absent") \in X \cup {c, d}
    PROVE  Whole(op, z \o << c, d, Manifest >>, a)
<1> DEFINE P == Range(z)
<1>1. NoManifest(P) /\ X \subseteq P
  BY DEF Part
<1> HIDE DEF P
<1>2. c \in PlainIn(op, P) /\ d \in PlainIn(op, P \cup {c})
  <2>1. X \subseteq P /\ X \cup {c} \subseteq P \cup {c}
    BY <1>1
  <2> QED
    BY <2>1, PlainInMore
<1>3. ShowMenu \in PlainIn(op, P \cup {c, d}) /\ ShowMenu \in PlainIn(op, P \cup {c, d, ShowMenu})
  BY DEF PlainIn
<1>4. Fits(op, c, P) /\ Fits(op, d, P \cup {c}) /\ NoManifest(P \cup {c, d})
  BY <1>1, <1>2, <1>3, PlainList
<1>5. X \cup {c, d} \subseteq P \cup {c, d}
  BY <1>1
<1>6. Fits(op, Manifest, P \cup {c, d}) /\ Manifest.op = "manifest"
  BY <1>4, <1>5, ManifestFits
<1>7. Legal(op, << c, d, Manifest >>, P)
  BY <1>4, <1>6, Legal3
<1>8. << c, d, Manifest >> # << >> /\ << c, d, Manifest >>[Len(<< c, d, Manifest >>)] = Manifest /\ {} \in SUBSET Range(<< c, d, Manifest >>)
  OBVIOUS
<1> QED
  BY <1>6, <1>7, <1>8, PartJoin DEF P

LEMMA Close3 ==
    ASSUME NEW op \in Recording, op \notin Undoing, NEW z, NEW a, NEW X, Part(op, z, a, X),
           NEW c \in PlainIn(op, X), NEW d \in PlainIn(op, X \cup {c}), NEW e \in PlainIn(op, X \cup {c, d}),
           op \notin SetNoDefault => {TurnOff, Default("current")} \subseteq X \cup {c, d, e},
           op \in {"testboot", "clean"} => MakeCopy \in X \cup {c, d, e},
           op = "control" => \A x \in Range(Isolators) : Confirm("diag", x, "absent") \in X \cup {c, d, e}
    PROVE  Whole(op, z \o << c, d, e, Manifest >>, a)
<1> DEFINE P == Range(z)
<1>1. NoManifest(P) /\ X \subseteq P
  BY DEF Part
<1> HIDE DEF P
<1>2. c \in PlainIn(op, P) /\ d \in PlainIn(op, P \cup {c}) /\ e \in PlainIn(op, P \cup {c, d})
  <2>1. X \subseteq P /\ X \cup {c} \subseteq P \cup {c} /\ X \cup {c, d} \subseteq P \cup {c, d}
    BY <1>1
  <2> QED
    BY <2>1, PlainInMore
<1>3. ShowMenu \in PlainIn(op, P \cup {c, d, e})
  BY DEF PlainIn
<1>4. Fits(op, c, P) /\ Fits(op, d, P \cup {c}) /\ Fits(op, e, P \cup {c, d}) /\ NoManifest(P \cup {c, d, e})
  BY <1>1, <1>2, <1>3, PlainList
<1>5. X \cup {c, d, e} \subseteq P \cup {c, d, e}
  BY <1>1
<1>6. Fits(op, Manifest, P \cup {c, d, e}) /\ Manifest.op = "manifest"
  BY <1>4, <1>5, ManifestFits
<1>7. Legal(op, << c, d, e, Manifest >>, P)
  BY <1>4, <1>6, Legal4
<1>8. << c, d, e, Manifest >> # << >> /\ << c, d, e, Manifest >>[Len(<< c, d, e, Manifest >>)] = Manifest /\ {} \in SUBSET Range(<< c, d, e, Manifest >>)
  OBVIOUS
<1> QED
  BY <1>6, <1>7, <1>8, PartJoin DEF P

LEMMA Close4 ==
    ASSUME NEW op \in Recording, op \notin Undoing, NEW z, NEW a, NEW X, Part(op, z, a, X),
           NEW c \in PlainIn(op, X), NEW d \in PlainIn(op, X \cup {c}), NEW e \in PlainIn(op, X \cup {c, d}), NEW f \in PlainIn(op, X \cup {c, d, e}),
           op \notin SetNoDefault => {TurnOff, Default("current")} \subseteq X \cup {c, d, e, f},
           op \in {"testboot", "clean"} => MakeCopy \in X \cup {c, d, e, f},
           op = "control" => \A x \in Range(Isolators) : Confirm("diag", x, "absent") \in X \cup {c, d, e, f}
    PROVE  Whole(op, z \o << c, d, e, f, Manifest >>, a)
<1> DEFINE P == Range(z)
<1>1. NoManifest(P) /\ X \subseteq P
  BY DEF Part
<1> HIDE DEF P
<1>2. c \in PlainIn(op, P) /\ d \in PlainIn(op, P \cup {c}) /\ e \in PlainIn(op, P \cup {c, d}) /\ f \in PlainIn(op, P \cup {c, d, e})
  <2>1. X \subseteq P /\ X \cup {c} \subseteq P \cup {c} /\ X \cup {c, d} \subseteq P \cup {c, d} /\ X \cup {c, d, e} \subseteq P \cup {c, d, e}
    BY <1>1
  <2> QED
    BY <2>1, PlainInMore
<1>4. Fits(op, c, P) /\ Fits(op, d, P \cup {c}) /\ Fits(op, e, P \cup {c, d}) /\ Fits(op, f, P \cup {c, d, e}) /\ NoManifest(P \cup {c, d, e, f})
  BY <1>1, <1>2, PlainList
<1>5. X \cup {c, d, e, f} \subseteq P \cup {c, d, e, f}
  BY <1>1
<1>6. Fits(op, Manifest, P \cup {c, d, e, f}) /\ Manifest.op = "manifest"
  BY <1>4, <1>5, ManifestFits
<1>7. Legal(op, << c, d, e, f, Manifest >>, P)
  BY <1>4, <1>6, Legal5
<1>8. << c, d, e, f, Manifest >> # << >> /\ << c, d, e, f, Manifest >>[Len(<< c, d, e, f, Manifest >>)] = Manifest /\ {} \in SUBSET Range(<< c, d, e, f, Manifest >>)
  OBVIOUS
<1> QED
  BY <1>6, <1>7, <1>8, PartJoin DEF P

\* The first piece of a script has nothing before it.
LEMMA FirstPiece == \A z \in Seq(Commands) : << >> \o z = z
BY ConcatEmptySeq

LEMMA FirstPlain ==
    ASSUME NEW op, op \notin Undoing, NEW c \in PlainIn(op, {})
    PROVE  Part(op, << c >>, << >>, {c})
<1>1. c \in Commands
  BY NothingBehind, PlainInFits DEF Fits, Lawful
<1>2. Part(op, << >> \o << c >>, << >>, {} \cup {c})
  BY PartNone, JoinPlain
<1>3. << c >> \in Seq(Commands) /\ {} \cup {c} = {c}
  BY <1>1
<1>4. << >> \o << c >> = << c >>
  BY <1>3, FirstPiece
<1> QED
  BY <1>2, <1>3, <1>4

LEMMA FirstPlain2 ==
    ASSUME NEW op, op \notin Undoing, NEW c \in PlainIn(op, {}), NEW d \in PlainIn(op, {c})
    PROVE  Part(op, << c, d >>, << >>, {c, d})
<1>1. c \in Commands /\ d \in Commands
  <2>1. Fits(op, c, {}) /\ NoManifest({} \cup {c}) /\ {} \cup {c} = {c}
    BY NothingBehind, PlainInFits
  <2>2. Fits(op, d, {c})
    BY <2>1, PlainInFits
  <2> QED
    BY <2>1, <2>2 DEF Fits, Lawful
<1>2. {} \cup {c} = {c} /\ {} \cup {c, d} = {c, d}
  OBVIOUS
<1>3. Part(op, << >> \o << c, d >>, << >>, {} \cup {c, d})
  <2>1. d \in PlainIn(op, {} \cup {c}) /\ Part(op, << >>, << >>, {})
    BY <1>2, PartNone
  <2> QED
    BY <2>1, JoinPlain2
<1>4. << c, d >> \in Seq(Commands)
  BY <1>1
<1>5. << >> \o << c, d >> = << c, d >>
  BY <1>4, FirstPiece
<1> QED
  BY <1>2, <1>3, <1>5

LEMMA FirstOff ==
    ASSUME NEW op, op \notin Undoing
    PROVE  Part(op, CurrentIsOff, << >>, {FoundOff})
<1>1. Part(op, << >> \o CurrentIsOff, << >>, {} \cup {FoundOff})
  BY PartNone, JoinConfirming
<1>2. CurrentIsOff \in Seq(Commands) /\ {} \cup {FoundOff} = {FoundOff}
  BY NothingBehind, ConfirmingPieces DEF Legal
<1>3. << >> \o CurrentIsOff = CurrentIsOff
  BY <1>2, FirstPiece
<1> QED
  BY <1>1, <1>2, <1>3

\* prepare-opencore-safe-boot.ps1.
LEMMA SafeBootWhole == Whole("safe", OpenCoreSafeBoot, << >>)
<1> DEFINE op == "safe"
           p0 == << Enum("current"), Export >>
           p1 == p0 \o MakeCurrentOff
           p2 == p1 \o << Default("current") >>
           p3 == p2 \o CurrentIsOff
<1>0. /\ op \notin Undoing /\ op \in Recording
      /\ op \notin Reusing \cup {"testboot", "clean", "control", "madtonce"}
  BY DEF Undoing, Disarms, Reusing, OneTimes, Recording
<1> HIDE DEF op
<1>1. Part(op, p0, << >>, {Enum("current"), Export})
  BY <1>0, FirstPlain2 DEF PlainIn
<1> HIDE DEF p0
<1>2. Part(op, p1, << >>, {Enum("current"), Export} \cup {TurnOff})
  BY <1>0, <1>1, JoinCurrentOff
<1> HIDE DEF p1
<1>3. Part(op, p1, << >>, {TurnOff}) /\ Default("current") \in PlainIn(op, {TurnOff})
  BY <1>2 DEF Part, PlainIn
<1>4. Part(op, p2, << >>, {TurnOff} \cup {Default("current")})
  BY <1>0, <1>3, JoinPlain
<1> HIDE DEF p2
<1>5. Part(op, p3, << >>, ({TurnOff} \cup {Default("current")}) \cup {FoundOff})
  BY <1>0, <1>4, JoinConfirming
<1> HIDE DEF p3
<1>6. Whole(op, p3 \o << Manifest >>, << >>)
  BY <1>0, <1>5, Close
<1> QED
  BY <1>6 DEF OpenCoreSafeBoot, p0, p1, p2, p3, op

\* schedule-hyperv-madt-once.ps1 and cancel-hyperv-madt-once.ps1.
LEMMA MadtOnceWhole == Whole("madtonce", ScheduleMadtOnce, << >>)
<1> DEFINE op == "madtonce"
           p1 == CurrentIsOff \o TestIsAuto
           X  == {FoundOff} \cup {FoundAuto}
<1>0. op \notin Undoing /\ op \in Recording /\ op \in SetNoDefault
  BY DEF Undoing, Disarms, Recording, SetNoDefault
<1>1. Part(op, p1, << >>, X)
  BY <1>0, FirstOff, JoinConfirming
<1>2. /\ Export \in PlainIn(op, X)
      /\ Sequence("diag") \in PlainIn(op, X \cup {Export})
      /\ ReadBootMgr \in PlainIn(op, X \cup {Export, Sequence("diag")})
      /\ ConfirmSequence("diag") \in PlainIn(op, X \cup {Export, Sequence("diag"), ReadBootMgr})
  BY DEF PlainIn, Reusing, OneTimes
<1> HIDE DEF op, p1, X
<1>3. op \notin {"testboot", "clean", "control"}
  BY DEF op
<1>4. Whole(op, p1 \o << Export, Sequence("diag"), ReadBootMgr, ConfirmSequence("diag"), Manifest >>, << >>)
  BY <1>0, <1>1, <1>2, <1>3, Close4
<1> QED
  BY <1>4 DEF ScheduleMadtOnce, p1, op

LEMMA CancelWhole == Whole("cancel", CancelMadtOnce, << >>)
<1> DEFINE op == "cancel"
           p1 == CurrentIsOff \o TestIsAuto
           X  == {FoundOff} \cup {FoundAuto}
           c  == [Unsequence("diag") EXCEPT !.onfail = "throw"]
<1>0. op \notin Undoing /\ op \notin Recording
  BY DEF Undoing, Disarms, Recording, Copying, Reusing, OneTimes
<1>1. Part(op, p1, << >>, X)
  BY <1>0, FirstOff, JoinConfirming
<1>2. c \in PlainIn(op, Range(p1)) /\ NoManifest(Range(p1))
  BY <1>1 DEF PlainIn, Part
<1> HIDE DEF op, p1, X, c
<1>3. Legal(op, << c >>, Range(p1)) /\ << c >> # << >> /\ {} \in SUBSET Range(<< c >>)
  BY <1>0, <1>2, PlainInFits, Legal1
<1>4. Whole(op, p1 \o << c >>, << >>)
  BY <1>0, <1>1, <1>3, PartJoin
<1> QED
  BY <1>4 DEF CancelMadtOnce, p1, op, c

\* A script makes the copy it is known by at most once.
LEMMA JoinCopy ==
    ASSUME NEW op \in {"testboot", "clean"}, NEW z, NEW a, NEW X, Part(op, z, a, X), NoCopy(Range(z)),
           op = "clean" => ConfirmNoSequence \in X
    PROVE  Part(op, z \o << MakeCopy >>, a, X \cup {MakeCopy})
<1>1. NoManifest(Range(z)) /\ X \subseteq Range(z)
  BY DEF Part
<1>2. MakeCopy.op = "copy" /\ op \in Copying
  BY CmdFields DEF MakeCopy, Copy, Copying
<1>3. Fits(op, MakeCopy, Range(z))
  BY <1>1, <1>2, CopyFits DEF NoCopy
<1>4. Legal(op, << MakeCopy >>, Range(z)) /\ Range(<< MakeCopy >>) = {MakeCopy}
  BY <1>3, Legal1
<1>5. NoManifest(Range(<< MakeCopy >>)) /\ {MakeCopy} \in SUBSET Range(<< MakeCopy >>)
  BY <1>2, <1>4 DEF NoManifest
<1> QED
  BY <1>4, <1>5, PartJoin

\* The pieces before it make none.
LEMMA JoinNoCopy ==
    ASSUME NEW op, NEW z, NEW a, NEW X, Part(op, z, a, X), NoCopy(Range(z)),
           NEW b, Legal(op, b, Range(z)), NoCopy(Range(b))
    PROVE  NoCopy(Range(z \o b))
<1>1. Legal(op, z, {})
  BY DEF Part
<1>2. Range(z \o b) = Range(z) \cup Range(b)
  BY <1>1, LegalConcat
<1> QED
  BY <1>2 DEF NoCopy

\* prepare-hyperv-test-boot.ps1.
LEMMA TestBootWhole == Whole("testboot", TestBoot, << >>)
<1> DEFINE op == "testboot"
           p0 == << Export >>
           p1 == p0 \o MakeCurrentOff
           p2 == p1 \o << MakeCopy >>
           p3 == p2 \o MakeTestAuto
           X  == ({Export} \cup {TurnOff}) \cup {MakeCopy}
<1>0. /\ op \notin Undoing /\ op \in Recording /\ op \in Copying /\ op \in {"testboot", "clean"}
      /\ op \notin Reusing \cup OneTimes \cup {"clean", "control"}
  BY DEF Undoing, Disarms, Reusing, OneTimes, Recording, Copying
<1>1. Part(op, p0, << >>, {Export})
  BY <1>0, FirstPlain DEF PlainIn
<1>2. Part(op, p1, << >>, {Export} \cup {TurnOff})
  BY <1>0, <1>1, JoinCurrentOff
<1>3. NoCopy(Range(p1))
  <2>1. NoManifest(Range(p0)) /\ Range(p0) = {Export} /\ Export.op = "export"
    BY <1>1, CmdFields DEF Part, Range, Export
  <2>2. Legal(op, MakeCurrentOff, Range(p0)) /\ NoCopy(Range(MakeCurrentOff)) /\ NoCopy(Range(p0))
    BY <1>0, <2>1, CurrentOffPiece DEF NoCopy
  <2> QED
    BY <1>1, <2>2, JoinNoCopy
<1> HIDE DEF p1
<1>4. Part(op, p2, << >>, X)
  BY <1>0, <1>2, <1>3, JoinCopy
<1> HIDE DEF p2, X
<1>5. Part(op, p3, << >>, X)
  BY <1>0, <1>4, TestAutoSetsUp, JoinSetUp
<1>6. /\ Default("current") \in PlainIn(op, X)
      /\ ShowMenu \in PlainIn(op, X \cup {Default("current")})
      /\ OnlyThese \in PlainIn(op, X \cup {Default("current"), ShowMenu})
      /\ Timeout \in PlainIn(op, X \cup {Default("current"), ShowMenu, OnlyThese})
  BY DEF PlainIn, X
<1>7. {TurnOff, Default("current"), MakeCopy} \subseteq X \cup {Default("current"), ShowMenu, OnlyThese, Timeout}
  BY DEF X
<1> HIDE DEF op, p3
<1>8. Whole(op, p3 \o << Default("current"), ShowMenu, OnlyThese, Timeout, Manifest >>, << >>)
  BY <1>0, <1>5, <1>6, <1>7, Close4
<1> QED
  BY <1>8 DEF TestBoot, MakeCopy, p0, p1, p2, p3, op

\* A piece with two commands of which the second makes the copy.
LEMMA JoinDefaultCopy ==
    ASSUME NEW z, NEW a, NEW X, Part("clean", z, a, X), NoCopy(Range(z)),
           {ConfirmNoSequence, TurnOff} \subseteq X
    PROVE  Part("clean", z \o << Default("current"), MakeCopy >>, a, X \cup {Default("current"), MakeCopy})
<1> DEFINE c == Default("current")
           b == << c, MakeCopy >>
<1>1. NoManifest(Range(z)) /\ X \subseteq Range(z)
  BY DEF Part
<1>2. c.op = "default" /\ MakeCopy.op = "copy" /\ "clean" \in Copying
  BY CmdFields DEF Default, MakeCopy, Copy, Copying
<1>3. Fits("clean", c, Range(z)) /\ NoManifest(Range(z) \cup {c})
  <2>1. c \in PlainIn("clean", Range(z)) /\ "clean" \notin Undoing
    BY <1>1 DEF PlainIn, Undoing, Disarms
  <2> QED
    BY <1>1, <2>1, PlainInFits
<1>4. Fits("clean", MakeCopy, Range(z) \cup {c})
  <2>1. MakeCopy \notin Range(z) \cup {c} /\ ConfirmNoSequence \in Range(z) \cup {c}
    BY <1>1, <1>2 DEF NoCopy
  <2> QED
    BY <1>2, <1>3, <2>1, CopyFits
<1>5. Legal("clean", b, Range(z)) /\ Range(b) = {c, MakeCopy}
  BY <1>3, <1>4, Legal2
<1>6. NoManifest(Range(b)) /\ {c, MakeCopy} \in SUBSET Range(b)
  BY <1>2, <1>5 DEF NoManifest
<1> HIDE DEF b
<1>7. Part("clean", z \o b, a, X \cup {c, MakeCopy})
  BY <1>5, <1>6, PartJoin
<1> QED
  BY <1>7 DEF b

\* prepare-hyperv-madt-once-clean.ps1.
LEMMA CleanWhole == Whole("clean", MadtOneTimeClean, << >>)
<1> DEFINE op == "clean"
           b1 == << ConfirmNoSequence, Export >>
           b3 == << Default("current"), MakeCopy >>
           p1 == CurrentIsOff \o b1
           p2 == p1 \o MakeCurrentOff
           p3 == p2 \o b3
           p4 == p3 \o MakeTestAuto
           p5 == p4 \o << Sequence("diag") >>
           p6 == p5 \o CurrentIsOff
           p7 == p6 \o TestIsAuto
           X1 == {FoundOff} \cup {ConfirmNoSequence, Export}
           X3 == (X1 \cup {TurnOff}) \cup {Default("current"), MakeCopy}
           X7 == ((X3 \cup {Sequence("diag")}) \cup {FoundOff}) \cup {FoundAuto}
<1>0. /\ op \notin Undoing /\ op \in Recording /\ op \in Copying
      /\ op \notin Reusing \cup OneTimes \cup {"control", "madtonce"}
  BY DEF Undoing, Disarms, Reusing, OneTimes, Recording, Copying
<1>1. Part(op, p1, << >>, X1)
  <2>1. ConfirmNoSequence \in PlainIn(op, {FoundOff}) /\ Export \in PlainIn(op, {FoundOff} \cup {ConfirmNoSequence})
    BY DEF PlainIn
  <2> QED
    BY <1>0, <2>1, FirstOff, JoinPlain2
<1>2. NoCopy(Range(p1)) /\ NoManifest(Range(p1))
  <2>1. Part(op, CurrentIsOff, << >>, {FoundOff}) /\ NoManifest(Range(CurrentIsOff)) /\ NoCopy(Range(CurrentIsOff))
    BY <1>0, FirstOff, NothingBehind, ConfirmingPieces
  <2>2. /\ Fits(op, ConfirmNoSequence, Range(CurrentIsOff)) /\ ConfirmNoSequence.op # "copy"
        /\ Fits(op, Export, Range(CurrentIsOff) \cup {ConfirmNoSequence}) /\ Export.op # "copy"
    <3>1. ConfirmNoSequence \in PlainIn(op, Range(CurrentIsOff))
          /\ Export \in PlainIn(op, Range(CurrentIsOff) \cup {ConfirmNoSequence})
      BY DEF PlainIn
    <3> QED
      BY <1>0, <2>1, <3>1, PlainInFits
  <2>3. Legal(op, b1, Range(CurrentIsOff)) /\ Range(b1) = {ConfirmNoSequence, Export}
    BY <2>2, Legal2
  <2> HIDE DEF b1
  <2>4. NoCopy(Range(b1))
    BY <2>2, <2>3 DEF NoCopy
  <2>5. NoCopy(Range(p1))
    BY <2>1, <2>3, <2>4, JoinNoCopy
  <2> QED
    BY <1>1, <2>5 DEF Part
<1> HIDE DEF p1
<1>3. Part(op, p2, << >>, X1 \cup {TurnOff})
  BY <1>0, <1>1, JoinCurrentOff
<1>4. NoCopy(Range(p2))
  <2>1. Legal(op, MakeCurrentOff, Range(p1)) /\ NoCopy(Range(MakeCurrentOff))
    BY <1>0, <1>2, CurrentOffPiece
  <2> QED
    BY <1>1, <1>2, <2>1, JoinNoCopy
<1> HIDE DEF p2
<1>5. Part(op, p3, << >>, X3)
  BY <1>3, <1>4, JoinDefaultCopy
<1> HIDE DEF p3, X3
<1>6. Part(op, p4, << >>, X3)
  BY <1>0, <1>5, TestAutoSetsUp, JoinSetUp
<1> HIDE DEF p4
<1>7. Part(op, p5, << >>, X3 \cup {Sequence("diag")})
  <2>1. Sequence("diag") \in PlainIn(op, X3)
    BY DEF PlainIn
  <2> QED
    BY <1>0, <1>6, <2>1, JoinPlain
<1> HIDE DEF p5
<1>8. Part(op, p7, << >>, X7)
  <2>1. Part(op, p6, << >>, (X3 \cup {Sequence("diag")}) \cup {FoundOff})
    BY <1>0, <1>7, JoinConfirming
  <2> HIDE DEF p6
  <2> QED
    BY <1>0, <2>1, JoinConfirming
<1>9. /\ ConfirmSequence("diag") \in PlainIn(op, X7)
      /\ Export \in PlainIn(op, X7 \cup {ConfirmSequence("diag")})
      /\ {TurnOff, Default("current"), MakeCopy} \subseteq X7 \cup {ConfirmSequence("diag"), Export}
  BY DEF PlainIn, X3
<1> HIDE DEF op, p7, X7
<1>10. Whole(op, p7 \o << ConfirmSequence("diag"), Export, Manifest >>, << >>)
  BY <1>0, <1>8, <1>9, Close2
<1> QED
  BY <1>10 DEF MadtOneTimeClean, MakeCopy, p1, p2, p3, p4, p5, p6, p7, op

\* What a script checks of both entries before it goes on with b.
LEMMA CheckedFirst ==
    ASSUME NEW b \in Seq(Commands)
    PROVE  LET q == CurrentIsOff \o TestIsAuto \o b
           IN  /\ Len(q) = 4 + Len(b)
               /\ \A k \in 1 .. 4 : q[k].op = "confirm"
               /\ \A k \in 1 .. Len(b) : q[4 + k] = b[k]
<1> DEFINE p == CurrentIsOff \o TestIsAuto
           q == p \o b
<1>1. /\ CurrentIsOff \in Seq(Commands) /\ TestIsAuto \in Seq(Commands)
      /\ Len(CurrentIsOff) = 2 /\ Len(TestIsAuto) = 2
  <2>1. "safe" \notin Undoing
    BY DEF Undoing, Disarms
  <2> QED
    BY <2>1, NothingBehind, ConfirmingPieces DEF Legal, CurrentIsOff, TestIsAuto
<1>2. \A k \in 1 .. 2 : CurrentIsOff[k].op = "confirm" /\ TestIsAuto[k].op = "confirm"
  BY CmdFields DEF CurrentIsOff, TestIsAuto, Confirm
<1>3. /\ p \in Seq(Commands) /\ Len(p) = 4
      /\ \A k \in 1 .. 2 : p[k] = CurrentIsOff[k] /\ p[2 + k] = TestIsAuto[k]
  <2>1. /\ p \in Seq(Commands) /\ Len(p) = Len(CurrentIsOff) + Len(TestIsAuto)
        /\ \A k \in 1 .. Len(CurrentIsOff) : p[k] = CurrentIsOff[k]
        /\ \A k \in 1 .. Len(TestIsAuto) : p[Len(CurrentIsOff) + k] = TestIsAuto[k]
    <3>1. CurrentIsOff \in Seq(Commands) /\ TestIsAuto \in Seq(Commands)
      BY <1>1
    <3> QED
      BY <3>1, ConcatSeq
  <2> HIDE DEF p
  <2> QED
    BY <1>1, <2>1
<1> HIDE DEF p
<1>4. \A k \in 1 .. 4 : p[k].op = "confirm"
  <2> SUFFICES ASSUME NEW k \in 1 .. 4 PROVE p[k].op = "confirm"
    OBVIOUS
  <2>1. CASE k \in 1 .. 2
    BY <1>2, <1>3, <2>1
  <2>2. CASE k \notin 1 .. 2
    <3>1. k - 2 \in 1 .. 2 /\ 2 + (k - 2) = k
      BY <2>2
    <3>2. p[2 + (k - 2)] = TestIsAuto[k - 2]
      BY <3>1, <1>3
    <3> QED
      BY <3>1, <3>2, <1>2
  <2> QED
    BY <2>1, <2>2
<1>5. p \in Seq(Commands)
  BY <1>3
<1>6. /\ Len(q) = Len(p) + Len(b) /\ \A k \in 1 .. Len(p) : q[k] = p[k]
      /\ \A k \in 1 .. Len(b) : q[Len(p) + k] = b[k]
  BY <1>5, ConcatSeq
<1> HIDE DEF q
<1>7. Len(q) = 4 + Len(b) /\ (\A k \in 1 .. 4 : q[k].op = "confirm") /\ \A k \in 1 .. Len(b) : q[4 + k] = b[k]
  BY <1>3, <1>4, <1>6
<1> QED
  BY <1>7 DEF p, q

\* What a one-time script checks before it touches anything is 6 commands long.
LEMMA PreludePart ==
    ASSUME NEW op, op \notin Undoing
    PROVE  /\ Part(op, OneTimePrelude, OneTimePrelude, {FoundOff, FoundAuto, ConfirmNoSequence, Export})
           /\ Len(OneTimePrelude) = 6
           /\ OneTimePrelude[5] = ConfirmNoSequence
           /\ \A k \in 1 .. 5 : OneTimePrelude[k] # Export
<1> DEFINE b == << ConfirmNoSequence, Export >>
           p == CurrentIsOff \o TestIsAuto
           q == p \o b
           X == {FoundOff} \cup {FoundAuto}
<1>1. Part(op, p, << >>, X)
  BY FirstOff, JoinConfirming
<1>2. Part(op, p \o b, << >>, X \cup {ConfirmNoSequence, Export})
  <2>1. ConfirmNoSequence \in PlainIn(op, X) /\ Export \in PlainIn(op, X \cup {ConfirmNoSequence})
    BY DEF PlainIn
  <2> HIDE DEF X, p
  <2> QED
    BY <1>1, <2>1, JoinPlain2
<1>3. Part(op, q, q, {FoundOff, FoundAuto, ConfirmNoSequence, Export})
  <2>1. {FoundOff, FoundAuto, ConfirmNoSequence, Export} = X \cup {ConfirmNoSequence, Export}
    OBVIOUS
  <2> HIDE DEF p, X
  <2> QED
    BY <1>2, <2>1, PartStarts
<1>4. ConfirmNoSequence \in Commands /\ Export \in Commands
  <2>1. ConfirmNoSequence \in PlainIn("safe", {}) /\ Export \in PlainIn("safe", {}) /\ "safe" \notin Undoing
    BY DEF PlainIn, Reusing, OneTimes, Undoing, Disarms
  <2> QED
    BY <2>1, NothingBehind, PlainInFits DEF Fits, Lawful
<1>5. b \in Seq(Commands) /\ Len(b) = 2 /\ b[1] = ConfirmNoSequence
  BY <1>4
<1> HIDE DEF b
<1>6. Len(q) = 6 /\ (\A k \in 1 .. 4 : q[k].op = "confirm") /\ q[5] = ConfirmNoSequence
  <2>1. Len(q) = 4 + Len(b) /\ (\A k \in 1 .. 4 : q[k].op = "confirm") /\ \A k \in 1 .. Len(b) : q[4 + k] = b[k]
    BY <1>5, CheckedFirst
  <2> HIDE DEF q
  <2>2. 1 \in 1 .. Len(b)
    BY <1>5
  <2> QED
    BY <1>5, <2>1, <2>2
<1> HIDE DEF q
<1>7. \A k \in 1 .. 5 : q[k] # Export
  <2>1. Export.op = "export" /\ ConfirmNoSequence.op = "confirmnosequence"
    BY CmdFields DEF Export, ConfirmNoSequence
  <2>2. \A k \in 1 .. 5 : k \in 1 .. 4 \/ k = 5
    OBVIOUS
  <2> QED
    BY <1>6, <2>1, <2>2
<1> QED
  BY <1>3, <1>6, <1>7 DEF OneTimePrelude, p, b, q

\* Those of prepare-hyperv-7e-capture-once.ps1, and the registry values it sets.
CapturePrelude == CurrentIsOff \o TestIsAuto \o << ConfirmNoSequence, ExportReg, Export, ShowCrash >>
LEMMA CapturePart ==
    /\ Part("capture7e", CapturePrelude, CapturePrelude, {FoundOff, FoundAuto, ConfirmNoSequence})
    /\ Len(CapturePrelude) = 8
    /\ CapturePrelude[5] = ConfirmNoSequence
    /\ \A k \in 1 .. 6 : CapturePrelude[k] # Export
<1> DEFINE op == "capture7e"
           b == << ConfirmNoSequence, ExportReg, Export, ShowCrash >>
           p == CurrentIsOff \o TestIsAuto
           q == p \o b
           X == {FoundOff} \cup {FoundAuto}
<1>0. op \notin Undoing
  BY DEF Undoing, Disarms
<1>1. Part(op, p, << >>, X)
  BY <1>0, FirstOff, JoinConfirming
<1>2. Part(op, q, << >>, X \cup {ConfirmNoSequence, ExportReg, Export, ShowCrash})
  <2>1. /\ ConfirmNoSequence \in PlainIn(op, X) /\ ExportReg \in PlainIn(op, X \cup {ConfirmNoSequence})
        /\ Export \in PlainIn(op, X \cup {ConfirmNoSequence, ExportReg})
        /\ ShowCrash \in PlainIn(op, X \cup {ConfirmNoSequence, ExportReg, Export})
    BY DEF PlainIn
  <2> HIDE DEF X, p, op
  <2> QED
    BY <1>0, <1>1, <2>1, JoinPlain4
<1>3. Part(op, q, q, {FoundOff, FoundAuto, ConfirmNoSequence})
  <2>1. Part(op, q, q, X \cup {ConfirmNoSequence, ExportReg, Export, ShowCrash})
    BY <1>2, PartStarts
  <2> HIDE DEF q
  <2> QED
    BY <2>1 DEF Part
<1>4. {ConfirmNoSequence, ExportReg, Export, ShowCrash} \subseteq Commands
  <2>1. /\ {ConfirmNoSequence, ExportReg, ShowCrash} \subseteq PlainIn(op, {})
        /\ Export \in PlainIn("safe", {}) /\ "safe" \notin Undoing
    BY DEF PlainIn, Reusing, OneTimes, Undoing, Disarms
  <2>2. Fits("safe", Export, {}) /\ \A c \in {ConfirmNoSequence, ExportReg, ShowCrash} : Fits(op, c, {})
    BY <1>0, <2>1, NothingBehind, PlainInFits
  <2> QED
    BY <2>2 DEF Fits, Lawful
<1>5. b \in Seq(Commands) /\ Len(b) = 4 /\ b[1] = ConfirmNoSequence /\ b[2] = ExportReg
  BY <1>4
<1> HIDE DEF b
<1>6. Len(q) = 8 /\ (\A k \in 1 .. 4 : q[k].op = "confirm") /\ q[5] = ConfirmNoSequence /\ q[6] = ExportReg
  <2>1. Len(q) = 4 + Len(b) /\ (\A k \in 1 .. 4 : q[k].op = "confirm") /\ \A k \in 1 .. Len(b) : q[4 + k] = b[k]
    BY <1>5, CheckedFirst
  <2> HIDE DEF q
  <2>2. 1 \in 1 .. Len(b) /\ 2 \in 1 .. Len(b)
    BY <1>5
  <2> QED
    BY <1>5, <2>1, <2>2
<1> HIDE DEF q
<1>7. \A k \in 1 .. 6 : q[k] # Export
  <2>1. Export.op = "export" /\ ConfirmNoSequence.op = "confirmnosequence" /\ ExportReg.op = "exportreg"
    BY CmdFields DEF Export, ConfirmNoSequence, ExportReg
  <2>2. \A k \in 1 .. 6 : k \in 1 .. 4 \/ k = 5 \/ k = 6
    OBVIOUS
  <2> QED
    BY <1>6, <2>1, <2>2
<1> QED
  BY <1>3, <1>6, <1>7 DEF CapturePrelude, p, b, q, op

\* prepare-hyperv-7e-capture-once.ps1.
LEMMA CaptureWhole == Whole("capture7e", Capture7e, CapturePrelude)
<1> DEFINE op == "capture7e"
           p1 == CapturePrelude \o MakeTestAuto
           p2 == p1 \o Capture
           p3 == p2 \o << Sequence("diag") >>
           p4 == p3 \o TestIsAuto
           X  == {FoundOff, FoundAuto, ConfirmNoSequence}
           X4 == (X \cup {Sequence("diag")}) \cup {FoundAuto}
           c  == Confirm("diag", "capture", "on")
<1>0. /\ op \notin Undoing /\ op \in Recording /\ op \in Reusing /\ op \in SetNoDefault
      /\ op \notin OneTimes \cup {"testboot", "clean", "control", "madtonce"}
  BY DEF Undoing, Disarms, Reusing, OneTimes, Recording, SetNoDefault
<1>1. Part(op, p1, CapturePrelude, X)
  BY <1>0, CapturePart, TestAutoSetsUp, JoinSetUp
<1> HIDE DEF p1, op
<1>2. Part(op, p2, CapturePrelude, X)
  BY <1>0, <1>1, CaptureSetsUp, JoinSetUp
<1> HIDE DEF p2
<1>3. Part(op, p3, CapturePrelude, X \cup {Sequence("diag")})
  <2>1. Sequence("diag") \in PlainIn(op, X)
    BY <1>0 DEF PlainIn
  <2> QED
    BY <1>0, <1>2, <2>1, JoinPlain
<1> HIDE DEF p3
<1>4. Part(op, p4, CapturePrelude, X4)
  BY <1>0, <1>3, JoinConfirming
<1>5. /\ c \in PlainIn(op, X4)
      /\ ConfirmSequence("diag") \in PlainIn(op, X4 \cup {c})
      /\ Export \in PlainIn(op, X4 \cup {c, ConfirmSequence("diag")})
  BY <1>0 DEF PlainIn, Elements, Values
<1> HIDE DEF p4, X4, c
<1>6. Whole(op, p4 \o << c, ConfirmSequence("diag"), Export, Manifest >>, CapturePrelude)
  BY <1>0, <1>4, <1>5, Close3
<1> QED
  BY <1>6 DEF Capture7e, CapturePrelude, p1, p2, p3, p4, op, c

\* The one-time scripts, whatever they set up and confirm.
LEMMA OneTimeWhole ==
    ASSUME NEW op \in OneTimes, NEW settings, SetsUp(op, settings),
           NEW confirm, NoManifest(Range(confirm)), \A P : NoManifest(P) => Legal(op, confirm, P),
           op = "control" => \A x \in Range(Isolators) : Confirm("diag", x, "absent") \in Range(confirm)
    PROVE  Whole(op, OneTime(settings, confirm), OneTimePrelude)
<1> DEFINE O  == OneTimePrelude
           p1 == O \o MakeCurrentOff
           p2 == p1 \o << Default("current") >>
           p3 == p2 \o ClearAll(Isolators)
           p4 == p3 \o << Set("diag", "desc", "test") >>
           p5 == p4 \o MakeTestAuto
           p6 == p5 \o settings
           p7 == p6 \o Capture
           p8 == p7 \o << Sequence("diag") >>
           p9 == p8 \o CurrentIsOff
           p10 == p9 \o TestIsAuto
           p11 == p10 \o confirm
           X1 == {FoundOff, FoundAuto, ConfirmNoSequence, Export} \cup {TurnOff}
           X2 == X1 \cup {Default("current")}
           X8 == X2 \cup {Sequence("diag")}
           X10 == (X8 \cup {FoundOff}) \cup {FoundAuto}
           X11 == X10 \cup Range(confirm)
           c  == Confirm("diag", "capture", "on")
<1>0. /\ op \notin Undoing /\ op \in Recording /\ op \in Reusing /\ op \in Copying \cup Reusing
      /\ op \notin {"testboot", "clean", "madtonce", "capture7e"}
  BY DEF Undoing, Disarms, Reusing, OneTimes, Recording
<1>1. Part(op, p1, O, X1)
  BY <1>0, PreludePart, JoinCurrentOff
<1>2. Default("current") \in PlainIn(op, X1) /\ {FoundOff, FoundAuto, Default("current")} \subseteq X2
  BY DEF PlainIn
<1> HIDE DEF O, p1, X1
<1>3. Part(op, p2, O, X2)
  BY <1>0, <1>1, <1>2, JoinPlain
<1> HIDE DEF p2, X2
<1>4. Part(op, p3, O, X2)
  <2>1. Isolators \in Seq(Elements \ {"launch"})
    BY DEF Isolators, Elements
  <2>2. SetsUp(op, ClearAll(Isolators))
    BY <1>0, <2>1, ClearAllSetsUp
  <2> QED
    BY <1>0, <1>2, <1>3, <2>2, JoinSetUp
<1> HIDE DEF p3
<1>5. Part(op, p4, O, X2)
  <2>1. "desc" \in Elements \ {"launch"} /\ "test" \in Values /\ "desc" \notin Range(Isolators)
    BY DEF Elements, Values, Isolators, Range
  <2>2. SetsUp(op, << Set("diag", "desc", "test") >>)
    BY <1>0, <2>1, SettingSetsUp
  <2> QED
    BY <1>0, <1>2, <1>4, <2>2, JoinSetUp
<1> HIDE DEF p4
<1>6. Part(op, p5, O, X2)
  BY <1>0, <1>2, <1>5, TestAutoSetsUp, JoinSetUp
<1> HIDE DEF p5
<1>7. Part(op, p6, O, X2)
  BY <1>0, <1>2, <1>6, JoinSetUp
<1> HIDE DEF p6
<1>8. Part(op, p7, O, X2)
  BY <1>0, <1>2, <1>7, CaptureSetsUp, JoinSetUp
<1> HIDE DEF p7
<1>9. Part(op, p8, O, X8)
  <2>1. Sequence("diag") \in PlainIn(op, X2)
    BY <1>0 DEF PlainIn
  <2> QED
    BY <1>0, <1>8, <2>1, JoinPlain
<1> HIDE DEF p8
<1>10. Part(op, p9, O, X8 \cup {FoundOff})
  BY <1>0, <1>9, JoinConfirming
<1> HIDE DEF p9
<1>11. Part(op, p10, O, X10)
  BY <1>0, <1>10, JoinConfirming
<1> HIDE DEF p10, X10
<1>12. Part(op, p11, O, X11)
  <2>1. NoManifest(Range(p10)) /\ Range(confirm) \in SUBSET Range(confirm)
    BY <1>11 DEF Part
  <2> QED
    BY <1>11, <2>1, PartJoin
<1>13. {TurnOff, Default("current"), ConfirmNoSequence} \subseteq X11
  BY DEF X1, X2, X8, X10, X11
<1>14. /\ c \in PlainIn(op, X11)
       /\ ConfirmSequence("diag") \in PlainIn(op, X11 \cup {c})
       /\ Export \in PlainIn(op, X11 \cup {c, ConfirmSequence("diag")})
  BY <1>0, <1>13 DEF PlainIn, Elements, Values
<1>15. op = "control" => \A x \in Range(Isolators) : Confirm("diag", x, "absent") \in X11
  OBVIOUS
<1> HIDE DEF p11, X11, c
<1>16. Whole(op, p11 \o << c, ConfirmSequence("diag"), Export, Manifest >>, O)
  BY <1>0, <1>12, <1>13, <1>14, <1>15, Close3
<1> QED
  BY <1>16 DEF OneTime, O, p1, p2, p3, p4, p5, p6, p7, p8, p9, p10, p11, c

\* prepare-hyperv-onelp-once.ps1, prepare-hyperv-novapic-once.ps1 and
\* prepare-hyperv-opencore-control-once.ps1.
LEMMA OneTimesWhole ==
    /\ Whole("onelp", OneLp, OneTimePrelude)
    /\ Whole("novapic", NoVapic, OneTimePrelude)
    /\ Whole("control", OpenCoreControl, OneTimePrelude)
<1>1. /\ "onelp" \in OneTimes /\ "novapic" \in OneTimes /\ "control" \in OneTimes
      /\ "onelp" \notin Undoing /\ "novapic" \notin Undoing /\ "control" \notin Undoing
  BY DEF OneTimes, Undoing, Disarms
<1>2. {"numproc", "vapic"} \subseteq Elements \ {"launch"} /\ {"on", "off", "absent"} \subseteq Values
  BY DEF Elements, Values
<1>3. Whole("onelp", OneLp, OneTimePrelude)
  <2> DEFINE c == Confirm("diag", "numproc", "on")
  <2>1. \A P : NoManifest(P) => Fits("onelp", c, P) /\ c.op = "confirm"
    BY <1>1, <1>2, ConfirmFits
  <2>2. SetsUp("onelp", << Set("diag", "numproc", "on") >>)
    BY <1>2, SettingSetsUp
  <2> HIDE DEF c
  <2>3. \A P : NoManifest(P) => Legal("onelp", << c >>, P) /\ Range(<< c >>) = {c}
    BY <2>1, Legal1
  <2>4. NoManifest(Range(<< c >>))
    BY <2>1, <2>3, NothingBehind DEF NoManifest
  <2>5. Whole("onelp", OneTime(<< Set("diag", "numproc", "on") >>, << c >>), OneTimePrelude)
    BY <1>1, <2>2, <2>3, <2>4, OneTimeWhole
  <2> QED
    BY <2>5 DEF OneLp, c
<1>4. Whole("novapic", NoVapic, OneTimePrelude)
  <2> DEFINE c == Confirm("diag", "vapic", "off")
             d == Confirm("diag", "numproc", "absent")
  <2>1. \A P : NoManifest(P) => Fits("novapic", c, P) /\ Fits("novapic", d, P) /\ c.op = "confirm" /\ d.op = "confirm"
    BY <1>1, <1>2, ConfirmFits
  <2>2. SetsUp("novapic", << Set("diag", "vapic", "off") >>)
    BY <1>2, SettingSetsUp
  <2> HIDE DEF c, d
  <2>3. ASSUME NEW P, NoManifest(P) PROVE Legal("novapic", << c, d >>, P) /\ Range(<< c, d >>) = {c, d}
    <3>1. NoManifest(P \cup {c})
      BY <2>1, <2>3 DEF NoManifest
    <3> QED
      BY <2>1, <2>3, <3>1, Legal2
  <2>4. NoManifest(Range(<< c, d >>))
    BY <2>1, <2>3, NothingBehind DEF NoManifest
  <2>5. Whole("novapic", OneTime(<< Set("diag", "vapic", "off") >>, << c, d >>), OneTimePrelude)
    BY <1>1, <2>2, <2>3, <2>4, OneTimeWhole
  <2> QED
    BY <2>5 DEF NoVapic, c, d
<1>5. Whole("control", OpenCoreControl, OneTimePrelude)
  <2>1. SetsUp("control", << >>)
    BY DEF SetsUp, Legal, NoManifest, Range
  <2>2. Isolators \in Seq(Elements)
    BY DEF Isolators, Elements
  <2>3. /\ NoManifest(Range(AllAbsent(Isolators))) /\ \A P : NoManifest(P) => Legal("control", AllAbsent(Isolators), P)
        /\ \A x \in Range(Isolators) : Confirm("diag", x, "absent") \in Range(AllAbsent(Isolators))
    BY <1>1, <2>2, NothingBehind, AllAbsentPiece
  <2>4. Whole("control", OneTime(<< >>, AllAbsent(Isolators)), OneTimePrelude)
    BY <1>1, <2>1, <2>3, OneTimeWhole
  <2> QED
    BY <2>4 DEF OpenCoreControl
<1> QED
  BY <1>3, <1>4, <1>5

\* The catch blocks.
LEMMA UndoWhole ==
    /\ Whole("undoonetime", UndoOneTime, << >>) /\ Len(UndoOneTime) = 1 /\ UndoOneTime[1] = Unsequence("diag")
    /\ Whole("undoclean", UndoClean, << >>) /\ Len(UndoClean) = 2 /\ UndoClean[1] = Unsequence("diag")
    /\ UndoClean[2] = DeleteQuietly("diag")
    /\ Whole("undocapture", UndoCapture, << >>) /\ Len(UndoCapture) = 2 /\ UndoCapture[1] = Unsequence("diag")
    /\ Whole("undomatrix", UndoMatrix, << >>)
<1> DEFINE u == Unsequence("diag")
           d == DeleteQuietly("diag")
<1>1. /\ {"undoonetime", "undoclean", "undocapture"} \subseteq Disarms
      /\ {"undoonetime", "undoclean", "undocapture", "undomatrix"} \subseteq Undoing
      /\ {"undoonetime", "undoclean", "undocapture", "undomatrix"} \cap Recording = {}
  BY DEF Disarms, Undoing, Recording, Copying, Reusing, OneTimes
<1>2. /\ \A op \in Disarms : op \in Undoing => Fits(op, u, {}) /\ u.op # "manifest"
      /\ Fits("undomatrix", DeleteMade, {})
  BY <1>1, NothingBehind, UndoFits
<1>3. Fits("undoclean", d, {} \cup {u}) /\ Fits("undocapture", ImportReg, {} \cup {u})
  <2>1. NoManifest({} \cup {u})
    BY <1>1, <1>2 DEF NoManifest
  <2> QED
    BY <1>1, <2>1, UndoFits
<1> HIDE DEF u, d
<1>4. Legal("undoonetime", << u >>, {}) /\ Legal("undomatrix", << DeleteMade >>, {})
  BY <1>1, <1>2, Legal1
<1>5. Legal("undoclean", << u, d >>, {}) /\ Legal("undocapture", << u, ImportReg >>, {})
  BY <1>1, <1>2, <1>3, Legal2
<1>6. \A z \in {<< u >>, << DeleteMade >>, << u, d >>, << u, ImportReg >>} : z # << >> /\ Starts(z, << >>)
  BY DEF Starts
<1> QED
  BY <1>1, <1>4, <1>5, <1>6 DEF Whole, UndoOneTime, UndoClean, UndoCapture, UndoMatrix, u, d

\* remove-hyperv-diagnostic-matrix.ps1.
LEMMA RemoveMatrixWhole == Whole("unmatrix", RemoveMatrix, << >>)
<1> DEFINE op == "unmatrix"
           p0 == << Export, DeleteTodo >>
           p1 == p0 \o MakeCurrentOff
           b  == << Default("current"), ShowMenu, Timeout >>
           X  == {Export, DeleteTodo} \cup {TurnOff}
<1>0. op \notin Undoing \cup Recording \cup Reusing \cup {"clean"}
  BY DEF Undoing, Disarms, Recording, Copying, Reusing, OneTimes
<1>1. Part(op, p0, << >>, {Export, DeleteTodo})
  BY <1>0, FirstPlain2 DEF PlainIn
<1> HIDE DEF p0
<1>2. Part(op, p1, << >>, X)
  BY <1>0, <1>1, JoinCurrentOff
<1>3. /\ Default("current") \in PlainIn(op, X) /\ ShowMenu \in PlainIn(op, X \cup {Default("current")})
      /\ Timeout \in PlainIn(op, X \cup {Default("current"), ShowMenu})
  BY DEF PlainIn
<1> HIDE DEF op, p1, X
<1>4. Part(op, p1 \o b, << >>, X \cup {Default("current"), ShowMenu, Timeout})
  BY <1>0, <1>2, <1>3, JoinPlain3
<1>5. p1 \o b # << >>
  <2>1. p1 \o b \in Seq(Commands) /\ Default("current") \in Range(p1 \o b)
    BY <1>4 DEF Part, Legal
  <2> HIDE DEF b
  <2>2. p1 \o b = << >> => Range(p1 \o b) = {}
    BY DEF Range
  <2> QED
    BY <2>1, <2>2
<1> HIDE DEF b
<1>6. Whole(op, p1 \o b, << >>)
  BY <1>0, <1>4, <1>5 DEF Part, Whole
<1> QED
  BY <1>6 DEF RemoveMatrix, p0, p1, b, op

\* The commands that make the entries of a matrix.
MatrixCommands == {c \in Commands : Lawful("matrix", c)
                                    /\ c.op \in SettingOps \cup {"copy", "displayorder"}}

\* They fit anywhere in the script.
LEMMA MatrixPiece ==
    ASSUME NEW P, NoManifest(P), NEW z \in Seq(MatrixCommands)
    PROVE  Legal("matrix", z, P) /\ NoManifest(Range(z))
<1>1. Len(z) \in Nat /\ DOMAIN z = 1 .. Len(z) /\ \A k \in 1 .. Len(z) : z[k] \in MatrixCommands
  OBVIOUS
<1>2. z \in Seq(Commands)
  BY DEF MatrixCommands
<1>3. \A k \in 1 .. Len(z) : z[k].op # "manifest" /\ Lawful("matrix", z[k])
  BY <1>1 DEF MatrixCommands, SettingOps
<1>4. Export.op = "export" /\ ConfirmSequence("diag").op = "confirmsequence"
  BY CmdFields DEF Export, ConfirmSequence
<1>5. ASSUME NEW k \in 1 .. Len(z) PROVE Follows("matrix", z[k], P \cup Before(z, k))
  <2> DEFINE Q == P \cup Before(z, k)
  <2>1. \A j \in 1 .. k - 1 : j \in 1 .. Len(z)
    BY <1>1
  <2>2. \A e \in Q : e.op # "manifest"
    BY <1>3, <2>1 DEF Before, NoManifest
  <2>3. z[k].op \in SettingOps \cup {"copy", "displayorder"}
    BY <1>1 DEF MatrixCommands
  <2> HIDE DEF Q
  <2>4. "matrix" \notin Reusing /\ "matrix" \notin OneTimes
    BY DEF Reusing, OneTimes
  <2>5. Follows("matrix", z[k], Q)
    BY <1>4, <2>2, <2>3, <2>4 DEF Follows, SettingOps
  <2> QED
    BY <2>5 DEF Q
<1> QED
  BY <1>1, <1>2, <1>3, <1>5 DEF Legal, NoManifest, Range

\* One entry of the matrix is made of them.
LEMMA MatrixEntryType ==
    ASSUME NEW settings \in Seq({Set("diag", x, v) : x \in Elements \ {"launch", "vsm", "desc"},
                                                     v \in Values})
    PROVE  MatrixEntry(settings) \in Seq(MatrixCommands)
<1> DEFINE M     == MatrixCommands
           elems == Append(Isolators, "capture")
           add   == [AddLast("diag") EXCEPT !.onfail = "ignore"]
<1>1. "matrix" \in Copying \cup Reusing /\ "matrix" \notin Reusing \cup OneTimes \cup Undoing
  BY DEF Copying, Reusing, OneTimes, Undoing, Disarms
<1>2. ASSUME NEW x \in Elements, NEW v \in Values, x = "launch" => v = "auto",
             NEW c, c = Set("diag", x, v) \/ (v = "absent" /\ c = Clear("diag", x))
      PROVE  c \in M
  <2>1. Fits("matrix", c, {}) /\ c.op \in SettingOps
    BY <1>1, <1>2, NothingBehind, SetDiagFits
  <2> QED
    BY <2>1 DEF Fits, Lawful, MatrixCommands
<1>3. << MakeCopy >> \in Seq(M)
  <2>1. Fits("matrix", MakeCopy, {}) /\ MakeCopy.op = "copy"
    BY NothingBehind, CopyFits DEF Copying
  <2> QED
    BY <2>1 DEF Fits, Lawful, MatrixCommands
<1>4. << add >> \in Seq(M)
  <2>1. Fits("matrix", add, {})
    BY <1>1, NothingBehind, BootMgrFits
  <2>2. add.op = "displayorder"
    BY CmdFields DEF AddLast, Cmd
  <2> HIDE DEF add
  <2>3. add \in Commands /\ Lawful("matrix", add)
    BY <2>1 DEF Fits, Lawful
  <2> QED
    BY <2>2, <2>3 DEF MatrixCommands
<1>5. ClearAll(elems) \in Seq(M)
  <2>1. elems \in Seq(Elements \ {"launch"}) /\ "absent" \in Values
    BY DEF Isolators, Elements, Values
  <2> HIDE DEF elems
  <2>2. \A k \in DOMAIN elems : Clear("diag", elems[k]) \in M
    BY <1>2, <2>1
  <2>3. ClearAll(elems) \in [1 .. Len(elems) -> M] /\ Len(elems) \in Nat
    BY <2>1, <2>2 DEF ClearAll
  <2> HIDE DEF M
  <2> QED
    BY <2>3
<1>6. MakeTestAuto \in Seq(M)
  <2>1. {"launch", "vsm"} \subseteq Elements /\ {"off", "auto"} \subseteq Values
    BY DEF Elements, Values
  <2>2. Set("diag", "launch", "auto") \in M /\ Set("diag", "vsm", "off") \in M
    BY <1>2, <2>1
  <2> QED
    BY <2>2 DEF MakeTestAuto
<1>7. settings \in Seq(M)
  <2>1. {Set("diag", x, v) : x \in Elements \ {"launch", "vsm", "desc"}, v \in Values} \subseteq M
    BY <1>2
  <2> QED
    BY <2>1
<1> DEFINE clear == ClearAll(elems)
<1>8. /\ << MakeCopy >> \in Seq(M) /\ clear \in Seq(M) /\ MakeTestAuto \in Seq(M)
      /\ settings \in Seq(M) /\ << add >> \in Seq(M)
  BY <1>3, <1>4, <1>5, <1>6, <1>7
<1>9. (<< MakeCopy >> \o clear \o MakeTestAuto \o settings \o << add >>) \in Seq(M)
  <2> HIDE DEF M, clear, add
  <2> QED
    BY <1>8
<1> QED
  BY <1>9 DEF MatrixEntry, MakeCopy

\* prepare-hyperv-diagnostic-matrix.ps1.
LEMMA MatrixWhole == Whole("matrix", Matrix, << >>)
<1> DEFINE op == "matrix"
           p0 == << Export >>
           p1 == p0 \o MakeCurrentOff
           p2 == p1 \o << Default("current"), ShowMenu, Timeout >>
           F  == FlattenSeq([k \in DOMAIN MatrixTests |-> MatrixEntry(MatrixTests[k])])
           p3 == p2 \o F
           X  == {Export} \cup {TurnOff}
           Y  == X \cup {Default("current"), ShowMenu, Timeout}
<1>0. /\ op \notin Undoing \cup Reusing \cup {"clean", "testboot", "control"} /\ op \in Recording
      /\ op = "matrix"
  BY DEF Undoing, Disarms, Recording, Copying, Reusing, OneTimes
<1>f. F \in Seq(MatrixCommands)
  <2> DEFINE T == {Set("diag", x, v) : x \in Elements \ {"launch", "vsm", "desc"}, v \in Values}
             ss == [k \in DOMAIN MatrixTests |-> MatrixEntry(MatrixTests[k])]
  <2>1. MatrixTests \in Seq(Seq(T))
    BY LegacyAssumption
  <2>2. \A k \in DOMAIN MatrixTests : MatrixTests[k] \in Seq(T)
    <3> HIDE DEF T
    <3> QED
      BY <2>1
  <2>3. ASSUME NEW k \in DOMAIN MatrixTests PROVE MatrixEntry(MatrixTests[k]) \in Seq(MatrixCommands)
    <3> DEFINE settings == MatrixTests[k]
    <3>1. settings \in Seq(T)
      BY <2>2
    <3> HIDE DEF settings
    <3>2. MatrixEntry(settings) \in Seq(MatrixCommands)
      BY <3>1, MatrixEntryType
    <3> QED
      BY <3>2 DEF settings
  <2>4. DOMAIN MatrixTests = 1 .. Len(MatrixTests) /\ Len(MatrixTests) \in Nat
    <3> HIDE DEF T
    <3> QED
      BY <2>1
  <2>5. ss \in Seq(Seq(MatrixCommands))
    BY <2>3, <2>4
  <2> QED
    BY <2>5, FlattenSeqType
<1> HIDE DEF F
<1>1. Part(op, p0, << >>, {Export})
  BY <1>0, FirstPlain DEF PlainIn
<1> HIDE DEF p0
<1>2. Part(op, p1, << >>, X)
  BY <1>0, <1>1, JoinCurrentOff
<1>3. /\ Default("current") \in PlainIn(op, X) /\ ShowMenu \in PlainIn(op, X \cup {Default("current")})
      /\ Timeout \in PlainIn(op, X \cup {Default("current"), ShowMenu})
  BY DEF PlainIn
<1> HIDE DEF op, p1
<1>4. Part(op, p2, << >>, Y)
  <2> HIDE DEF X
  <2> QED
    BY <1>0, <1>2, <1>3, JoinPlain3
<1> HIDE DEF p2
<1>5. Part(op, p3, << >>, Y)
  <2> HIDE DEF Y
  <2>1. NoManifest(Range(p2))
    BY <1>4 DEF Part
  <2>2. Legal(op, F, Range(p2)) /\ NoManifest(Range(F)) /\ {} \in SUBSET Range(F) /\ Y \cup {} = Y
    BY <1>f, <1>0, <2>1, MatrixPiece
  <2>3. Part(op, p2 \o F, << >>, Y \cup {})
    BY <1>4, <2>2, PartJoin
  <2> QED
    BY <2>2, <2>3
<1> HIDE DEF p3
<1>6. {TurnOff, Default("current")} \subseteq Y
  OBVIOUS
<1> HIDE DEF Y
<1>7. Whole(op, p3 \o << Manifest >>, << >>)
  BY <1>0, <1>5, <1>6, Close
<1> QED
  BY <1>7 DEF Matrix, p0, p1, p2, p3, F, op

-----------------------------------------------------------------------------
(***************************************************************************)
(* A command of a script, and those before it.                             *)
(***************************************************************************)
\* Every script is whole, and those of one-time scripts begin with their checks.
LEMMA AllWhole ==
    ASSUME NEW op \in DOMAIN Scripts
    PROVE  \E a : /\ Whole(op, Scripts[op], a)
                  /\ op \in OneTimes => a = OneTimePrelude
                  /\ op = "capture7e" => a = CapturePrelude
<1>1. DOMAIN Scripts = {"safe", "testboot", "clean", "madtonce", "cancel", "capture7e", "onelp",
                        "novapic", "control", "matrix", "unmatrix", "undoonetime", "undoclean",
                        "undocapture", "undomatrix"}
  BY DEF Scripts
<1>2. CASE op \in {"safe", "testboot", "clean", "madtonce", "cancel"}
  BY <1>2, SafeBootWhole, TestBootWhole, CleanWhole, MadtOnceWhole, CancelWhole DEF Scripts, OneTimes
<1>3. CASE op \in {"matrix", "unmatrix", "undoonetime", "undoclean", "undocapture", "undomatrix"}
  BY <1>3, MatrixWhole, RemoveMatrixWhole, UndoWhole DEF Scripts, OneTimes
<1>4. CASE op \in {"capture7e", "onelp", "novapic", "control"}
  BY <1>4, CaptureWhole, OneTimesWhole DEF Scripts, OneTimes
<1> QED
  BY <1>1, <1>2, <1>3, <1>4

\* Every command of every script is one the script may consist of, and has
\* behind it what it relies on.
THEOREM ScriptsAreLawful ==
    \A op \in DOMAIN Scripts : \A k \in DOMAIN Scripts[op] :
        /\ Lawful(op, Scripts[op][k])
        /\ Follows(op, Scripts[op][k], Before(Scripts[op], k))
<1> SUFFICES ASSUME NEW op \in DOMAIN Scripts, NEW k \in DOMAIN Scripts[op]
             PROVE  /\ Lawful(op, Scripts[op][k])
                    /\ Follows(op, Scripts[op][k], Before(Scripts[op], k))
  OBVIOUS
<1> DEFINE z == Scripts[op]
<1>1. Legal(op, z, {})
  BY AllWhole DEF Whole
<1> HIDE DEF z
<1>2. z \in Seq(Commands) /\ DOMAIN z = 1 .. Len(z)
  BY <1>1 DEF Legal
<1>3. \A j \in DOMAIN z : Lawful(op, z[j]) /\ Follows(op, z[j], {} \cup Before(z, j))
  BY <1>1, <1>2 DEF Legal
<1>4. {} \cup Before(z, k) = Before(z, k)
  OBVIOUS
<1> QED
  BY <1>3, <1>4 DEF z

\* Where a script ends, and what it has behind it one command later.
LEMMA CommandAt ==
    ASSUME NEW op \in DOMAIN Scripts, NEW k \in DOMAIN Scripts[op]
    PROVE  /\ Len(Scripts[op]) \in Nat /\ k \in 1 .. Len(Scripts[op]) /\ 1 \in DOMAIN Scripts[op]
           /\ Scripts[op][k] \in Commands
           /\ Scripts[op][k].op = "manifest" => k = Len(Scripts[op])
           /\ op \in Recording /\ k = Len(Scripts[op]) => Scripts[op][k].op = "manifest"
           /\ k # Len(Scripts[op]) => k + 1 \in DOMAIN Scripts[op]
           /\ Before(Scripts[op], k + 1) = Before(Scripts[op], k) \cup {Scripts[op][k]}
           /\ Before(Scripts[op], 1) = {}
<1> DEFINE z == Scripts[op]
<1>1. Legal(op, z, {}) /\ (op \in Recording => z[Len(z)].op = "manifest")
  BY AllWhole DEF Whole
<1>2. \A j \in DOMAIN z : Lawful(op, z[j]) /\ Follows(op, z[j], Before(z, j))
  BY ScriptsAreLawful
<1>3. k \in DOMAIN z
  OBVIOUS
<1> HIDE DEF z
<1>4. z \in Seq(Commands) /\ Len(z) \in Nat /\ DOMAIN z = 1 .. Len(z) /\ k \in 1 .. Len(z) /\ 1 \in 1 .. Len(z)
  BY <1>1, <1>3 DEF Legal
<1>5. k # Len(z) => k + 1 \in 1 .. Len(z)
  BY <1>4
<1>6. Before(z, k + 1) = Before(z, k) \cup {z[k]} /\ Before(z, 1) = {}
  <2>1. \A j : j \in 1 .. (k + 1) - 1 <=> j \in 1 .. k - 1 \/ j = k
    BY <1>4
  <2>2. \A j : j \notin 1 .. 1 - 1
    OBVIOUS
  <2> QED
    BY <2>1, <2>2 DEF Before
<1>7. z[k].op = "manifest" => k = Len(z)
  <2> SUFFICES ASSUME k # Len(z), z[k].op = "manifest" PROVE FALSE
    OBVIOUS
  <2>1. z[k] \in Before(z, k + 1) /\ k + 1 \in DOMAIN z
    BY <1>4, <1>5, <1>6
  <2>2. k \in 1 .. Len(z) - 1 /\ Len(z) \in DOMAIN z
    BY <1>4
  <2>3. z[k + 1] = z[k + 1] /\ Follows(op, z[k + 1], Before(z, k + 1))
    BY <1>2, <2>1
  <2> QED
    BY <2>1, <2>3 DEF Follows
<1>8. z[k] \in Commands
  BY <1>4
<1> QED
  BY <1>1, <1>4, <1>5, <1>6, <1>7, <1>8 DEF z

\* What a script has behind it once it has got past its checks.
LEMMA PastChecksAt ==
    ASSUME NEW op \in DOMAIN Scripts, NEW k \in DOMAIN Scripts[op]
    PROVE  LET P == Before(Scripts[op], k)
           IN  /\ op = "clean" /\ MakeCopy \in P => ConfirmNoSequence \in P
               /\ op \in Reusing \cup {"clean"} /\ Export \in P => ConfirmNoSequence \in P
               /\ op \in Reusing /\ k > BeforeTry(op) => ConfirmNoSequence \in P
               /\ op \in Reusing /\ Export \in P => k > BeforeTry(op)
<1> DEFINE z == Scripts[op]
           P == Before(z, k)
<1>1. \A j \in DOMAIN z : Follows(op, z[j], Before(z, j))
  BY ScriptsAreLawful
<1>2. Len(z) \in Nat /\ DOMAIN z = 1 .. Len(z) /\ k \in 1 .. Len(z)
  <2>1. Legal(op, z, {})
    BY AllWhole DEF Whole
  <2> HIDE DEF z
  <2>2. z \in Seq(Commands)
    BY <2>1 DEF Legal
  <2> QED
    BY <2>2, CommandAt DEF z
<1>3. \E a : Starts(z, a) /\ (op \in OneTimes => a = OneTimePrelude) /\ (op = "capture7e" => a = CapturePrelude)
  BY AllWhole DEF Whole
<1> HIDE DEF z
<1>4. \A j \in 1 .. k - 1 : j \in DOMAIN z /\ Before(z, j) \subseteq P
  <2> SUFFICES ASSUME NEW j \in 1 .. k - 1 PROVE j \in DOMAIN z /\ Before(z, j) \subseteq P
    OBVIOUS
  <2>1. j \in 1 .. Len(z) /\ \A i \in 1 .. j - 1 : i \in 1 .. k - 1
    BY <1>2
  <2> QED
    BY <1>2, <2>1 DEF Before
<1>5. op = "clean" /\ MakeCopy \in P => ConfirmNoSequence \in P
  <2> SUFFICES ASSUME op = "clean", MakeCopy \in P PROVE ConfirmNoSequence \in P
    OBVIOUS
  <2>1. PICK j \in 1 .. k - 1 : z[j] = MakeCopy
    BY DEF Before
  <2>2. MakeCopy.op = "copy"
    BY CmdFields DEF MakeCopy, Copy
  <2>3. Follows(op, z[j], Before(z, j)) /\ Before(z, j) \subseteq P
    BY <1>1, <1>4
  <2>4. ConfirmNoSequence \in Before(z, j)
    BY <2>1, <2>2, <2>3 DEF Follows
  <2> QED
    BY <2>3, <2>4
<1>6. op \in Reusing \cup {"clean"} /\ Export \in P => ConfirmNoSequence \in P
  <2> SUFFICES ASSUME op \in Reusing \cup {"clean"}, Export \in P PROVE ConfirmNoSequence \in P
    OBVIOUS
  <2>1. PICK j \in 1 .. k - 1 : z[j] = Export
    BY DEF Before
  <2>2. Follows(op, z[j], Before(z, j)) /\ Before(z, j) \subseteq P
    BY <1>1, <1>4
  <2>3. ConfirmNoSequence \in Before(z, j)
    BY <2>1, <2>2 DEF Follows
  <2> QED
    BY <2>2, <2>3
<1>7. ASSUME op \in Reusing
      PROVE  /\ k > BeforeTry(op) => ConfirmNoSequence \in P
             /\ Export \in P => k > BeforeTry(op)
  <2>1. PICK a : Starts(z, a) /\ (op \in OneTimes => a = OneTimePrelude) /\ (op = "capture7e" => a = CapturePrelude)
    BY <1>3
  <2>2. BeforeTry(op) \in {6, 7} /\ Len(a) >= BeforeTry(op) /\ Len(a) \in Nat /\ a[5] = ConfirmNoSequence
        /\ \A j \in 1 .. BeforeTry(op) - 1 : a[j] # Export
    <3>1. CASE op \in OneTimes
      <4>1. "safe" \notin Undoing
        BY DEF Undoing, Disarms
      <4>2. a = OneTimePrelude /\ BeforeTry(op) = Len(OneTimePrelude)
        <5>1. op # "capture7e"
          BY <3>1 DEF OneTimes
        <5> QED
          BY <3>1, <5>1, <2>1 DEF BeforeTry
      <4>3. Len(OneTimePrelude) = 6 /\ OneTimePrelude[5] = ConfirmNoSequence /\ \A j \in 1 .. 5 : OneTimePrelude[j] # Export
        BY <4>1, PreludePart
      <4> QED
        BY <4>2, <4>3
    <3>2. CASE op = "capture7e"
      <4>1. op \notin OneTimes
        BY <3>2 DEF OneTimes
      <4>2. a = CapturePrelude /\ BeforeTry(op) = 7
        BY <3>2, <4>1, <2>1 DEF BeforeTry
      <4> QED
        BY <4>2, CapturePart
    <3> QED
      BY <1>7, <3>1, <3>2 DEF Reusing
  <2>3. Len(a) <= Len(z) /\ \A j \in 1 .. Len(a) : z[j] = a[j]
    BY <2>1 DEF Starts
  <2>4. k > BeforeTry(op) => ConfirmNoSequence \in P
    <3> SUFFICES ASSUME k > BeforeTry(op) PROVE ConfirmNoSequence \in P
      OBVIOUS
    <3>1. 5 \in 1 .. k - 1 /\ 5 \in 1 .. Len(a)
      BY <1>2, <2>2
    <3> QED
      BY <3>1, <2>2, <2>3 DEF Before
  <2>5. Export \in P => k > BeforeTry(op)
    <3> SUFFICES ASSUME Export \in P, ~ (k > BeforeTry(op)) PROVE FALSE
      OBVIOUS
    <3>1. PICK j \in 1 .. k - 1 : z[j] = Export
      BY DEF Before
    <3>2. j \in 1 .. BeforeTry(op) - 1 /\ j \in 1 .. Len(a)
      BY <1>2, <2>2
    <3> QED
      BY <3>1, <3>2, <2>2, <2>3
  <2> QED
    BY <2>4, <2>5
<1> QED
  BY <1>5, <1>6, <1>7 DEF z

-----------------------------------------------------------------------------
(***************************************************************************)
(* What a step of session s does to the sessions.                          *)
(***************************************************************************)
Sess == SessionStates(DOMAIN Scripts)

\* What an idle session is.
LEMMA IdleFields ==
    /\ Idle \in Sess /\ "idle" \notin DOMAIN Scripts
    /\ Idle.op = "idle" /\ Idle.pc = 0 /\ Idle.nid = NoId /\ Idle.did = NoId /\ Idle.made = {}
BY DEF Idle, Sess, SessionStates, IdsOrNone, Scripts

Command(s) == Scripts[ses[s].op][ses[s].pc]

\* Session s is at command c of its script, alone, while Windows runs, and no
\* manifest has been written since it started.
Working(s, c) ==
    /\ c = Command(s)
    /\ ses[s].op \in DOMAIN Scripts /\ ses[s].pc \in DOMAIN Scripts[ses[s].op]
    /\ ses[s] \in Sess
    /\ \A t \in Sessions \ {s} : ses[t] = Idle
    /\ current \in Ids
    /\ report.op = "none"
    /\ MadeInv(s) /\ DoneInv(s)
    /\ Lawful(ses[s].op, c) /\ Follows(ses[s].op, c, Done(s))
    /\ Target(s, c) = CASE c.on = "current" -> current [] c.on = "diag" -> ses[s].did [] OTHER -> NoId

LEMMA AtWork ==
    ASSUME IInv, NEW s \in Sessions, ses[s].op \in DOMAIN Scripts
    PROVE  Working(s, Command(s))
<1>1. ses[s].op # "idle" /\ ses[s] # Idle
  BY IdleFields
<1>2. ses[s] \in Sess /\ ses[s].pc \in DOMAIN Scripts[ses[s].op]
  BY <1>1 DEF IInv, TypeOK, MachineTypeOK, Sess
<1>3. ASSUME NEW t \in Sessions \ {s} PROVE ses[t] = Idle
  <2>1. ses[t].op = "idle"
    BY <1>1 DEF IInv, MachineInv
  <2> QED
    BY <2>1, IdleFields DEF IInv, TypeOK
<1>4. current \in Ids /\ report.op = "none"
  BY <1>1 DEF IInv, MachineInv, ReportInv, AllIdle, TypeOK, MachineTypeOK, IdsOrNone
<1>5. MadeInv(s) /\ DoneInv(s)
  BY <1>1 DEF IInv
<1>6. Done(s) = Before(Scripts[ses[s].op], ses[s].pc)
  BY DEF Done, Before
<1>7. Lawful(ses[s].op, Command(s)) /\ Follows(ses[s].op, Command(s), Done(s))
  BY <1>2, <1>6, ScriptsAreLawful DEF Command
<1>8. Command(s).on # "normal"
  BY <1>7 DEF Lawful, Commands
<1> DEFINE c == Command(s)
<1> HIDE DEF c
<1>9. c.on # "normal" => Target(s, c) = CASE c.on = "current" -> current [] c.on = "diag" -> ses[s].did [] OTHER -> NoId
  BY DEF Target
<1> QED
  BY <1>2, <1>3, <1>4, <1>5, <1>7, <1>8, <1>9 DEF Working, c

Others(s)      == \A t \in Sessions \ {s} : ses'[t] = ses[t]
Ends(s)        == ses'[s] = Idle
Same(s)        == ses'[s].nid = ses[s].nid /\ ses'[s].did = ses[s].did /\ ses'[s].made = ses[s].made
Proceeds(s, c) == /\ ses'[s].op = ses[s].op /\ ses'[s].pc = ses[s].pc + 1
                  /\ ses'[s].pc \in DOMAIN Scripts[ses[s].op]
                  /\ Done(s)' = Done(s) \cup {c}
RollsBack(s)   == ses'[s].op = Catch(s) /\ ses'[s].pc = 1 /\ Catch(s) \in Undoing /\ Done(s)' = {}

\* After a command session s goes on, or ends with its script.
Passes(s, c) == /\ ses' \in [Sessions -> Sess] /\ Others(s)
                /\ \/ Proceeds(s, c) /\ Same(s)
                   \/ Ends(s) /\ ses[s].pc = Len(Scripts[ses[s].op])

\* When a command throws, it rolls back, or ends.
Fails(s) == /\ ses' \in [Sessions -> Sess] /\ Others(s)
            /\ \/ RollsBack(s) /\ Same(s)
               \/ Ends(s) /\ Catch(s) = "none"

LEMMA AdvanceEffect ==
    ASSUME TypeOK, NEW s \in Sessions, NEW c, Working(s, c), Advance(s, Scripts[ses[s].op])
    PROVE  Passes(s, c)
<1> DEFINE op == ses[s].op
           pc == ses[s].pc
<1>1. ses[s] \in Sess /\ ses \in [Sessions -> Sess] /\ op \in DOMAIN Scripts /\ pc \in DOMAIN Scripts[op]
      /\ c = Scripts[op][pc]
  BY DEF Working, Command, TypeOK, MachineTypeOK, Sess
<1>2. CASE pc = Len(Scripts[op])
  <2>1. ses' = [ses EXCEPT ![s] = Idle]
    BY <1>2 DEF Advance, AfterCommand
  <2> QED
    BY <1>1, <1>2, <2>1, IdleFields DEF Passes, Others, Ends
<1>3. CASE pc # Len(Scripts[op])
  <2>1. pc + 1 \in DOMAIN Scripts[op] /\ Before(Scripts[op], pc + 1) = Before(Scripts[op], pc) \cup {c}
    BY <1>1, <1>3, CommandAt
  <2>2. pc + 1 \in Nat
    BY <1>1, CommandAt
  <2>3. ses' = [ses EXCEPT ![s] = [ses[s] EXCEPT !.pc = ses[s].pc + 1]]
    BY <1>3 DEF Advance, AfterCommand
  <2>4. /\ ses' \in [Sessions -> Sess] /\ Others(s)
        /\ ses'[s].op = op /\ ses'[s].pc = pc + 1 /\ Same(s)
    BY <1>1, <2>2, <2>3 DEF Others, Same, Sess, SessionStates
  <2>5. Done(s)' = Done(s) \cup {c}
    BY <2>1, <2>4 DEF Done, Before
  <2> QED
    BY <2>1, <2>4, <2>5 DEF Passes, Proceeds
<1> QED
  BY <1>2, <1>3

\* A catch block undoes, and has a command.
LEMMA CatchIsUndoing ==
    ASSUME NEW s
    PROVE  Catch(s) = "none" \/ (Catch(s) \in Undoing /\ Catch(s) \in DOMAIN Scripts)
BY DEF Catch, Undoing, Disarms, Scripts

LEMMA ThrowEffect ==
    ASSUME TypeOK, NEW s \in Sessions, NEW c, Working(s, c), Throw(s, Catch(s))
    PROVE  Fails(s)
<1>1. ses[s] \in Sess /\ ses \in [Sessions -> Sess]
  BY DEF Working, TypeOK, MachineTypeOK, Sess
<1>2. CASE Catch(s) = "none"
  BY <1>1, <1>2, IdleFields DEF Throw, Fails, Others, Ends
<1>3. CASE Catch(s) # "none"
  <2> DEFINE h == Catch(s)
  <2>1. h \in Undoing /\ h \in DOMAIN Scripts /\ h # "none"
    BY <1>3, CatchIsUndoing
  <2>2. ses' = [ses EXCEPT ![s] = [ses[s] EXCEPT !.op = h, !.pc = 1]]
    BY <1>3 DEF Throw
  <2> HIDE DEF h
  <2>3. /\ ses' \in [Sessions -> Sess] /\ Others(s)
        /\ ses'[s].op = h /\ ses'[s].pc = 1 /\ Same(s)
    BY <1>1, <2>1, <2>2 DEF Others, Same, Sess, SessionStates
  <2>4. Done(s)' = {}
    <3>1. \A k : k \notin 1 .. 1 - 1
      OBVIOUS
    <3> QED
      BY <2>3, <3>1 DEF Done
  <2> QED
    BY <2>1, <2>3, <2>4 DEF Fails, RollsBack, h
<1> QED
  BY <1>2, <1>3

-----------------------------------------------------------------------------
(***************************************************************************)
(* A command that is done, or skipped.                                     *)
(***************************************************************************)
\* What command c of session s may change in the store.
EntryStep(s, c) == \A j \in Ids, y \in Elements :
    \/ bcd'.entry[j][y] = bcd.entry[j][y]
    \/ /\ c.op \in SettingOps /\ c.on = "current" /\ j = current
       /\ y \in {"launch", "vsm"} /\ bcd'.entry[j][y] = "off"
    \/ /\ c.op \in SettingOps /\ c.on = "diag" /\ j = ses[s].did
       /\ y = c.elem /\ bcd'.entry[j][y] = c.val

\* What it has then established.
Establishes(s, c) ==
    /\ c \in {TurnOff, FoundOff} => ~ Launches(bcd'.entry[current])
    /\ c = Default("current") => bcd'.default = current
    /\ c = FoundAuto => Launches(bcd'.entry[ses[s].did])
    /\ \A x \in Elements : c = Confirm("diag", x, "absent") => bcd'.entry[ses[s].did][x] = "absent"
    /\ c = ConfirmNoSequence => bcd'.seq = NoId
    /\ c = Sequence("diag") => bcd'.seq = ses[s].did
    /\ c = Unsequence("diag") /\ ses[s].op \in Disarms => bcd'.seq = NoId \/ "soft" \in Faults

StoreStep(s, c) ==
    /\ bcd' \in Stores /\ bcd'.used = bcd.used /\ bcd'.live \subseteq bcd.live
    /\ {bcd'.default, bcd'.seq} \subseteq bcd'.live \cup {NoId}
    /\ bcd'.default = bcd.default \/ (c = Default("current") /\ bcd'.default = current)
    /\ \/ bcd'.seq = bcd.seq
       \/ bcd'.seq = NoId /\ ses[s].op \in Disarms \cup {"cancel"}
       \/ bcd'.seq = ses[s].did /\ c = Sequence("diag")
    /\ EntryStep(s, c)
    /\ Establishes(s, c)

Keeps == UNCHANGED <<current, tests, atomic, matrices, report>>

\* The scripts' names, as the definitions group them.
LEMMA Kinds ==
    /\ Copying = {"testboot", "clean", "matrix"}
    /\ Reusing = {"onelp", "novapic", "control", "capture7e"}
    /\ OneTimes = {"onelp", "novapic", "control"}
    /\ Disarms = {"undoonetime", "undoclean", "undocapture"}
    /\ Undoing = {"undoonetime", "undoclean", "undocapture", "undomatrix"}
    /\ Recording = {"testboot", "clean", "matrix", "onelp", "novapic", "control", "capture7e", "safe", "madtonce"}
    /\ SettingOps = {"set", "deletevalue"}
    /\ DOMAIN Scripts = {"safe", "testboot", "clean", "madtonce", "cancel", "capture7e", "onelp", "novapic",
                         "control", "matrix", "unmatrix", "undoonetime", "undoclean", "undocapture", "undomatrix"}
BY DEF Copying, Reusing, OneTimes, Disarms, Undoing, Recording, SettingOps, Scripts

\* A test entry that a script sets up is neither the running entry nor one of a
\* matrix, and a one-time script has made another entry the default.
LEMMA TestApart ==
    ASSUME IInv, NEW s \in Sessions, NEW c, Working(s, c), c.op \in SettingOps, ses[s].did \in Ids,
           c.on = "diag" \/ ses[s].op \in Reusing
    PROVE  /\ ses[s].did # current
           /\ ses[s].did \notin UNION matrices
           /\ c.on = "diag" /\ ses[s].op # "capture7e" => ses[s].did # bcd.default
<1> DEFINE op  == ses[s].op
           did == ses[s].did
<1>1. op \in Copying \cup Reusing
  BY DEF Working, Lawful
<1>2. CASE op \in Copying
  <2>1. did \in ses[s].made
    <3>1. op \in {"testboot", "clean"} => ses[s].made = {did} \ {NoId}
      BY DEF Working, MadeInv
    <3>2. op = "matrix" => did \in ses[s].made \cup {NoId}
      BY DEF Working, MadeInv
    <3> QED
      BY <1>2, <3>1, <3>2, NoIdAssumption, Kinds
  <2>2. ses[s].made \cap (Named \cup {current, bcd.default}) = {}
    BY DEF Working, MadeInv
  <2> QED
    BY <1>2, <2>1, <2>2, Kinds DEF Named
<1>3. CASE op \in Reusing
  <2>1. did \in tests \cup atomic
    BY <1>3, Kinds DEF Working, MadeInv
  <2>2. did \notin UNION matrices
    BY <2>1 DEF IInv, MachineInv
  <2>3. {FoundOff, FoundAuto} \subseteq Done(s)
    BY <1>3 DEF Working, Follows
  <2>4. ~ Launches(bcd.entry[current]) /\ Launches(bcd.entry[did])
    BY <1>3, <2>3 DEF Working, DoneInv
  <2>5. did # current
    BY <2>4
  <2>6. c.on = "diag" /\ op # "capture7e" => did # bcd.default
    <3>1. c.on = "diag" /\ op # "capture7e" => Default("current") \in Done(s) /\ op # "unmatrix"
      BY <1>3, Kinds DEF Working, Follows
    <3>2. c.on = "diag" /\ op # "capture7e" => bcd.default = current
      BY <3>1 DEF Working, DoneInv
    <3> QED
      BY <2>5, <3>2
  <2> QED
    BY <2>2, <2>5, <2>6
<1> QED
  BY <1>1, <1>2, <1>3

\* While a session works, no manifest is the last thing written.
LEMMA NothingReported ==
    ASSUME report.op = "none", UNCHANGED report
    PROVE  ReportInv'
<1>1. "none" \in SetNoDefault /\ "none" # "control"
  BY DEF SetNoDefault
<1> QED
  BY <1>1 DEF ReportInv, ReturnsToSafe, ControlIsBaseline

\* The sessions and the names stay apart.
LEMMA PassedMachine ==
    ASSUME IInv, NEW s \in Sessions, NEW c, Working(s, c), Passes(s, c), StoreStep(s, c), Keeps
    PROVE  MachineInv'
<1>1. \A t \in Sessions : t # s => ses'[t] = Idle
  BY DEF Passes, Others, Working
<1>2. \A t, u \in Sessions : ses'[t].op # "idle" /\ ses'[u].op # "idle" => t = u
  BY <1>1, IdleFields
<1>3. \A t \in Sessions : ses'[t].op = "testboot" => "testboot" \in Experiments
  <2>1. ses'[s].op \in {"idle", ses[s].op}
    BY IdleFields DEF Passes, Proceeds, Ends
  <2> QED
    BY <1>1, <2>1, IdleFields DEF IInv, MachineInv
<1>4. current' \in Ids /\ current' # NoId
  BY NoIdAssumption DEF Working, Keeps
<1>5. {bcd'.default, bcd'.seq} \subseteq bcd'.live \cup {NoId}
  BY DEF StoreStep
<1>6. bcd'.live \cup Named' \subseteq bcd'.used /\ current' \in bcd'.used \cup {NoId}
  BY DEF StoreStep, Keeps, Named, IInv, MachineInv
<1>7. ((tests \cup atomic) \cap UNION matrices = {})'
  BY DEF Keeps, IInv, MachineInv
<1> QED
  BY <1>2, <1>3, <1>4, <1>5, <1>6, <1>7 DEF MachineInv

\* No entry of a matrix is scheduled, or made a default that launches.
LEMMA PassedMatrix ==
    ASSUME IInv, NEW s \in Sessions, NEW c, Working(s, c), Passes(s, c), StoreStep(s, c), Keeps
    PROVE  MatrixInv'
<1> DEFINE did == ses[s].did
<1>1. matrices' = matrices /\ matrices \in SUBSET (SUBSET Ids) /\ NoId \notin UNION matrices
  BY NoIdAssumption DEF Keeps, IInv, TypeOK
<1>2. bcd'.seq \notin UNION matrices
  <2>1. CASE c = Sequence("diag") /\ bcd'.seq = did
    <3>1. ses[s].op \in {"clean", "madtonce"} \cup Reusing
      <4>1. c.op = "bootsequence"
        BY <2>1, CmdFields DEF Sequence
      <4> QED
        BY <4>1 DEF Working, Lawful
    <3>2. did \notin UNION matrices
      <4>1. CASE ses[s].op = "clean"
        <5>1. ses[s].made = {did} \ {NoId} /\ ses[s].made \cap Named = {}
          BY <4>1 DEF Working, MadeInv
        <5> QED
          BY <5>1, <1>1 DEF Named
      <4>2. CASE ses[s].op # "clean"
        <5>1. did \in tests \cup atomic
          BY <3>1, <4>2, Kinds DEF Working, MadeInv
        <5> QED
          BY <5>1 DEF IInv, MachineInv
      <4> QED
        BY <4>1, <4>2
    <3> QED
      BY <2>1, <3>2
  <2>2. CASE bcd'.seq \in {bcd.seq, NoId}
    BY <1>1, <2>2 DEF IInv, MatrixInv
  <2> QED
    BY <2>1, <2>2 DEF StoreStep
<1>3. bcd'.default \in UNION matrices => ~ Launches(bcd'.entry[bcd'.default])
  <2> SUFFICES ASSUME bcd'.default \in UNION matrices PROVE bcd'.entry[bcd'.default]["launch"] # "auto"
    BY DEF Launches
  <2> DEFINE d == bcd'.default
  <2>1. d \in Ids /\ "launch" \in Elements
    BY <1>1 DEF Elements
  <2>2. bcd.entry[d]["launch"] # "auto"
    <3>1. CASE d = bcd.default
      BY <3>1 DEF IInv, MatrixInv, Launches
    <3>2. CASE c = Default("current") /\ d = current
      <4>1. c.op = "default"
        BY <3>2, CmdFields DEF Default
      <4>2. TurnOff \in Done(s)
        BY <4>1 DEF Working, Follows
      <4>3. ~ Launches(bcd.entry[current])
        BY <4>2 DEF Working, DoneInv
      <4> QED
        BY <3>2, <4>3 DEF Launches
    <3> QED
      BY <3>1, <3>2 DEF StoreStep
  <2>3. CASE bcd'.entry[d]["launch"] = bcd.entry[d]["launch"]
    BY <2>2, <2>3
  <2>4. CASE bcd'.entry[d]["launch"] = "off"
    BY <2>4
  <2>5. CASE c.op \in SettingOps /\ c.on = "diag" /\ d = did
    BY <2>1, <2>5, TestApart
  <2> QED
    BY <2>1, <2>3, <2>4, <2>5 DEF StoreStep, EntryStep
<1> QED
  BY <1>1, <1>2, <1>3 DEF MatrixInv

\* What a session made stays its own.
LEMMA PassedMade ==
    ASSUME IInv, NEW s \in Sessions, NEW c, Working(s, c), Proceeds(s, c), Same(s), StoreStep(s, c), Keeps,
           c.op # "copy"
    PROVE  MadeInv(s)'
<1> DEFINE r == ses[s]
<1>1. /\ ses'[s].op = r.op /\ ses'[s].did = r.did /\ ses'[s].made = r.made
      /\ current' = current /\ tests' = tests /\ atomic' = atomic /\ matrices' = matrices
      /\ bcd'.used = bcd.used
  BY DEF Proceeds, Same, Keeps, StoreStep
<1>2. Named' = Named
  BY <1>1 DEF Named
<1>3. bcd'.default \in {bcd.default, current}
  BY DEF StoreStep
<1>4. r.op \notin {"clean", "undoclean"} => bcd'.seq \notin r.made
  <2>1. NoId \notin r.made
    BY NoIdAssumption DEF Working, Sess, SessionStates
  <2>2. CASE c = Sequence("diag") /\ bcd'.seq = r.did
    <3>1. c.op = "bootsequence"
      BY <2>2, CmdFields DEF Sequence
    <3>2. r.op \in {"clean", "madtonce"} \cup Reusing
      BY <3>1 DEF Working, Lawful
    <3>3. r.op # "clean" => r.made = {}
      BY <3>2, Kinds DEF Working, MadeInv
    <3> QED
      BY <3>3
  <2>3. CASE bcd'.seq \in {bcd.seq, NoId}
    BY <2>1, <2>3 DEF Working, MadeInv
  <2> QED
    BY <2>2, <2>3 DEF StoreStep
<1>5. MakeCopy \in Done(s)' <=> MakeCopy \in Done(s)
  <2>1. c # MakeCopy
    BY CmdFields DEF MakeCopy, Copy
  <2> QED
    BY <2>1 DEF Proceeds
<1>6. MadeInv(s)
  BY DEF Working
<1> HIDE DEF r
<1> QED
  BY <1>1, <1>2, <1>3, <1>4, <1>5, <1>6 DEF MadeInv, r

\* What a script has established lasts while it works.
LEMMA PassedDone ==
    ASSUME IInv, NEW s \in Sessions, NEW c, Working(s, c), Proceeds(s, c), Same(s), StoreStep(s, c), Keeps
    PROVE  DoneInv(s)'
<1> DEFINE r == ses[s]
           P == Done(s)
<1>1. /\ ses'[s].op = r.op /\ ses'[s].did = r.did /\ ses'[s].pc = r.pc + 1
      /\ current' = current /\ Done(s)' = P \cup {c}
  BY DEF Proceeds, Same, Keeps
<1>2. DoneInv(s) /\ Establishes(s, c) /\ EntryStep(s, c) /\ current \in Ids /\ "launch" \in Elements
  BY DEF Working, StoreStep, Elements
<1>3. {TurnOff, FoundOff} \cap (P \cup {c}) # {} => ~ Launches(bcd'.entry[current])
  <2>1. CASE c \in {TurnOff, FoundOff}
    BY <1>2, <2>1 DEF Establishes
  <2>2. CASE {TurnOff, FoundOff} \cap P # {}
    <3>1. bcd.entry[current]["launch"] # "auto"
      BY <1>2, <2>2 DEF DoneInv, Launches
    <3>2. CASE bcd'.entry[current]["launch"] = "off"
      BY <3>2 DEF Launches
    <3>3. CASE bcd'.entry[current]["launch"] = bcd.entry[current]["launch"]
      BY <3>1, <3>3 DEF Launches
    <3>4. CASE c.op \in SettingOps /\ c.on = "diag" /\ current = r.did
      BY <1>2, <3>4, TestApart
    <3> QED
      BY <1>2, <3>2, <3>3, <3>4 DEF EntryStep
  <2> QED
    BY <2>1, <2>2
<1>4. Default("current") \in P \cup {c} /\ r.op # "unmatrix" => bcd'.default = current
  <2>1. c = Default("current") => bcd'.default = current
    BY <1>2 DEF Establishes
  <2>2. Default("current") \in P /\ r.op # "unmatrix" => bcd.default = current
    BY <1>2 DEF DoneInv
  <2> QED
    BY <2>1, <2>2 DEF StoreStep
<1>5. ASSUME FoundAuto \in P \cup {c}, r.op \in Reusing PROVE Launches(bcd'.entry[r.did])
  <2>1. CASE c = FoundAuto
    BY <1>2, <2>1 DEF Establishes
  <2>2. CASE FoundAuto \in P
    <3>1. bcd.entry[r.did]["launch"] = "auto"
      BY <1>2, <1>5, <2>2 DEF DoneInv, Launches
    <3>2. r.did \in Ids
      <4>1. r.did \in tests \cup atomic
        BY <1>5, Kinds DEF Working, MadeInv
      <4> QED
        BY <4>1 DEF IInv, TypeOK
    <3>3. CASE bcd'.entry[r.did]["launch"] = bcd.entry[r.did]["launch"]
      BY <3>1, <3>3 DEF Launches
    <3>4. CASE c.op \in SettingOps /\ r.did = current
      BY <1>5, <3>2, <3>4, TestApart
    <3>5. CASE c.op \in SettingOps /\ c.on = "diag" /\ c.elem = "launch" /\ bcd'.entry[r.did]["launch"] = c.val
      <4>1. c.val = "auto"
        BY <3>5 DEF Working, Lawful
      <4> QED
        BY <3>5, <4>1 DEF Launches
    <3> QED
      BY <1>2, <3>2, <3>3, <3>4, <3>5 DEF EntryStep
  <2> QED
    BY <1>5, <2>1, <2>2
<1>6. ASSUME r.op = "control", NEW x \in Range(Isolators), Confirm("diag", x, "absent") \in P \cup {c}
      PROVE  bcd'.entry[r.did][x] = "absent"
  <2>0. x \in Elements /\ x \notin {"launch", "vsm"}
    BY DEF Isolators, Range, Elements
  <2>1. CASE c = Confirm("diag", x, "absent")
    BY <1>2, <2>0, <2>1 DEF Establishes
  <2>2. CASE Confirm("diag", x, "absent") \in P
    <3>1. bcd.entry[r.did][x] = "absent"
      BY <1>2, <1>6, <2>2 DEF DoneInv
    <3>2. r.did \in Ids
      <4>1. r.did \in tests \cup atomic
        BY <1>6, Kinds DEF Working, MadeInv
      <4> QED
        BY <4>1 DEF IInv, TypeOK
    <3>3. CASE c.op \in SettingOps /\ c.on = "diag" /\ x = c.elem /\ bcd'.entry[r.did][x] = c.val
      <4>1. c.val = "absent"
        BY <1>6, <3>3 DEF Working, Lawful
      <4> QED
        BY <3>3, <4>1
    <3> QED
      BY <1>2, <2>0, <3>1, <3>2, <3>3 DEF EntryStep
  <2> QED
    BY <1>6, <2>1, <2>2
<1>7. ConfirmNoSequence \in P \cup {c} /\ r.op \in Reusing \cup {"clean"} => bcd'.seq \in {NoId, r.did}
  <2>1. c = ConfirmNoSequence => bcd'.seq = NoId
    BY <1>2 DEF Establishes
  <2>2. ConfirmNoSequence \in P /\ r.op \in Reusing \cup {"clean"} => bcd.seq \in {NoId, r.did}
    BY <1>2 DEF DoneInv
  <2> QED
    BY <2>1, <2>2 DEF StoreStep
<1>8. Sequence("diag") \in P \cup {c} /\ r.op = "madtonce" => bcd'.seq = r.did
  <2>1. c = Sequence("diag") => bcd'.seq = r.did
    BY <1>2 DEF Establishes
  <2>2. Sequence("diag") \in P /\ r.op = "madtonce" => bcd.seq = r.did
    BY <1>2 DEF DoneInv
  <2> QED
    BY <2>1, <2>2, Kinds DEF StoreStep
<1>9. ASSUME r.op \in Disarms
      PROVE  bcd'.seq \in {NoId, r.did} /\ (bcd'.seq = NoId \/ "soft" \in Faults)
  <2>1. bcd'.seq \in {NoId, r.did}
    BY <1>2, <1>9 DEF DoneInv, StoreStep
  <2>2. CASE r.pc = 1
    <3>1. c = Unsequence("diag")
      BY <1>9, <2>2, UndoWhole, Kinds DEF Working, Command, Scripts
    <3> QED
      BY <1>2, <1>9, <2>1, <3>1 DEF Establishes
  <2>3. CASE r.pc # 1
    <3>1. r.pc > 1
      <4>1. r.op \in DOMAIN Scripts /\ r.pc \in DOMAIN Scripts[r.op]
        BY DEF Working
      <4>2. r.pc \in 1 .. Len(Scripts[r.op]) /\ Len(Scripts[r.op]) \in Nat
        BY <4>1, CommandAt
      <4> QED
        BY <2>3, <4>2
    <3>2. bcd.seq = NoId \/ "soft" \in Faults
      BY <1>2, <1>9, <3>1 DEF DoneInv
    <3>3. c # Sequence("diag")
      BY <1>9, Kinds, CmdFields DEF Working, Lawful, Sequence
    <3> QED
      BY <2>1, <3>2, <3>3 DEF StoreStep
  <2> QED
    BY <2>1, <2>2, <2>3
<1> HIDE DEF r, P
<1> QED
  BY <1>1, <1>3, <1>4, <1>5, <1>6, <1>7, <1>8, <1>9 DEF DoneInv

\* A script that ends without a manifest leaves nothing it made, but what it
\* could not delete.
LEMMA PassedOwned ==
    ASSUME IInv, NEW s \in Sessions, NEW c, Working(s, c), Passes(s, c), StoreStep(s, c), Keeps,
           c.op \notin {"manifest", "copy", "deletemade"}, leaked \subseteq leaked',
           ses[s].op = "undoclean" /\ ses[s].pc = 2 => ses[s].did \notin bcd'.live \ leaked',
           MadeEntriesOwned
    PROVE  MadeEntriesOwned'
<1> DEFINE r == ses[s]
<1>1. bcd'.live \subseteq bcd.live /\ tests' = tests /\ atomic' = atomic /\ matrices' = matrices
  BY DEF StoreStep, Keeps
<1>2. ASSUME NEW g \in r.made PROVE g \in Unrecorded' \/ g \notin bcd'.live \ leaked'
  <2>1. CASE Proceeds(s, c) /\ Same(s)
    BY <2>1 DEF Same, Unrecorded
  <2>2. CASE Ends(s) /\ r.pc = Len(Scripts[r.op])
    <3>1. r.op \notin Recording
      BY <2>2, CommandAt DEF Working, Command
    <3>2. r.op # "undomatrix"
      BY DEF Working, Lawful
    <3>3. r.op = "undoclean"
      <4>1. r.op \notin Copying \cup {"undoclean", "undomatrix"} => r.made = {}
        BY DEF Working, MadeInv
      <4> QED
        BY <1>2, <3>1, <3>2, <4>1, Kinds
    <3>4. r.pc = 2 /\ r.made = {r.did}
      BY <2>2, <3>3, UndoWhole DEF Working, MadeInv, Scripts
    <3> QED
      BY <1>2, <3>3, <3>4
  <2> QED
    BY <2>1, <2>2 DEF Passes
<1>3. Unrecorded \subseteq r.made
  BY IdleFields DEF Unrecorded, Working
<1> HIDE DEF r
<1> QED
  BY <1>1, <1>2, <1>3 DEF MadeEntriesOwned

\* So the invariant holds after a command that is done, or skipped.
LEMMA PassedInv ==
    ASSUME IInv, NEW s \in Sessions, NEW c, Working(s, c), Passes(s, c), StoreStep(s, c), Keeps,
           c.op \notin {"manifest", "copy", "deletemade"}, leaked \subseteq leaked',
           ses[s].op = "undoclean" /\ ses[s].pc = 2 => ses[s].did \notin bcd'.live \ leaked',
           TypeOK'
    PROVE  IInv'
<1>1. MachineInv' /\ MatrixInv'
  BY PassedMachine, PassedMatrix
<1>2. ReportInv'
  BY NothingReported DEF Working, Keeps
<1>3. ASSUME NEW t \in Sessions, ses'[t].op # "idle" PROVE MadeInv(t)' /\ DoneInv(t)'
  <2>1. t = s
    BY <1>3, IdleFields DEF Passes, Others, Working
  <2>2. Proceeds(s, c) /\ Same(s)
    BY <1>3, <2>1, IdleFields DEF Passes, Ends
  <2> QED
    BY <2>1, <2>2, PassedMade, PassedDone
<1>4. Rollbacks => MadeEntriesOwned'
  BY PassedOwned DEF IInv
<1> QED
  BY <1>1, <1>2, <1>3, <1>4 DEF IInv

-----------------------------------------------------------------------------
(***************************************************************************)
(* A command that throws.                                                  *)
(***************************************************************************)
\* Which catch block runs, and what the script has then behind it.
LEMMA CatchCases ==
    ASSUME NEW s \in Sessions, NEW c, Working(s, c)
    PROVE  /\ Catch(s) = "undoclean" => ses[s].op = "clean" /\ ses[s].did # NoId
           /\ ses[s].op = "clean" /\ Catch(s) = "none" => ses[s].did = NoId
           /\ Catch(s) = "undomatrix" => ses[s].op = "matrix"
           /\ ses[s].op = "matrix" /\ Catch(s) = "none" =>
                 ses[s].made = {} \/ ses[s].pc = Len(Scripts["matrix"])
           /\ Catch(s) \in {"undoonetime", "undocapture"} =>
                 \/ ses[s].op \in Reusing /\ ConfirmNoSequence \in Done(s)
                 \/ ses[s].op = "madtonce" /\ Sequence("diag") \in Done(s)
<1> DEFINE op == ses[s].op
           pc == ses[s].pc
<1>1. op \in DOMAIN Scripts /\ pc \in DOMAIN Scripts[op] /\ c = Scripts[op][pc] /\ Follows(op, c, Done(s))
  BY DEF Working, Command
<1>2. Done(s) = Before(Scripts[op], pc)
  BY DEF Done, Before
<1>3. pc \in 1 .. Len(Scripts[op]) /\ Len(Scripts[op]) \in Nat
  BY <1>1, CommandAt
<1>4. op \in Reusing /\ pc > BeforeTry(op) => ConfirmNoSequence \in Done(s)
  BY <1>1, <1>2, PastChecksAt
<1>5. op = "madtonce" /\ ScheduleMadtOnce[pc] = ConfirmSequence("diag") => Sequence("diag") \in Done(s)
  <2>1. op = "madtonce" => c = ScheduleMadtOnce[pc]
    BY <1>1 DEF Scripts
  <2> QED
    BY <1>1, <2>1 DEF Follows
<1> HIDE DEF op, pc
<1>6. Catch(s) =
        CASE op \in OneTimes /\ pc > BeforeTry(op)   -> "undoonetime"
          [] op = "madtonce" /\ ScheduleMadtOnce[pc] = ConfirmSequence("diag") -> "undoonetime"
          [] op = "capture7e" /\ pc > BeforeTry(op) -> "undocapture"
          [] op = "clean" /\ ses[s].did # NoId               -> "undoclean"
          [] op = "matrix" /\ ses[s].made # {} /\ pc < Len(Matrix) -> "undomatrix"
          [] OTHER                                        -> "none"
  BY DEF Catch, op, pc
<1>7. CASE op = "clean"
  <2>1. Catch(s) = IF ses[s].did # NoId THEN "undoclean" ELSE "none"
    BY <1>6, <1>7, Kinds
  <2> QED
    BY <1>7, <2>1 DEF op
<1>8. CASE op = "matrix"
  <2>1. Catch(s) = IF ses[s].made # {} /\ pc < Len(Matrix) THEN "undomatrix" ELSE "none"
    BY <1>6, <1>8, Kinds
  <2>2. Scripts["matrix"] = Matrix
    BY DEF Scripts
  <2>3. ~ (pc < Len(Matrix)) => pc = Len(Scripts["matrix"])
    BY <1>3, <1>8, <2>2
  <2> QED
    BY <1>8, <2>1, <2>3 DEF op, pc
<1>9. CASE op \notin {"clean", "matrix"}
  <2>1. CASE op \in OneTimes \cup {"capture7e"}
    <3>1. Catch(s) # "none" => pc > BeforeTry(op)
      BY <1>6, <2>1, Kinds
    <3>2. Catch(s) \in {"none", "undoonetime", "undocapture"}
      BY <1>6, <2>1, Kinds
    <3> QED
      BY <1>4, <1>9, <2>1, <3>1, <3>2, Kinds DEF op
  <2>2. CASE op = "madtonce"
    <3>1. /\ Catch(s) \in {"none", "undoonetime"}
          /\ Catch(s) # "none" => ScheduleMadtOnce[pc] = ConfirmSequence("diag")
      BY <1>6, <2>2, Kinds
    <3> QED
      BY <1>5, <1>9, <2>2, <3>1 DEF op
  <2>3. CASE op \notin OneTimes \cup {"capture7e", "madtonce"}
    <3>1. Catch(s) = "none"
      BY <1>6, <1>9, <2>3
    <3> QED
      BY <1>9, <3>1 DEF op
  <2> QED
    BY <2>1, <2>2, <2>3
<1> QED
  BY <1>7, <1>8, <1>9

\* Nothing in the store changes but for an entry that nobody knows of.
StoreThrown ==
    /\ bcd.used \subseteq bcd'.used /\ bcd'.live \subseteq bcd'.used
    /\ bcd.live \subseteq bcd'.live /\ ("parse" \notin Faults => bcd'.live \subseteq bcd.live)
    /\ bcd'.default = bcd.default /\ bcd'.seq = bcd.seq
    /\ \A j \in bcd.used : bcd'.entry[j] = bcd.entry[j]

\* The sessions and the names stay apart, and the matrices out of the way.
LEMMA ThrownMachine ==
    ASSUME IInv, NEW s \in Sessions, NEW c, Working(s, c), Fails(s), StoreThrown, Keeps
    PROVE  MachineInv' /\ MatrixInv'
<1>1. \A t \in Sessions : t # s => ses'[t] = Idle
  BY DEF Fails, Others, Working
<1>2. \A t, u \in Sessions : ses'[t].op # "idle" /\ ses'[u].op # "idle" => t = u
  BY <1>1, IdleFields
<1>3. \A t \in Sessions : ses'[t].op # "testboot"
  <2>1. ses'[s].op \in {"idle"} \cup Undoing
    BY IdleFields DEF Fails, RollsBack, Ends
  <2> QED
    BY <1>1, <2>1, IdleFields, Kinds
<1>4. current' \in Ids /\ current' # NoId
  BY NoIdAssumption DEF Working, Keeps
<1>5. {bcd'.default, bcd'.seq} \subseteq bcd'.live \cup {NoId}
  BY DEF StoreThrown, IInv, MachineInv
<1>6. bcd'.live \cup Named' \subseteq bcd'.used /\ current' \in bcd'.used \cup {NoId}
  BY DEF StoreThrown, Keeps, Named, IInv, MachineInv
<1>7. ((tests \cup atomic) \cap UNION matrices = {})'
  BY DEF Keeps, IInv, MachineInv
<1>8. MatrixInv'
  <2>1. matrices' = matrices /\ bcd'.seq = bcd.seq /\ bcd'.default = bcd.default
    BY DEF Keeps, StoreThrown
  <2>2. bcd.default \in UNION matrices => bcd'.entry[bcd.default] = bcd.entry[bcd.default]
    BY DEF StoreThrown, IInv, MachineInv, Named
  <2> QED
    BY <2>1, <2>2 DEF IInv, MatrixInv
<1> QED
  BY <1>2, <1>3, <1>4, <1>5, <1>6, <1>7, <1>8 DEF MachineInv

\* What the catch block starts from.
LEMMA ThrownMade ==
    ASSUME IInv, NEW s \in Sessions, NEW c, Working(s, c), RollsBack(s), Same(s), StoreThrown, Keeps
    PROVE  MadeInv(s)' /\ DoneInv(s)'
<1> DEFINE r == ses[s]
           h == Catch(s)
<1>1. /\ ses'[s].op = h /\ ses'[s].pc = 1 /\ ses'[s].did = r.did /\ ses'[s].made = r.made /\ Done(s)' = {}
      /\ current' = current /\ tests' = tests /\ atomic' = atomic /\ matrices' = matrices
      /\ bcd'.default = bcd.default /\ bcd'.seq = bcd.seq /\ h \in Undoing
  BY DEF RollsBack, Same, Keeps, StoreThrown
<1>2. Named' = Named
  BY <1>1 DEF Named
<1>3. MadeInv(s) /\ DoneInv(s)
  BY DEF Working
<1>4. r.made \subseteq bcd'.used
  BY <1>3 DEF MadeInv, StoreThrown
<1>5. h # "undoclean" => bcd.seq \notin r.made
  <2>1. h # "undoclean" => r.op \notin {"clean", "undoclean"}
    BY <1>1, CatchCases, Kinds
  <2> QED
    BY <1>3, <2>1 DEF MadeInv
<1>6. h = "undoclean" => r.made = {r.did}
  BY <1>3, CatchCases DEF MadeInv
<1>7. h \in {"undoonetime", "undocapture"} => r.made = {} /\ r.did \in tests \cup atomic
  <2>1. h \in {"undoonetime", "undocapture"} => r.op \in Reusing \cup {"madtonce"}
    BY CatchCases
  <2> QED
    BY <1>3, <2>1, Kinds DEF MadeInv
<1>8. h \in Disarms => bcd.seq \in {NoId, r.did}
  <2>1. CASE h = "undoclean"
    <3>1. r.op = "clean" /\ r.did # NoId
      BY <2>1, CatchCases
    <3>2. MakeCopy \in Done(s)
      BY <1>3, <3>1 DEF MadeInv
    <3>3. ConfirmNoSequence \in Done(s)
      <4>1. Done(s) = Before(Scripts[r.op], r.pc) /\ r.op \in DOMAIN Scripts /\ r.pc \in DOMAIN Scripts[r.op]
        BY DEF Done, Before, Working
      <4> QED
        BY <3>1, <3>2, <4>1, PastChecksAt
    <3> QED
      BY <1>3, <3>1, <3>3 DEF DoneInv
  <2>2. CASE h \in {"undoonetime", "undocapture"}
    BY <1>3, <2>2, CatchCases DEF DoneInv
  <2> QED
    BY <2>1, <2>2, Kinds
<1>9. r.made \cap (Named \cup {current, bcd.default}) = {}
  BY <1>3 DEF MadeInv
<1> HIDE DEF r, h
<1>10. MadeInv(s)'
  BY <1>1, <1>2, <1>4, <1>5, <1>6, <1>7, <1>9, Kinds DEF MadeInv
<1>11. DoneInv(s)'
  BY <1>1, <1>8, Kinds DEF DoneInv
<1> QED
  BY <1>10, <1>11

\* A script that ends on an exception leaves nothing it made, where Rollbacks.
LEMMA ThrownOwned ==
    ASSUME IInv, NEW s \in Sessions, NEW c, Working(s, c), Fails(s), StoreThrown, Keeps,
           ses[s].op \notin Undoing, leaked \subseteq leaked',
           c.op = "manifest" => ses[s].made = {} \/ Catch(s) # "none" \/ "late" \in Faults,
           Rollbacks
    PROVE  MadeEntriesOwned'
<1> DEFINE r == ses[s]
<1>1. bcd'.live \subseteq bcd.live /\ tests' = tests /\ atomic' = atomic /\ matrices' = matrices
  BY DEF StoreThrown, Keeps, Rollbacks
<1>2. ASSUME NEW g \in r.made PROVE g \in Unrecorded'
  <2>1. CASE RollsBack(s) /\ Same(s)
    BY <2>1 DEF Same, Unrecorded
  <2>2. CASE Ends(s) /\ Catch(s) = "none"
    <3>1. r.op \in {"clean", "matrix"}
      <4>1. r.op \notin Copying \cup {"undoclean", "undomatrix"} => r.made = {}
        BY DEF Working, MadeInv
      <4>2. r.op # "testboot"
        BY DEF IInv, MachineInv, Rollbacks
      <4> QED
        BY <1>2, <4>1, <4>2, Kinds
    <3>2. r.op # "clean"
      <4>1. r.op = "clean" => r.made = {r.did} \ {NoId}
        BY DEF Working, MadeInv
      <4>2. r.op = "clean" => r.did = NoId
        BY <2>2, CatchCases
      <4> QED
        BY <1>2, <4>1, <4>2
    <3>3. r.op = "matrix" /\ r.pc = Len(Scripts[r.op])
      BY <1>2, <2>2, <3>1, <3>2, CatchCases
    <3>4. c.op = "manifest"
      BY <3>3, CommandAt, Kinds DEF Working, Command
    <3> QED
      BY <1>2, <2>2, <3>4 DEF Rollbacks
  <2> QED
    BY <2>1, <2>2 DEF Fails
<1>3. Unrecorded \subseteq r.made
  BY IdleFields DEF Unrecorded, Working
<1>4. MadeEntriesOwned
  BY DEF IInv
<1> HIDE DEF r
<1> QED
  BY <1>1, <1>2, <1>3, <1>4 DEF MadeEntriesOwned

\* So the invariant holds after a command that throws.
LEMMA ThrownInv ==
    ASSUME IInv, NEW s \in Sessions, NEW c, Working(s, c), Fails(s), StoreThrown, Keeps,
           ses[s].op \notin Undoing, leaked \subseteq leaked',
           c.op = "manifest" => ses[s].made = {} \/ Catch(s) # "none" \/ "late" \in Faults,
           TypeOK'
    PROVE  IInv'
<1>1. MachineInv' /\ MatrixInv'
  BY ThrownMachine
<1>2. ReportInv'
  BY NothingReported DEF Working, Keeps
<1>3. ASSUME NEW t \in Sessions, ses'[t].op # "idle" PROVE MadeInv(t)' /\ DoneInv(t)'
  <2>1. t = s
    BY <1>3, IdleFields DEF Fails, Others, Working
  <2>2. RollsBack(s) /\ Same(s)
    BY <1>3, <2>1, IdleFields DEF Fails, Ends
  <2> QED
    BY <2>1, <2>2, ThrownMade
<1>4. Rollbacks => MadeEntriesOwned'
  BY ThrownOwned
<1> QED
  BY <1>1, <1>2, <1>3, <1>4 DEF IInv

-----------------------------------------------------------------------------
(***************************************************************************)
(* The outcomes of a command.                                              *)
(***************************************************************************)
\* A step of a session keeps the types.
LEMMA SteppedTypes ==
    ASSUME TypeOK, NEW s \in Sessions, NEW c, Working(s, c), Passes(s, c) \/ Fails(s), Keeps, mode' = mode,
           bcd' \in Stores, swallowed' \in BOOLEAN, leaked' \subseteq Ids, todo' \subseteq Ids,
           {crash', regFile'} \subseteq {"absent", "off", "on"}
    PROVE  TypeOK'
<1>1. ses' \in [Sessions -> Sess]
  BY DEF Passes, Fails
<1>2. ASSUME NEW t \in Sessions
      PROVE  ses'[t] = Idle \/ (ses'[t].op \in DOMAIN Scripts /\ ses'[t].pc \in DOMAIN Scripts[ses'[t].op])
  <2>1. CASE t # s
    BY <2>1 DEF Passes, Fails, Others, Working
  <2>2. CASE t = s /\ Proceeds(s, c)
    BY <2>2 DEF Proceeds, Working
  <2>3. CASE t = s /\ RollsBack(s)
    <3> DEFINE h == Catch(s)
    <3>1. ses'[s].op = h /\ ses'[s].pc = 1 /\ h \in Undoing
      BY <2>3 DEF RollsBack
    <3> HIDE DEF h
    <3>2. h \in DOMAIN Scripts
      BY <3>1, Kinds
    <3>3. 1 \in DOMAIN Scripts[h]
      <4>1. h \in {"undoonetime", "undoclean", "undocapture", "undomatrix"}
        BY <3>1, Kinds
      <4>2. Scripts[h] \in {<< Unsequence("diag") >>, << Unsequence("diag"), DeleteQuietly("diag") >>,
                            << Unsequence("diag"), ImportReg >>, << DeleteMade >>}
        BY <4>1 DEF Scripts, UndoOneTime, UndoClean, UndoCapture, UndoMatrix
      <4> QED
        BY <4>2
    <3> QED
      BY <2>3, <3>1, <3>2, <3>3
  <2>4. CASE t = s /\ Ends(s)
    BY <2>4 DEF Ends
  <2> QED
    BY <2>1, <2>2, <2>3, <2>4 DEF Passes, Fails
<1>3. MachineTypeOK(DOMAIN Scripts)'
  BY <1>1 DEF TypeOK, MachineTypeOK, Keeps, Sess
<1>4. /\ (tests \subseteq Ids /\ atomic \subseteq Ids /\ matrices \subseteq SUBSET Ids)'
      /\ (report \in [op : DOMAIN Scripts \cup {"none"}, safe : IdsOrNone, test : IdsOrNone])'
  BY DEF TypeOK, Keeps
<1> QED
  BY <1>2, <1>3, <1>4 DEF TypeOK

\* What a bcdedit command that succeeds does to the store.
LEMMA SucceedStore ==
    ASSUME IInv, NEW s \in Sessions, NEW c, Working(s, c), c.op \in BcdEditOps,
           Possible(bcd, c, Target(s, c)), bcd' = Exec(bcd, c, Target(s, c))
    PROVE  /\ StoreStep(s, c)
           /\ c.op = "delete" => bcd'.live = bcd.live \ {ses[s].did}
<1> DEFINE i   == Target(s, c)
           did == ses[s].did
           op  == ses[s].op
<1>1. i = CASE c.on = "current" -> current [] c.on = "diag" -> did [] OTHER -> NoId
  BY DEF Working
<1>2. c \in Commands /\ Lawful(op, c)
  BY DEF Working, Lawful
<1>3. current \in Ids /\ did \in IdsOrNone /\ bcd \in Stores
  BY DEF Working, Sess, SessionStates, IInv, TypeOK, MachineTypeOK
<1>4. i \in IdsOrNone
  BY <1>1, <1>3 DEF IdsOrNone
<1> HIDE DEF i
<1>5. Effect(bcd, c, i, bcd')
  <2>1. WellTyped(c)
    BY <1>2 DEF WellTyped, Commands
  <2> QED
    BY <1>3, <1>4, <2>1, ExecEffect DEF i
<1>6. c.op \in EntryOps => i \in bcd.live /\ i \in Ids
  BY <1>3 DEF i, Possible, EntryOps, BootMgrOps, Stores
<1>7. c.op = "delete" => i = did /\ did # bcd.default /\ op = "undoclean"
  <2>1. c.op = "delete" => c.on = "diag" /\ op = "undoclean"
    BY <1>2 DEF Lawful
  <2>2. op = "undoclean" => ses[s].made = {did} /\ ses[s].made \cap (Named \cup {current, bcd.default}) = {}
    BY DEF Working, MadeInv
  <2> QED
    BY <1>1, <2>1, <2>2
<1>8. c.op = "default" => c = Default("current") /\ i = current
  <2>1. c = Default("current") => c.on = "current"
    BY CmdFields DEF Default
  <2> QED
    BY <1>1, <1>2, <2>1 DEF Lawful
<1>9. c.op = "bootsequence" => c = Sequence("diag") /\ i = did
  <2>1. c = Sequence("diag") => c.on = "diag"
    BY CmdFields DEF Sequence
  <2> QED
    BY <1>1, <1>2, <2>1 DEF Lawful
<1>10. /\ bcd' \in Stores /\ bcd'.used = bcd.used /\ bcd'.live \subseteq bcd.live
       /\ c.op = "delete" => bcd'.live = bcd.live \ {did}
       /\ c.op # "delete" => bcd'.live = bcd.live
  BY <1>5, <1>7 DEF Effect
<1>11. bcd'.default = bcd.default \/ (c = Default("current") /\ bcd'.default = current)
  BY <1>5, <1>7, <1>8 DEF Effect
<1>12. \/ bcd'.seq = bcd.seq
       \/ bcd'.seq = NoId /\ op \in Disarms \cup {"cancel"}
       \/ bcd'.seq = did /\ c = Sequence("diag")
  <2>1. c.op # "clearsequence" /\ (c.op = "unsequence" => op \in Disarms \cup {"cancel"})
    BY <1>2 DEF Lawful
  <2> QED
    BY <1>5, <1>7, <1>9, <2>1, Kinds DEF Effect
<1>13. {bcd'.default, bcd'.seq} \subseteq bcd'.live \cup {NoId}
  <2>1. {bcd.default, bcd.seq} \subseteq bcd.live \cup {NoId}
    BY DEF IInv, MachineInv
  <2>2. CASE c.op = "delete"
    <3>1. bcd'.seq = IF bcd.seq = did THEN NoId ELSE bcd.seq
      BY <1>5, <1>7, <2>2 DEF Effect
    <3>2. bcd'.default = bcd.default
      BY <1>5, <1>7, <2>2 DEF Effect
    <3> QED
      BY <1>7, <1>10, <2>1, <2>2, <3>1, <3>2
  <2>3. CASE c.op # "delete"
    <3>1. c.op \in {"default", "bootsequence"} => i \in bcd.live
      BY <1>6 DEF EntryOps
    <3>2. bcd'.default = bcd.default \/ (c.op = "default" /\ bcd'.default = i)
      BY <1>5, <2>3 DEF Effect
    <3>3. bcd'.seq \in {bcd.seq, NoId} \/ (c.op = "bootsequence" /\ bcd'.seq = i)
      BY <1>5, <2>3 DEF Effect
    <3> QED
      BY <1>10, <2>1, <2>3, <3>1, <3>2, <3>3
  <2> QED
    BY <2>2, <2>3
<1>14. EntryStep(s, c)
  <2> SUFFICES ASSUME NEW j \in Ids, NEW y \in Elements, bcd'.entry[j][y] # bcd.entry[j][y]
               PROVE  \/ /\ c.op \in SettingOps /\ c.on = "current" /\ j = current
                         /\ y \in {"launch", "vsm"} /\ bcd'.entry[j][y] = "off"
                      \/ /\ c.op \in SettingOps /\ c.on = "diag" /\ j = did
                         /\ y = c.elem /\ bcd'.entry[j][y] = c.val
    BY DEF EntryStep
  <2>1. c.op \in SettingOps /\ j = i /\ y = c.elem /\ bcd'.entry[j][y] = c.val
    BY <1>5 DEF Effect, SettingOps
  <2>2. c.on \in {"current", "diag"} /\ (c.on = "current" => c.elem \in {"launch", "vsm"} /\ c.val = "off")
    BY <1>2, <2>1 DEF Lawful, SettingOps, EntryOps
  <2> QED
    BY <1>1, <2>1, <2>2
<1>15. Establishes(s, c)
  <2>1. c = TurnOff => ~ Launches(bcd'.entry[current])
    <3>1. c = TurnOff => c.op = "set" /\ c.on = "current" /\ c.elem = "launch" /\ c.val = "off"
      BY CmdFields DEF TurnOff, Set
    <3>2. c = TurnOff => bcd'.entry[current]["launch"] = "off"
      BY <1>1, <1>3, <1>5, <3>1 DEF Effect, Elements
    <3> QED
      BY <3>2 DEF Launches
  <2>2. c = FoundOff => ~ Launches(bcd'.entry[current])
    <3>1. c = FoundOff => c.op = "confirm" /\ c.on = "current" /\ c.elem = "launch" /\ c.val = "off"
      BY CmdFields DEF FoundOff, Confirm
    <3>2. c = FoundOff => bcd'.entry[current]["launch"] = "off"
      BY <1>1, <1>3, <1>5, <3>1 DEF Effect, Elements, Possible, i
    <3> QED
      BY <3>2 DEF Launches
  <2>3. c = Default("current") => bcd'.default = current
    <3>1. c = Default("current") => c.op = "default"
      BY CmdFields DEF Default
    <3> QED
      BY <1>5, <1>8, <3>1 DEF Effect
  <2>4. c = FoundAuto => Launches(bcd'.entry[did])
    <3>1. c = FoundAuto => c.op = "confirm" /\ c.on = "diag" /\ c.elem = "launch" /\ c.val = "auto"
      BY CmdFields DEF FoundAuto, Confirm
    <3>2. c = FoundAuto => i = did /\ did \in Ids /\ bcd.entry[did]["launch"] = "auto"
      BY <1>1, <1>6, <3>1 DEF EntryOps, Possible, i
    <3>3. c = FoundAuto => bcd'.entry[did]["launch"] = "auto"
      BY <1>5, <3>1, <3>2 DEF Effect, Elements
    <3> QED
      BY <3>3 DEF Launches
  <2>5. ASSUME NEW x \in Elements, c = Confirm("diag", x, "absent") PROVE bcd'.entry[did][x] = "absent"
    <3>1. c.op = "confirm" /\ c.on = "diag" /\ c.elem = x /\ c.val = "absent"
      BY <2>5, CmdFields DEF Confirm
    <3>2. i = did /\ did \in Ids /\ bcd.entry[did][x] = "absent"
      BY <1>1, <1>6, <3>1 DEF EntryOps, Possible, i
    <3> QED
      BY <1>5, <3>1, <3>2 DEF Effect
  <2>6. c = ConfirmNoSequence => bcd'.seq = NoId
    <3>1. c = ConfirmNoSequence => c.op = "confirmnosequence"
      BY CmdFields DEF ConfirmNoSequence
    <3> QED
      BY <1>5, <3>1 DEF Effect, Possible
  <2>7. c = Sequence("diag") => bcd'.seq = did
    <3>1. c = Sequence("diag") => c.op = "bootsequence"
      BY CmdFields DEF Sequence
    <3> QED
      BY <1>5, <1>9, <3>1 DEF Effect
  <2>8. c = Unsequence("diag") => bcd'.seq = NoId
    <3>1. c = Unsequence("diag") => c.op = "unsequence"
      BY CmdFields DEF Unsequence
    <3> QED
      BY <1>5, <3>1 DEF Effect
  <2> QED
    BY <2>1, <2>2, <2>3, <2>4, <2>5, <2>6, <2>7, <2>8 DEF Establishes
<1> QED
  BY <1>10, <1>11, <1>12, <1>13, <1>14, <1>15 DEF StoreStep

\* It keeps the invariant.
LEMMA SucceedInv ==
    ASSUME IInv, NEW s \in Sessions, NEW c, Working(s, c), Succeed(s, Scripts[ses[s].op], c), BcdOnly
    PROVE  IInv'
<1>1. /\ c.op \in BcdEditOps /\ Possible(bcd, c, Target(s, c)) /\ bcd' = Exec(bcd, c, Target(s, c))
      /\ Advance(s, Scripts[ses[s].op]) /\ UNCHANGED <<current, mode, swallowed, leaked>>
  BY DEF Succeed
<1>2. StoreStep(s, c) /\ (c.op = "delete" => bcd'.live = bcd.live \ {ses[s].did})
  BY <1>1, SucceedStore
<1>3. Keeps /\ UNCHANGED <<todo, crash, regFile>>
  BY <1>1 DEF Keeps, BcdOnly, legacyVars
<1>4. TypeOK
  BY DEF IInv
<1>5. Passes(s, c)
  BY <1>1, <1>4, AdvanceEffect
<1>6. TypeOK'
  <2>1. bcd' \in Stores
    BY <1>2 DEF StoreStep
  <2>2. swallowed' \in BOOLEAN /\ leaked' \subseteq Ids /\ todo' \subseteq Ids /\ mode' = mode
        /\ {crash', regFile'} \subseteq {"absent", "off", "on"}
    BY <1>1, <1>3, <1>4 DEF TypeOK, MachineTypeOK
  <2> QED
    BY <1>3, <1>4, <1>5, <2>1, <2>2, SteppedTypes
<1>7. c.op \notin {"manifest", "copy", "deletemade"}
  BY <1>1 DEF BcdEditOps, EntryOps, BootMgrOps
<1>8. ses[s].op = "undoclean" /\ ses[s].pc = 2 => ses[s].did \notin bcd'.live \ leaked'
  <2>1. ses[s].op = "undoclean" /\ ses[s].pc = 2 => c = DeleteQuietly("diag")
    BY UndoWhole DEF Working, Command, Scripts
  <2>2. ses[s].op = "undoclean" /\ ses[s].pc = 2 => c.op = "delete"
    BY <2>1, CmdFields DEF DeleteQuietly
  <2> QED
    BY <1>2, <2>2
<1> QED
  BY <1>1, <1>2, <1>3, <1>5, <1>6, <1>7, <1>8, PassedInv

\* A command that changes no entry, and neither the default nor the sequence.
LEMMA KeptStore ==
    ASSUME IInv, NEW s \in Sessions, NEW c, Working(s, c), c.onfail = "ignore" \/ c.op \in OwnOps,
           c = Unsequence("diag") /\ ses[s].op \in Disarms => bcd.seq = NoId \/ "soft" \in Faults,
           bcd' \in Stores, bcd'.entry = bcd.entry, bcd'.live = bcd.live, bcd'.used = bcd.used,
           bcd'.default = bcd.default, bcd'.seq = bcd.seq
    PROVE  StoreStep(s, c)
<1>1. c \notin {TurnOff, FoundOff, Default("current"), FoundAuto, ConfirmNoSequence, Sequence("diag")}
  BY CmdFields DEF TurnOff, FoundOff, Default, FoundAuto, ConfirmNoSequence, Sequence, Set, Confirm, OwnOps
<1>2. \A x : c # Confirm("diag", x, "absent")
  BY CmdFields DEF Confirm, OwnOps
<1>3. Establishes(s, c)
  BY <1>1, <1>2 DEF Establishes
<1>4. EntryStep(s, c)
  BY DEF EntryStep
<1>5. {bcd.default, bcd.seq} \subseteq bcd.live \cup {NoId}
  BY DEF IInv, MachineInv
<1> QED
  BY <1>3, <1>4, <1>5 DEF StoreStep

\* A bcdedit command that fails without being noticed changes nothing in the store.
LEMMA FailSoftlyStore ==
    ASSUME IInv, NEW s \in Sessions, NEW c, Working(s, c), FailSoftly(s, Scripts[ses[s].op], c)
    PROVE  StoreStep(s, c)
<1>1. c.onfail = "ignore" /\ (~ Possible(bcd, c, Target(s, c)) \/ "soft" \in Faults) /\ bcd' = bcd
  BY DEF FailSoftly
<1>2. bcd \in Stores
  BY DEF IInv, TypeOK, MachineTypeOK
<1>5. c.on = "diag" => Target(s, c) = ses[s].did
  BY DEF Working
<1>6. ASSUME c = Unsequence("diag"), ses[s].op \in Disarms PROVE bcd.seq = NoId \/ "soft" \in Faults
  <2> SUFFICES ASSUME ~ Possible(bcd, c, Target(s, c)), bcd.seq # NoId PROVE FALSE
    BY <1>1
  <2>1. c.op = "unsequence" /\ Target(s, c) = ses[s].did
    BY <1>5, <1>6, CmdFields DEF Unsequence
  <2>2. bcd.seq = ses[s].did /\ bcd.seq \in bcd.live
    <3>1. bcd.seq \in {NoId, ses[s].did}
      BY <1>6 DEF Working, DoneInv
    <3> QED
      BY <3>1 DEF IInv, MachineInv
  <2>3. Possible(bcd, c, Target(s, c))
    BY <2>1, <2>2 DEF Possible
  <2> QED
    BY <2>3
<1> QED
  BY <1>1, <1>2, <1>6, KeptStore

\* A bcdedit command that fails without being noticed keeps the invariant.
LEMMA FailSoftlyInv ==
    ASSUME IInv, NEW s \in Sessions, NEW c, Working(s, c), FailSoftly(s, Scripts[ses[s].op], c), BcdOnly
    PROVE  IInv'
<1>1. /\ c.onfail = "ignore" /\ c.op \in BcdEditOps
      /\ ~ Possible(bcd, c, Target(s, c)) \/ "soft" \in Faults
      /\ swallowed' = (swallowed \/ (c.op = "deletevalue" /\ Possible(bcd, c, Target(s, c))))
      /\ leaked' = leaked \cup (IF c.op = "delete" THEN {Target(s, c)} \cap bcd.live ELSE {})
      /\ Advance(s, Scripts[ses[s].op]) /\ UNCHANGED <<bcd, current, mode>>
  BY DEF FailSoftly
<1>2. TypeOK /\ bcd \in Stores
  BY DEF IInv, TypeOK, MachineTypeOK
<1>3. Keeps /\ UNCHANGED <<todo, crash, regFile>>
  BY <1>1 DEF Keeps, BcdOnly, legacyVars
<1>4. Passes(s, c)
  BY <1>1, <1>2, AdvanceEffect
<1>5. c.on = "diag" => Target(s, c) = ses[s].did
  BY DEF Working
<1>7. StoreStep(s, c)
  BY FailSoftlyStore
<1>8. TypeOK'
  <2>1. swallowed' \in BOOLEAN
    <3>1. (swallowed \/ (c.op = "deletevalue" /\ Possible(bcd, c, Target(s, c)))) \in BOOLEAN
      OBVIOUS
    <3> QED
      BY <1>1, <3>1
  <2>2. leaked' \subseteq Ids /\ todo' \subseteq Ids /\ mode' = mode /\ bcd' \in Stores
        /\ {crash', regFile'} \subseteq {"absent", "off", "on"}
    <3>1. leaked \subseteq Ids /\ bcd.live \subseteq Ids
      BY <1>2 DEF TypeOK, MachineTypeOK, Stores
    <3> QED
      BY <1>1, <1>2, <1>3, <3>1 DEF TypeOK
  <2> QED
    BY <1>2, <1>3, <1>4, <2>1, <2>2, SteppedTypes
<1>9. c.op \notin {"manifest", "copy", "deletemade"} /\ leaked \subseteq leaked'
  BY <1>1 DEF BcdEditOps, EntryOps, BootMgrOps
<1>10. ses[s].op = "undoclean" /\ ses[s].pc = 2 => ses[s].did \notin bcd'.live \ leaked'
  <2>1. ses[s].op = "undoclean" /\ ses[s].pc = 2 => c = DeleteQuietly("diag")
    BY UndoWhole DEF Working, Command, Scripts
  <2>2. ses[s].op = "undoclean" /\ ses[s].pc = 2 => c.op = "delete" /\ c.on = "diag"
    BY <2>1, CmdFields DEF DeleteQuietly
  <2> QED
    BY <1>1, <1>5, <2>2
<1> QED
  BY <1>3, <1>4, <1>7, <1>8, <1>9, <1>10, PassedInv

\* Nothing in the store changes where a command throws.
LEMMA SameStoreThrown ==
    ASSUME IInv, bcd' = bcd
    PROVE  StoreThrown
BY DEF StoreThrown, IInv, MachineInv

\* A script that throws is not a catch block.
LEMMA UndoingGoesOn ==
    ASSUME NEW s \in Sessions, NEW c, Working(s, c),
           c.op # "deletemade", c.onfail = "throw" \/ c.op \in OwnOps \ {"importreg"}
    PROVE  ses[s].op \notin Undoing
BY Kinds DEF Working, Lawful, OwnOps

\* An exception that changes nothing in the store keeps the invariant.
LEMMA PlainThrowInv ==
    ASSUME IInv, NEW s \in Sessions, NEW c, Working(s, c), Throw(s, Catch(s)), bcd' = bcd, Keeps,
           UNCHANGED <<mode, swallowed, crash, regFile>>, todo' \in {todo, {}},
           ses[s].op \notin Undoing, leaked' = leaked,
           c.op = "manifest" => ses[s].made = {} \/ Catch(s) # "none" \/ "late" \in Faults
    PROVE  IInv'
<1>1. TypeOK /\ bcd \in Stores
  BY DEF IInv, TypeOK, MachineTypeOK
<1>2. Fails(s) /\ StoreThrown
  BY <1>1, ThrowEffect, SameStoreThrown
<1>3. TypeOK'
  <2>1. leaked' \subseteq Ids
    BY DEF IInv, TypeOK, MachineTypeOK, Working, Sess, SessionStates
  <2>2. swallowed' \in BOOLEAN /\ todo' \subseteq Ids /\ bcd' \in Stores /\ mode' = mode
        /\ {crash', regFile'} \subseteq {"absent", "off", "on"}
    BY <1>1 DEF TypeOK, MachineTypeOK
  <2> QED
    BY <1>1, <1>2, <2>1, <2>2, SteppedTypes
<1> QED
  BY <1>2, <1>3, ThrownInv

\* A bcdedit command that fails keeps it.
LEMMA FailHardInv ==
    ASSUME IInv, NEW s \in Sessions, NEW c, Working(s, c), FailHard(s, c, Catch(s)), BcdOnly
    PROVE  IInv'
<1>1. /\ c.onfail = "throw" /\ c.op \in BcdEditOps \cup {"copy"} /\ Throw(s, Catch(s))
      /\ UNCHANGED <<bcd, current, mode, swallowed, leaked>>
  BY DEF FailHard
<1>2. Keeps /\ UNCHANGED <<todo, crash, regFile>>
  BY <1>1 DEF Keeps, BcdOnly, legacyVars
<1>3. c.op # "manifest" /\ ses[s].op \notin Undoing
  BY <1>1, UndoingGoesOn DEF BcdEditOps, EntryOps, BootMgrOps
<1> QED
  BY <1>1, <1>2, <1>3, PlainThrowInv

\* A copy is made of the running entry, by a script that makes entries.
LEMMA CopyCommand ==
    ASSUME IInv, NEW s \in Sessions, NEW c, Working(s, c), c.op = "copy", Possible(bcd, c, Target(s, c))
    PROVE  /\ ses[s].op \in Copying /\ c = MakeCopy
           /\ bcd \in Stores /\ Target(s, c) \in bcd.live /\ c.val \in Values
<1>1. ses[s].op \in Copying /\ c = MakeCopy /\ c.val \in Values
  BY DEF Working, Lawful, Commands
<1> QED
  BY <1>1 DEF Possible, BootMgrOps, IInv, TypeOK, MachineTypeOK

\* A copy whose GUID the script cannot read is nobody's, which the invariant allows.
LEMMA CopyUnreadInv ==
    ASSUME IInv, NEW s \in Sessions, NEW c, Working(s, c), CopyUnread(s, c, Catch(s)), BcdOnly
    PROVE  IInv'
<1> DEFINE i == Target(s, c)
<1>1. PICK g \in Ids \ bcd.used : bcd' = Copied(bcd, i, g, c.val)
  BY DEF CopyUnread
<1>2. /\ c.op = "copy" /\ Possible(bcd, c, i) /\ Throw(s, Catch(s)) /\ "parse" \in Faults
      /\ UNCHANGED <<current, mode, swallowed, leaked>>
  BY DEF CopyUnread
<1>3. Keeps /\ UNCHANGED <<todo, crash, regFile>>
  BY <1>2 DEF Keeps, BcdOnly, legacyVars
<1>4. bcd \in Stores /\ i \in bcd.live /\ c.val \in Values /\ ses[s].op \in Copying
  BY <1>2, CopyCommand
<1> HIDE DEF i
<1>5. /\ bcd' \in Stores /\ bcd'.used = bcd.used \cup {g} /\ bcd'.live = bcd.live \cup {g}
      /\ bcd'.default = bcd.default /\ bcd'.seq = bcd.seq
      /\ \A j \in Ids \ {g} : bcd'.entry[j] = bcd.entry[j]
  BY <1>1, <1>4, CopiedEffect
<1>6. StoreThrown
  <2>1. bcd.used \subseteq Ids /\ bcd.live \subseteq bcd.used
    BY <1>4 DEF Stores, IInv, MachineInv
  <2> QED
    BY <1>1, <1>2, <1>5, <2>1 DEF StoreThrown
<1>7. Fails(s) /\ TypeOK
  BY <1>2, ThrowEffect DEF IInv
<1>8. TypeOK'
  <2>1. swallowed' \in BOOLEAN /\ leaked' \subseteq Ids /\ todo' \subseteq Ids /\ mode' = mode
        /\ {crash', regFile'} \subseteq {"absent", "off", "on"}
    BY <1>1, <1>2, <1>3, <1>7 DEF TypeOK, MachineTypeOK
  <2> QED
    BY <1>3, <1>5, <1>7, <2>1, SteppedTypes
<1>9. ses[s].op \notin Undoing /\ c.op # "manifest" /\ leaked \subseteq leaked'
  BY <1>2, <1>4, Kinds
<1> QED
  BY <1>3, <1>6, <1>7, <1>8, <1>9, ThrownInv

\* The commands that are not bcdedit's keep it: those that leave the entries alone.
LEMMA ReplaceOrderInv ==
    ASSUME IInv, NEW s \in Sessions, NEW c, Working(s, c), ReplaceOrder(s, c)
    PROVE  IInv'
<1>1. c.op = "onlythese" /\ c.op \in OwnOps /\ BcdOnly /\ UNCHANGED <<current, mode, swallowed, leaked>>
  BY DEF ReplaceOrder, OwnOps
<1>2. Keeps /\ UNCHANGED <<todo, crash, regFile>>
  BY <1>1 DEF Keeps, BcdOnly, legacyVars
<1>3. ses[s].op \notin Undoing
  BY <1>1, UndoingGoesOn
<1>4. TypeOK /\ bcd \in Stores
  BY DEF IInv, TypeOK, MachineTypeOK
<1>5. CASE Throw(s, Catch(s)) /\ bcd' = bcd
  BY <1>1, <1>2, <1>3, <1>5, PlainThrowInv
<1>6. CASE /\ {current, ses[s].did} \subseteq bcd.live
           /\ bcd' = [bcd EXCEPT !.order = {current, ses[s].did}]
           /\ Advance(s, Scripts[ses[s].op])
  <2>1. Passes(s, c)
    BY <1>4, <1>6, AdvanceEffect
  <2>2. /\ bcd' \in Stores /\ bcd'.entry = bcd.entry /\ bcd'.live = bcd.live /\ bcd'.used = bcd.used
        /\ bcd'.default = bcd.default /\ bcd'.seq = bcd.seq
    BY <1>4, <1>6 DEF Stores
  <2>3. c # Unsequence("diag")
    BY <1>1, CmdFields DEF Unsequence
  <2>4. StoreStep(s, c)
    BY <1>1, <2>2, <2>3, KeptStore
  <2>5. TypeOK'
    <3>1. swallowed' \in BOOLEAN /\ leaked' \subseteq Ids /\ todo' \subseteq Ids /\ mode' = mode
          /\ {crash', regFile'} \subseteq {"absent", "off", "on"}
      BY <1>1, <1>2, <1>4 DEF TypeOK, MachineTypeOK
    <3> QED
      BY <1>2, <1>4, <2>1, <2>2, <3>1, SteppedTypes
  <2>6. c.op \notin {"manifest", "copy", "deletemade"} /\ leaked \subseteq leaked'
        /\ ses[s].op # "undoclean"
    BY <1>1, <1>3, Kinds
  <2> QED
    BY <1>2, <2>1, <2>4, <2>5, <2>6, PassedInv
<1> QED
  BY <1>5, <1>6 DEF ReplaceOrder

LEMMA RegistryInv ==
    ASSUME IInv, NEW s \in Sessions, NEW c, Working(s, c), RegistryCommand(s, c)
    PROVE  IInv'
<1>1. UNCHANGED <<bcd, current, mode, swallowed, leaked, tests, atomic, matrices, todo, report>>
  BY DEF RegistryCommand
<1>2. Keeps
  BY <1>1 DEF Keeps
<1>4. TypeOK /\ bcd \in Stores
  BY DEF IInv, TypeOK, MachineTypeOK
<1>5. CASE /\ c.op \in {"exportreg", "showcrash"} /\ Throw(s, Catch(s)) /\ UNCHANGED <<crash, regFile>>
  <2>1. ses[s].op \notin Undoing /\ c.op # "manifest"
    BY <1>5, UndoingGoesOn DEF OwnOps
  <2> QED
    BY <1>1, <1>2, <1>5, <2>1, PlainThrowInv
<1>6. CASE /\ \/ c.op = "exportreg" /\ regFile' = crash /\ UNCHANGED crash
              \/ c.op = "showcrash" /\ crash' = "on" /\ UNCHANGED regFile
              \/ /\ c.op = "importreg"
                 /\ crash' \in {IF regFile = "absent" THEN crash ELSE regFile}
                              \cup (IF "soft" \in Faults THEN {crash} ELSE {})
                 /\ UNCHANGED regFile
           /\ Advance(s, Scripts[ses[s].op])
  <2>1. Passes(s, c) /\ c.op \in OwnOps /\ c.op \in {"exportreg", "showcrash", "importreg"}
    BY <1>4, <1>6, AdvanceEffect DEF OwnOps
  <2>2. c # Unsequence("diag")
    BY <2>1, CmdFields DEF Unsequence
  <2>3. StoreStep(s, c)
    BY <1>1, <1>4, <2>1, <2>2, KeptStore
  <2>4. {crash', regFile'} \subseteq {"absent", "off", "on"}
    BY <1>4, <1>6 DEF TypeOK
  <2>5. TypeOK'
    <3>1. swallowed' \in BOOLEAN /\ leaked' \subseteq Ids /\ todo' \subseteq Ids /\ mode' = mode /\ bcd' \in Stores
      BY <1>1, <1>4 DEF TypeOK, MachineTypeOK
    <3> QED
      BY <1>2, <1>4, <2>1, <2>4, <3>1, SteppedTypes
  <2>6. c.op \notin {"manifest", "copy", "deletemade"} /\ leaked \subseteq leaked'
        /\ ses[s].op # "undoclean"
    BY <1>1, <2>1 DEF Working, Lawful
  <2> QED
    BY <1>2, <2>1, <2>3, <2>5, <2>6, PassedInv
<1> QED
  BY <1>5, <1>6 DEF RegistryCommand

\* The copy a script makes is its own: the invariant holds.
LEMMA CopyEntryInv ==
    ASSUME IInv, NEW s \in Sessions, NEW c, Working(s, c), CopyEntry(s, Scripts[ses[s].op], c), BcdOnly
    PROVE  IInv'
<1> DEFINE i  == Target(s, c)
           op == ses[s].op
           pc == ses[s].pc
<1>1. PICK g \in Ids \ bcd.used :
         /\ bcd' = Copied(bcd, i, g, c.val)
         /\ ses' = [ses EXCEPT ![s] = AfterCommand(WithCopy(@, g), Scripts[op])]
  BY DEF CopyEntry
<1>2. c.op = "copy" /\ Possible(bcd, c, i) /\ UNCHANGED <<current, mode, swallowed, leaked>>
  BY DEF CopyEntry
<1>3. Keeps /\ UNCHANGED <<todo, crash, regFile>>
  BY <1>2 DEF Keeps, BcdOnly, legacyVars
<1>4. bcd \in Stores /\ i \in bcd.live /\ c.val \in Values /\ op \in Copying /\ c = MakeCopy
  BY <1>2, CopyCommand
<1> HIDE DEF i
<1>5. /\ bcd' \in Stores /\ bcd'.used = bcd.used \cup {g} /\ bcd'.live = bcd.live \cup {g}
      /\ bcd'.default = bcd.default /\ bcd'.seq = bcd.seq
      /\ \A j \in Ids \ {g} : bcd'.entry[j] = bcd.entry[j]
  BY <1>1, <1>4, CopiedEffect
<1>6. TypeOK /\ ses[s] \in Sess /\ op \in DOMAIN Scripts /\ pc \in DOMAIN Scripts[op] /\ c = Scripts[op][pc]
  BY DEF IInv, Working, Command
<1>7. pc + 1 \in DOMAIN Scripts[op] /\ pc + 1 \in Nat /\ pc # Len(Scripts[op])
      /\ Before(Scripts[op], pc + 1) = Before(Scripts[op], pc) \cup {c}
  <2>1. op \in Recording
    BY <1>4, Kinds
  <2>2. pc # Len(Scripts[op])
    BY <1>2, <1>6, <2>1, CommandAt
  <2> QED
    BY <1>6, <2>2, CommandAt
<1>8. /\ ses' \in [Sessions -> Sess] /\ Others(s)
      /\ ses'[s].op = op /\ ses'[s].pc = pc + 1 /\ ses'[s].did = g /\ ses'[s].made = ses[s].made \cup {g}
  <2> DEFINE r == WithCopy(ses[s], g)
  <2>1. r \in Sess /\ r.op = op /\ r.pc = pc /\ r.did = g /\ r.made = ses[s].made \cup {g}
    BY <1>6 DEF WithCopy, Sess, SessionStates, IdsOrNone
  <2>2. ses' = [ses EXCEPT ![s] = AfterCommand(r, Scripts[op])]
    BY <1>1
  <2> HIDE DEF r
  <2>3. AfterCommand(r, Scripts[op]) = [r EXCEPT !.pc = r.pc + 1]
    BY <1>7, <2>1 DEF AfterCommand
  <2>4. ses' = [ses EXCEPT ![s] = [r EXCEPT !.pc = r.pc + 1]]
    BY <2>2, <2>3
  <2> QED
    BY <1>6, <1>7, <2>1, <2>4 DEF Others, Sess, SessionStates, TypeOK, MachineTypeOK
<1>9. Done(s)' = Done(s) \cup {c}
  BY <1>7, <1>8 DEF Done, Before
<1>10. \A t \in Sessions : t # s => ses'[t] = Idle
  BY <1>8 DEF Others, Working
<1>11. TypeOK'
  <2>1. MachineTypeOK(DOMAIN Scripts)'
    BY <1>2, <1>5, <1>6, <1>8 DEF TypeOK, MachineTypeOK, Sess
  <2>2. \A t \in Sessions : ses'[t] = Idle \/ (ses'[t].op \in DOMAIN Scripts /\ ses'[t].pc \in DOMAIN Scripts[ses'[t].op])
    BY <1>6, <1>7, <1>8, <1>10
  <2> QED
    BY <1>3, <1>6, <2>1, <2>2 DEF TypeOK, Keeps
<1>12. /\ bcd.used \subseteq Ids /\ bcd.live \cup Named \subseteq bcd.used /\ current \in bcd.used \cup {NoId}
       /\ {bcd.default, bcd.seq} \subseteq bcd.used \cup {NoId} /\ g # NoId /\ current # NoId
  <2>1. current \in Ids
    BY DEF Working
  <2> QED
    BY <1>1, <1>4, <2>1, NoIdAssumption DEF IInv, MachineInv, Stores
<1>13. Named' = Named /\ current' = current /\ matrices' = matrices
  BY <1>3 DEF Named, Keeps
<1>14. MachineInv'
  <2>1. \A t, u \in Sessions : ses'[t].op # "idle" /\ ses'[u].op # "idle" => t = u
    BY <1>10, IdleFields
  <2>2. \A t \in Sessions : ses'[t].op = "testboot" => "testboot" \in Experiments
    BY <1>8, <1>10, IdleFields DEF IInv, MachineInv
  <2>3. ({bcd.default, bcd.seq} \subseteq bcd.live \cup {NoId})'
    BY <1>5 DEF IInv, MachineInv
  <2>4. ((tests \cup atomic) \cap UNION matrices = {})'
    BY <1>3 DEF Keeps, IInv, MachineInv
  <2> QED
    BY <1>5, <1>12, <1>13, <2>1, <2>2, <2>3, <2>4 DEF MachineInv
<1>15. ReportInv'
  BY <1>3, NothingReported DEF Working, Keeps
<1>16. MatrixInv'
  <2>1. bcd.default \in UNION matrices => bcd'.entry[bcd.default] = bcd.entry[bcd.default]
    BY <1>1, <1>5, <1>12 DEF Named
  <2> QED
    BY <1>5, <1>13, <2>1 DEF IInv, MatrixInv
<1>17. MadeInv(s) /\ DoneInv(s) /\ Follows(op, c, Done(s)) /\ ses[s].made \subseteq Ids
  BY <1>6 DEF Working, Sess, SessionStates
<1>18. MadeInv(s)'
  <2>1. op \in {"testboot", "clean"} => ses[s].made = {} /\ ses[s].did = NoId
    <3>1. op \in {"testboot", "clean"} => MakeCopy \notin Done(s)
      BY <1>2, <1>17 DEF Follows
    <3> QED
      BY <1>17, <3>1 DEF MadeInv
  <2>2. ses[s].made \cap (Named \cup {current, bcd.default}) = {} /\ ses[s].made \subseteq bcd.used
        /\ (op \notin {"clean", "undoclean"} => bcd.seq \notin ses[s].made)
    BY <1>17 DEF MadeInv
  <2>3. (ses[s].made \cup {g}) \cap (Named \cup {current, bcd.default}) = {}
    BY <1>1, <1>12, <2>2
  <2>4. op \notin {"clean", "undoclean"} => bcd.seq \notin ses[s].made \cup {g}
    BY <1>1, <1>12, <2>2
  <2>5. MakeCopy \in Done(s)'
    BY <1>4, <1>9
  <2> HIDE DEF op, pc
  <2> QED
    BY <1>4, <1>5, <1>8, <1>12, <1>13, <2>1, <2>2, <2>3, <2>4, <2>5, Kinds DEF MadeInv
<1>19. DoneInv(s)'
  <2>1. /\ c \notin {TurnOff, FoundOff, Default("current"), ConfirmNoSequence}
    BY <1>2, CmdFields DEF TurnOff, FoundOff, Default, ConfirmNoSequence, Set, Confirm
  <2>2. bcd'.entry[current] = bcd.entry[current]
    BY <1>1, <1>5, <1>12
  <2>3. ConfirmNoSequence \in Done(s) /\ op = "clean" => bcd.seq = NoId
    <3>1. op = "clean" => MakeCopy \notin Done(s)
      BY <1>2, <1>17 DEF Follows
    <3>2. op = "clean" => ses[s].did = NoId
      BY <1>17, <3>1 DEF MadeInv
    <3> QED
      BY <1>17, <3>2 DEF DoneInv
  <2>4. {TurnOff, FoundOff} \cap Done(s) # {} => ~ Launches(bcd.entry[current])
    BY <1>17 DEF DoneInv
  <2>5. Default("current") \in Done(s) /\ op # "unmatrix" => bcd.default = current
    BY <1>17 DEF DoneInv
  <2> HIDE DEF op, pc
  <2> QED
    BY <1>4, <1>5, <1>8, <1>9, <1>13, <2>1, <2>2, <2>3, <2>4, <2>5, Kinds DEF DoneInv
<1>20. Rollbacks => MadeEntriesOwned'
  <2>1. Unrecorded \subseteq ses[s].made
    BY IdleFields DEF Unrecorded, Working
  <2>2. ses[s].made \cup {g} \subseteq Unrecorded'
    BY <1>8 DEF Unrecorded
  <2>3. tests' = tests /\ atomic' = atomic /\ matrices' = matrices /\ leaked' = leaked
    BY <1>2, <1>3 DEF Keeps
  <2>4. Rollbacks => MadeEntriesOwned
    BY DEF IInv
  <2> QED
    BY <1>5, <2>1, <2>2, <2>3, <2>4 DEF MadeEntriesOwned
<1> QED
  <2>1. ASSUME NEW t \in Sessions, ses'[t].op # "idle" PROVE MadeInv(t)' /\ DoneInv(t)'
    <3>1. t = s
      BY <1>10, <2>1, IdleFields
    <3> QED
      BY <1>18, <1>19, <3>1
  <2> QED
    BY <1>11, <1>14, <1>15, <1>16, <1>20, <2>1 DEF IInv

\* With its manifest a script ends, and names what it made: the invariant holds.
LEMMA WriteManifestInv ==
    ASSUME IInv, NEW s \in Sessions, NEW c, Working(s, c), WriteManifest(s, c)
    PROVE  IInv'
<1> DEFINE r  == ses[s]
           op == ses[s].op
           Test    == IF op = "testboot" THEN {r.did} ELSE {}
           OneTimeEntry == IF op \in OneTimes \cup {"clean", "capture7e", "madtonce"} THEN {r.did} ELSE {}
           Tests   == IF op = "matrix" THEN {r.made} ELSE {}
<1>1. c.op = "manifest" /\ c.op \in OwnOps /\ UNCHANGED <<bcd, current, mode, swallowed, leaked, todo, crash, regFile>>
  BY DEF WriteManifest, OwnOps
<1>2. CASE /\ (IF Uncaught(s) THEN "late" ELSE "file") \in Faults
           /\ Throw(s, Catch(s))
           /\ UNCHANGED <<tests, atomic, matrices, report>>
  <2>1. op \notin Undoing
    BY <1>1, UndoingGoesOn
  <2>2. r.made = {} \/ Catch(s) # "none" \/ "late" \in Faults
    BY <1>2 DEF Uncaught
  <2> QED
    BY <1>1, <1>2, <2>1, <2>2, PlainThrowInv DEF Keeps
<1>3. CASE /\ tests' = tests \cup Test /\ atomic' = atomic \cup OneTimeEntry /\ matrices' = matrices \cup Tests
           /\ report' = [op |-> op, safe |-> current, test |-> r.did]
           /\ Advance(s, Scripts[op])
  <2>1. /\ TypeOK /\ r \in Sess /\ op \in DOMAIN Scripts /\ r.pc \in DOMAIN Scripts[op] /\ c = Scripts[op][r.pc]
        /\ MadeInv(s) /\ DoneInv(s) /\ Follows(op, c, Done(s)) /\ Lawful(op, c) /\ current \in Ids
        /\ r.made \subseteq Ids /\ r.did \in IdsOrNone
    BY DEF IInv, Working, Command, Sess, SessionStates
  <2>2. op \in Recording
    BY <1>1, <2>1 DEF Lawful
  <2>3. \A t \in Sessions : ses'[t] = Idle
    <3>1. r.pc = Len(Scripts[op])
      BY <1>1, <2>1, CommandAt
    <3>2. ses' = [ses EXCEPT ![s] = Idle]
      BY <1>3, <3>1 DEF Advance, AfterCommand
    <3>3. ses \in [Sessions -> Sess] /\ \A t \in Sessions \ {s} : ses[t] = Idle
      BY <2>1 DEF Working, TypeOK, MachineTypeOK, Sess
    <3> QED
      BY <3>2, <3>3
  <2>4. ses' \in [Sessions -> Sess]
    <3>1. \E x : ses' = [ses EXCEPT ![s] = x]
      BY <1>3 DEF Advance
    <3> QED
      BY <2>1, <2>3, <3>1, IdleFields DEF TypeOK, MachineTypeOK, Sess
  <2>5. op \in {"testboot", "clean"} => r.did \in Ids /\ r.made = {r.did}
    <3>1. op \in {"testboot", "clean"} => MakeCopy \in Done(s)
      BY <1>1, <2>1 DEF Follows
    <3>2. op \in {"testboot", "clean"} => r.did # NoId /\ r.made = {r.did} \ {NoId}
      BY <2>1, <3>1 DEF MadeInv
    <3> QED
      BY <2>1, <3>2 DEF IdsOrNone
  <2>6. op \in Reusing \cup {"madtonce"} => r.did \in tests \cup atomic
    BY <2>1, Kinds DEF MadeInv
  <2>7. op \notin Copying => r.made = {}
    BY <2>1, <2>2, Kinds DEF MadeInv
  <2>8. r.made \subseteq bcd.used /\ r.made \cap (Named \cup {current, bcd.default}) = {}
    BY <2>1 DEF MadeInv
  <2>9. Test \cup OneTimeEntry \subseteq Ids /\ Test \cup OneTimeEntry \subseteq r.made \cup tests \cup atomic
    <3>1. CASE op \in {"testboot", "clean"}
      BY <2>5, <3>1, Kinds
    <3>2. CASE op \in Reusing \cup {"madtonce"}
      BY <2>1, <2>6, <3>2, Kinds DEF TypeOK
    <3>3. CASE op \notin Reusing \cup {"testboot", "clean", "madtonce"}
      BY <3>3, Kinds
    <3> QED
      BY <3>1, <3>2, <3>3
  <2>10. TypeOK'
    <3>1. MachineTypeOK(DOMAIN Scripts)'
      BY <1>1, <1>3, <2>1, <2>4 DEF TypeOK, MachineTypeOK, Sess
    <3>2. report' \in [op : DOMAIN Scripts \cup {"none"}, safe : IdsOrNone, test : IdsOrNone]
      BY <1>3, <2>1 DEF IdsOrNone
    <3>3. tests' \subseteq Ids /\ atomic' \subseteq Ids /\ matrices' \subseteq SUBSET Ids
      BY <1>3, <2>1, <2>9 DEF TypeOK
    <3> QED
      BY <1>1, <2>1, <2>3, <3>1, <3>2, <3>3 DEF TypeOK
  <2>11. MachineInv'
    <3>1. \A t \in Sessions : ses'[t].op = "idle"
      BY <2>3, IdleFields
    <3>2. UNION matrices' \subseteq (UNION matrices) \cup r.made
      BY <1>3
    <3>3. bcd.live \cup Named' \subseteq bcd.used
      BY <1>3, <2>8, <2>9, <3>2 DEF IInv, MachineInv, Named
    <3>4. (tests' \cup atomic') \cap UNION matrices' = {}
      <4>1. (tests \cup atomic) \cap UNION matrices = {}
        BY DEF IInv, MachineInv
      <4>2. CASE op = "matrix"
        <5>1. tests' = tests /\ atomic' = atomic
          BY <1>3, <4>2, Kinds
        <5> QED
          BY <2>8, <3>2, <4>1, <5>1 DEF Named
      <4>3. CASE op # "matrix"
        <5>1. UNION matrices' = UNION matrices
          BY <1>3, <4>3
        <5> QED
          BY <1>3, <2>8, <2>9, <4>1, <5>1 DEF Named
      <4> QED
        BY <4>2, <4>3
    <3> QED
      BY <1>1, <2>1, <3>1, <3>3, <3>4, NoIdAssumption DEF IInv, MachineInv
  <2>12. ReportInv'
    <3>1. AllIdle'
      BY <2>3, IdleFields DEF AllIdle
    <3>2. report'.op = op /\ report'.safe = current /\ report'.test = r.did
      BY <1>3
    <3>3. op \notin SetNoDefault => bcd.default = current /\ ~ Launches(bcd.entry[current])
      <4>1. op \notin SetNoDefault => {TurnOff, Default("current")} \subseteq Done(s)
        BY <1>1, <2>1 DEF Follows
      <4>2. op # "unmatrix"
        BY <2>2, Kinds
      <4> QED
        BY <2>1, <4>1, <4>2 DEF DoneInv
    <3>4. ReturnsToSafe'
      <4>1. bcd.default = current /\ ~ Launches(bcd.entry[current]) => Flavour(bcd, bcd.default) = "off"
        BY <2>1, NoIdAssumption DEF Flavour, Crashes
      <4> QED
        BY <1>1, <3>2, <3>3, <4>1 DEF ReturnsToSafe
    <3>5. ControlIsBaseline'
      <4>1. ASSUME op = "control", NEW k \in DOMAIN Isolators
            PROVE  bcd.entry[r.did][Isolators[k]] = "absent"
        <5>1. Isolators[k] \in Range(Isolators)
          BY DEF Range
        <5>2. Confirm("diag", Isolators[k], "absent") \in Done(s)
          BY <1>1, <2>1, <4>1, <5>1 DEF Follows
        <5> QED
          BY <2>1, <4>1, <5>1, <5>2 DEF DoneInv
      <4> QED
        BY <1>1, <3>2, <4>1 DEF ControlIsBaseline
    <3> QED
      BY <3>1, <3>4, <3>5 DEF ReportInv
  <2>13. MatrixInv'
    <3>1. CASE op = "matrix"
      <4>1. UNION matrices' \subseteq (UNION matrices) \cup r.made
        BY <1>3
      <4>2. bcd.seq \notin r.made /\ bcd.default \notin r.made
        BY <2>1, <2>8, <3>1 DEF MadeInv
      <4> QED
        BY <1>1, <4>1, <4>2 DEF IInv, MatrixInv
    <3>2. CASE op # "matrix"
      <4>1. UNION matrices' = UNION matrices
        BY <1>3, <3>2
      <4> QED
        BY <1>1, <4>1 DEF IInv, MatrixInv
    <3> QED
      BY <3>1, <3>2
  <2>14. Rollbacks => MadeEntriesOwned'
    <3>1. Unrecorded \subseteq r.made
      BY IdleFields DEF Unrecorded, Working
    <3>2. r.made \subseteq tests' \cup atomic' \cup UNION matrices'
      BY <1>3, <2>5, <2>7, Kinds
    <3>3. tests \subseteq tests' /\ atomic \subseteq atomic' /\ UNION matrices \subseteq UNION matrices'
      BY <1>3
    <3>4. Rollbacks => MadeEntriesOwned
      BY DEF IInv
    <3> QED
      BY <1>1, <1>3, <3>1, <3>2, <3>3, <3>4 DEF MadeEntriesOwned
  <2>15. \A t \in Sessions : ses'[t].op = "idle"
    BY <2>3, IdleFields
  <2> QED
    BY <2>10, <2>11, <2>12, <2>13, <2>14, <2>15 DEF IInv
<1> QED
  BY <1>2, <1>3 DEF WriteManifest

\* The rollback of the matrix deletes what the script made, entry by entry.
LEMMA DeleteMadeInv ==
    ASSUME IInv, NEW s \in Sessions, NEW c, Working(s, c), DeleteOneMade(s, c)
    PROVE  IInv'
<1> DEFINE r == ses[s]
<1>1. PICK g \in r.made :
          /\ \/ bcd' = Deleted(bcd, g) /\ UNCHANGED leaked
             \/ leaked' = leaked \cup {g} /\ UNCHANGED bcd
          /\ IF r.made = {g} THEN ses' = [ses EXCEPT ![s] = Idle]
             ELSE ses' = [ses EXCEPT ![s].made = @ \ {g}]
  BY DEF DeleteOneMade
<1>2. c.op = "deletemade" /\ BcdOnly /\ UNCHANGED <<current, mode, swallowed>>
  BY DEF DeleteOneMade
<1>3. Keeps /\ UNCHANGED <<todo, crash, regFile>>
  BY <1>2 DEF Keeps, BcdOnly, legacyVars
<1>4. /\ TypeOK /\ bcd \in Stores /\ r \in Sess /\ r.op = "undomatrix" /\ r.op \in DOMAIN Scripts
      /\ r.pc \in DOMAIN Scripts[r.op] /\ MadeInv(s) /\ DoneInv(s) /\ current \in Ids
      /\ r.made \subseteq Ids /\ g \in Ids
  BY <1>1, <1>2 DEF IInv, TypeOK, MachineTypeOK, Working, Lawful, Sess, SessionStates
<1>5. /\ r.made \subseteq bcd.used /\ r.made \cap (Named \cup {current, bcd.default}) = {}
      /\ bcd.seq \notin r.made
  BY <1>4 DEF MadeInv
<1>6. /\ bcd' \in Stores /\ bcd'.entry = bcd.entry /\ bcd'.used = bcd.used
      /\ bcd'.default = bcd.default /\ bcd'.seq = bcd.seq
      /\ bcd'.live \subseteq bcd.live /\ {bcd.live \ {g}, bcd.live} \cap {bcd'.live} # {}
      /\ g \notin bcd'.live \ leaked' /\ leaked \subseteq leaked' /\ leaked' \subseteq Ids
  <2>1. CASE bcd' = Deleted(bcd, g) /\ UNCHANGED leaked
    <3>1. g # bcd.default /\ g # bcd.seq
      BY <1>1, <1>5
    <3> QED
      BY <1>4, <2>1, <3>1 DEF Deleted, Stores, TypeOK, MachineTypeOK
  <2>2. CASE leaked' = leaked \cup {g} /\ UNCHANGED bcd
    BY <1>4, <2>2 DEF TypeOK, MachineTypeOK
  <2> QED
    BY <1>1, <2>1, <2>2
<1>7. /\ ses' \in [Sessions -> Sess] /\ \A t \in Sessions : t # s => ses'[t] = Idle
      /\ \/ ses'[s] = Idle /\ r.made = {g}
         \/ /\ ses'[s].op = r.op /\ ses'[s].pc = r.pc /\ ses'[s].did = r.did
            /\ ses'[s].made = r.made \ {g}
  <2>1. CASE r.made = {g}
    <3>1. ses' = [ses EXCEPT ![s] = Idle]
      BY <1>1, <2>1
    <3> QED
      BY <1>4, <2>1, <3>1, IdleFields DEF Working, TypeOK, MachineTypeOK, Sess
  <2>2. CASE r.made # {g}
    <3> DEFINE q == [r EXCEPT !.made = r.made \ {g}]
    <3>2. q \in Sess /\ q.op = r.op /\ q.pc = r.pc /\ q.did = r.did /\ q.made = r.made \ {g}
      BY <1>4 DEF Sess, SessionStates
    <3>3. ses' = [ses EXCEPT ![s] = q]
      BY <1>1, <2>2
    <3>4. ses \in [Sessions -> Sess] /\ \A t \in Sessions \ {s} : ses[t] = Idle
      BY <1>4 DEF Working, TypeOK, MachineTypeOK, Sess
    <3> HIDE DEF q
    <3> QED
      BY <3>2, <3>3, <3>4
  <2> QED
    BY <2>1, <2>2
<1>8. Named' = Named /\ current' = current /\ matrices' = matrices
  BY <1>3 DEF Named, Keeps
<1>9. TypeOK'
  <2>1. MachineTypeOK(DOMAIN Scripts)'
    BY <1>2, <1>4, <1>6, <1>7 DEF TypeOK, MachineTypeOK, Sess
  <2>2. \A t \in Sessions : ses'[t] = Idle \/ (ses'[t].op \in DOMAIN Scripts /\ ses'[t].pc \in DOMAIN Scripts[ses'[t].op])
    BY <1>4, <1>7
  <2> QED
    BY <1>3, <1>4, <2>1, <2>2 DEF TypeOK, Keeps
<1>10. MachineInv'
  <2>1. \A t, u \in Sessions : ses'[t].op # "idle" /\ ses'[u].op # "idle" => t = u
    BY <1>7, IdleFields
  <2>2. \A t \in Sessions : ses'[t].op # "testboot"
    BY <1>4, <1>7, IdleFields
  <2>3. ({bcd.default, bcd.seq} \subseteq bcd.live \cup {NoId})'
    BY <1>1, <1>5, <1>6 DEF IInv, MachineInv
  <2>4. ((tests \cup atomic) \cap UNION matrices = {})'
    BY <1>3 DEF Keeps, IInv, MachineInv
  <2>5. bcd'.live \cup Named' \subseteq bcd'.used /\ current' \in bcd'.used \cup {NoId} /\ current' # NoId
    BY <1>4, <1>6, <1>8, NoIdAssumption DEF IInv, MachineInv
  <2> QED
    BY <2>1, <2>2, <2>3, <2>4, <2>5 DEF MachineInv
<1>11. ReportInv'
  BY <1>3, NothingReported DEF Working, Keeps
<1>12. MatrixInv'
  BY <1>6, <1>8 DEF IInv, MatrixInv
<1>13. ASSUME ses'[s] # Idle PROVE MadeInv(s)' /\ DoneInv(s)'
  <2>1. /\ ses'[s].op = r.op /\ ses'[s].pc = r.pc /\ ses'[s].did = r.did /\ ses'[s].made = r.made \ {g}
    BY <1>7, <1>13
  <2>2. Done(s)' = Done(s)
    BY <2>1 DEF Done
  <2>3. MadeInv(s)'
    <3> HIDE DEF r
    <3> QED
      BY <1>4, <1>5, <1>6, <1>8, <2>1, Kinds DEF MadeInv
  <2>4. DoneInv(s)'
    <3>1. /\ {TurnOff, FoundOff} \cap Done(s) # {} => ~ Launches(bcd.entry[current])
          /\ Default("current") \in Done(s) => bcd.default = current
      BY <1>4 DEF DoneInv
    <3> HIDE DEF r
    <3> QED
      BY <1>4, <1>6, <1>8, <2>1, <2>2, <3>1, Kinds DEF DoneInv
  <2> QED
    BY <2>3, <2>4
<1>14. Rollbacks => MadeEntriesOwned'
  <2>1. Unrecorded \subseteq r.made
    BY IdleFields DEF Unrecorded, Working
  <2>2. r.made \ {g} \subseteq Unrecorded'
    <3>1. CASE r.made = {g}
      BY <3>1
    <3>2. CASE ses'[s].made = r.made \ {g}
      BY <3>2 DEF Unrecorded
    <3> QED
      BY <1>7, <3>1, <3>2
  <2>3. tests' = tests /\ atomic' = atomic /\ matrices' = matrices
    BY <1>3 DEF Keeps
  <2>4. Rollbacks => MadeEntriesOwned
    BY DEF IInv
  <2> HIDE DEF r
  <2> QED
    BY <1>6, <2>1, <2>2, <2>3, <2>4 DEF MadeEntriesOwned
<1> QED
  <2>1. ASSUME NEW t \in Sessions, ses'[t].op # "idle" PROVE MadeInv(t)' /\ DoneInv(t)'
    <3>1. t = s /\ ses'[s] # Idle
      BY <1>7, <2>1, IdleFields
    <3> QED
      BY <1>13, <3>1
  <2> QED
    BY <1>9, <1>10, <1>11, <1>12, <1>14, <2>1 DEF IInv

\* The entries of a matrix's manifest are deleted one by one.
LEMMA DeleteTodoInv ==
    ASSUME IInv, NEW s \in Sessions, NEW c, Working(s, c), DeleteOneTodo(s, c)
    PROVE  IInv'
<1> DEFINE r == ses[s]
<1>1. PICK g \in todo :
          \/ /\ g \in bcd.live
             /\ bcd' = Deleted(bcd, g)
             /\ todo' = todo \ {g}
             /\ IF todo = {g} THEN Advance(s, RemoveMatrix) ELSE UNCHANGED ses
          \/ /\ Throw(s, "none")
             /\ todo' = {}
             /\ UNCHANGED bcd
  BY DEF DeleteOneTodo
<1>2. /\ c.op = "deletetodo"
      /\ UNCHANGED <<current, mode, swallowed, leaked, tests, atomic, matrices, crash, regFile, report>>
  BY DEF DeleteOneTodo
<1>3. Keeps
  BY <1>2 DEF Keeps
<1>4. /\ TypeOK /\ bcd \in Stores /\ r \in Sess /\ r.op = "unmatrix" /\ r.op \in DOMAIN Scripts
      /\ MadeInv(s) /\ DoneInv(s) /\ r.made = {} /\ r.did = NoId /\ g \in Ids /\ c.op # "manifest"
  <2>1. r.op = "unmatrix"
    BY <1>2 DEF Working, Lawful
  <2>2. MadeInv(s) /\ DoneInv(s) /\ TypeOK /\ r \in Sess /\ r.op \in DOMAIN Scripts
    BY DEF Working, IInv
  <2>3. bcd \in Stores /\ todo \subseteq Ids
    BY <2>2 DEF TypeOK, MachineTypeOK
  <2> HIDE DEF r
  <2>4. r.made = {} /\ r.did = NoId
    <3>1. ses[s].op = "unmatrix"
      BY <2>1 DEF r
    <3> QED
      BY <2>2, <3>1, Kinds DEF MadeInv, r
  <2> QED
    BY <1>2, <2>1, <2>2, <2>3, <2>4
<1>5. CASE Throw(s, "none") /\ todo' = {} /\ UNCHANGED bcd
  <2>1. Catch(s) = "none"
    BY <1>4, Kinds DEF Catch
  <2>2. r.op \notin Undoing
    BY <1>4, Kinds
  <2>3. leaked' = leaked \cup {}
    BY <1>2
  <2> QED
    BY <1>2, <1>3, <1>4, <1>5, <2>1, <2>2, <2>3, PlainThrowInv
<1>6. CASE /\ bcd' = Deleted(bcd, g)
           /\ todo' = todo \ {g}
           /\ IF todo = {g} THEN Advance(s, RemoveMatrix) ELSE UNCHANGED ses
  <2>1. /\ bcd' \in Stores /\ bcd'.entry = bcd.entry /\ bcd'.used = bcd.used
        /\ bcd'.live = bcd.live \ {g}
        /\ bcd'.default = IF bcd.default = g THEN NoId ELSE bcd.default
        /\ bcd'.seq = IF bcd.seq = g THEN NoId ELSE bcd.seq
    BY <1>4, <1>6 DEF Deleted, Stores, IdsOrNone
  <2>2. /\ ses' \in [Sessions -> Sess] /\ \A t \in Sessions : t # s => ses'[t] = Idle
        /\ \/ ses'[s] = Idle
           \/ /\ ses'[s].op = r.op /\ ses'[s].pc \in DOMAIN Scripts[r.op]
              /\ ses'[s].did = NoId /\ ses'[s].made = {}
              /\ Done(s)' \subseteq Done(s) \cup {c}
    <3>1. CASE todo = {g}
      <4>1. RemoveMatrix = Scripts[r.op]
        BY <1>4 DEF Scripts
      <4>2. Passes(s, c)
        BY <1>4, <1>6, <3>1, <4>1, AdvanceEffect
      <4>3. \/ ses'[s] = Idle
            \/ /\ ses'[s].op = r.op /\ ses'[s].pc \in DOMAIN Scripts[r.op]
               /\ ses'[s].did = r.did /\ ses'[s].made = r.made
               /\ Done(s)' = Done(s) \cup {c}
        BY <4>2 DEF Passes, Proceeds, Same, Ends
      <4>4. ses' \in [Sessions -> Sess] /\ \A t \in Sessions : t # s => ses'[t] = Idle
        BY <4>2 DEF Passes, Others, Working
      <4> HIDE DEF r
      <4> QED
        BY <1>4, <4>3, <4>4
    <3>2. CASE todo # {g}
      <4>1. ses' = ses
        BY <1>6, <3>2
      <4>2. ses \in [Sessions -> Sess] /\ \A t \in Sessions : t # s => ses[t] = Idle
        BY <1>4 DEF Working, TypeOK, MachineTypeOK, Sess
      <4>3. r.pc \in DOMAIN Scripts[r.op]
        BY DEF Working
      <4>4. Done(s)' = Done(s)
        BY <4>1 DEF Done
      <4> QED
        BY <1>4, <4>1, <4>2, <4>3, <4>4
    <3> QED
      BY <3>1, <3>2
  <2>3. Named' = Named /\ current' = current /\ matrices' = matrices /\ leaked' = leaked
        /\ tests' = tests /\ atomic' = atomic /\ NoId \notin Ids
    BY <1>2, NoIdAssumption DEF Named
  <2>4. TypeOK'
    <3>1. MachineTypeOK(DOMAIN Scripts)'
      BY <1>2, <1>4, <2>1, <2>2 DEF TypeOK, MachineTypeOK, Sess
    <3>2. \A t \in Sessions : ses'[t] = Idle \/ (ses'[t].op \in DOMAIN Scripts /\ ses'[t].pc \in DOMAIN Scripts[ses'[t].op])
      BY <1>4, <2>2
    <3>3. todo' \subseteq Ids
      BY <1>4, <1>6 DEF TypeOK
    <3>4. UNCHANGED <<tests, atomic, matrices, crash, regFile, report>>
      BY <1>2
    <3> QED
      BY <1>4, <3>1, <3>2, <3>3, <3>4 DEF TypeOK
  <2>5. MachineInv'
    <3>1. \A t, u \in Sessions : ses'[t].op # "idle" /\ ses'[u].op # "idle" => t = u
      BY <2>2, IdleFields
    <3>2. \A t \in Sessions : ses'[t].op # "testboot"
      BY <1>4, <2>2, IdleFields
    <3>3. ({bcd.default, bcd.seq} \subseteq bcd.live \cup {NoId})'
      BY <2>1 DEF IInv, MachineInv
    <3>4. ((tests \cup atomic) \cap UNION matrices = {})'
      BY <2>3 DEF IInv, MachineInv
    <3>5. bcd'.live \cup Named' \subseteq bcd'.used /\ current' \in bcd'.used \cup {NoId} /\ current' # NoId
      <4>1. current \in Ids
        BY DEF Working
      <4> QED
        BY <2>1, <2>3, <4>1 DEF IInv, MachineInv
    <3> QED
      BY <3>1, <3>2, <3>3, <3>4, <3>5 DEF MachineInv
  <2>6. ReportInv'
    BY <1>3, NothingReported DEF Working, Keeps
  <2>7. MatrixInv'
    <3>1. NoId \notin UNION matrices
      BY <1>4, <2>3 DEF TypeOK
    <3> QED
      BY <2>1, <2>3, <3>1 DEF IInv, MatrixInv
  <2>8. ASSUME ses'[s] # Idle PROVE MadeInv(s)' /\ DoneInv(s)'
    <3>1. ses'[s].op = "unmatrix" /\ ses'[s].did = NoId /\ ses'[s].made = {} /\ Done(s)' \subseteq Done(s) \cup {c}
      BY <1>4, <2>2, <2>8
    <3>2. MadeInv(s)'
      BY <3>1, Kinds DEF MadeInv
    <3>3. c \notin {TurnOff, FoundOff}
      BY <1>2, CmdFields DEF TurnOff, FoundOff, Set, Confirm
    <3>4. {TurnOff, FoundOff} \cap Done(s) # {} => ~ Launches(bcd.entry[current])
      BY <1>4 DEF DoneInv
    <3>5. DoneInv(s)'
      BY <2>1, <2>3, <3>1, <3>3, <3>4, Kinds DEF DoneInv
    <3> QED
      BY <3>2, <3>5
  <2>9. Rollbacks => MadeEntriesOwned'
    <3>1. Unrecorded \subseteq {}
      BY <1>4, IdleFields DEF Unrecorded, Working
    <3>2. Rollbacks => MadeEntriesOwned
      BY DEF IInv
    <3> QED
      BY <2>1, <2>3, <3>1, <3>2 DEF MadeEntriesOwned
  <2>10. ASSUME NEW t \in Sessions, ses'[t].op # "idle" PROVE MadeInv(t)' /\ DoneInv(t)'
    <3>1. t = s /\ ses'[s] # Idle
      BY <2>2, <2>10, IdleFields
    <3> QED
      BY <2>8, <3>1
  <2> QED
    BY <2>4, <2>5, <2>6, <2>7, <2>9, <2>10 DEF IInv
<1> QED
  BY <1>1, <1>5, <1>6

\* Whatever session s does next, the invariant holds.
LEMMA StepInv ==
    ASSUME IInv, NEW s \in Sessions, Step(s)
    PROVE  IInv'
<1> DEFINE c == Command(s)
           z == Scripts[ses[s].op]
<1>1. ses[s].op \in DOMAIN Scripts
  BY DEF Step
<1>2. Working(s, c)
  BY <1>1, AtWork
<1>3. \/ BcdCommand(s, z, c, Catch(s)) /\ BcdOnly
      \/ WriteManifest(s, c) \/ ReplaceOrder(s, c) \/ RegistryCommand(s, c)
      \/ DeleteOneMade(s, c) \/ DeleteOneTodo(s, c)
  BY DEF Step, Command
<1> HIDE DEF c
<1>4. CASE BcdCommand(s, z, c, Catch(s)) /\ BcdOnly
  BY <1>2, <1>4, SucceedInv, FailSoftlyInv, FailHardInv, CopyEntryInv, CopyUnreadInv DEF BcdCommand
<1> QED
  BY <1>2, <1>3, <1>4, WriteManifestInv, ReplaceOrderInv, RegistryInv, DeleteMadeInv, DeleteTodoInv

-----------------------------------------------------------------------------
(***************************************************************************)
(* A script starts; the machine stops and boots.                           *)
(***************************************************************************)
\* Every script has a first command.
LEMMA FirstCommand ==
    ASSUME NEW op \in DOMAIN Scripts
    PROVE  1 \in DOMAIN Scripts[op]
<1> DEFINE z == Scripts[op]
<1>1. z \in Seq(Commands) /\ z # << >>
  BY AllWhole DEF Whole, Legal
<1> HIDE DEF z
<1>2. 1 \in DOMAIN z
  BY <1>1
<1> QED
  BY <1>2 DEF z

\* A script that starts has nothing behind it, and a free field before it.
LEMMA StartInv ==
    ASSUME IInv, NEW s \in Sessions, NEW op \in DOMAIN Scripts, NEW id, Start(s, op, id), todo' \subseteq Ids,
           \/ op \in Copying \cup {"safe", "unmatrix"} /\ id = NoId
           \/ op \in Reusing \cup {"madtonce", "cancel"} /\ id \in tests \cup atomic
    PROVE  IInv'
<1> DEFINE q == Running(op, NoId, id)
<1>1. /\ op \in Experiments /\ current # NoId /\ AllIdle /\ ses' = [ses EXCEPT ![s] = q]
      /\ swallowed' = FALSE /\ report' = NoReport
      /\ UNCHANGED <<bcd, current, mode, leaked, tests, atomic, matrices, crash, regFile>>
  BY DEF Start
<1>2. TypeOK /\ ses \in [Sessions -> Sess] /\ id \in IdsOrNone
  BY DEF IInv, TypeOK, MachineTypeOK, Sess, IdsOrNone
<1>3. /\ q \in Sess /\ q.op = op /\ q.pc = 1 /\ q.did = id /\ q.made = {}
  BY <1>2 DEF Running, Sess, SessionStates, IdsOrNone
<1> HIDE DEF q
<1>4. \A t \in Sessions : ses[t] = Idle
  BY <1>1, <1>2, IdleFields DEF AllIdle, TypeOK
<1>5. /\ ses' \in [Sessions -> Sess] /\ ses'[s] = q
      /\ \A t \in Sessions : t # s => ses'[t] = Idle
  BY <1>1, <1>2, <1>3, <1>4
<1>6. Named' = Named
  BY <1>1 DEF Named
<1>7. NoReport.op = "none" /\ NoReport.safe = NoId /\ NoReport.test = NoId
  BY DEF NoReport
<1>8. TypeOK'
  <2>1. MachineTypeOK(DOMAIN Scripts)'
    BY <1>1, <1>2, <1>5 DEF TypeOK, MachineTypeOK, Sess
  <2>2. \A t \in Sessions : ses'[t] = Idle \/ (ses'[t].op \in DOMAIN Scripts /\ ses'[t].pc \in DOMAIN Scripts[ses'[t].op])
    <3>1. 1 \in DOMAIN Scripts[op]
      BY FirstCommand
    <3> QED
      BY <1>3, <1>5, <3>1
  <2>3. report' \in [op : DOMAIN Scripts \cup {"none"}, safe : IdsOrNone, test : IdsOrNone]
    BY <1>1 DEF NoReport, IdsOrNone
  <2> QED
    BY <1>1, <1>2, <2>1, <2>2, <2>3 DEF TypeOK
<1>9. MachineInv'
  <2>1. \A t, u \in Sessions : ses'[t].op # "idle" /\ ses'[u].op # "idle" => t = u
    BY <1>5, IdleFields
  <2>2. \A t \in Sessions : ses'[t].op = "testboot" => "testboot" \in Experiments
    BY <1>1, <1>3, <1>5, IdleFields
  <2> QED
    BY <1>1, <1>6, <2>1, <2>2 DEF IInv, MachineInv
<1>10. ReportInv'
  BY <1>1, <1>7 DEF ReportInv, ReturnsToSafe, ControlIsBaseline, SetNoDefault
<1>11. MatrixInv'
  BY <1>1 DEF IInv, MatrixInv
<1>12. Done(s)' = {}
  <2>1. \A k : k \notin 1 .. 1 - 1
    OBVIOUS
  <2> QED
    BY <1>3, <1>5, <2>1 DEF Done
<1>13. MadeInv(s)'
  BY <1>1, <1>3, <1>5, <1>12, Kinds DEF MadeInv
<1>14. DoneInv(s)'
  BY <1>3, <1>5, <1>12, Kinds DEF DoneInv
<1>15. Rollbacks => MadeEntriesOwned'
  <2>1. Unrecorded = {}
    BY <1>4, IdleFields DEF Unrecorded
  <2>2. Rollbacks => MadeEntriesOwned
    BY DEF IInv
  <2> QED
    BY <1>1, <2>1, <2>2 DEF MadeEntriesOwned
<1>16. ASSUME NEW t \in Sessions, ses'[t].op # "idle" PROVE MadeInv(t)' /\ DoneInv(t)'
  <2>1. t = s
    BY <1>5, <1>16, IdleFields
  <2> QED
    BY <1>13, <1>14, <2>1
<1> QED
  BY <1>8, <1>9, <1>10, <1>11, <1>15, <1>16 DEF IInv

LEMMA StartsInv ==
    ASSUME IInv, NEW s \in Sessions, StartCopying(s) \/ StartOnTestEntry(s) \/ StartRemoveMatrix(s)
    PROVE  IInv'
<1>1. CASE StartCopying(s)
  <2>1. PICK op \in {"safe", "testboot", "clean", "matrix"} : Start(s, op, NoId) /\ todo' = todo
    BY <1>1 DEF StartCopying
  <2>2. op \in DOMAIN Scripts /\ op \in Copying \cup {"safe", "unmatrix"} /\ todo' \subseteq Ids
    BY <2>1, Kinds DEF IInv, TypeOK
  <2> QED
    BY <2>1, <2>2, StartInv
<1>2. CASE StartOnTestEntry(s)
  <2>1. PICK op \in {"madtonce", "cancel", "capture7e"} \cup OneTimes, id \in tests \cup atomic :
           Start(s, op, id) /\ todo' = todo
    BY <1>2 DEF StartOnTestEntry
  <2>2. op \in DOMAIN Scripts /\ op \in Reusing \cup {"madtonce", "cancel"} /\ todo' \subseteq Ids
    BY <2>1, Kinds DEF IInv, TypeOK
  <2> QED
    BY <2>1, <2>2, StartInv
<1>3. CASE StartRemoveMatrix(s)
  <2>1. PICK m \in matrices : Start(s, "unmatrix", NoId) /\ todo' = m
    BY <1>3 DEF StartRemoveMatrix
  <2>2. "unmatrix" \in DOMAIN Scripts /\ todo' \subseteq Ids
    BY <2>1, Kinds DEF IInv, TypeOK
  <2> QED
    BY <2>1, <2>2, StartInv
<1> QED
  BY <1>1, <1>2, <1>3

\* Windows goes down, and takes every session with it.
LEMMA DownInv ==
    ASSUME IInv, Down
    PROVE  IInv'
<1>1. /\ current' = NoId /\ mode' = "down" /\ ses' = [s \in Sessions |-> Idle]
      /\ leaked' = leaked \cup (Unrecorded \cap bcd.live) /\ todo' = {}
      /\ UNCHANGED <<bcd, swallowed, tests, atomic, matrices, crash, regFile, report>>
  BY DEF Down, Stop
<1>2. TypeOK /\ bcd \in Stores
  BY DEF IInv, TypeOK, MachineTypeOK
<1>3. \A t \in Sessions : ses'[t] = Idle
  BY <1>1
<1>4. \A t \in Sessions : ses'[t].op = "idle"
  BY <1>3, IdleFields
<1>5. TypeOK'
  <2>1. leaked' \subseteq Ids
    BY <1>1, <1>2 DEF Stores, TypeOK, MachineTypeOK
  <2>2. ses' \in [Sessions -> Sess]
    BY <1>1, IdleFields
  <2>3. MachineTypeOK(DOMAIN Scripts)'
    BY <1>1, <1>2, <2>1, <2>2 DEF TypeOK, MachineTypeOK, Sess, IdsOrNone
  <2> QED
    BY <1>1, <1>2, <1>3, <2>3 DEF TypeOK
<1>6. MachineInv'
  <2>1. Named' = Named
    BY <1>1 DEF Named
  <2> QED
    BY <1>1, <1>4, <2>1 DEF IInv, MachineInv, AllIdle
<1>7. ReportInv'
  BY <1>1, <1>4 DEF IInv, ReportInv, AllIdle, ReturnsToSafe, ControlIsBaseline
<1>8. MatrixInv'
  BY <1>1 DEF IInv, MatrixInv
<1>9. Rollbacks => MadeEntriesOwned'
  <2>1. Rollbacks => MadeEntriesOwned
    BY DEF IInv
  <2> QED
    BY <1>1, <2>1 DEF MadeEntriesOwned
<1> QED
  BY <1>4, <1>5, <1>6, <1>7, <1>8, <1>9 DEF IInv

\* What the boot manager, or the operator in its menu, starts.
LEMMA BootedInv ==
    ASSUME IInv, Boot \/ Pick
    PROVE  IInv'
<1>1. /\ current = NoId /\ bcd \in Stores /\ TypeOK
      /\ UNCHANGED <<ses, swallowed, leaked, tests, atomic, matrices, todo, crash, regFile, report>>
  BY DEF IInv, TypeOK, MachineTypeOK, Boot, Pick, BootUnattended, BootFromMenu, BcdOnly, legacyVars
<1>2. /\ bcd' \in Stores /\ bcd'.entry = bcd.entry /\ bcd'.live = bcd.live /\ bcd'.used = bcd.used
      /\ bcd'.default = bcd.default /\ bcd'.seq \in {bcd.seq, NoId}
  <2>1. CASE Boot
    BY <1>1, <2>1 DEF Boot, BootUnattended, Stores, IdsOrNone
  <2>2. CASE Pick
    BY <1>1, <2>2 DEF Pick, BootFromMenu
  <2> QED
    BY <2>1, <2>2
<1>3. current' \in bcd.used \cup {NoId} /\ current' \in IdsOrNone /\ mode' \in {"down", "off", "hv"}
  <2>1. CASE Boot
    <3>1. NextBoot(bcd) \in bcd.live \cup {NoId}
      BY DEF NextBoot, IInv, MachineInv
    <3>2. NextBoot(bcd) # NoId => Flavour(bcd, NextBoot(bcd)) \in {"broken", "hv", "off"}
      BY DEF Flavour
    <3>3. bcd.live \subseteq bcd.used /\ bcd.live \subseteq Ids
      BY <1>1 DEF IInv, MachineInv, Stores
    <3> QED
      BY <2>1, <3>1, <3>2, <3>3 DEF Boot, BootUnattended, IdsOrNone
  <2>2. CASE Pick
    <3>1. PICK i \in bcd.order \cap bcd.live : ~ Crashes(bcd.entry[i]) /\ current' = i /\ mode' = Flavour(bcd, i)
      BY <2>2 DEF Pick, BootFromMenu
    <3>2. i \in Ids /\ i \in bcd.used
      BY <1>1 DEF IInv, MachineInv, Stores
    <3>3. mode' \in {"hv", "off"}
      BY <3>1, <3>2, NoIdAssumption DEF Flavour
    <3> QED
      BY <3>1, <3>2, <3>3 DEF IdsOrNone
  <2> QED
    BY <2>1, <2>2
<1>4. \A t \in Sessions : ses'[t].op = "idle"
  BY <1>1 DEF IInv, MachineInv, AllIdle
<1>5. TypeOK'
  <2>1. MachineTypeOK(DOMAIN Scripts)'
    BY <1>1, <1>2, <1>3 DEF TypeOK, MachineTypeOK
  <2> QED
    BY <1>1, <2>1 DEF TypeOK
<1>6. MachineInv'
  <2>1. Named' = Named
    BY <1>1 DEF Named
  <2> QED
    BY <1>1, <1>2, <1>3, <1>4, <2>1 DEF IInv, MachineInv, AllIdle
<1>7. ReportInv'
  <2>1. Flavour(bcd', bcd'.default) = Flavour(bcd, bcd.default)
    BY <1>2 DEF Flavour
  <2> QED
    BY <1>1, <1>2, <1>4, <2>1 DEF IInv, ReportInv, AllIdle, ReturnsToSafe, ControlIsBaseline
<1>8. MatrixInv'
  <2>1. NoId \notin UNION matrices
    BY <1>1, NoIdAssumption DEF TypeOK
  <2> QED
    BY <1>1, <1>2, <2>1 DEF IInv, MatrixInv
<1>9. Rollbacks => MadeEntriesOwned'
  <2>1. Rollbacks => MadeEntriesOwned
    BY DEF IInv
  <2> QED
    BY <1>1, <1>2, <2>1 DEF MadeEntriesOwned, Unrecorded
<1> QED
  BY <1>4, <1>5, <1>6, <1>7, <1>8, <1>9 DEF IInv

\* Before any script has run.
LEMMA InitInv == Init => IInv
<1> SUFFICES ASSUME Init PROVE IInv
  OBVIOUS
<1>1. /\ bcd \in [entry : {e \in [Ids -> InitialEntries \cup {Fresh}] :
                          \A i \in Ids : IF i \in Original THEN e[i] \in InitialEntries
                                                           ELSE e[i] = Fresh},
                live : {Original}, used : {Original}, default : Original,
                seq : {NoId}, order : {Original}, menu : {"no"}]
      /\ current \in Original /\ mode = Flavour(bcd, current) /\ mode # "broken"
      /\ ses = [s \in Sessions |-> Idle] /\ swallowed = FALSE /\ leaked = {}
      /\ tests = {} /\ atomic = {} /\ matrices = {} /\ todo = {}
      /\ crash \in {"absent", "off"} /\ regFile = "absent" /\ report = NoReport
  BY DEF Init
<1>2. Original \subseteq Ids /\ InitialEntries \subseteq Entries /\ Fresh \in Entries /\ current # NoId
  BY <1>1, LegacyAssumption, NoIdAssumption DEF Fresh, Entries, Values
<1>3. bcd \in Stores /\ bcd.live = Original /\ bcd.used = Original /\ bcd.default \in Original /\ bcd.seq = NoId
  <2>1. bcd.entry \in [Ids -> Entries]
    BY <1>1, <1>2
  <2> QED
    BY <1>1, <1>2, <2>1 DEF Stores, IdsOrNone
<1>4. \A t \in Sessions : ses[t] = Idle
  BY <1>1
<1>5. \A t \in Sessions : ses[t].op = "idle"
  BY <1>4, IdleFields
<1>6. Named = {} /\ NoId \notin Ids
  BY <1>1, NoIdAssumption DEF Named
<1>7. NoReport.op = "none" /\ NoReport \in [op : DOMAIN Scripts \cup {"none"}, safe : IdsOrNone, test : IdsOrNone]
  BY DEF NoReport, IdsOrNone
<1>8. TypeOK
  <2>1. mode \in {"off", "hv"}
    BY <1>1, <1>2 DEF Flavour
  <2>2. ses \in [Sessions -> Sess]
    BY <1>1, IdleFields
  <2>3. MachineTypeOK(DOMAIN Scripts)
    BY <1>1, <1>2, <1>3, <2>1, <2>2 DEF MachineTypeOK, Sess, IdsOrNone
  <2> QED
    BY <1>1, <1>4, <1>7, <2>3 DEF TypeOK
<1>9. MachineInv
  BY <1>1, <1>2, <1>3, <1>5, <1>6 DEF MachineInv
<1>10. ReportInv
  BY <1>1, <1>7 DEF ReportInv, ReturnsToSafe, ControlIsBaseline, SetNoDefault
<1>11. MatrixInv
  BY <1>1 DEF MatrixInv
<1>12. MadeEntriesOwned
  BY <1>3 DEF MadeEntriesOwned
<1> QED
  BY <1>5, <1>8, <1>9, <1>10, <1>11, <1>12 DEF IInv

LEMMA NextInv == IInv /\ [Next]_vars => IInv'
<1> SUFFICES ASSUME IInv, [Next]_vars PROVE IInv'
  OBVIOUS
<1>1. CASE UNCHANGED vars
  <2>1. /\ bcd' = bcd /\ current' = current /\ mode' = mode /\ ses' = ses /\ swallowed' = swallowed
        /\ leaked' = leaked /\ tests' = tests /\ atomic' = atomic /\ matrices' = matrices /\ todo' = todo
        /\ crash' = crash /\ regFile' = regFile /\ report' = report
    BY <1>1 DEF vars, machineVars, legacyVars
  <2>2. TypeOK' /\ MachineInv'
    BY <2>1 DEF IInv, TypeOK, MachineTypeOK, MachineInv, Named, AllIdle
  <2>3. ReportInv' /\ MatrixInv'
    BY <2>1 DEF IInv, ReportInv, MatrixInv, ReturnsToSafe, ControlIsBaseline, AllIdle
  <2>4. \A t \in Sessions : ses[t].op # "idle" => MadeInv(t)' /\ DoneInv(t)'
    BY <2>1 DEF IInv, MadeInv, DoneInv, Done, Named
  <2>5. Rollbacks => MadeEntriesOwned'
    BY <2>1 DEF IInv, MadeEntriesOwned, Unrecorded
  <2> QED
    BY <2>1, <2>2, <2>3, <2>4, <2>5 DEF IInv
<1>2. CASE Next
  BY <1>2, StartsInv, StepInv, DownInv, BootedInv DEF Next
<1> QED
  BY <1>1, <1>2

-----------------------------------------------------------------------------
(***************************************************************************)
(* The theorems.                                                           *)
(***************************************************************************)
\* What the commands a script has behind it have established holds as long as
\* the script is at work: the inductive invariant.
THEOREM InvariantHolds == Spec => []IInv
BY InitInv, NextInv, PTL DEF Spec

\* Every variable has its type, and a running session is at a command of its script.
THEOREM TypeCorrect == Spec => []TypeOK
<1>1. IInv => TypeOK
  BY DEF IInv
<1> QED
  BY <1>1, InvariantHolds, PTL

\* Once a script that sets a default has written its manifest, the machine returns
\* to the manifest's SafeDefault with Hyper-V off, whatever boots or crashes until
\* the next script starts.  Nothing is said of schedule-hyperv-madt-once.ps1 and
\* prepare-hyperv-7e-capture-once.ps1, whose manifests call {current} so.
THEOREM ManifestReturnsToSafe == Spec => []ReturnsToSafe
<1>1. IInv => ReturnsToSafe
  BY DEF IInv, ReportInv
<1> QED
  BY <1>1, InvariantHolds, PTL

\* The control experiment has none of the isolators of the others.
THEOREM ControlHasNoIsolators == Spec => []ControlIsBaseline
<1>1. IInv => ControlIsBaseline
  BY DEF IInv, ReportInv
<1> QED
  BY <1>1, InvariantHolds, PTL

\* An unattended boot never starts an entry of a matrix that fails to boot.
THEOREM MatrixNeedsMenu == Spec => []DangerNeedsMenu
<1>1. IInv => DangerNeedsMenu
  <2> SUFFICES ASSUME IInv, NextBoot(bcd) \in MatrixEntries
               PROVE  Flavour(bcd, NextBoot(bcd)) # "broken"
    BY DEF DangerNeedsMenu
  <2> DEFINE n == NextBoot(bcd)
  <2>1. \A s \in Sessions : ses[s].op \in {"matrix", "undomatrix"} => n \notin ses[s].made
    <3>1. \A s \in Sessions : ses[s].op \in {"matrix", "undomatrix"} =>
             bcd.seq \notin ses[s].made /\ bcd.default \notin ses[s].made
      BY DEF IInv, MadeInv
    <3> QED
      BY <3>1 DEF NextBoot
  <2>2. n \in UNION matrices
    BY <2>1 DEF MatrixEntries
  <2>3. n = bcd.default
    BY <2>2 DEF NextBoot, IInv, MatrixInv
  <2>4. ~ Launches(bcd.entry[n])
    BY <2>2, <2>3 DEF IInv, MatrixInv
  <2> QED
    BY <2>4 DEF Flavour, Crashes
<1> QED
  BY <1>1, InvariantHolds, PTL

\* If no GUID goes unread and no manifest fails behind a try block, and without
\* prepare-hyperv-test-boot.ps1, the only script that makes an entry and has no
\* catch block, no script leaves an entry that no manifest names and no session
\* will delete, unless it was cut off or could not delete it.
THEOREM EntriesHaveOwners ==
    ASSUME Rollbacks
    PROVE  Spec => []MadeEntriesOwned
<1>1. IInv => MadeEntriesOwned
  BY DEF IInv
<1> QED
  BY <1>1, InvariantHolds, PTL

-----------------------------------------------------------------------------
(***************************************************************************)
(* What a step may never do.                                               *)
(***************************************************************************)
\* No entry that was there is changed, and no other entry becomes the default.
Spares == /\ bcd'.default \in {bcd.default, NoId}
          /\ \A j \in bcd.used : bcd'.entry[j] = bcd.entry[j]

\* A step of session s, by what it does to the script and to the store.
LEMMA StepEffect ==
    ASSUME IInv, NEW s \in Sessions, Step(s)
    PROVE  LET c == Command(s)
           IN  \/ /\ Passes(s, c) /\ StoreStep(s, c)
                  /\ c.op = "manifest" => report'.op # "none"
               \/ Fails(s) /\ Spares /\ bcd'.seq = bcd.seq /\ ses[s].op \notin Undoing
               \/ ses'[s].op = ses[s].op /\ Spares
               \/ ses[s].op \in {"undomatrix", "unmatrix"} /\ Spares
<1> DEFINE c  == Command(s)
           op == ses[s].op
           z  == Scripts[ses[s].op]
<1>1. op \in DOMAIN Scripts
  BY DEF Step
<1>2. Working(s, c) /\ TypeOK /\ bcd \in Stores
  BY <1>1, AtWork DEF IInv, TypeOK, MachineTypeOK
<1>3. \/ BcdCommand(s, z, c, Catch(s)) /\ BcdOnly
      \/ WriteManifest(s, c) \/ ReplaceOrder(s, c) \/ RegistryCommand(s, c)
      \/ DeleteOneMade(s, c) \/ DeleteOneTodo(s, c)
  BY DEF Step, Command
<1> HIDE DEF c
<1>4. CASE Succeed(s, z, c)
  <2>1. c.op \in BcdEditOps /\ Possible(bcd, c, Target(s, c)) /\ bcd' = Exec(bcd, c, Target(s, c)) /\ Advance(s, z)
    BY <1>4 DEF Succeed
  <2>2. Passes(s, c) /\ StoreStep(s, c) /\ c.op # "manifest"
    BY <1>2, <2>1, SucceedStore, AdvanceEffect DEF BcdEditOps, EntryOps, BootMgrOps
  <2> QED
    BY <2>2 DEF c
<1>5. CASE FailSoftly(s, z, c)
  <2>1. c.op \in BcdEditOps /\ Advance(s, z)
    BY <1>5 DEF FailSoftly
  <2>2. Passes(s, c) /\ StoreStep(s, c) /\ c.op # "manifest"
    BY <1>2, <1>5, <2>1, FailSoftlyStore, AdvanceEffect DEF BcdEditOps, EntryOps, BootMgrOps
  <2> QED
    BY <2>2 DEF c
<1>6. CASE FailHard(s, c, Catch(s))
  <2>1. c.onfail = "throw" /\ c.op \in BcdEditOps \cup {"copy"} /\ Throw(s, Catch(s)) /\ bcd' = bcd
    BY <1>6 DEF FailHard
  <2>2. Fails(s) /\ op \notin Undoing
    BY <1>2, <2>1, ThrowEffect, UndoingGoesOn DEF BcdEditOps, EntryOps, BootMgrOps
  <2> QED
    BY <2>1, <2>2 DEF Spares
<1>7. CASE CopyEntry(s, z, c)
  <2> DEFINE i == Target(s, c)
  <2>1. PICK g \in Ids \ bcd.used :
           /\ bcd' = Copied(bcd, i, g, c.val)
           /\ ses' = [ses EXCEPT ![s] = AfterCommand(WithCopy(@, g), z)]
    BY <1>7 DEF CopyEntry
  <2>2. c.op = "copy" /\ Possible(bcd, c, i)
    BY <1>7 DEF CopyEntry
  <2>3. i \in bcd.live /\ c.val \in Values /\ op \in Copying
    BY <1>2, <2>2, CopyCommand
  <2> HIDE DEF i
  <2>4. Spares
    <3>1. bcd.used \subseteq Ids
      BY <1>2 DEF Stores
    <3> QED
      BY <1>2, <2>1, <2>3, <3>1, CopiedEffect DEF Spares
  <2>5. ses[s].pc # Len(z)
    <3>1. op \in Recording
      BY <2>3, Kinds
    <3>2. ses[s].pc \in DOMAIN z /\ c = z[ses[s].pc]
      BY <1>2 DEF Working, Command
    <3> QED
      BY <1>1, <2>2, <3>1, <3>2, CommandAt
  <2>6. ses'[s].op = op
    <3> DEFINE r == WithCopy(ses[s], g)
    <3>1. r \in Sess /\ r.op = op /\ r.pc = ses[s].pc
      BY <1>2 DEF Working, WithCopy, Sess, SessionStates, IdsOrNone
    <3>2. ses' = [ses EXCEPT ![s] = AfterCommand(r, z)]
      BY <2>1
    <3> HIDE DEF r
    <3>3. AfterCommand(r, z) = [r EXCEPT !.pc = r.pc + 1]
      BY <2>5, <3>1 DEF AfterCommand
    <3>4. ses'[s] = AfterCommand(r, z)
      BY <1>2, <3>2 DEF TypeOK, MachineTypeOK
    <3> QED
      BY <3>1, <3>3, <3>4 DEF Sess, SessionStates
  <2> QED
    BY <2>4, <2>6
<1>8. CASE CopyUnread(s, c, Catch(s))
  <2> DEFINE i == Target(s, c)
  <2>1. PICK g \in Ids \ bcd.used : bcd' = Copied(bcd, i, g, c.val)
    BY <1>8 DEF CopyUnread
  <2>2. c.op = "copy" /\ Possible(bcd, c, i) /\ Throw(s, Catch(s))
    BY <1>8 DEF CopyUnread
  <2>3. i \in bcd.live /\ c.val \in Values /\ op \in Copying
    BY <1>2, <2>2, CopyCommand
  <2> HIDE DEF i
  <2>4. Spares /\ bcd'.seq = bcd.seq
    <3>1. bcd.used \subseteq Ids
      BY <1>2 DEF Stores
    <3> QED
      BY <1>2, <2>1, <2>3, <3>1, CopiedEffect DEF Spares
  <2>5. Fails(s) /\ op \notin Undoing
    BY <1>2, <2>2, <2>3, ThrowEffect, Kinds
  <2> QED
    BY <2>4, <2>5
<1>9. CASE WriteManifest(s, c)
  <2>1. c.op = "manifest" /\ bcd' = bcd /\ c.op \in OwnOps
    BY <1>9 DEF WriteManifest, OwnOps
  <2>2. CASE Throw(s, Catch(s))
    <3>1. Fails(s) /\ op \notin Undoing
      BY <1>2, <2>1, <2>2, ThrowEffect, UndoingGoesOn
    <3> QED
      BY <2>1, <3>1 DEF Spares
  <2>3. CASE Advance(s, z) /\ report' = [op |-> op, safe |-> current, test |-> ses[s].did]
    <3>1. c # Unsequence("diag")
      BY <2>1, CmdFields DEF Unsequence
    <3>2. Passes(s, c) /\ StoreStep(s, c)
      BY <1>2, <2>1, <2>3, <3>1, AdvanceEffect, KeptStore
    <3>3. report'.op # "none"
      BY <1>1, <2>3, Kinds
    <3> QED
      BY <3>2, <3>3 DEF c
  <2> QED
    BY <1>9, <2>2, <2>3 DEF WriteManifest
<1>10. CASE ReplaceOrder(s, c)
  <2>1. c.op = "onlythese" /\ c.op \in OwnOps
    BY <1>10 DEF ReplaceOrder, OwnOps
  <2>2. CASE Throw(s, Catch(s)) /\ bcd' = bcd
    <3>1. Fails(s) /\ op \notin Undoing
      BY <1>2, <2>1, <2>2, ThrowEffect, UndoingGoesOn
    <3> QED
      BY <2>2, <3>1 DEF Spares
  <2>3. CASE /\ {current, ses[s].did} \subseteq bcd.live /\ Advance(s, z)
             /\ bcd' = [bcd EXCEPT !.order = {current, ses[s].did}]
    <3>1. c # Unsequence("diag")
      BY <2>1, CmdFields DEF Unsequence
    <3>2. /\ bcd' \in Stores /\ bcd'.entry = bcd.entry /\ bcd'.live = bcd.live /\ bcd'.used = bcd.used
          /\ bcd'.default = bcd.default /\ bcd'.seq = bcd.seq
      BY <1>2, <2>3 DEF Stores
    <3>3. Passes(s, c) /\ StoreStep(s, c)
      BY <1>2, <2>1, <2>3, <3>1, <3>2, AdvanceEffect, KeptStore
    <3> QED
      BY <2>1, <3>3 DEF c
  <2> QED
    BY <1>10, <2>2, <2>3 DEF ReplaceOrder
<1>11. CASE RegistryCommand(s, c)
  <2>1. bcd' = bcd
    BY <1>11 DEF RegistryCommand
  <2>2. CASE c.op \in {"exportreg", "showcrash"} /\ Throw(s, Catch(s))
    <3>1. Fails(s) /\ op \notin Undoing
      BY <1>2, <2>2, ThrowEffect, UndoingGoesOn DEF OwnOps
    <3> QED
      BY <2>1, <3>1 DEF Spares
  <2>3. CASE c.op \in {"exportreg", "showcrash", "importreg"} /\ Advance(s, z)
    <3>1. c # Unsequence("diag") /\ c.op \in OwnOps
      BY <2>3, CmdFields DEF Unsequence, OwnOps
    <3>2. Passes(s, c) /\ StoreStep(s, c)
      BY <1>2, <2>1, <2>3, <3>1, AdvanceEffect, KeptStore
    <3> QED
      BY <2>3, <3>2 DEF c
  <2> QED
    BY <1>11, <2>2, <2>3 DEF RegistryCommand
<1>12. CASE DeleteOneMade(s, c)
  <2>1. op = "undomatrix"
    BY <1>2, <1>12 DEF DeleteOneMade, Working, Lawful
  <2>2. Spares
    BY <1>2, <1>12 DEF DeleteOneMade, Deleted, Stores, Spares
  <2> QED
    BY <2>1, <2>2
<1>13. CASE DeleteOneTodo(s, c)
  <2>1. op = "unmatrix"
    BY <1>2, <1>13 DEF DeleteOneTodo, Working, Lawful
  <2>2. Spares
    BY <1>2, <1>13 DEF DeleteOneTodo, Deleted, Stores, Spares
  <2> QED
    BY <2>1, <2>2
<1> QED
  BY <1>3, <1>4, <1>5, <1>6, <1>7, <1>8, <1>9, <1>10, <1>11, <1>12, <1>13 DEF BcdCommand

\* Outside the sessions' steps nobody changes an entry, or the default.
LEMMA OthersSpare ==
    ASSUME [Next]_vars, ~ \E s \in Sessions : Step(s)
    PROVE  bcd'.entry = bcd.entry /\ bcd'.default = bcd.default
<1>1. CASE Boot
  BY <1>1 DEF Boot, BootUnattended
<1>2. CASE UNCHANGED vars
  BY <1>2 DEF vars, machineVars
<1>3. CASE \E s \in Sessions : StartCopying(s) \/ StartOnTestEntry(s) \/ StartRemoveMatrix(s)
  BY <1>3 DEF StartCopying, StartOnTestEntry, StartRemoveMatrix, Start
<1>4. CASE Down \/ Pick
  BY <1>4 DEF Down, Stop, Pick, BootFromMenu
<1> QED
  BY <1>1, <1>2, <1>3, <1>4 DEF Next

\* Where nothing is changed but the default is lost, it does not begin to fail.
LEMMA SparedDefault ==
    ASSUME IInv, Spares, Flavour(bcd, bcd.default) \in {"off", "hv"}
    PROVE  Flavour(bcd', bcd'.default) # "broken"
<1>1. bcd.default \in bcd.used /\ bcd.default # NoId
  BY DEF Flavour, IInv, MachineInv
<1>2. bcd'.entry[bcd.default] = bcd.entry[bcd.default]
  BY <1>1 DEF Spares
<1> QED
  BY <1>1, <1>2 DEF Spares, Flavour

\* A command that passes leaves a default that boots: it sets up other entries
\* only, or turns Hyper-V off, or sets what has no part in booting.
LEMMA PassedDefault ==
    ASSUME IInv, NEW s \in Sessions, NEW c, Working(s, c), StoreStep(s, c),
           Flavour(bcd, bcd.default) \in {"off", "hv"}
    PROVE  Flavour(bcd', bcd'.default) # "broken"
<1> DEFINE d   == bcd.default
           did == ses[s].did
<1>1. d \in Ids /\ d # NoId /\ ~ Crashes(bcd.entry[d])
  BY DEF Flavour, IInv, TypeOK, MachineTypeOK, Stores, IdsOrNone
<1>2. CASE bcd'.default = current /\ c = Default("current")
  <2>1. c.op = "default" /\ TurnOff \in Done(s)
    BY <1>2, CmdFields DEF Default, Working, Follows
  <2>2. ~ Launches(bcd.entry[current])
    BY <2>1 DEF Working, DoneInv
  <2>3. bcd'.entry[current]["launch"] = bcd.entry[current]["launch"]
    <3>1. c.op \notin SettingOps /\ current \in Ids /\ "launch" \in Elements
      BY <2>1, Kinds DEF Working, Elements
    <3> QED
      BY <3>1 DEF StoreStep, EntryStep
  <2> QED
    BY <1>2, <2>2, <2>3 DEF Flavour, Crashes, Launches
<1>3. CASE bcd'.default = d
  <2>1. c.op \in SettingOps /\ c.on = "diag" /\ did = d =>
           ses[s].op = "capture7e" /\ Launches(bcd.entry[d])
    <3> SUFFICES ASSUME c.op \in SettingOps, c.on = "diag", did = d
                 PROVE  ses[s].op = "capture7e" /\ Launches(bcd.entry[d])
      OBVIOUS
    <3>1. ses[s].op = "capture7e"
      BY <1>1, TestApart
    <3>2. FoundAuto \in Done(s) /\ ses[s].op \in Reusing
      BY <3>1, Kinds DEF Working, Follows
    <3> QED
      BY <3>1, <3>2 DEF Working, DoneInv
  <2>2. /\ bcd'.entry[d]["launch"] \in {bcd.entry[d]["launch"], "off"}
        /\ bcd'.entry[d]["opts"] = bcd.entry[d]["opts"]
        /\ bcd'.entry[d]["xsave"] = bcd.entry[d]["xsave"]
    <3>1. {"launch", "opts", "xsave"} \subseteq Elements
      BY DEF Elements
    <3>2. c.op \in SettingOps /\ c.on = "diag" /\ did = d =>
             c.elem \in {"launch", "vsm", "capture"} /\ (c.elem = "launch" => c.val = "auto")
      BY <2>1 DEF Working, Lawful
    <3>3. c.op \in SettingOps /\ c.on = "diag" /\ did = d => bcd.entry[d]["launch"] = "auto"
      BY <2>1 DEF Launches
    <3>4. \A y \in Elements :
             \/ bcd'.entry[d][y] = bcd.entry[d][y]
             \/ y \in {"launch", "vsm"} /\ bcd'.entry[d][y] = "off"
             \/ c.op \in SettingOps /\ c.on = "diag" /\ did = d /\ y = c.elem /\ bcd'.entry[d][y] = c.val
      BY <1>1 DEF StoreStep, EntryStep
    <3> HIDE DEF d, did
    <3> QED
      BY <3>1, <3>2, <3>3, <3>4
  <2> HIDE DEF d
  <2> QED
    BY <1>1, <1>3, <2>2 DEF Flavour, Crashes, Launches
<1> QED
  BY <1>2, <1>3 DEF StoreStep

\* A default entry that boots keeps booting, whatever experiment is prepared,
\* fails on the way or is cut off.
THEOREM DefaultNeverBreaks == Spec => DefaultKeepsBooting
<1>1. IInv /\ [Next]_vars =>
         [Flavour(bcd, bcd.default) \in {"off", "hv"} => Flavour(bcd', bcd'.default) # "broken"]_vars
  <2> SUFFICES ASSUME IInv, [Next]_vars, Flavour(bcd, bcd.default) \in {"off", "hv"}
               PROVE  Flavour(bcd', bcd'.default) # "broken"
    OBVIOUS
  <2>1. ASSUME NEW s \in Sessions, Step(s) PROVE Flavour(bcd', bcd'.default) # "broken"
    <3>1. Working(s, Command(s))
      BY <2>1, AtWork DEF Step
    <3> QED
      BY <2>1, <3>1, StepEffect, SparedDefault, PassedDefault
  <2>2. CASE ~ \E s \in Sessions : Step(s)
    BY <2>2, OthersSpare, SparedDefault DEF Spares
  <2> QED
    BY <2>1, <2>2
<1> QED
  BY <1>1, InvariantHolds, PTL DEF Spec, DefaultKeepsBooting

\* A one-time script past its checks is at work on its entry: whatever is
\* scheduled is that entry, and an exception has a catch block to go to.
LEMMA PastChecksState ==
    ASSUME IInv, NEW s \in Sessions, PastChecks(s)
    PROVE  /\ ses[s].op \in DOMAIN Scripts /\ ses[s].op \in Disarms \cup Reusing \cup {"clean"}
           /\ bcd.seq \in {NoId, ses[s].did}
           /\ ses[s].op \notin Disarms /\ Catch(s) = "none" => bcd.seq = NoId
<1> DEFINE op == ses[s].op
           c  == Command(s)
<1>1. op \in DOMAIN Scripts /\ op \in Disarms \cup Reusing \cup {"clean"}
  BY Kinds DEF PastChecks
<1>2. Working(s, c)
  BY <1>1, AtWork
<1> HIDE DEF c
<1>3. CASE op \in Disarms
  BY <1>1, <1>2, <1>3 DEF Working, DoneInv
<1>4. CASE op \in Reusing \cup {"clean"}
  <2>1. Export \in Done(s)
    BY <1>4, Kinds DEF PastChecks
  <2>2. Done(s) = Before(Scripts[op], ses[s].pc) /\ ses[s].pc \in DOMAIN Scripts[op]
    BY <1>2 DEF Done, Before, Working
  <2>3. ConfirmNoSequence \in Done(s) /\ (op \in Reusing => ses[s].pc > BeforeTry(op))
    BY <1>1, <1>4, <2>1, <2>2, PastChecksAt
  <2>4. bcd.seq \in {NoId, ses[s].did}
    BY <1>2, <1>4, <2>3 DEF Working, DoneInv
  <2>5. Catch(s) = "none" => op = "clean" /\ ses[s].did = NoId
    <3>1. op \in Reusing => Catch(s) # "none"
      BY <2>3, Kinds DEF Catch
    <3>2. op = "clean" /\ Catch(s) = "none" => ses[s].did = NoId
      BY <1>2, CatchCases
    <3> QED
      BY <1>4, <3>1, <3>2
  <2> QED
    BY <1>1, <2>4, <2>5
<1> QED
  BY <1>1, <1>3, <1>4

\* When such a script, or its catch block, is over, the boot is not scheduled.
LEMMA OverDisarms ==
    ASSUME IInv, NEW s \in Sessions, Step(s), PastChecks(s), ses'[s] = Idle, report'.op = "none",
           "soft" \notin Faults
    PROVE  bcd'.seq = NoId
<1> DEFINE op == ses[s].op
           c  == Command(s)
<1>1. /\ op \in DOMAIN Scripts /\ op \in Disarms \cup Reusing \cup {"clean"} /\ op # "idle"
      /\ bcd.seq \in {NoId, ses[s].did}
      /\ op \notin Disarms /\ Catch(s) = "none" => bcd.seq = NoId
  BY PastChecksState, IdleFields
<1>2. Working(s, c)
  BY <1>1, AtWork
<1>3. \/ Passes(s, c) /\ StoreStep(s, c) /\ (c.op = "manifest" => report'.op # "none")
      \/ Fails(s) /\ Spares /\ bcd'.seq = bcd.seq /\ op \notin Undoing
      \/ ses'[s].op = op /\ Spares
      \/ op \in {"undomatrix", "unmatrix"} /\ Spares
  BY StepEffect
<1> HIDE DEF c
<1>4. ses'[s].op = "idle" /\ ses'[s].pc = 0
  BY IdleFields
<1>5. CASE Passes(s, c) /\ StoreStep(s, c) /\ (c.op = "manifest" => report'.op # "none")
  <2>1. ses[s].pc = Len(Scripts[op]) /\ ses[s].pc \in DOMAIN Scripts[op] /\ c = Scripts[op][ses[s].pc]
    BY <1>1, <1>2, <1>4, <1>5 DEF Passes, Proceeds, Ends, Working, Command
  <2>2. op \notin Recording
    <3>1. op \in Recording => c.op = "manifest"
      BY <1>1, <2>1, CommandAt
    <3> QED
      BY <1>5, <3>1
  <2>3. op \in Disarms
    BY <1>1, <2>2, Kinds
  <2>4. CASE ses[s].pc > 1
    <3>1. bcd.seq = NoId
      BY <1>2, <2>3, <2>4 DEF Working, DoneInv
    <3>2. c # Sequence("diag")
      <4>1. c.op # "bootsequence"
        BY <1>2, <2>3, Kinds DEF Working, Lawful
      <4> QED
        BY <4>1, CmdFields DEF Sequence
    <3> QED
      BY <1>5, <3>1, <3>2 DEF StoreStep
  <2>5. CASE ~ (ses[s].pc > 1)
    <3>1. ses[s].pc = 1
      <4>1. ses[s].pc \in 1 .. Len(Scripts[op]) /\ Len(Scripts[op]) \in Nat
        BY <1>1, <2>1, CommandAt
      <4> QED
        BY <2>5, <4>1
    <3>2. c = Unsequence("diag")
      BY <2>1, <2>3, <3>1, UndoWhole, Kinds DEF Scripts
    <3> QED
      BY <1>5, <2>3, <3>2 DEF StoreStep, Establishes
  <2> QED
    BY <2>4, <2>5
<1>6. CASE Fails(s) /\ Spares /\ bcd'.seq = bcd.seq /\ op \notin Undoing
  <2>1. Catch(s) = "none"
    <3>1. "idle" \notin Undoing
      BY Kinds
    <3> QED
      BY <1>4, <1>6, <3>1 DEF Fails, RollsBack
  <2> QED
    BY <1>1, <1>6, <2>1, Kinds
<1> QED
  BY <1>1, <1>3, <1>4, <1>5, <1>6, Kinds

\* A one-time script that throws after its checks leaves no boot scheduled,
\* provided that bcdedit does what its catch block asks and nothing cuts it off.
THEOREM ThrownScriptsLeaveNoBoot ==
    ASSUME Faults \cap {"soft", "stop"} = {}
    PROVE  Spec => ThrownScriptsDisarm
<1>1. IInv /\ [Next]_vars =>
         [\A s \in Sessions : PastChecks(s) /\ ses'[s] = Idle /\ report'.op = "none"
                                  => bcd'.seq = NoId]_vars
  <2> SUFFICES ASSUME IInv, [Next]_vars, ~ UNCHANGED vars, NEW s \in Sessions, PastChecks(s),
                      ses'[s] = Idle, report'.op = "none"
               PROVE  bcd'.seq = NoId
    OBVIOUS
  <2>1. ses[s].op \in DOMAIN Scripts /\ ses[s].op # "idle"
    BY PastChecksState, IdleFields
  <2>2. ~ AllIdle /\ current # NoId
    BY <2>1 DEF AllIdle, IInv, MachineInv
  <2>3. ~ Down
    BY <2>2 DEF Down, Stop
  <2>4. ~ Boot /\ ~ Pick
    BY <2>2 DEF Boot, BootUnattended, Pick, BootFromMenu
  <2>5. ~ \E t \in Sessions : StartCopying(t) \/ StartOnTestEntry(t) \/ StartRemoveMatrix(t)
    BY <2>2 DEF StartCopying, StartOnTestEntry, StartRemoveMatrix, Start
  <2>6. PICK t \in Sessions : Step(t)
    BY <2>3, <2>4, <2>5 DEF Next
  <2>7. t = s
    <3>1. ses[t].op \in DOMAIN Scripts /\ ses[t].op # "idle"
      BY <2>6, IdleFields DEF Step
    <3> QED
      BY <2>1, <3>1 DEF IInv, MachineInv
  <2> QED
    BY <2>6, <2>7, OverDisarms
<1> QED
  BY <1>1, InvariantHolds, PTL DEF Spec, ThrownScriptsDisarm
=============================================================================
