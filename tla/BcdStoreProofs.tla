--------------------------- MODULE BcdStoreProofs ---------------------------
(***************************************************************************)
(* What a bcdedit command can change in a store, for any store and entry.  *)
(***************************************************************************)
EXTENDS BcdStore, TLAPS

\* Command c has an element and a value of the model's.
WellTyped(c) == c.elem \in Elements /\ c.val \in Values

\* Setting one element of an entry leaves all others as they were.
LEMMA AssignedEffect ==
    ASSUME NEW b \in Stores, NEW i \in Ids, NEW x \in Elements, NEW v \in Values
    PROVE  /\ Assigned(b, i, x, v) \in Stores
           /\ Assigned(b, i, x, v).used = b.used
           /\ Assigned(b, i, x, v).live = b.live
           /\ Assigned(b, i, x, v).default = b.default
           /\ Assigned(b, i, x, v).seq = b.seq
           /\ Assigned(b, i, x, v).order = b.order
           /\ Assigned(b, i, x, v).menu = b.menu
           /\ \A j \in Ids, y \in Elements :
                 Assigned(b, i, x, v).entry[j][y] = IF j = i /\ y = x THEN v ELSE b.entry[j][y]
BY DEF Assigned, Stores, Entries

\* n is what command c on entry i makes of store b: well formed, with no GUID
\* handed out, and changed exactly in what c is about.
Effect(b, c, i, n) ==
    /\ n \in Stores
    /\ n.used = b.used
    /\ n.live = IF c.op = "delete" THEN b.live \ {i} ELSE b.live
    /\ n.default = CASE c.op = "default" -> i
                     [] c.op = "delete" /\ b.default = i -> NoId
                     [] OTHER -> b.default
    /\ n.seq = CASE c.op = "bootsequence" -> i
                 [] c.op = "delete" /\ b.seq = i -> NoId
                 [] c.op \in {"clearsequence", "unsequence"} -> NoId
                 [] OTHER -> b.seq
    /\ n.order = CASE c.op = "displayorder" -> b.order \cup {i}
                   [] c.op = "delete" -> b.order \ {i}
                   [] OTHER -> b.order
    /\ n.menu = IF c.op = "displaybootmenu" THEN "yes" ELSE b.menu
    /\ \A j \in Ids, y \in Elements :
          n.entry[j][y] = IF c.op \in {"set", "deletevalue"} /\ j = i /\ y = c.elem THEN c.val
                          ELSE b.entry[j][y]

\* A bcdedit command that succeeds changes what Effect says, and nothing else.
LEMMA ExecEffect ==
    ASSUME NEW b \in Stores, NEW c, WellTyped(c), NEW i \in IdsOrNone,
           c.op \in BcdEditOps, Possible(b, c, i)
    PROVE  Effect(b, c, i, Exec(b, c, i))
<1>0. c.op \in EntryOps => i \in b.live /\ i \in Ids
  BY DEF Possible, EntryOps, BootMgrOps, Stores
<1>1. CASE c.op \in {"set", "deletevalue"}
  <2>1. i \in Ids
    BY <1>0, <1>1 DEF EntryOps
  <2>2. Exec(b, c, i) = Assigned(b, i, c.elem, c.val)
    BY <1>1 DEF Exec
  <2> QED
    BY <1>1, <2>1, <2>2, AssignedEffect DEF Effect, WellTyped
<1>2. CASE c.op = "delete"
  BY <1>2, <1>0 DEF Effect, Exec, Deleted, Stores, IdsOrNone, EntryOps
<1>3. CASE c.op \in {"displayorder", "default", "bootsequence"}
  BY <1>3, <1>0 DEF Effect, Exec, Stores, IdsOrNone, EntryOps
<1>4. CASE c.op \in {"displaybootmenu", "clearsequence", "unsequence"}
  BY <1>4 DEF Effect, Exec, Stores, IdsOrNone
<1>5. CASE c.op \in {"confirm", "enum", "confirmsequence", "timeout", "confirmnosequence", "enumbootmgr",
                      "export"}
  BY <1>5 DEF Effect, Exec
<1> QED
  BY <1>1, <1>2, <1>3, <1>4, <1>5 DEF BcdEditOps, BootMgrOps, EntryOps

\* A copy has the elements of its base, but for the description, and a GUID
\* that nothing refers to.
LEMMA CopiedEffect ==
    ASSUME NEW b \in Stores, NEW i \in b.live, NEW g \in Ids, NEW d \in Values
    PROVE  /\ Copied(b, i, g, d) \in Stores
           /\ Copied(b, i, g, d).used = b.used \cup {g}
           /\ Copied(b, i, g, d).live = b.live \cup {g}
           /\ Copied(b, i, g, d).default = b.default
           /\ Copied(b, i, g, d).seq = b.seq
           /\ Copied(b, i, g, d).order = b.order
           /\ Copied(b, i, g, d).menu = b.menu
           /\ \A j \in Ids \ {g} : Copied(b, i, g, d).entry[j] = b.entry[j]
<1>1. [b.entry[i] EXCEPT !["desc"] = d] \in Entries
  BY DEF Stores, Entries
<1> QED
  BY <1>1 DEF Copied, Stores
=============================================================================
