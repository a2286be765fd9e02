------------------------------ MODULE BcdStore ------------------------------
(***************************************************************************)
(* The BCD store as the scripts of this repository see it, and the         *)
(* bcdedit commands they issue.  bcdedit itself is not part of the         *)
(* repository: its operations are modelled from how the scripts use them.  *)
(* A command that succeeds has its whole effect, one that fails has none.  *)
(***************************************************************************)
EXTENDS Naturals, Sequences, FiniteSets

CONSTANTS
    Ids,    \* GUIDs of boot entries, those that exist and those /copy may hand out
    NoId    \* no entry: an unset default, an unset bootsequence, a machine that is off

ASSUME NoIdAssumption == NoId \notin Ids

IdsOrNone == Ids \cup {NoId}

(***************************************************************************)
(* A boot entry: hypervisorlaunchtype, hypervisorloadoptions, xsavedisable,*)
(* vsmlaunchtype, hypervisornumproc, hypervisorusevapic; "capture" stands  *)
(* for bootlog, sos, quietboot and nocrashautoreboot, set together;        *)
(* "extra" for every other element of the scripts' lists of experimental   *)
(* overrides; "desc" for the description.                                  *)
(***************************************************************************)
Elements == {"launch", "opts", "xsave", "vsm", "numproc", "vapic", "capture", "extra", "desc"}
Values   == {"absent", "off", "auto", "mbec", "other", "on", "normal", "fallback", "test"}
Entries  == [Elements -> Values]

(***************************************************************************)
(* The store: the elements of each entry, the entries that exist, the      *)
(* GUIDs ever handed out, and the boot manager's default, one-shot         *)
(* bootsequence, display order and displaybootmenu flag.                   *)
(***************************************************************************)
Stores == [entry : [Ids -> Entries], live : SUBSET Ids, used : SUBSET Ids,
           default : IdsOrNone, seq : IdsOrNone, order : SUBSET Ids, menu : {"no", "yes"}]

(***************************************************************************)
(* What booting an entry does on the affected machine: Hyper-V with        *)
(* hardware MBEC and XSAVE both active fails during boot.                  *)
(***************************************************************************)
Launches(e) == e["launch"] = "auto"
Crashes(e)  == Launches(e) /\ e["opts"] # "mbec" /\ e["xsave"] = "absent"

\* What booting entry i of store b gives.
Flavour(b, i) == IF i = NoId THEN "none"
                 ELSE IF Crashes(b.entry[i]) THEN "broken"
                 ELSE IF Launches(b.entry[i]) THEN "hv" ELSE "off"

\* The entry an unattended boot starts: the one-shot sequence, else the default.
NextBoot(b) == IF b.seq # NoId THEN b.seq ELSE b.default

\* No boot that nobody attends fails: neither the next one nor, once the
\* one-shot sequence is consumed, the one after it.
Survives(b) == "broken" \notin {Flavour(b, b.default), Flavour(b, b.seq)}

-----------------------------------------------------------------------------
(***************************************************************************)
(* The commands of a script.  "on" names the entry the script applies it   *)
(* to: the normal entry, the diagnostic copy, or the boot manager.  A      *)
(* failure throws, or is ignored under -AllowFailure.                      *)
(***************************************************************************)
Cmd(op, on, elem, val, onfail) ==
    [op |-> op, on |-> on, elem |-> elem, val |-> val, onfail |-> onfail]

Set(on, elem, val)    == Cmd("set", on, elem, val, "throw")
Clear(on, elem)       == Cmd("deletevalue", on, elem, "absent", "ignore")
Confirm(on, elem, val) == Cmd("confirm", on, elem, val, "throw")
Enum(on)              == Cmd("enum", on, "desc", "absent", "throw")
Copy(on, desc)        == Cmd("copy", on, "desc", desc, "throw")
Delete(on)            == Cmd("delete", on, "desc", "absent", "throw")
DeleteQuietly(on)     == Cmd("delete", on, "desc", "absent", "ignore")
AddLast(on)           == Cmd("displayorder", on, "desc", "absent", "throw")
Default(on)           == Cmd("default", on, "desc", "absent", "throw")
Sequence(on)          == Cmd("bootsequence", on, "desc", "absent", "throw")
ConfirmSequence(on)    == Cmd("confirmsequence", on, "desc", "absent", "throw")
Unsequence(on)        == Cmd("unsequence", on, "desc", "absent", "ignore")
ConfirmNoSequence      == Cmd("confirmnosequence", "bootmgr", "desc", "absent", "throw")
ReadBootMgr           == Cmd("enumbootmgr", "bootmgr", "desc", "absent", "throw")
ClearSequence         == Cmd("clearsequence", "bootmgr", "desc", "absent", "ignore")
ShowMenu              == Cmd("displaybootmenu", "bootmgr", "desc", "on", "throw")
Timeout               == Cmd("timeout", "bootmgr", "desc", "absent", "throw")
Export                == Cmd("export", "bootmgr", "desc", "absent", "throw")

BootMgrOps == {"displaybootmenu", "timeout", "clearsequence", "confirmnosequence", "enumbootmgr",
               "export"}
EntryOps   == {"set", "deletevalue", "confirm", "enum", "delete", "displayorder", "default",
               "bootsequence", "confirmsequence", "unsequence"}
BcdEditOps == BootMgrOps \cup EntryOps

\* The store after element x of entry i becomes v.
Assigned(b, i, x, v) == [b EXCEPT !.entry[i][x] = v]

\* The store after /delete: the entry goes, and so does every reference to it.
Deleted(b, i) ==
    [b EXCEPT !.live    = @ \ {i},
              !.order   = @ \ {i},
              !.default = IF @ = i THEN NoId ELSE @,
              !.seq     = IF @ = i THEN NoId ELSE @]

\* The store after /copy of i with description d gives the new entry g.
Copied(b, i, g, d) ==
    [b EXCEPT !.entry = [@ EXCEPT ![g] = [b.entry[i] EXCEPT !["desc"] = d]],
              !.live  = @ \cup {g},
              !.used  = @ \cup {g}]

\* c succeeds on entry i, if bcdedit itself does not fail: the entry exists,
\* a value to delete is there to be deleted, a value to confirm is the one read.
\* The scripts confirm a bootsequence by looking for the GUID anywhere in the
\* text of {bootmgr}: the default and the display order are in it as well.
Possible(b, c, i) ==
    /\ c.op \in BootMgrOps \/ i \in b.live
    /\ c.op = "deletevalue" => b.entry[i][c.elem] # "absent"
    /\ c.op = "confirm" => b.entry[i][c.elem] = c.val
    /\ c.op = "confirmsequence" => i \in {b.seq, b.default} \cup b.order
    /\ c.op = "unsequence" => b.seq = i
    /\ c.op = "confirmnosequence" => b.seq = NoId
    /\ c.op = "clearsequence" => b.seq # NoId

\* The store after c, on entry i, succeeds.
Exec(b, c, i) ==
    CASE c.op \in {"set", "deletevalue"} ->
            Assigned(b, i, c.elem, c.val)
      [] c.op = "delete"          -> Deleted(b, i)
      [] c.op = "displayorder"    -> [b EXCEPT !.order = @ \cup {i}]
      [] c.op = "default"         -> [b EXCEPT !.default = i]
      [] c.op = "bootsequence"    -> [b EXCEPT !.seq = i]
      [] c.op = "displaybootmenu" -> [b EXCEPT !.menu = "yes"]
      [] c.op \in {"clearsequence", "unsequence"} -> [b EXCEPT !.seq = NoId]
      [] OTHER                    -> b
=============================================================================
