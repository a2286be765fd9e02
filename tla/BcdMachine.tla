----------------------------- MODULE BcdMachine -----------------------------
(***************************************************************************)
(* The machine the scripts run on: one BCD store, the entry Windows was    *)
(* booted from, and the elevated PowerShell sessions that run scripts      *)
(* against the store, one bcdedit call at a time.  A script is a sequence  *)
(* of commands; the modules that extend this one say which scripts exist,  *)
(* when a session may start one and what its catch block does.             *)
(***************************************************************************)
EXTENDS BcdStore

CONSTANTS
    Sessions,   \* elevated PowerShell sessions
    Faults      \* the kinds of fault a run includes, a subset of FaultKinds

FaultKinds == {"hard",    \* a bcdedit call without -AllowFailure fails
               "soft",    \* a bcdedit call with -AllowFailure fails
               "parse",   \* the GUID is not found in the output of /copy
               "file",    \* an operation on a state file or manifest fails
               "late",    \* a manifest of copies fails where no catch block sees it
               "stop"}    \* the machine stops in the middle of a script

ASSUME FaultsAssumption == Faults \subseteq FaultKinds

VARIABLES
    bcd,        \* the BCD store
    current,    \* the entry Windows was booted from, NoId while the machine is down
    mode,       \* what that boot launched: "off", "hv", or "down" (HypervisorPresent)
    ses,        \* what each session runs
    swallowed,  \* observation: a present value survived a /deletevalue nobody checked
    leaked      \* observation: copies whose script was cut off, or failed to delete them

machineVars == <<bcd, current, mode, ses, swallowed, leaked>>

(***************************************************************************)
(* A session: the script it runs, the command it is at, the entry the      *)
(* script treats as normal, the one it treats as diagnostic, the copies it *)
(* made and has neither recorded nor deleted.  "ops" names the scripts.     *)
(***************************************************************************)
SessionStates(ops) ==
    [op : ops \cup {"idle"}, pc : Nat, nid : IdsOrNone, did : IdsOrNone, made : SUBSET Ids]

Idle == [op |-> "idle", pc |-> 0, nid |-> NoId, did |-> NoId, made |-> {}]

Running(op, nid, did) == [op |-> op, pc |-> 1, nid |-> nid, did |-> did, made |-> {}]

AllIdle == \A s \in Sessions : ses[s].op = "idle"

\* The entry command c of session s is about; {current} is the running one.
Target(s, c) == CASE c.on = "normal"  -> ses[s].nid
                  [] c.on = "diag"    -> ses[s].did
                  [] c.on = "current" -> current
                  [] OTHER            -> NoId

\* What session state r becomes after a command: r with the next command of its
\* script, or idle at the end of it.
AfterCommand(r, script) == IF r.pc = Len(script) THEN Idle ELSE [r EXCEPT !.pc = @ + 1]

Advance(s, script) == ses' = [ses EXCEPT ![s] = AfterCommand(@, script)]

\* An exception: the session runs its catch block, or ends if there is none.
Throw(s, catch) ==
    ses' = [ses EXCEPT ![s] = IF catch = "none" THEN Idle
                              ELSE [@ EXCEPT !.op = catch, !.pc = 1]]

-----------------------------------------------------------------------------
(***************************************************************************)
(* One command of a script, by its outcome.                                *)
(***************************************************************************)

\* bcdedit exits with 0.
Succeed(s, script, c) ==
    /\ c.op \in BcdEditOps
    /\ Possible(bcd, c, Target(s, c))
    /\ bcd' = Exec(bcd, c, Target(s, c))
    /\ Advance(s, script)
    /\ UNCHANGED <<current, mode, swallowed, leaked>>

\* bcdedit fails under -AllowFailure: the script goes on either way.
FailSoftly(s, script, c) ==
    /\ c.onfail = "ignore"
    /\ c.op \in BcdEditOps
    /\ ~ Possible(bcd, c, Target(s, c)) \/ "soft" \in Faults
    /\ swallowed' = (swallowed \/ (c.op = "deletevalue" /\ Possible(bcd, c, Target(s, c))))
    /\ leaked' = leaked \cup (IF c.op = "delete" THEN {Target(s, c)} \cap bcd.live ELSE {})
    /\ Advance(s, script)
    /\ UNCHANGED <<bcd, current, mode>>

\* bcdedit fails, or does not confirm what the script expects: it throws.
FailHard(s, c, catch) ==
    /\ c.onfail = "throw"
    /\ c.op \in BcdEditOps \cup {"copy"}
    /\ ~ Possible(bcd, c, Target(s, c)) \/ "hard" \in Faults
    /\ Throw(s, catch)
    /\ UNCHANGED <<bcd, current, mode, swallowed, leaked>>

\* Session state r once the script knows the GUID g of its copy.
WithCopy(r, g) == [r EXCEPT !.did = g, !.made = @ \cup {g}]

\* /copy gives a GUID never used before, and the script reads it.
CopyEntry(s, script, c) ==
    /\ c.op = "copy"
    /\ Possible(bcd, c, Target(s, c))
    /\ \E g \in Ids \ bcd.used :
          /\ bcd' = Copied(bcd, Target(s, c), g, c.val)
          /\ ses' = [ses EXCEPT ![s] = AfterCommand(WithCopy(@, g), script)]
    /\ UNCHANGED <<current, mode, swallowed, leaked>>

\* /copy succeeds but its GUID is not found in the output: the script throws
\* and nobody knows of the new entry, which stays in the store for good.
CopyUnread(s, c, catch) ==
    /\ c.op = "copy"
    /\ "parse" \in Faults
    /\ Possible(bcd, c, Target(s, c))
    /\ \E g \in Ids \ bcd.used : bcd' = Copied(bcd, Target(s, c), g, c.val)
    /\ Throw(s, catch)
    /\ UNCHANGED <<current, mode, swallowed, leaked>>

BcdCommand(s, script, c, catch) ==
    \/ Succeed(s, script, c)
    \/ FailSoftly(s, script, c)
    \/ FailHard(s, c, catch)
    \/ CopyEntry(s, script, c)
    \/ CopyUnread(s, c, catch)

-----------------------------------------------------------------------------
(***************************************************************************)
(* The machine.                                                            *)
(***************************************************************************)

\* The copies that only a running session knows of.
Unrecorded == UNION {ses[s].made : s \in Sessions}

\* Windows goes down: restart, shutdown, power loss.  It ends every session;
\* while one runs it is a fault.  What a session made and had not recorded is
\* then nobody's.
Stop ==
    /\ current # NoId
    /\ AllIdle \/ "stop" \in Faults
    /\ current' = NoId
    /\ mode' = "down"
    /\ ses' = [s \in Sessions |-> Idle]
    /\ leaked' = leaked \cup (Unrecorded \cap bcd.live)
    /\ UNCHANGED <<bcd, swallowed>>

\* Nobody attends: the boot manager consumes the one-shot sequence and starts
\* its entry, else it starts the default; a failing entry leaves the machine down.
BootUnattended ==
    /\ current = NoId
    /\ NextBoot(bcd) # NoId
    /\ bcd' = [bcd EXCEPT !.seq = NoId]
    /\ mode' = IF Flavour(bcd, NextBoot(bcd)) = "broken" THEN "down"
                ELSE Flavour(bcd, NextBoot(bcd))
    /\ current' = IF Flavour(bcd, NextBoot(bcd)) = "broken" THEN NoId ELSE NextBoot(bcd)
    /\ UNCHANGED <<ses, swallowed, leaked>>

\* The operator picks an entry of the boot menu; an entry that fails to boot
\* leaves the machine down, as if not picked.
BootFromMenu ==
    /\ current = NoId
    /\ bcd.seq = NoId
    /\ \E i \in bcd.order \cap bcd.live :
          /\ ~ Crashes(bcd.entry[i])
          /\ current' = i
          /\ mode' = Flavour(bcd, i)
    /\ UNCHANGED <<bcd, ses, swallowed, leaked>>

MachineTypeOK(ops) ==
    /\ bcd \in Stores
    /\ current \in IdsOrNone
    /\ mode \in {"down", "off", "hv"}
    /\ ses \in [Sessions -> SessionStates(ops)]
    /\ swallowed \in BOOLEAN
    /\ leaked \subseteq Ids
=============================================================================
