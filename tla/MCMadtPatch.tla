---------------------------- MODULE MCMadtPatch ----------------------------
(***************************************************************************)
(* A small instance of MadtPatch for TLC: machines of two processors.      *)
(***************************************************************************)
EXTENDS MadtPatch, TLC

\* An NMI UID of 0xFF.
AllProcessors == 255

Rec(k, l, u) == [kind |-> k, len |-> l, uid |-> u, enabled |-> TRUE, rest |-> 5]
Cpu(u)   == Rec(0, 8, u)
Nmi(u)   == Rec(4, 6, u)
Off(r)   == [r EXCEPT !.enabled = FALSE]

\* Where record i of a list starts.
StartOf(rs, i) ==
    LET len[j \in 0 .. Len(rs)] == IF j = 0 THEN 0 ELSE len[j - 1] + rs[j].len IN len[i - 1]

\* The records one after the other, with some bytes more or fewer at the end.
Table(rs, more) ==
    LET size == StartOf(rs, Len(rs)) + rs[Len(rs)].len + more
        starts == {StartOf(rs, i) : i \in 1 .. Len(rs)}
    IN  [oem |-> 1, declared |-> size, valid |-> TRUE, size |-> size,
         recs |-> [o \in starts |-> rs[CHOOSE i \in 1 .. Len(rs) : StartOf(rs, i) = o]],
         echo |-> <<>>]

\* A vendor's record that holds, two bytes behind its start, those of other records.
Vendor == Rec(128, 16, 0)
Holding(t, at, rs) == [t EXCEPT !.echo = (at + 2) :> rs]

\* The table of the machine, and the same as it should be.
Shifted == Table(<<Cpu(0), Cpu(1), Nmi(1), Nmi(2)>>, 0)
Fixed   == Table(<<Cpu(0), Cpu(1), Nmi(0), Nmi(1)>>, 0)

\* Tables of other firmware versions: a disabled processor, UIDs that fit from
\* 1, an NMI entry for all, x2APIC entries, the entries' bytes once more before or
\* behind them, another flag, another machine.
SomeFirmwares ==
    {Shifted, Fixed,
     Table(<<Cpu(0), Off(Cpu(1)), Nmi(1), Nmi(2)>>, 0),
     Table(<<Cpu(1), Cpu(2), Nmi(1), Nmi(2)>>, 0),
     Table(<<Rec(1, 12, 0), Cpu(0), Cpu(1), Nmi(1), Nmi(2)>>, 0),
     Table(<<Cpu(0), Cpu(1), Nmi(255)>>, 0),
     Table(<<Rec(9, 16, 0), Rec(10, 12, 1)>>, 0),
     Holding(Table(<<Vendor, Cpu(0), Cpu(1), Nmi(1), Nmi(2)>>, 0), 0, <<Nmi(1), Nmi(2)>>),
     Holding(Table(<<Cpu(0), Cpu(1), Nmi(1), Nmi(2), Vendor>>, 0), 28, <<Nmi(1), Nmi(2)>>),
     [Shifted EXCEPT !.recs = [o \in DOMAIN @ |-> [@[o] EXCEPT !.rest = 6]]],
     [Shifted EXCEPT !.oem = 2]}

\* Files: those, damaged ones, and tables whose NMI entries the builder refuses.
SomeTables ==
    SomeFirmwares \cup
    {[Shifted EXCEPT !.valid = FALSE], [Shifted EXCEPT !.declared = 20],
     Table(<<Cpu(0), Rec(2, 0, 0)>>, 2), Table(<<Cpu(0), Nmi(1)>>, -3),
     Table(<<Cpu(0), Rec(2, 1, 0)>>, 0),
     Table(<<Cpu(0), Nmi(1), Cpu(1), Nmi(2)>>, 0),
     Table(<<Cpu(0), Cpu(1), Rec(4, 7, 1), Nmi(2)>>, 0)}
=============================================================================
