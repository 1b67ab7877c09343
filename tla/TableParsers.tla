----------------------------- MODULE TableParsers -----------------------------
(***************************************************************************)
(* Parsers of internal/provider/ssh that add up or compare what the lines  *)
(* of an answer show: the VLAN table, the file systems and the uptime.  A  *)
(* line or a part of a line is reduced to what the expressions take of it. *)
(***************************************************************************)
EXTENDS Integers, Sequences, FiniteSetsExt

(* A line of the VLAN table, by what stands in its status column. *)
VLANStates == {"act/", "suspended", "active"}

(* The expressions know "act/..." and "susp...". *)
VLANs(table) ==
    [count  |-> Cardinality({p \in DOMAIN table : table[p] \in {"act/", "suspended"}}),
     active |-> Cardinality({p \in DOMAIN table : table[p] = "act/"})]

-----------------------------------------------------------------------------
(* Two numbers side by side, as in the lines of "show file systems"; the   *)
(* code takes the second for the bytes used.                               *)
FileSystem(total, used) == [total |-> total, used |-> used]

(* In whole percent.  NX-OS shows the total only; the code presumes three  *)
(* tenths of it used.                                                      *)
Utilization(dialect, fs) ==
    IF dialect = "nxos" THEN 30 ELSE (100 * fs.used) \div fs.total

Utilizations(dialect, listing) ==
    {Utilization(dialect, listing[p]) : p \in {q \in DOMAIN listing : listing[q].total > 0}}

(* Deviation: the last file system is reported, whatever came before. *)
FlashLast(dialect, listing) ==
    IF listing = <<>> \/ listing[Len(listing)].total = 0 THEN 0
    ELSE Utilization(dialect, listing[Len(listing)])

(* The fullest file system. *)
Flash(dialect, listing) == Max({0} \cup Utilizations(dialect, listing))

-----------------------------------------------------------------------------
(* A part of an uptime, such as "3 weeks". *)
Part(val, unit) == [val |-> val, unit |-> unit]

(* The beginnings of a unit's name that the cases ask for. *)
Beginnings ==
    [year |-> {"y"}, yr |-> {"y"}, month |-> {"m", "mo"}, week |-> {"w"}, wk |-> {"w"},
     day |-> {"d"}, hour |-> {"h"}, hr |-> {"h"}, minute |-> {"m", "minute"},
     min |-> {"m"}, second |-> {"s"}, sec |-> {"s"}]

(* The units a dialect's expression finds; others are passed over. *)
Units(dialect) ==
    {"year", "week", "day", "hour", "minute", "second"} \cup
    (IF dialect = "ios" THEN {"yr", "wk", "hr", "min", "sec"} ELSE {"month"})

Case(prefix, seconds) == [prefix |-> prefix, seconds |-> seconds]

IOSCases ==
    << Case("y", 365 * 86400), Case("w", 7 * 86400), Case("d", 86400),
       Case("h", 3600), Case("m", 60), Case("s", 1) >>

(* Deviation: "m" is a minute, and asked for before "mo". *)
MinuteFirst == << Case("y", 365 * 86400), Case("m", 60), Case("mo", 30 * 86400),
                 Case("w", 7 * 86400), Case("d", 86400), Case("h", 3600), Case("s", 1) >>

(* NX-OS and IOS-XE. *)
MonthCases ==
    << Case("y", 365 * 86400), Case("mo", 30 * 86400), Case("w", 7 * 86400),
       Case("d", 86400), Case("h", 3600), Case("minute", 60), Case("s", 1) >>

Cases(dialect) == IF dialect = "ios" THEN IOSCases ELSE MonthCases

(* The first case that applies. *)
UnitSeconds(dialect, unit) ==
    LET cases == Cases(dialect)
    IN  cases[Min({i \in DOMAIN cases : cases[i].prefix \in Beginnings[unit]})].seconds

Uptime(dialect, parts) ==
    MapThenSumSet(LAMBDA p : parts[p].val * UnitSeconds(dialect, parts[p].unit),
                  {p \in DOMAIN parts : parts[p].unit \in Units(dialect)})
=============================================================================
