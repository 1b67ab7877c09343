--------------------------- MODULE InterfaceListing ---------------------------
(***************************************************************************)
(* The parsers of "show interface": ParseNXOSInterfaces, ParseIOSXE-       *)
(* Interfaces and ParseInterfaces of internal/provider/ssh.  They share    *)
(* one plan, cut the listing at the header lines they recognise and look   *)
(* for counters in each block, and differ in their regular expressions.    *)
(*                                                                         *)
(* A listing is a sequence of lines.  A line is a header, with the sort of *)
(* port and the state it shows, or has counters; the expressions of the    *)
(* dialect that it matches are its sorts, as "MTU 1500 bytes, BW 100000    *)
(* Kbit" of IOS is of the sorts mtu and bandwidth.  The value of a counter *)
(* stands for the line it is read from, by position; 0 is the value        *)
(* nothing has set.                                                        *)
(***************************************************************************)
EXTENDS Integers, Sequences, FiniteSetsExt

Dialects == {"nxos", "iosxe", "ios"}

Fields == {"RxBytes", "TxBytes", "RxErrors", "TxErrors", "RxCrc", "RxRunts",
           "RxGiants", "RxDrops", "TxDrops", "RxDiscards", "TxDiscards",
           "Resets", "Speed", "Mtu"}

(* An expression: its groups, the last submatch the code reads, the fields *)
(* it sets from them.                                                      *)
Pattern(groups, last, fields) == [groups |-> groups, last |-> last, fields |-> fields]

NXOSPatterns == [
    input         |-> Pattern(2, 2, {"RxBytes"}),
    output        |-> Pattern(2, 2, {"TxBytes"}),
    buffer        |-> Pattern(4, 5, {"RxErrors", "RxRunts", "RxGiants", "RxCrc"}),
    inputError    |-> Pattern(5, 6, {"RxErrors"}),
    outputError   |-> Pattern(4, 5, {"TxErrors"}),
    inputDiscard  |-> Pattern(1, 1, {"RxDiscards"}),
    outputDiscard |-> Pattern(1, 1, {"TxDiscards"}),
    resets        |-> Pattern(1, 1, {"Resets"}),
    ifDownDrop    |-> Pattern(1, 1, {"RxDrops"}),
    mtuBandwidth  |-> Pattern(2, 2, {"Mtu", "Speed"})]

IOSXEPatterns == [
    input          |-> Pattern(2, 2, {"RxBytes"}),
    output         |-> Pattern(2, 2, {"TxBytes"}),
    inputErrors    |-> Pattern(2, 2, {"RxErrors", "RxCrc"}),
    outputErrors   |-> Pattern(2, 1, {"TxErrors"}),
    runts          |-> Pattern(1, 1, {"RxRunts"}),
    giants         |-> Pattern(1, 1, {"RxGiants"}),
    totalDrops     |-> Pattern(1, 1, {"TxDrops"}),
    inputDrops     |-> Pattern(1, 1, {"RxDrops"}),
    inputDiscards  |-> Pattern(1, 1, {"RxDiscards"}),
    outputDiscards |-> Pattern(1, 1, {"TxDiscards"}),
    resets         |-> Pattern(1, 1, {"Resets"}),
    mtu            |-> Pattern(1, 1, {"Mtu"}),
    bandwidth      |-> Pattern(2, 2, {"Speed"})]

(* IOS has the same expressions but for the output drops. *)
IOSPatterns ==
    [s \in (DOMAIN IOSXEPatterns \ {"totalDrops"}) \cup {"outputDrops"} |->
        IF s = "outputDrops" THEN Pattern(1, 1, {"TxDrops"}) ELSE IOSXEPatterns[s]]

Patterns(dialect) ==
    CASE dialect = "nxos"  -> NXOSPatterns
      [] dialect = "iosxe" -> IOSXEPatterns
      [] dialect = "ios"   -> IOSPatterns

(* The submatches are numbered from 0, the whole match. *)
OutOfRange(p) == p.last > p.groups

(* A line of this dialect's listing can end the parser in a panic. *)
CanPanic(dialect) == \E s \in DOMAIN Patterns(dialect) : OutOfRange(Patterns(dialect)[s])

-----------------------------------------------------------------------------
Header(port, state) == [kind |-> "header", port |-> port, state |-> state]
Counter(sorts)      == [kind |-> "counter", sorts |-> sorts]

(* The expression that finds the blocks: NX-OS takes Ethernet ports only,  *)
(* and each dialect knows three states.  "off" stands for "admin down" and *)
(* "administratively down", "other" for states such as "reset".            *)
Recognised(dialect, line) ==
    /\ line.kind = "header"
    /\ line.state \in {"up", "down", "off"}
    /\ dialect = "nxos" => line.port = "ethernet"

Matches(dialect, text) == {p \in DOMAIN text : Recognised(dialect, text[p])}

(* Deviation: a block is not cut at the next match. *)
BlockToEnd(dialect, text, p) == p..Len(text)

(* The lines from a match to the next one, or to the end of the output. *)
Block(dialect, text, p) ==
    LET later == {q \in Matches(dialect, text) : q > p}
    IN  p..(IF later = {} THEN Len(text) ELSE Min(later) - 1)

Setters(dialect, text, lines, field) ==
    {q \in lines : text[q].kind = "counter"
                     /\ \E s \in text[q].sorts : field \in Patterns(dialect)[s].fields}

(* A block's lines are read in order, so the last that sets a field stays. *)
ReadField(dialect, text, lines, field) ==
    LET setters == Setters(dialect, text, lines, field)
    IN  IF setters = {} THEN 0 ELSE Max(setters)

OperUp(line) == line.state = "up"

(* NX-OS interfaces are always administratively up. *)
AdminUp(dialect, line) == dialect = "nxos" \/ line.state # "off"

Interface(dialect, text, p) ==
    [adminUp |-> AdminUp(dialect, text[p]),
     operUp  |-> OperUp(text[p]),
     fields  |-> [f \in Fields |-> ReadField(dialect, text, Block(dialect, text, p), f)]]

(* What the parser returns, by the position of the header; unless it       *)
(* panics.                                                                 *)
Parse(dialect, text) == [p \in Matches(dialect, text) |-> Interface(dialect, text, p)]

(* The parser meets a line that makes it panic. *)
Panics(dialect, text) ==
    \E p \in Matches(dialect, text) : \E q \in Block(dialect, text, p) :
        /\ text[q].kind = "counter"
        /\ \E s \in text[q].sorts : OutOfRange(Patterns(dialect)[s])
=============================================================================
