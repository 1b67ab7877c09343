------------------------------- MODULE XMLText -------------------------------
(***************************************************************************)
(* parseXMLFields of internal/provider/netconf/netconf.go: it pairs the    *)
(* i-th opening tag of a reply with the i-th closing tag and cuts values   *)
(* out of what remains of the reply.  A reply is a sequence of tokens: an  *)
(* opening, closing or empty tag; the text of an element, a number (and    *)
(* white space around it) or other; white space between tags; and the end  *)
(* marker "]]>]]>" with the rest of its line, which stays in a reply: no   *)
(* line ends in what netconf.go:120 trims.  Of the tokens, tags and the    *)
(* marker have a ">": in texts servers escape it.                          *)
(***************************************************************************)
EXTENDS Integers, Sequences, FiniteSetsExt

Token(kind, tag) == [kind |-> kind, tag |-> tag]

IsTag(token)    == token.kind \in {"open", "close", "empty"}
IsText(token)   == token.kind \in {"number", "word"}
IsMarker(token) == token.kind = "marker"

(* The expression for opening tags matches empty ones, too. *)
OpenKinds  == {"open", "empty"}
CloseKinds == {"close"}

(* All matches of an expression, from left to right. *)
FindAll(data, kinds) ==
    LET found[i \in 0..Len(data)] ==
          IF i = 0 THEN <<>>
          ELSE IF data[i].kind \in kinds THEN Append(found[i - 1], data[i]) ELSE found[i - 1]
    IN  found[Len(data)]

(* The least element of a set of positions, 0 when it is empty. *)
Least(S) == IF S = {} THEN 0 ELSE Min(S)

(* start: the first ">" of what remains, from position at on.  It ends a   *)
(* tag; of a marker it is the third character.                             *)
ValueStart(data, at) == Least({p \in at..Len(data) : IsTag(data[p]) \/ IsMarker(data[p])})

(* end: the first closing tag of that name in it. *)
ValueEnd(data, at, tag) ==
    Least({p \in at..Len(data) : data[p].kind = "close" /\ data[p].tag = tag})

(* Nothing is between them, end <= start in the code. *)
NoValue(data, start, end) == end <= start \/ (end = start + 1 /\ IsTag(data[start]))

(* A number with nothing around it is a float64, else the value is text,   *)
(* "" when it is white space.                                              *)
Value(data, start, end) ==
    IF end = start + 2 /\ IsTag(data[start]) /\ data[start + 1].kind = "number"
      THEN start + 1 ELSE 0

(* Deviation: the names of the tags of a pair are not compared. *)
PairsAny(open, close) == open.kind \in OpenKinds /\ close.kind \in CloseKinds

Pairs(open, close) == open.tag = close.tag

Assign(f, tag, v) == [t \in DOMAIN f \cup {tag} |-> IF t = tag THEN v ELSE f[t]]

(* One pair of tags: where the rest of the reply starts after it, and the  *)
(* position of the number found, 0 for other text.                         *)
ReadPair(data, before, open, close) ==
    LET start == ValueStart(data, before.at)
        end   == ValueEnd(data, before.at, close.tag)
    IN  IF ~Pairs(open, close) \/ end = 0 \/ NoValue(data, start, end)
          THEN before
          ELSE [at     |-> end + 1,
                result |-> Assign(before.result, open.tag, Value(data, start, end))]

(* The loop, as long as there are both. *)
ParseXMLFields(data) ==
    LET opens  == FindAll(data, OpenKinds)
        closes == FindAll(data, CloseKinds)
        round[i \in 0..Min({Len(opens), Len(closes)})] ==
          IF i = 0 THEN [at |-> 1, result |-> [tag \in {} |-> 0]]
          ELSE ReadPair(data, round[i - 1], opens[i], closes[i])
    IN  round[Min({Len(opens), Len(closes)})].result
=============================================================================
