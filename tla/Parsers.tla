-------------------------------- MODULE Parsers --------------------------------
(***************************************************************************)
(* The parsers of answers, on every text of bounded length.  An answer     *)
(* grows by a line, a character or a token at a time, as it does when it   *)
(* is cut short later and later, and the properties compare what the code  *)
(* reads from it with what it says.                                        *)
(***************************************************************************)
EXTENDS InterfaceListing, TableParsers, JSONText, XMLText, SequencesExt

CONSTANTS
    Sorts,          \* the counter lines of listings, by their sorts
    MaxLines,       \* bound on the lines of a listing or table
    Sizes,          \* bound on the size of a file system
    Tags,           \* the names of XML elements
    MaxParts,       \* bound on the parts of an uptime
    MaxTokens,      \* bound on the tokens of a reply
    MaxCharacters   \* bound on the characters of a JSON answer

VARIABLES
    input,      \* which parser the answer is for, fixed
    answer,     \* the answer so far
    nest        \* the XML elements that are open in it

vars == <<input, answer, nest>>

Tables == {"vlans", "files", "uptime"}

Init ==
    /\ input \in Dialects \cup {"json", "xml"} \cup Tables
    /\ answer = <<>> /\ nest = <<>>

Limit == CASE input = "json"   -> MaxCharacters
           [] input = "xml"    -> MaxTokens
           [] input = "uptime" -> MaxParts
           [] OTHER            -> MaxLines

Line ==
    /\ input \in Dialects /\ Len(answer) < Limit
    /\ \/ \E port \in {"ethernet", "other"}, state \in {"up", "down", "off", "other"} :
            answer' = Append(answer, Header(port, state))
       \/ \E sorts \in Sorts \cap SUBSET DOMAIN Patterns(input) :
            answer' = Append(answer, Counter(sorts))
    /\ UNCHANGED <<input, nest>>

(* A row of a table; no file system has more used than its total. *)
Entry ==
    /\ Len(answer) < Limit
    /\ \/ input = "vlans" /\ \E state \in VLANStates : answer' = Append(answer, state)
       \/ input = "files" /\ \E total \in 0..Sizes : \E used \in 0..total :
                                answer' = Append(answer, FileSystem(total, used))
       \/ input = "uptime" /\ \E val \in 1..2, unit \in UNION {Units(d) : d \in Dialects} :
                                answer' = Append(answer, Part(val, unit))
    /\ UNCHANGED <<input, nest>>

Character ==
    /\ input = "json" /\ Len(answer) < Limit
    /\ \E c \in Characters : answer' = Append(answer, c)
    /\ UNCHANGED <<input, nest>>

(* Well-formed replies, or the beginning of one, or the end: a session    *)
(* that lags may drop the start of a reply, so it can begin with the ends  *)
(* of elements, and a line that ends one reply can begin the next.  Only   *)
(* elements without elements inside have text.  Replies are cut between    *)
(* tokens, not inside one.                                                 *)
MayHaveText == IF answer = <<>> THEN TRUE ELSE Last(answer).kind = "open"
AfterText   == IF answer = <<>> THEN FALSE ELSE IsText(Last(answer))
AfterTag    == IF answer = <<>> THEN FALSE ELSE IsTag(Last(answer))

OpenTag ==
    /\ input = "xml" /\ Len(answer) < Limit
    /\ ~AfterText
    /\ \E tag \in Tags :
        \/ answer' = Append(answer, Token("open", tag)) /\ nest' = Append(nest, tag)
        \/ answer' = Append(answer, Token("empty", tag)) /\ nest' = nest
    /\ UNCHANGED input

CloseTag ==
    /\ input = "xml" /\ Len(answer) < Limit
    /\ \/ nest # <<>> /\ answer' = Append(answer, Token("close", Last(nest))) /\ nest' = Front(nest)
       \/ /\ nest = <<>> /\ (\A p \in DOMAIN answer : ~IsMarker(answer[p]))
          /\ \E tag \in Tags : answer' = Append(answer, Token("close", tag))
          /\ nest' = nest
    /\ UNCHANGED input

Text ==
    /\ input = "xml" /\ Len(answer) < Limit
    /\ MayHaveText
    /\ \E kind \in {"number", "word"} : answer' = Append(answer, Token(kind, "none"))
    /\ UNCHANGED <<input, nest>>

Space ==
    /\ input = "xml" /\ Len(answer) < Limit
    /\ AfterTag
    /\ answer' = Append(answer, Token("space", "none"))
    /\ UNCHANGED <<input, nest>>

Marker ==
    /\ input = "xml" /\ Len(answer) < Limit
    /\ nest = <<>> /\ (AfterTag \/ answer = <<>>)
    /\ answer' = Append(answer, Token("marker", "none"))
    /\ UNCHANGED <<input, nest>>

Bounded ==
    /\ Len(answer) = Limit
    /\ UNCHANGED vars

Next ==
    Line \/ Entry \/ Character \/ OpenTag \/ CloseTag \/ Text \/ Space \/ Marker \/ Bounded

Spec == Init /\ [][Next]_vars

-----------------------------------------------------------------------------
(* What the listing says of the interface at p: its section goes up to the *)
(* next header of any kind.                                                *)
Headers == {p \in DOMAIN answer : answer[p].kind = "header"}
NextHeader(p) == Least({q \in Headers : q > p})
Section(p) == p..(IF NextHeader(p) = 0 THEN Len(answer) ELSE NextHeader(p) - 1)

(* An interface has the counters of its own section, in every dialect,     *)
(* unless the header that follows it is one the dialect does not           *)
(* recognise.  NX-OS listings whose lines make the parser panic are those  *)
(* of NoAnswerIsFatal.                                                     *)
ListingReadsSections ==
    input \in Dialects /\ ~Panics(input, answer) =>
        \A p \in Matches(input, answer) :
            NextHeader(p) \in Matches(input, answer) \cup {0} =>
                \A f \in Fields : Parse(input, answer)[p].fields[f] =
                    Least({q \in Setters(input, answer, Section(p), f) :
                             \A r \in Setters(input, answer, Section(p), f) : r <= q})

(* Of a listing that is cut short anywhere, all interfaces but the last    *)
(* are read as they are from the whole listing, when the parser panics on  *)
(* neither.                                                                *)
KeepsAllButTheLast ==
    input \in Dialects /\ ~Panics(input, answer) /\ ~Panics(input, answer') =>
        \A p \in Matches(input, answer) :
            (\E q \in Matches(input, answer) : q > p) =>
                Parse(input, answer')[p] = Parse(input, answer)[p]
CutListingIsPrefix == [][KeepsAllButTheLast]_vars

(* Of a table that is cut short anywhere, nothing is read that is more     *)
(* than what is read from all of it: no VLANs, no fuller file system, no   *)
(* longer uptime.                                                          *)
Grows ==
    /\ input = "vlans" => /\ VLANs(answer).count <= VLANs(answer').count
                          /\ VLANs(answer).active <= VLANs(answer').active
    /\ input = "files" => \A d \in Dialects : Flash(d, answer) <= Flash(d, answer')
    /\ input = "uptime" => \A d \in Dialects : Uptime(d, answer) <= Uptime(d, answer')
CutTableIsLess == [][Grows]_vars

(* Seconds in a unit, abbreviated or not. *)
Seconds == [year |-> 31536000, yr |-> 31536000, month |-> 2592000,
            week |-> 604800, wk |-> 604800, day |-> 86400, hour |-> 3600, hr |-> 3600,
            minute |-> 60, min |-> 60, second |-> 1, sec |-> 1]

(* An uptime is the sum of its parts, whichever units a device shows them  *)
(* in and in whatever order: the cases, which ask for the beginning of a   *)
(* unit's name, do not take one for another.  (IOS shows no months.)       *)
UptimeInSeconds ==
    input = "uptime" =>
        \A d \in Dialects :
            (\A p \in DOMAIN answer : answer[p].unit \in Units(d)) =>
                Uptime(d, answer) =
                    MapThenSumSet(LAMBDA p : answer[p].val * Seconds[answer[p].unit], DOMAIN answer)

(* As long as the strings of an object have not closed more braces than    *)
(* they have opened, counting all braces finds its end exactly if they     *)
(* have closed as many; whatever follows the object.                       *)
ObjectFoundIfBalanced ==
    input = "json" /\ ObjectEnd(answer) # 0
      /\ (\A i \in 1..ObjectEnd(answer) : Excess(answer)[i] >= 0) =>
        (SpanEnd(answer) = ObjectEnd(answer) <=> Excess(answer)[ObjectEnd(answer)] = 0)

(* A number read from a NETCONF reply is the text of an element of that    *)
(* name, although tags are paired by their order in the reply, and even    *)
(* when the reply has lost its beginning or its end.                       *)
NumbersAreLeaves ==
    input = "xml" =>
        LET result == ParseXMLFields(answer)
        IN  \A tag \in DOMAIN result : result[tag] # 0 =>
                /\ answer[result[tag] - 1] = Token("open", tag)
                /\ answer[result[tag] + 1] = Token("close", tag)
=============================================================================
