----------------------------- MODULE ParsersProofs -----------------------------
(***************************************************************************)
(* Proofs about the parsers, for answers of every length, sizes and        *)
(* element names.                                                          *)
(***************************************************************************)
EXTENDS Parsers, RecursionLemmas

(* What the answers for each parser consist of. *)
Lines(dialect) ==
    [kind : {"header"}, port : {"ethernet", "other"}, state : {"up", "down", "off", "other"}]
      \cup [kind : {"counter"}, sorts : SUBSET DOMAIN Patterns(dialect)]
FileSystems == {fs \in [total : Nat, used : Nat] : fs.used <= fs.total}
Parts       == [val : Nat, unit : UNION {Units(d) : d \in Dialects}]
Kinds       == {"open", "close", "empty", "number", "word", "space", "marker"}
Tokens      == [kind : Kinds, tag : Tags \cup {"none"}]

TypeOK ==
    /\ input \in Dialects \cup {"json", "xml"} \cup Tables
    /\ input \in Dialects => answer \in Seq(Lines(input))
    /\ input = "vlans"  => answer \in Seq(VLANStates)
    /\ input = "files"  => answer \in Seq(FileSystems)
    /\ input = "uptime" => answer \in Seq(Parts)
    /\ input = "json"   => answer \in Seq(Characters)
    /\ input = "xml"    => answer \in Seq(Tokens)
    /\ nest \in Seq(Tags)

(* What comes before and after a text in a reply. *)
TextIsLeaf ==
    \A p \in 2..Len(answer) : IsText(answer[p]) =>
        /\ answer[p - 1].kind = "open"
        /\ p < Len(answer) => answer[p + 1] = Token("close", answer[p - 1].tag)

(* The element that is open at the end of a reply. *)
InnermostIsOpen ==
    /\ answer # <<>> /\ Last(answer).kind = "open" =>
          nest # <<>> /\ Last(nest) = Last(answer).tag
    /\ Len(answer) >= 2 /\ IsText(Last(answer)) =>
          nest # <<>> /\ Last(nest) = answer[Len(answer) - 1].tag

WellFormed == input = "xml" => TextIsLeaf /\ InnermostIsOpen

(* The answers of every length are of the lines, characters or tokens that *)
(* their parser is for.                                                    *)
LEMMA TypeCorrect == Spec => []TypeOK
<1>1. Init => TypeOK
  BY DEF Init, TypeOK
<1>2. TypeOK /\ [Next]_vars => TypeOK'
  <2> SUFFICES ASSUME TypeOK, [Next]_vars PROVE TypeOK'
    OBVIOUS
  <2>1. CASE Line
    <3>1. input \in Dialects /\ input \notin {"json", "xml"} \cup Tables
      BY <2>1 DEF Line, Dialects, Tables
    <3>2. PICK line \in Lines(input) : answer' = Append(answer, line)
      BY <2>1 DEF Line, Lines, Header, Counter
    <3> QED
      BY <2>1, <3>1, <3>2 DEF Line, TypeOK, Tables
  <2>2. CASE Entry
    <3>1. CASE input = "vlans" /\ \E state \in VLANStates : answer' = Append(answer, state)
      BY <2>2, <3>1 DEF Entry, TypeOK, Dialects
    <3>2. CASE input = "files" /\ \E total \in 0..Sizes : \E used \in 0..total :
                                     answer' = Append(answer, FileSystem(total, used))
      <4>1. PICK fs \in FileSystems : answer' = Append(answer, fs)
        BY <3>2 DEF FileSystems, FileSystem
      <4> QED
        BY <2>2, <3>2, <4>1 DEF Entry, TypeOK, Dialects
    <3>3. CASE input = "uptime" /\ \E val \in 1..2, unit \in UNION {Units(d) : d \in Dialects} :
                                      answer' = Append(answer, Part(val, unit))
      <4>1. PICK part \in Parts : answer' = Append(answer, part)
        BY <3>3 DEF Parts, Part
      <4> QED
        BY <2>2, <3>3, <4>1 DEF Entry, TypeOK, Dialects
    <3> QED
      BY <2>2, <3>1, <3>2, <3>3 DEF Entry
  <2>3. CASE Character
    BY <2>3 DEF Character, TypeOK, Dialects
  <2>4. CASE OpenTag
    <3>1. PICK token \in Tokens, tag \in Tags :
            answer' = Append(answer, token) /\ nest' \in {nest, Append(nest, tag)}
      BY <2>4 DEF OpenTag, Tokens, Token, Kinds
    <3> QED
      BY <2>4, <3>1 DEF OpenTag, TypeOK, Dialects
  <2>5. CASE CloseTag
    <3>1. nest # <<>> => Last(nest) \in Tags /\ Front(nest) \in Seq(Tags)
      BY DEF TypeOK, Last, Front
    <3>2. PICK token \in Tokens : answer' = Append(answer, token)
      BY <2>5, <3>1 DEF CloseTag, Tokens, Token, Kinds
    <3>3. nest' \in Seq(Tags)
      BY <2>5, <3>1 DEF CloseTag, TypeOK
    <3> QED
      BY <2>5, <3>2, <3>3 DEF CloseTag, TypeOK, Dialects
  <2>6. CASE Text
    <3>1. PICK token \in Tokens : answer' = Append(answer, token)
      BY <2>6 DEF Text, Tokens, Token, Kinds
    <3> QED
      BY <2>6, <3>1 DEF Text, TypeOK, Dialects
  <2>7. CASE Space \/ Marker
    <3>1. PICK token \in Tokens : answer' = Append(answer, token)
      BY <2>7 DEF Space, Marker, Tokens, Token, Kinds
    <3>2. input = "xml" /\ UNCHANGED <<input, nest>>
      BY <2>7 DEF Space, Marker
    <3> QED
      BY <3>1, <3>2 DEF TypeOK, Dialects
  <2>8. CASE UNCHANGED vars
    BY <2>8 DEF vars, TypeOK
  <2> QED
    BY <2>1, <2>2, <2>3, <2>4, <2>5, <2>6, <2>7, <2>8 DEF Next, Bounded
<1> QED
  BY <1>1, <1>2, PTL DEF Spec
-----------------------------------------------------------------------------
(* What follows a tag or white space leaves the texts before it alone. *)
LEMMA NoTextAfterText ==
    ASSUME TypeOK, input = "xml", WellFormed, NEW token \in Tokens, ~IsText(token),
           answer' = Append(answer, token),
           ~AfterText
    PROVE  TextIsLeaf'
<1> DEFINE n == Len(answer)
<1>1. answer \in Seq(Tokens) /\ n \in Nat
  BY DEF TypeOK
<1>2. Len(answer') = n + 1 /\ answer'[n + 1] = token /\ \A p \in 1..n : answer'[p] = answer[p]
  BY <1>1
<1>3. TextIsLeaf /\ (n # 0 => ~IsText(answer[n]))
  BY <1>1 DEF WellFormed, AfterText, Last
<1> SUFFICES ASSUME NEW p \in 2..(n + 1), IsText(answer'[p])
             PROVE  /\ answer'[p - 1].kind = "open"
                    /\ p < n + 1 => answer'[p + 1] = Token("close", answer'[p - 1].tag)
  BY <1>2 DEF TextIsLeaf
<1>4. p \in 2..n /\ p # n
  BY <1>2, <1>3
<1>5. p - 1 \in 1..n /\ p + 1 \in 1..n
  BY <1>1, <1>4
<1> HIDE DEF n
<1> QED
  BY <1>1, <1>2, <1>3, <1>4, <1>5 DEF TextIsLeaf, n

(* Replies are well-formed, whatever their length: a text is the whole of  *)
(* an element, unless it is the first of what is left of a reply.          *)
LEMMA RepliesWellFormed == Spec => []WellFormed
<1>1. Init => WellFormed
  BY DEF Init, WellFormed, TextIsLeaf, InnermostIsOpen
<1>2. TypeOK /\ WellFormed /\ [Next]_vars => WellFormed'
  <2> SUFFICES ASSUME TypeOK, WellFormed, [Next]_vars, input' = "xml"
               PROVE  TextIsLeaf' /\ InnermostIsOpen'
    BY DEF WellFormed
  <2> DEFINE n == Len(answer)
  <2>1. input = "xml"
    BY DEF Next, vars, Line, Entry, Character, OpenTag, CloseTag, Text, Space, Marker, Bounded
  <2>2. answer \in Seq(Tokens) /\ nest \in Seq(Tags) /\ n \in Nat
    BY <2>1 DEF TypeOK
  <2>3. TextIsLeaf /\ InnermostIsOpen
    BY <2>1 DEF WellFormed
  <2>4. \A token : answer' = Append(answer, token) =>
           /\ Len(answer') = n + 1 /\ answer'[n + 1] = token
           /\ \A p \in 1..n : answer'[p] = answer[p]
           /\ Last(answer') = token
    BY <2>2 DEF Last
  <2>5. CASE OpenTag
    <3>1. PICK tag \in Tags :
             \/ answer' = Append(answer, Token("open", tag)) /\ nest' = Append(nest, tag)
             \/ answer' = Append(answer, Token("empty", tag)) /\ nest' = nest
      BY <2>5 DEF OpenTag
    <3>2. PICK token \in {Token("open", tag), Token("empty", tag)} : answer' = Append(answer, token)
      BY <3>1
    <3>3. token \in Tokens /\ ~IsText(token)
      BY <3>2 DEF Tokens, Kinds, Token, IsText
    <3>4. ~AfterText
      BY <2>5 DEF OpenTag
    <3>5. TextIsLeaf'
      BY <2>1, <3>2, <3>3, <3>4, NoTextAfterText
    <3>6. InnermostIsOpen'
      <4>1. CASE answer' = Append(answer, Token("open", tag)) /\ nest' = Append(nest, tag)
        <5>1. Last(nest') = tag /\ nest' # <<>>
          BY <2>2, <4>1 DEF Last
        <5>2. Last(answer') = Token("open", tag)
          BY <2>4, <4>1
        <5> QED
          BY <5>1, <5>2 DEF InnermostIsOpen, Token, IsText
      <4>2. CASE answer' = Append(answer, Token("empty", tag)) /\ nest' = nest
        <5>1. Last(answer') = Token("empty", tag)
          BY <2>4, <4>2
        <5> QED
          BY <5>1 DEF InnermostIsOpen, Token, IsText
      <4> QED
        BY <3>1, <4>1, <4>2
    <3> QED
      BY <3>5, <3>6
  <2>6. CASE CloseTag
    <3>1. PICK tag \in Tags :
             /\ answer' = Append(answer, Token("close", tag))
             /\ nest # <<>> => tag = Last(nest)
      <4>1. nest # <<>> => Last(nest) \in Tags
        BY <2>2 DEF Last
      <4> QED
        BY <2>6, <4>1 DEF CloseTag
    <3> DEFINE token == Token("close", tag)
    <3>2. token \in Tokens /\ ~IsText(token)
      BY DEF Tokens, Kinds, Token, IsText
    <3>3. Last(answer') = token
      BY <2>4, <3>1
    <3>4. InnermostIsOpen'
      BY <3>3 DEF InnermostIsOpen, Token, IsText
    <3>5. TextIsLeaf'
      <4> SUFFICES ASSUME NEW p \in 2..(n + 1), IsText(answer'[p])
                   PROVE  /\ answer'[p - 1].kind = "open"
                          /\ p < n + 1 => answer'[p + 1] = Token("close", answer'[p - 1].tag)
        BY <2>4, <3>1 DEF TextIsLeaf
      <4>1. p \in 2..n /\ p - 1 \in 1..n
        BY <2>2, <2>4, <3>1, <3>2
      <4>2. IsText(answer[p]) /\ answer'[p - 1] = answer[p - 1]
        BY <2>4, <3>1, <4>1
      <4>3. CASE p = n
        <5>1. Len(answer) >= 2 /\ IsText(Last(answer))
          BY <4>1, <4>2, <4>3 DEF Last
        <5>2. tag = answer[n - 1].tag
          BY <2>3, <3>1, <5>1 DEF InnermostIsOpen
        <5>3. answer'[p + 1] = Token("close", answer'[p - 1].tag)
          BY <2>4, <3>1, <4>2, <4>3, <5>2
        <5>4. answer'[p - 1].kind = "open"
          BY <2>3, <4>1, <4>2 DEF TextIsLeaf
        <5> QED
          BY <5>3, <5>4
      <4>4. CASE p # n
        <5>1. p + 1 \in 1..n /\ p < n
          BY <4>1, <4>4
        <5>2. answer'[p + 1] = answer[p + 1]
          BY <2>4, <3>1, <5>1
        <5> HIDE DEF n
        <5> QED
          BY <2>3, <4>1, <4>2, <5>1, <5>2 DEF TextIsLeaf, n
      <4> QED
        BY <4>3, <4>4
    <3> QED
      BY <3>4, <3>5
  <2>7. CASE Text
    <3>1. PICK kind \in {"number", "word"} : answer' = Append(answer, Token(kind, "none"))
      BY <2>7 DEF Text
    <3>2. Last(answer') = Token(kind, "none") /\ IsText(Token(kind, "none"))
      BY <2>4, <3>1 DEF IsText, Token
    <3>3. n # 0 => answer[n].kind = "open" /\ nest # <<>> /\ Last(nest) = answer[n].tag
      BY <2>2, <2>3, <2>7 DEF Text, MayHaveText, InnermostIsOpen, Last
    <3>4. nest' = nest
      BY <2>7 DEF Text
    <3>5. InnermostIsOpen'
      <4>1. Last(answer').kind # "open"
        BY <3>2 DEF IsText
      <4>2. Len(answer') >= 2 => nest' # <<>> /\ Last(nest') = answer'[Len(answer') - 1].tag
        BY <2>2, <2>4, <3>1, <3>3, <3>4
      <4> QED
        BY <4>1, <4>2 DEF InnermostIsOpen
    <3>6. TextIsLeaf'
      <4> SUFFICES ASSUME NEW p \in 2..(n + 1), IsText(answer'[p])
                   PROVE  /\ answer'[p - 1].kind = "open"
                          /\ p < n + 1 => answer'[p + 1] = Token("close", answer'[p - 1].tag)
        BY <2>4, <3>1 DEF TextIsLeaf
      <4>1. CASE p = n + 1
        BY <2>2, <2>4, <3>1, <3>3, <4>1
      <4>2. CASE p # n + 1
        <5>1. p \in 2..n /\ p - 1 \in 1..n
          BY <2>2, <4>2
        <5>2. IsText(answer[p]) /\ answer'[p - 1] = answer[p - 1]
          BY <2>4, <3>1, <5>1
        <5>3. p # n
          BY <3>3, <5>1, <5>2 DEF IsText
        <5>4. answer'[p + 1] = answer[p + 1] /\ p < n
          BY <2>2, <2>4, <3>1, <5>1, <5>3
        <5> HIDE DEF n
        <5> QED
          BY <2>3, <5>1, <5>2, <5>4 DEF TextIsLeaf, n
      <4> QED
        BY <4>1, <4>2
    <3> QED
      BY <3>5, <3>6
  <2>8. CASE Space \/ Marker
    <3>1. PICK token \in {Token("space", "none"), Token("marker", "none")} :
             answer' = Append(answer, token)
      BY <2>8 DEF Space, Marker
    <3>2. token \in Tokens /\ ~IsText(token) /\ token.kind # "open"
      BY <3>1 DEF Tokens, Kinds, Token, IsText
    <3>3. ~AfterText
      BY <2>8 DEF Space, Marker, AfterTag, AfterText, IsTag, IsText
    <3>4. TextIsLeaf'
      BY <2>1, <3>1, <3>2, <3>3, NoTextAfterText
    <3>5. InnermostIsOpen'
      <4>1. Last(answer') = token
        BY <2>4, <3>1
      <4> QED
        BY <3>2, <4>1 DEF InnermostIsOpen
    <3> QED
      BY <3>4, <3>5
  <2>9. CASE UNCHANGED vars
    BY <2>3, <2>9 DEF vars, TextIsLeaf, InnermostIsOpen
  <2> QED
    BY <2>1, <2>5, <2>6, <2>7, <2>8, <2>9
    DEF Next, Bounded, Line, Entry, Character, Dialects
<1> QED
  BY <1>1, <1>2, TypeCorrect, PTL DEF Spec
-----------------------------------------------------------------------------
(* Least is 0 or the least element. *)
LEMMA LeastProperties ==
    ASSUME NEW S \in SUBSET (Nat \ {0})
    PROVE  /\ Least(S) \in Nat
           /\ Least(S) # 0 => Least(S) \in S /\ \A y \in S : Least(S) <= y
           /\ S # {} => Least(S) # 0
<1>1. S # {} => Min(S) \in S /\ \A y \in S : Min(S) <= y
  BY MinIsLeast
<1> QED
  BY <1>1 DEF Least

(* The matches of an expression are tokens of the reply. *)
LEMMA FindAllType ==
    ASSUME NEW T, NEW data \in Seq(T), NEW kinds
    PROVE  FindAll(data, kinds) \in Seq(T)
<1> DEFINE n == Len(data)
           Next1(i, s) == IF data[i].kind \in kinds THEN Append(s, data[i]) ELSE s
           found == CHOOSE f : f = [i \in 0..n |-> IF i = 0 THEN <<>> ELSE Next1(i, f[i - 1])]
           step == [i \in 1..n |-> [s \in Seq(T) |-> Next1(i, s)]]
<1>1. n \in Nat /\ \A i \in 1..n : \A s \in Seq(T) : Next1(i, s) \in Seq(T)
  OBVIOUS
<1>2. found = [i \in 0..n |-> IF i = 0 THEN <<>> ELSE Next1(i, found[i - 1])]
  <2> HIDE DEF Next1, n
  <2>1. step \in [1..n -> [Seq(T) -> Seq(T)]]
    BY <1>1
  <2>2. <<>> \in Seq(T)
    OBVIOUS
  <2>3. PICK f \in [0..n -> Seq(T)] :
                f = [i \in 0..n |-> IF i = 0 THEN <<>> ELSE step[i][f[i - 1]]]
    <3> HIDE DEF step
    <3>1. IsDefined(n, Seq(T), <<>>, step)
      BY <1>1, <2>1, <2>2, RecursionDefines
    <3> QED
      BY <3>1, Zenon DEF IsDefined
  <2>4. \A i \in 0..n : i # 0 => i \in 1..n /\ f[i - 1] \in Seq(T)
    BY <1>1
  <2>5. \A i \in 0..n : i # 0 => step[i][f[i - 1]] = Next1(i, f[i - 1])
    BY <2>4
  <2>6. f = [i \in 0..n |-> IF i = 0 THEN <<>> ELSE Next1(i, f[i - 1])]
    <3> HIDE DEF step
    <3> QED
      BY <2>3, <2>5
  <2> QED
    BY <2>6, Zenon
<1>3. FindAll(data, kinds) = found[n]
  BY Zenon DEF FindAll
<1>4. \A i \in 0..n : found[i] \in Seq(T)
  <2> HIDE DEF found, Next1, n
  <2>1. found[0] \in Seq(T)
    BY <1>1, <1>2
  <2>2. ASSUME NEW i \in 1..n, found[i - 1] \in Seq(T) PROVE found[i] \in Seq(T)
    <3>1. i \in 0..n /\ i # 0
      BY <1>1
    <3>2. found[i] = Next1(i, found[i - 1])
      BY <1>2, <3>1
    <3> QED
      BY <1>1, <2>2, <3>2
  <2> QED
    BY <1>1, <2>1, <2>2, ValuesInduction
<1> QED
  BY <1>1, <1>3, <1>4

(* What the loop over the pairs has read when every number it has is the   *)
(* text of an element of its name.                                         *)
IsLeaf(tag, p) ==
    p # 0 => answer[p - 1] = Token("open", tag) /\ answer[p + 1] = Token("close", tag)
Results == UNION {[D -> Nat] : D \in SUBSET (Tags \cup {"none"})}
LeavesRead ==
    {round \in [at : Nat \ {0}, result : Results] :
        \A tag \in DOMAIN round.result : IsLeaf(tag, round.result[tag])}

(* A token is its kind and its tag. *)
LEMMA TokenIs ==
    ASSUME NEW token \in Tokens
    PROVE  token = Token(token.kind, token.tag)
<1> QED
  BY DEF Tokens, Token

(* A pair of tags adds a leaf or nothing. *)
LEMMA ReadPairFindsLeaf ==
    ASSUME TypeOK, input = "xml", WellFormed,
           NEW before \in LeavesRead, NEW open \in Tokens, NEW close \in Tokens
    PROVE  ReadPair(answer, before, open, close) \in LeavesRead
<1> DEFINE start == ValueStart(answer, before.at)
           end   == ValueEnd(answer, before.at, close.tag)
           value == Value(answer, start, end)
<1>1. answer \in Seq(Tokens) /\ before.at \in Nat \ {0} /\ before.result \in Results
  BY DEF TypeOK, LeavesRead
<1>2. start \in Nat /\ (start # 0 => start \in before.at..Len(answer))
  <2> DEFINE S == {p \in before.at..Len(answer) : IsTag(answer[p]) \/ IsMarker(answer[p])}
  <2>1. S \in SUBSET (Nat \ {0})
    BY <1>1
  <2> QED
    BY <2>1, LeastProperties DEF ValueStart
<1>3. /\ end \in Nat
      /\ end # 0 => /\ end \in before.at..Len(answer)
                    /\ answer[end] = Token("close", close.tag)
                    /\ start # 0
  <2> DEFINE S == {p \in before.at..Len(answer) :
                     answer[p].kind = "close" /\ answer[p].tag = close.tag}
             R == {p \in before.at..Len(answer) : IsTag(answer[p]) \/ IsMarker(answer[p])}
  <2>1. S \in SUBSET (Nat \ {0}) /\ R \in SUBSET (Nat \ {0}) /\ S \subseteq R
    BY <1>1 DEF IsTag
  <2>2. end \in Nat /\ (end # 0 => end \in S)
    BY <2>1, LeastProperties DEF ValueEnd
  <2>3. ASSUME end # 0 PROVE answer[end] = Token("close", close.tag)
    <3>1. answer[end] \in Tokens /\ answer[end].kind = "close" /\ answer[end].tag = close.tag
      BY <1>1, <2>2, <2>3
    <3> QED
      BY <3>1, TokenIs, Zenon
  <2>4. R # {} => start # 0
    BY <2>1, LeastProperties DEF ValueStart
  <2> QED
    BY <2>1, <2>2, <2>3, <2>4
<1>4. value \in Nat
  BY <1>2 DEF Value
<1>5. CASE Pairs(open, close) /\ end # 0 /\ ~ NoValue(answer, start, end)
  <2> DEFINE after == [at |-> end + 1, result |-> Assign(before.result, open.tag, value)]
  <2>1. ReadPair(answer, before, open, close) = after
    BY <1>5 DEF ReadPair
  <2>2. IsLeaf(open.tag, value)
    <3> SUFFICES ASSUME value # 0
                 PROVE  /\ answer[value - 1] = Token("open", open.tag)
                        /\ answer[value + 1] = Token("close", open.tag)
      BY DEF IsLeaf
    <3>1. end = start + 2 /\ answer[start + 1].kind = "number" /\ value = start + 1
      BY DEF Value
    <3>2. start \in Nat /\ start # 0 /\ value \in 2..Len(answer) /\ value < Len(answer)
      BY <1>1, <1>2, <1>3, <1>5, <3>1
    <3>3. IsText(answer[value]) /\ value - 1 = start /\ value + 1 = end
      BY <1>2, <3>1 DEF IsText
    <3>4. answer[start].kind = "open" /\ answer[end] = Token("close", answer[start].tag)
      <4> HIDE DEF value, start, end
      <4> QED
        BY <3>2, <3>3 DEF WellFormed, TextIsLeaf
    <3>5. answer[start].tag = close.tag /\ close.tag = open.tag
      BY <1>3, <1>5, <3>4 DEF Token, Pairs
    <3>6. answer[start] = Token("open", open.tag)
      <4>1. answer[start] \in Tokens
        BY <1>1, <1>2, <3>2
      <4> HIDE DEF start
      <4> QED
        BY <4>1, <3>4, <3>5, TokenIs
    <3> HIDE DEF value, start, end
    <3> QED
      BY <1>3, <1>5, <3>3, <3>5, <3>6
  <2>3. Assign(before.result, open.tag, value) \in Results
    <3>1. PICK D \in SUBSET (Tags \cup {"none"}) : before.result \in [D -> Nat]
      BY <1>1 DEF Results
    <3>2. open.tag \in Tags \cup {"none"}
      BY DEF Tokens
    <3> DEFINE E == D \cup {open.tag}
    <3>3. E \in SUBSET (Tags \cup {"none"})
      BY <3>2
    <3>4. Assign(before.result, open.tag, value) \in [E -> Nat]
      <4> HIDE DEF value
      <4> QED
        BY <1>4, <3>1 DEF Assign
    <3> HIDE DEF E
    <3> QED
      BY <3>3, <3>4 DEF Results
  <2>4. ASSUME NEW tag \in DOMAIN after.result
        PROVE  IsLeaf(tag, after.result[tag])
    <3>1. CASE tag = open.tag
      <4>1. after.result[tag] = value
        BY <3>1 DEF Assign
      <4> QED
        BY <2>2, <3>1, <4>1
    <3>2. CASE tag # open.tag
      <4>1. tag \in DOMAIN before.result /\ after.result[tag] = before.result[tag]
        BY <3>2 DEF Assign
      <4> QED
        BY <4>1 DEF LeavesRead
    <3> QED
      BY <3>1, <3>2
  <2>5. after \in [at : Nat \ {0}, result : Results]
    <3>1. end + 1 \in Nat \ {0}
      BY <1>3
    <3> HIDE DEF end
    <3> QED
      BY <2>3, <3>1
  <2> HIDE DEF after
  <2> QED
    BY <2>1, <2>4, <2>5 DEF LeavesRead
<1>6. CASE ~ (Pairs(open, close) /\ end # 0 /\ ~ NoValue(answer, start, end))
  BY <1>6 DEF ReadPair
<1> QED
  BY <1>5, <1>6

(* A number that is read from a reply is the text of an element of that    *)
(* name, however long the reply is and whatever it has lost.               *)
THEOREM NumbersAreLeavesHolds == Spec => []NumbersAreLeaves
<1>1. TypeOK /\ WellFormed => NumbersAreLeaves
  <2> SUFFICES ASSUME TypeOK, WellFormed, input = "xml"
               PROVE  \A tag \in DOMAIN ParseXMLFields(answer) :
                         IsLeaf(tag, ParseXMLFields(answer)[tag])
    BY DEF NumbersAreLeaves, IsLeaf
  <2> DEFINE opens  == FindAll(answer, OpenKinds)
             closes == FindAll(answer, CloseKinds)
             n == Min({Len(opens), Len(closes)})
             first == [at |-> 1, result |-> [tag \in {} |-> 0]]
             Round(i, before) == ReadPair(answer, before, opens[i], closes[i])
             round == CHOOSE f : f = [i \in 0..n |-> IF i = 0 THEN first ELSE Round(i, f[i - 1])]
             step == [i \in 1..n |-> [before \in LeavesRead |-> Round(i, before)]]
  <2>1. opens \in Seq(Tokens) /\ closes \in Seq(Tokens)
    BY FindAllType DEF TypeOK
  <2>2. n \in Nat /\ n <= Len(opens) /\ n <= Len(closes)
    <3>1. {Len(opens), Len(closes)} \in SUBSET Nat /\ {Len(opens), Len(closes)} # {}
      BY <2>1
    <3> QED
      BY <3>1, MinIsLeast
  <2>3. first \in LeavesRead
    <3>1. [tag \in {} |-> 0] \in [{} -> Nat] /\ {} \in SUBSET (Tags \cup {"none"})
      OBVIOUS
    <3>2. [tag \in {} |-> 0] \in Results
      BY <3>1 DEF Results
    <3> QED
      BY <3>2 DEF LeavesRead
  <2>4. ASSUME NEW i \in 1..n, NEW before \in LeavesRead
        PROVE  Round(i, before) \in LeavesRead
    <3>1. opens[i] \in Tokens /\ closes[i] \in Tokens
      <4> HIDE DEF n, opens, closes
      <4> QED
        BY <2>1, <2>2
    <3> HIDE DEF n, opens, closes
    <3> QED
      BY <3>1, ReadPairFindsLeaf
  <2>5. ParseXMLFields(answer) = round[n].result
    BY Zenon DEF ParseXMLFields
  <2> HIDE DEF n, first, Round
  <2>6. round = [i \in 0..n |-> IF i = 0 THEN first ELSE Round(i, round[i - 1])]
    <3>1. step \in [1..n -> [LeavesRead -> LeavesRead]]
      BY <2>4
    <3>2. PICK f \in [0..n -> LeavesRead] :
                  f = [i \in 0..n |-> IF i = 0 THEN first ELSE step[i][f[i - 1]]]
      <4> HIDE DEF step
      <4>1. IsDefined(n, LeavesRead, first, step)
        BY <2>2, <2>3, <3>1, RecursionDefines
      <4> QED
        BY <4>1, Zenon DEF IsDefined
    <3>3. \A i \in 0..n : i # 0 => i \in 1..n /\ f[i - 1] \in LeavesRead
      BY <2>2
    <3>4. \A i \in 0..n : i # 0 => step[i][f[i - 1]] = Round(i, f[i - 1])
      BY <3>3
    <3>5. f = [i \in 0..n |-> IF i = 0 THEN first ELSE Round(i, f[i - 1])]
      <4> HIDE DEF step
      <4> QED
        BY <3>2, <3>4
    <3> QED
      BY <3>5, Zenon
  <2> HIDE DEF round
  <2>7. \A i \in 0..n : round[i] \in LeavesRead
    <3>1. round[0] \in LeavesRead
      BY <2>2, <2>3, <2>6
    <3>2. ASSUME NEW i \in 1..n, round[i - 1] \in LeavesRead PROVE round[i] \in LeavesRead
      <4>1. i \in 0..n /\ i # 0
        BY <2>2
      <4>2. round[i] = Round(i, round[i - 1])
        BY <2>6, <4>1
      <4> QED
        BY <2>4, <3>2, <4>2
    <3> QED
      BY <2>2, <3>1, <3>2, ValuesInduction
  <2>8. round[n] \in LeavesRead
    BY <2>2, <2>7
  <2> QED
    BY <2>5, <2>8 DEF LeavesRead
<1> QED
  BY <1>1, TypeCorrect, RepliesWellFormed, PTL
-----------------------------------------------------------------------------
(* FirstBrace is 0 or the position of the first opening brace. *)
LEMMA FirstBraceProperties ==
    ASSUME NEW raw \in Seq(Characters)
    PROVE  /\ FirstBrace(raw) \in 0..Len(raw)
           /\ FirstBrace(raw) # 0 => raw[FirstBrace(raw)] = "open"
<1> DEFINE braces == {i \in DOMAIN raw : raw[i] = "open"}
<1>1. DOMAIN raw = 1..Len(raw) /\ Len(raw) \in Nat
  OBVIOUS
<1>2. braces \in SUBSET Nat
  <2>1. DOMAIN raw \subseteq Nat
    BY <1>1
  <2> QED
    BY <2>1, Zenon
<1>3. braces # {} => Min(braces) \in braces
  BY <1>2, MinIsLeast
<1>4. FirstBrace(raw) = IF braces = {} THEN 0 ELSE Min(braces)
  BY Zenon DEF FirstBrace
<1>5. FirstBrace(raw) # 0 => FirstBrace(raw) \in DOMAIN raw /\ raw[FirstBrace(raw)] = "open"
  BY <1>3, <1>4, Zenon
<1>6. FirstBrace(raw) \in 0..Len(raw)
  <2> DEFINE first == FirstBrace(raw)
             n == Len(raw)
  <2>1. n \in Nat /\ (first # 0 => first \in 1..n)
    BY <1>1, <1>5
  <2> HIDE DEF first, n
  <2>2. first \in 0..n
    BY <2>1
  <2> QED
    BY <2>2 DEF first, n
<1> QED
  BY <1>5, <1>6, Zenon

(* The functions on the positions of a text satisfy the equations of their *)
(* recursions; this one counts all braces from the first on.               *)
LEMMA DepthEquation ==
    ASSUME NEW raw \in Seq(Characters)
    PROVE  Depth(raw) = [i \in 0..Len(raw) |->
              IF i < FirstBrace(raw) \/ i = 0 THEN 0 ELSE Depth(raw)[i - 1] + Step(raw[i])]
<1> DEFINE n == Len(raw)
           After(i, x) == IF i < FirstBrace(raw) THEN 0 ELSE x + Step(raw[i])
           step == [i \in 1..n |-> [x \in Int |-> After(i, x)]]
<1>1. n \in Nat /\ \A i \in 1..n : \A x \in Int : After(i, x) \in Int
  BY DEF Step
<1>2. PICK f \in [0..n -> Int] : f = [i \in 0..n |-> IF i = 0 THEN 0 ELSE step[i][f[i - 1]]]
  <2> HIDE DEF After, n
  <2>1. step \in [1..n -> [Int -> Int]]
    BY <1>1
  <2> DEFINE Values == Int
  <2>2. 0 \in Values /\ step \in [1..n -> [Values -> Values]]
    BY <2>1
  <2> HIDE DEF step, Values
  <2>3. IsDefined(n, Values, 0, step)
    BY <1>1, <2>2, RecursionDefines
  <2> QED
    BY <2>3, Zenon DEF IsDefined, Values
<1>3. \A i \in 0..n : i # 0 => step[i][f[i - 1]] = After(i, f[i - 1])
  <2> HIDE DEF After, n
  <2>1. \A i \in 0..n : i # 0 => i \in 1..n /\ f[i - 1] \in Int
    BY <1>1
  <2> QED
    BY <2>1
<1>4. f = [i \in 0..n |-> IF i < FirstBrace(raw) \/ i = 0 THEN 0 ELSE f[i - 1] + Step(raw[i])]
  <2> HIDE DEF step
  <2> QED
    BY <1>1, <1>2, <1>3
<1> QED
  BY <1>4, Zenon DEF Depth

(* Whether a position is inside a string turns at every quote. *)
LEMMA InStringEquation ==
    ASSUME NEW raw \in Seq(Characters)
    PROVE  InString(raw) = [i \in 0..Len(raw) |->
              IF i < FirstBrace(raw) \/ i = 0 THEN FALSE ELSE IF raw[i] = "quote" THEN ~InString(raw)[i - 1] ELSE InString(raw)[i - 1]]
<1> DEFINE n == Len(raw)
           After(i, x) == IF i < FirstBrace(raw) THEN FALSE ELSE IF raw[i] = "quote" THEN ~x ELSE x
           step == [i \in 1..n |-> [x \in BOOLEAN |-> After(i, x)]]
<1>1. n \in Nat /\ \A i \in 1..n : \A x \in BOOLEAN : After(i, x) \in BOOLEAN
  <2>1. n \in Nat
    OBVIOUS
  <2>2. ASSUME NEW i \in 1..n, NEW x \in BOOLEAN PROVE After(i, x) \in BOOLEAN
    BY Zenon
  <2> QED
    BY <2>1, <2>2
<1>2. PICK f \in [0..n -> BOOLEAN] : f = [i \in 0..n |-> IF i = 0 THEN FALSE ELSE step[i][f[i - 1]]]
  <2> HIDE DEF After, n
  <2>1. step \in [1..n -> [BOOLEAN -> BOOLEAN]]
    BY <1>1
  <2> DEFINE Values == BOOLEAN
  <2>2. FALSE \in Values /\ step \in [1..n -> [Values -> Values]]
    BY <2>1
  <2> HIDE DEF step, Values
  <2>3. IsDefined(n, Values, FALSE, step)
    BY <1>1, <2>2, RecursionDefines
  <2> QED
    BY <2>3, Zenon DEF IsDefined, Values
<1>3. \A i \in 0..n : i # 0 => step[i][f[i - 1]] = After(i, f[i - 1])
  <2> HIDE DEF After, n
  <2>1. \A i \in 0..n : i # 0 => i \in 1..n /\ f[i - 1] \in BOOLEAN
    BY <1>1
  <2> QED
    BY <2>1
<1>4. f = [i \in 0..n |-> IF i < FirstBrace(raw) \/ i = 0 THEN FALSE ELSE IF raw[i] = "quote" THEN ~f[i - 1] ELSE f[i - 1]]
  <2> HIDE DEF step
  <2> QED
    BY <1>1, <1>2, <1>3
<1> QED
  BY <1>4, Zenon DEF InString

(* The excess counts the braces inside strings. *)
LEMMA ExcessEquation ==
    ASSUME NEW raw \in Seq(Characters)
    PROVE  Excess(raw) = [i \in 0..Len(raw) |->
              IF i = 0 THEN 0 ELSE Excess(raw)[i - 1] + IF InString(raw)[i] THEN Step(raw[i]) ELSE 0]
<1> DEFINE n == Len(raw)
           After(i, x) == x + IF InString(raw)[i] THEN Step(raw[i]) ELSE 0
           step == [i \in 1..n |-> [x \in Int |-> After(i, x)]]
<1>1. n \in Nat /\ \A i \in 1..n : \A x \in Int : After(i, x) \in Int
  BY DEF Step
<1>2. PICK f \in [0..n -> Int] : f = [i \in 0..n |-> IF i = 0 THEN 0 ELSE step[i][f[i - 1]]]
  <2> HIDE DEF After, n
  <2>1. step \in [1..n -> [Int -> Int]]
    BY <1>1
  <2> DEFINE Values == Int
  <2>2. 0 \in Values /\ step \in [1..n -> [Values -> Values]]
    BY <2>1
  <2> HIDE DEF step, Values
  <2>3. IsDefined(n, Values, 0, step)
    BY <1>1, <2>2, RecursionDefines
  <2> QED
    BY <2>3, Zenon DEF IsDefined, Values
<1>3. \A i \in 0..n : i # 0 => step[i][f[i - 1]] = After(i, f[i - 1])
  <2> HIDE DEF After, n
  <2>1. \A i \in 0..n : i # 0 => i \in 1..n /\ f[i - 1] \in Int
    BY <1>1
  <2> QED
    BY <2>1
<1>4. f = [i \in 0..n |-> IF i = 0 THEN 0 ELSE f[i - 1] + IF InString(raw)[i] THEN Step(raw[i]) ELSE 0]
  <2> HIDE DEF step
  <2> QED
    BY <1>1, <1>2, <1>3
<1> QED
  BY <1>4, Zenon DEF Excess

(* The nesting counts the braces outside of them, from the first one on. *)
LEMMA NestingEquation ==
    ASSUME NEW raw \in Seq(Characters)
    PROVE  Nesting(raw) = [i \in 0..Len(raw) |->
              IF i < FirstBrace(raw) \/ i = 0 THEN 0 ELSE Nesting(raw)[i - 1] + IF InString(raw)[i] THEN 0 ELSE Step(raw[i])]
<1> DEFINE n == Len(raw)
           After(i, x) == IF i < FirstBrace(raw) THEN 0 ELSE x + IF InString(raw)[i] THEN 0 ELSE Step(raw[i])
           step == [i \in 1..n |-> [x \in Int |-> After(i, x)]]
<1>1. n \in Nat /\ \A i \in 1..n : \A x \in Int : After(i, x) \in Int
  BY DEF Step
<1>2. PICK f \in [0..n -> Int] : f = [i \in 0..n |-> IF i = 0 THEN 0 ELSE step[i][f[i - 1]]]
  <2> HIDE DEF After, n
  <2>1. step \in [1..n -> [Int -> Int]]
    BY <1>1
  <2> DEFINE Values == Int
  <2>2. 0 \in Values /\ step \in [1..n -> [Values -> Values]]
    BY <2>1
  <2> HIDE DEF step, Values
  <2>3. IsDefined(n, Values, 0, step)
    BY <1>1, <2>2, RecursionDefines
  <2> QED
    BY <2>3, Zenon DEF IsDefined, Values
<1>3. \A i \in 0..n : i # 0 => step[i][f[i - 1]] = After(i, f[i - 1])
  <2> HIDE DEF After, n
  <2>1. \A i \in 0..n : i # 0 => i \in 1..n /\ f[i - 1] \in Int
    BY <1>1
  <2> QED
    BY <2>1
<1>4. f = [i \in 0..n |-> IF i < FirstBrace(raw) \/ i = 0 THEN 0 ELSE f[i - 1] + IF InString(raw)[i] THEN 0 ELSE Step(raw[i])]
  <2> HIDE DEF step
  <2> QED
    BY <1>1, <1>2, <1>3
<1> QED
  BY <1>4, Zenon DEF Nesting

(* The loop's depth is the nesting of the object and the excess of its     *)
(* strings together; before the object all are 0.                          *)
LEMMA DepthIsNestingAndExcess ==
    ASSUME NEW raw \in Seq(Characters), NEW i \in 0..Len(raw)
    PROVE  /\ Nesting(raw)[i] \in Int /\ Excess(raw)[i] \in Int
           /\ Depth(raw)[i] = Nesting(raw)[i] + Excess(raw)[i]
           /\ i < FirstBrace(raw) => ~InString(raw)[i]
<1> DEFINE n == Len(raw)
           first == FirstBrace(raw)
           in == InString(raw)
           depth == Depth(raw)
           nesting == Nesting(raw)
           excess == Excess(raw)
           Split(j) == /\ nesting[j] \in Int /\ excess[j] \in Int
                       /\ depth[j] = nesting[j] + excess[j]
                       /\ j < first => ~in[j] /\ excess[j] = 0
           Splits == {j \in 0..n : Split(j)}
<1>1. n \in Nat /\ first \in 0..n
  BY FirstBraceProperties
<1>2. \A j \in 0..n : depth[j] = IF j < first \/ j = 0 THEN 0 ELSE depth[j - 1] + Step(raw[j])
  BY DepthEquation
<1>3. \A j \in 0..n : j < first \/ j = 0 => ~in[j]
  BY InStringEquation, Zenon
<1>4. \A j \in 0..n : excess[j] = IF j = 0 THEN 0
                                  ELSE excess[j - 1] + IF in[j] THEN Step(raw[j]) ELSE 0
  BY ExcessEquation
<1>5. \A j \in 0..n : nesting[j] = IF j < first \/ j = 0 THEN 0
                                   ELSE nesting[j - 1] + IF in[j] THEN 0 ELSE Step(raw[j])
  BY NestingEquation
<1>6. \A j \in 0..n : Step(raw[j]) \in Int
  BY DEF Step
<1> HIDE DEF n, first, in, depth, nesting, excess
<1>7. 0 \in Splits
  <2>1. 0 \in 0..n
    BY <1>1
  <2>2. depth[0] = 0
    BY <1>2, <2>1
  <2>3. excess[0] = 0
    BY <1>4, <2>1
  <2>4. nesting[0] = 0
    BY <1>5, <2>1
  <2>5. ~in[0]
    BY <1>3, <2>1
  <2> QED
    BY <2>1, <2>2, <2>3, <2>4, <2>5
<1>8. ASSUME NEW j \in 1..n, j - 1 \in Splits PROVE j \in Splits
  <2>1. j \in 0..n /\ j # 0 /\ j - 1 \in 0..n /\ Split(j - 1)
    BY <1>1, <1>8
  <2>2. CASE j < first
    <3>1. ~in[j]
      BY <1>3, <2>1, <2>2
    <3>2. depth[j] = 0
      BY <1>2, <2>1, <2>2
    <3>3. nesting[j] = 0
      BY <1>5, <2>1, <2>2
    <3>4. j - 1 < first
      BY <1>1, <2>2
    <3>5. excess[j - 1] = 0
      BY <2>1, <3>4
    <3>6. excess[j] = excess[j - 1] + IF in[j] THEN Step(raw[j]) ELSE 0
      BY <1>4, <2>1
    <3>7. excess[j] = 0
      BY <3>1, <3>5, <3>6
    <3> QED
      BY <2>1, <3>1, <3>2, <3>3, <3>7
  <2>3. CASE ~ (j < first)
    <3>1. /\ depth[j] = depth[j - 1] + Step(raw[j])
          /\ excess[j] = excess[j - 1] + IF in[j] THEN Step(raw[j]) ELSE 0
          /\ nesting[j] = nesting[j - 1] + IF in[j] THEN 0 ELSE Step(raw[j])
      BY <1>2, <1>4, <1>5, <2>1, <2>3
    <3> QED
      BY <1>6, <2>1, <2>3, <3>1
  <2> QED
    BY <2>2, <2>3
<1>9. \A j \in 0..n : j \in Splits
  <2> HIDE DEF Splits
  <2> QED
    BY <1>1, <1>7, <1>8, IntervalInduction
<1> QED
  BY <1>9 DEF n, first, in, depth, nesting, excess

(* Until the object ends, its nesting is positive. *)
LEMMA NestingIsPositive ==
    ASSUME NEW raw \in Seq(Characters), ObjectEnd(raw) # 0
    PROVE  /\ ObjectEnd(raw) \in FirstBrace(raw)..Len(raw)
           /\ FirstBrace(raw) # 0
           /\ raw[ObjectEnd(raw)] = "close" /\ Nesting(raw)[ObjectEnd(raw)] = 0
           /\ \A i \in FirstBrace(raw)..(ObjectEnd(raw) - 1) : Nesting(raw)[i] >= 1
<1> DEFINE n == Len(raw)
           first == FirstBrace(raw)
           in == InString(raw)
           nesting == Nesting(raw)
           end == ObjectEnd(raw)
           ends == {i \in DOMAIN raw : i >= first /\ raw[i] = "close" /\ ~in[i] /\ nesting[i] = 0}
           Positive == {i \in 0..n : first <= i /\ i < end => nesting[i] >= 1}
<1>1. n \in Nat /\ DOMAIN raw = 1..n /\ first \in 0..n /\ (first # 0 => raw[first] = "open")
  BY FirstBraceProperties
<1>2. end = IF first = 0 \/ ends = {} THEN 0 ELSE Min(ends)
  BY Zenon DEF ObjectEnd
<1>3. first # 0 /\ end \in ends /\ \A i \in ends : end <= i
  <2>1. ends \in SUBSET Nat
    <3>1. 1..n \subseteq Nat
      BY <1>1
    <3> QED
      BY <1>1, <3>1, Zenon
  <2>2. first # 0 /\ ends # {} /\ end = Min(ends)
    BY <1>2, Zenon
  <2> HIDE DEF ends, end
  <2> QED
    BY <2>1, <2>2, MinIsLeast
<1>4. \A i \in 0..n : nesting[i] \in Int /\ (i < first => ~in[i])
  BY DepthIsNestingAndExcess
<1>5. \A i \in 0..n : in[i] = IF i < first \/ i = 0 THEN FALSE
                              ELSE IF raw[i] = "quote" THEN ~in[i - 1] ELSE in[i - 1]
  BY InStringEquation, Zenon
<1>6. \A i \in 0..n : nesting[i] = IF i < first \/ i = 0 THEN 0
                                   ELSE nesting[i - 1] + IF in[i] THEN 0 ELSE Step(raw[i])
  BY NestingEquation
<1>7. /\ end \in DOMAIN raw /\ end >= first /\ raw[end] = "close" /\ nesting[end] = 0
      /\ \A i \in DOMAIN raw : i >= first /\ raw[i] = "close" /\ ~in[i] /\ nesting[i] = 0 => end <= i
  <2> HIDE DEF end
  <2> QED
    BY <1>3, Zenon
<1> HIDE DEF n, first, in, nesting, end, ends
<1>8. 0 \in Positive
  BY <1>1, <1>3
<1>9. ASSUME NEW i \in 1..n, i - 1 \in Positive PROVE i \in Positive
  <2> SUFFICES ASSUME first <= i, i < end PROVE nesting[i] >= 1
    BY <1>1
  <2>1. i \in 0..n /\ i # 0 /\ i - 1 \in 0..n /\ i \in DOMAIN raw
    BY <1>1
  <2>2. CASE i = first
    <3>1. ~in[i - 1] /\ nesting[i - 1] = 0
      BY <1>1, <1>4, <1>6, <2>1, <2>2
    <3>2. raw[i] = "open"
      BY <1>1, <1>3, <2>2
    <3>3. ~in[i]
      BY <1>5, <2>1, <2>2, <3>1, <3>2
    <3> QED
      BY <1>1, <1>6, <2>1, <2>2, <3>1, <3>2, <3>3 DEF Step
  <2>3. CASE i # first
    <3>1. nesting[i - 1] >= 1
      BY <1>1, <1>7, <1>9, <2>1, <2>3
    <3>2. nesting[i] = nesting[i - 1] + IF in[i] THEN 0 ELSE Step(raw[i])
      BY <1>1, <1>6, <2>1
    <3>3. ~ (raw[i] = "close" /\ ~in[i] /\ nesting[i] = 0)
      BY <1>1, <1>7, <2>1
    <3>4. nesting[i] \in Int /\ nesting[i - 1] \in Int
      BY <1>4, <2>1
    <3> QED
      BY <3>1, <3>2, <3>3, <3>4 DEF Step
  <2> QED
    BY <2>2, <2>3
<1>10. \A i \in 0..n : i \in Positive
  <2> HIDE DEF Positive
  <2> QED
    BY <1>1, <1>8, <1>9, IntervalInduction
<1>11. end \in first..n /\ \A i \in first..(end - 1) : nesting[i] >= 1
  BY <1>1, <1>7, <1>10
<1> QED
  BY <1>3, <1>7, <1>11 DEF n, first, in, nesting, end

(* An object is found to its end, whatever follows it, exactly if its      *)
(* strings have closed as many braces as they have opened, as long as they *)
(* have not closed more before: parseJSON on texts of every length.        *)
THEOREM ObjectFoundIfBalancedHolds == Spec => []ObjectFoundIfBalanced
<1>1. TypeOK => ObjectFoundIfBalanced
  <2> SUFFICES ASSUME answer \in Seq(Characters), ObjectEnd(answer) # 0,
                      \A i \in 1..ObjectEnd(answer) : Excess(answer)[i] >= 0
               PROVE  SpanEnd(answer) = ObjectEnd(answer) <=> Excess(answer)[ObjectEnd(answer)] = 0
    BY DEF ObjectFoundIfBalanced, TypeOK
  <2> DEFINE n == Len(answer)
             first == FirstBrace(answer)
             end == ObjectEnd(answer)
             depth == Depth(answer)
             excess == Excess(answer)
             nesting == Nesting(answer)
             balanced == {i \in DOMAIN answer : i >= first /\ answer[i] = "close" /\ depth[i] = 0}
  <2>1. n \in Nat /\ DOMAIN answer = 1..n /\ first \in 1..n
    BY FirstBraceProperties, NestingIsPositive
  <2>2. /\ end \in first..n /\ answer[end] = "close" /\ nesting[end] = 0
        /\ \A i \in first..(end - 1) : nesting[i] >= 1
    BY NestingIsPositive, Zenon
  <2>3. \A i \in 0..n : nesting[i] \in Int /\ excess[i] \in Int /\ depth[i] = nesting[i] + excess[i]
    BY DepthIsNestingAndExcess
  <2>4. SpanEnd(answer) = IF first = 0 \/ balanced = {} THEN 0 ELSE Min(balanced)
    BY Zenon DEF SpanEnd
  <2>5. \A i \in 1..end : excess[i] >= 0
    OBVIOUS
  <2>6. balanced \in SUBSET Nat
    <3>1. 1..n \subseteq Nat
      BY <2>1
    <3> QED
      BY <2>1, <3>1, Zenon
  <2>7. balanced # {} => Min(balanced) \in balanced /\ \A i \in balanced : Min(balanced) <= i
    BY <2>6, MinIsLeast
  <2>8. \A i \in balanced : i \in 1..n /\ i >= first /\ depth[i] = 0
    BY <2>1, Zenon
  <2>9. end \in 1..n /\ depth[end] = excess[end]
    BY <2>1, <2>2, <2>3
  <2>10. end \in balanced <=> depth[end] = 0
    <3>1. end \in DOMAIN answer /\ end >= first /\ answer[end] = "close"
      BY <2>1, <2>2
    <3> HIDE DEF end
    <3> QED
      BY <3>1
  <2> HIDE DEF n, first, end, depth, excess, nesting, balanced
  <2>11. \A i \in balanced : i >= end
    <3> SUFFICES ASSUME NEW i \in balanced, i < end PROVE FALSE
      BY <2>1, <2>2, <2>8
    <3>1. i \in 0..n /\ i \in 1..end /\ i \in first..(end - 1) /\ depth[i] = 0
      BY <2>1, <2>2, <2>8
    <3> QED
      BY <2>2, <2>3, <2>5, <3>1
  <2>12. CASE excess[end] = 0
    <3>1. end \in balanced /\ first # 0 /\ balanced # {}
      BY <2>1, <2>9, <2>10, <2>12
    <3> DEFINE m == Min(balanced)
    <3>2. m \in balanced /\ m <= end
      BY <2>7, <3>1
    <3> HIDE DEF m
    <3>3. m = end
      BY <2>1, <2>8, <2>9, <2>11, <3>2
    <3> QED
      BY <2>4, <2>12, <3>1, <3>3 DEF end, excess, m
  <2>13. CASE excess[end] # 0
    <3>1. end \notin balanced /\ end # 0
      BY <2>1, <2>9, <2>10, <2>13
    <3>2. SpanEnd(answer) # end
      BY <2>4, <2>7, <3>1
    <3> QED
      BY <2>13, <3>2 DEF end, excess
  <2> QED
    BY <2>12, <2>13
<1> QED
  BY <1>1, TypeCorrect, PTL
-----------------------------------------------------------------------------
(* The matches of a listing are positions of headers. *)
LEMMA MatchesAreHeaders ==
    ASSUME NEW dialect, NEW T, NEW text \in Seq(T)
    PROVE  /\ Matches(dialect, text) \in SUBSET (1..Len(text))
           /\ \A p \in Matches(dialect, text) : text[p].kind = "header"
<1> QED
  BY DEF Matches, Recognised

(* What a block with a later match ends before. *)
LEMMA BlockProperties ==
    ASSUME NEW dialect, NEW T, NEW text \in Seq(T), NEW p \in Matches(dialect, text)
    PROVE  /\ Block(dialect, text, p) \in SUBSET (1..Len(text))
           /\ (\A q \in Matches(dialect, text) : q <= p) =>
                 Block(dialect, text, p) = p..Len(text)
           /\ \A q \in Matches(dialect, text) :
                 q > p /\ (\A r \in Matches(dialect, text) : r > p => q <= r) =>
                    Block(dialect, text, p) = p..(q - 1)
<1> DEFINE n == Len(text)
           matches == Matches(dialect, text)
           later == {q \in matches : q > p}
<1>1. n \in Nat /\ matches \in SUBSET (1..n) /\ p \in matches
  BY MatchesAreHeaders
<1>2. Block(dialect, text, p) = p..(IF later = {} THEN n ELSE Min(later) - 1)
  BY DEF Block
<1> HIDE DEF n, matches
<1>3. later # {} => /\ Min(later) \in matches /\ Min(later) > p
                    /\ \A q \in later : Min(later) <= q
  <2>1. 1..n \subseteq Nat
    BY <1>1
  <2>2. later \in SUBSET Nat
    BY <1>1, <2>1, Zenon
  <2> QED
    BY <2>2, MinIsLeast
<1>4. CASE later = {}
  <2>1. Block(dialect, text, p) = p..n
    BY <1>2, <1>4
  <2> QED
    BY <1>1, <1>4, <2>1 DEF n, matches
<1>5. CASE later # {}
  <2> DEFINE m == Min(later)
  <2>1. Block(dialect, text, p) = p..(m - 1)
    BY <1>2, <1>5
  <2>2. m \in matches /\ m > p /\ \A q \in later : m <= q
    BY <1>3, <1>5
  <2>3. m \in 1..n /\ p \in 1..n
    BY <1>1, <2>2
  <2>4. \A q \in matches : q > p /\ (\A r \in matches : r > p => q <= r) => q = m
    <3> HIDE DEF m
    <3> QED
      BY <1>1, <2>2
  <2> HIDE DEF m
  <2>5. p..(m - 1) \in SUBSET (1..n)
    BY <1>1, <2>3
  <2>6. ~ \A q \in matches : q <= p
    BY <1>1, <2>2, <2>3
  <2> QED
    BY <2>1, <2>4, <2>5, <2>6 DEF n, matches
<1> QED
  BY <1>4, <1>5

(* The last line that sets a field, as Max and as Least see it. *)
LEMMA LastSetter ==
    ASSUME NEW n \in Nat, NEW S \in SUBSET (1..n)
    PROVE  (IF S = {} THEN 0 ELSE Max(S)) = Least({q \in S : \A r \in S : r <= q})
<1> DEFINE last == {q \in S : \A r \in S : r <= q}
<1>1. CASE S = {}
  BY <1>1 DEF Least
<1>2. CASE S # {}
  <2> DEFINE m == Max(S)
  <2>1. m \in S /\ \A y \in S : m >= y
    BY <1>2, MaxIsGreatest
  <2> HIDE DEF m
  <2>2. last = {m}
    <3>1. \A y \in S : y \in Int
      OBVIOUS
    <3>2. m \in last
      BY <2>1, <3>1
    <3>3. \A q \in last : q = m
      BY <2>1, <3>1
    <3> QED
      BY <3>2, <3>3, Zenon
  <2>3. Least(last) = m
    <3>1. last \in SUBSET (Nat \ {0}) /\ last # {}
      BY <2>1, <2>2
    <3>2. Least(last) \in last
      BY <3>1, LeastProperties
    <3> QED
      BY <2>2, <3>2
  <2> QED
    BY <1>2, <2>3 DEF m
<1> QED
  BY <1>1, <1>2

(* An interface has the counters of its own section, in a listing of any   *)
(* length, unless the header that follows it is one the dialect does not   *)
(* recognise or a line makes the parser panic.                             *)
THEOREM ListingReadsSectionsHolds == Spec => []ListingReadsSections
<1>1. TypeOK => ListingReadsSections
  <2> SUFFICES ASSUME answer \in Seq(Lines(input)),
                      NEW p \in Matches(input, answer),
                      NextHeader(p) \in Matches(input, answer) \cup {0}
               PROVE  \A f \in Fields : Parse(input, answer)[p].fields[f] =
                         Least({q \in Setters(input, answer, Section(p), f) :
                                  \A r \in Setters(input, answer, Section(p), f) : r <= q})
    BY DEF ListingReadsSections, TypeOK
  <2> DEFINE n == Len(answer)
             matches == Matches(input, answer)
             next == NextHeader(p)
             following == {q \in Headers : q > p}
             block == Block(input, answer, p)
  <2>1. /\ n \in Nat /\ matches \in SUBSET (1..n) /\ Headers \in SUBSET (1..n)
        /\ matches \subseteq Headers
    BY MatchesAreHeaders DEF Headers
  <2>2. /\ next # 0 => next \in following /\ \A q \in following : next <= q
        /\ following # {} => next # 0
    <3>1. following \in SUBSET (Nat \ {0})
      <4>1. 1..n \subseteq Nat \ {0}
        BY <2>1
      <4> QED
        BY <2>1, <4>1, Zenon
    <3>2. next = Least(following)
      BY DEF NextHeader
    <3> HIDE DEF following, next
    <3> QED
      BY <3>1, <3>2, LeastProperties
  <2>3. block = Section(p) /\ block \in SUBSET (1..n)
    <3>1. CASE next = 0
      <4>1. following = {}
        BY <2>2, <3>1
      <4>2. \A q \in matches : q <= p
        BY <2>1, <4>1
      <4>3. block = p..n /\ block \in SUBSET (1..n)
        BY <4>2, BlockProperties
      <4> QED
        BY <3>1, <4>3 DEF Section
    <3>2. CASE next # 0
      <4>1. next \in matches /\ next > p /\ \A r \in matches : r > p => next <= r
        BY <2>1, <2>2, <3>2
      <4> HIDE DEF next
      <4>2. block = p..(next - 1) /\ block \in SUBSET (1..n)
        BY <4>1, BlockProperties
      <4> QED
        BY <3>2, <4>2 DEF Section, next
    <3> QED
      BY <3>1, <3>2
  <2>4. Parse(input, answer)[p] = Interface(input, answer, p)
    BY DEF Parse
  <2>5. ASSUME NEW f \in Fields
        PROVE  Parse(input, answer)[p].fields[f] =
                 Least({q \in Setters(input, answer, Section(p), f) :
                         \A r \in Setters(input, answer, Section(p), f) : r <= q})
    <3> DEFINE setters == Setters(input, answer, block, f)
    <3>1. Parse(input, answer)[p].fields[f] = IF setters = {} THEN 0 ELSE Max(setters)
      BY <2>4 DEF Interface, ReadField
    <3>2. setters \in SUBSET (1..n)
      <4> HIDE DEF block, n
      <4> QED
        BY <2>3 DEF Setters
    <3>3. (IF setters = {} THEN 0 ELSE Max(setters)) =
            Least({q \in setters : \A r \in setters : r <= q})
      <4> HIDE DEF setters, n
      <4> QED
        BY <2>1, <3>2, LastSetter
    <3>4. setters = Setters(input, answer, Section(p), f)
      BY <2>3
    <3> HIDE DEF setters
    <3> QED
      BY <3>1, <3>3, <3>4
  <2> QED
    BY <2>5
<1> QED
  BY <1>1, TypeCorrect, PTL

(* A line more leaves a block that another follows as it is, with all that *)
(* is read from it.                                                        *)
LEMMA LineLeavesBlock ==
    ASSUME NEW dialect \in Dialects, NEW T, NEW text \in Seq(T), NEW line \in T,
           NEW p \in Matches(dialect, text), \E q \in Matches(dialect, text) : q > p
    PROVE  Parse(dialect, Append(text, line))[p] = Parse(dialect, text)[p]
<1> DEFINE n == Len(text)
           longer == Append(text, line)
           matches == Matches(dialect, text)
           more == Matches(dialect, longer)
           later == {q \in matches : q > p}
           block == Block(dialect, text, p)
<1>1. /\ n \in Nat /\ longer \in Seq(T) /\ Len(longer) = n + 1
      /\ \A i \in 1..n : longer[i] = text[i]
  OBVIOUS
<1>2. matches \in SUBSET (1..n) /\ p \in 1..n
  BY MatchesAreHeaders
<1>3. matches \subseteq more /\ \A q \in more : q \in 1..n => q \in matches
  BY <1>1 DEF Matches
<1>4. more \in SUBSET (1..(n + 1))
  BY <1>1, MatchesAreHeaders
<1>5. PICK m \in later : \A q \in later : m <= q
  <2>1. 1..n \subseteq Nat
    BY <1>1
  <2>2. later \in SUBSET Nat /\ later # {}
    BY <1>2, <2>1, Zenon
  <2> HIDE DEF later
  <2> QED
    BY <2>2, LeastExists, Zenon
<1>6. block = p..(m - 1) /\ block \in SUBSET (1..n)
  <2>1. m \in matches /\ m > p /\ \A r \in matches : r > p => m <= r
    BY <1>5
  <2> QED
    BY <2>1, BlockProperties
<1>7. Block(dialect, longer, p) = block
  <2>1. m \in more /\ p \in more /\ m > p
    BY <1>3, <1>5
  <2>2. \A r \in more : r > p => m <= r
    <3> SUFFICES ASSUME NEW r \in more, r > p PROVE m <= r
      OBVIOUS
    <3>1. m \in 1..n /\ r \in 1..(n + 1)
      BY <1>2, <1>4, <1>5
    <3>2. CASE r \in 1..n
      BY <1>3, <1>5, <3>2
    <3>3. CASE r \notin 1..n
      <4> HIDE DEF n
      <4> QED
        BY <1>1, <3>1, <3>3
    <3> QED
      BY <3>2, <3>3
  <2>3. Block(dialect, longer, p) = p..(m - 1)
    <3> HIDE DEF longer
    <3> QED
      BY <1>1, <2>1, <2>2, BlockProperties
  <2> QED
    BY <1>6, <2>3
<1>8. ASSUME NEW f \in Fields
      PROVE  ReadField(dialect, longer, block, f) = ReadField(dialect, text, block, f)
  <2>1. \A q \in block : longer[q] = text[q]
    BY <1>1, <1>6
  <2>2. Setters(dialect, longer, block, f) = Setters(dialect, text, block, f)
    <3> HIDE DEF longer, block
    <3> QED
      BY <2>1 DEF Setters
  <2> QED
    BY <2>2 DEF ReadField
<1>9. longer[p] = text[p]
  BY <1>1, <1>2
<1>10. Interface(dialect, longer, p) = Interface(dialect, text, p)
  <2> HIDE DEF longer, block
  <2>1. [f \in Fields |-> ReadField(dialect, longer, block, f)] =
          [f \in Fields |-> ReadField(dialect, text, block, f)]
    BY <1>8
  <2> QED
    BY <1>7, <1>9, <2>1 DEF Interface, block
<1>11. p \in more
  BY <1>3
<1> QED
  BY <1>10, <1>11 DEF Parse

(* Of a listing that is cut short anywhere, all interfaces but the last    *)
(* are read as they are from the whole listing: there is no answer whose   *)
(* next line changes one that another follows.                             *)
THEOREM CutListingIsPrefixHolds == Spec => CutListingIsPrefix
<1>1. TypeOK /\ [Next]_vars => KeepsAllButTheLast
  <2> SUFFICES ASSUME TypeOK, [Next]_vars, input \in Dialects,
                      NEW p \in Matches(input, answer),
                      \E q \in Matches(input, answer) : q > p
               PROVE  Parse(input, answer')[p] = Parse(input, answer)[p]
    BY DEF KeepsAllButTheLast
  <2>1. answer \in Seq(Lines(input))
    BY DEF TypeOK
  <2>2. (\E line \in Lines(input) : answer' = Append(answer, line)) \/ answer' = answer
    <3>1. CASE Line
      BY <3>1 DEF Line, Lines, Header, Counter
    <3>2. CASE ~ Line
      BY <3>2 DEF Next, vars, Entry, Character, OpenTag, CloseTag, Text, Space, Marker, Bounded,
          Dialects
    <3> QED
      BY <3>1, <3>2
  <2>3. ASSUME NEW line \in Lines(input), answer' = Append(answer, line)
        PROVE  Parse(input, answer')[p] = Parse(input, answer)[p]
    <3>1. Parse(input, Append(answer, line))[p] = Parse(input, answer)[p]
      BY <2>1, LineLeavesBlock
    <3> QED
      BY <2>3, <3>1, Zenon
  <2>4. CASE answer' = answer
    BY <2>4, Zenon
  <2> QED
    BY <2>2, <2>3, <2>4
<1> QED
  BY <1>1, TypeCorrect, PTL DEF Spec, CutListingIsPrefix
-----------------------------------------------------------------------------
(* The first case that applies to a unit. *)
LEMMA FirstCase ==
    ASSUME NEW n \in Nat, NEW cases, DOMAIN cases = 1..n, NEW begins,
           NEW i \in 1..n, cases[i].prefix \in begins,
           \A j \in 1..(i - 1) : cases[j].prefix \notin begins
    PROVE  Min({j \in DOMAIN cases : cases[j].prefix \in begins}) = i
<1> DEFINE S == {j \in DOMAIN cases : cases[j].prefix \in begins}
<1>1. S \in SUBSET Nat /\ i \in S
  OBVIOUS
<1>2. \A j \in S : i <= j
  OBVIOUS
<1> DEFINE m == Min(S)
<1>3. m \in S /\ m <= i
  BY <1>1, MinIsLeast
<1> HIDE DEF m, S
<1>4. m \in Nat /\ i \in Nat
  BY <1>1, <1>3
<1> QED
  BY <1>2, <1>3, <1>4 DEF m, S

(* A unit's seconds are those of the case that none before it precedes. *)
LEMMA MonthCasesOf ==
    ASSUME NEW unit, NEW i \in 1..7, MonthCases[i].prefix \in Beginnings[unit],
           \A j \in 1..(i - 1) : MonthCases[j].prefix \notin Beginnings[unit],
           NEW dialect, dialect # "ios"
    PROVE  UnitSeconds(dialect, unit) = MonthCases[i].seconds
<1>1. DOMAIN MonthCases = 1..7
  BY DEF MonthCases
<1>2. Min({j \in DOMAIN MonthCases : MonthCases[j].prefix \in Beginnings[unit]}) = i
  BY <1>1, FirstCase
<1> QED
  BY <1>2 DEF UnitSeconds, Cases

(* The same of the cases of IOS. *)
LEMMA IOSCasesOf ==
    ASSUME NEW unit, NEW i \in 1..6, IOSCases[i].prefix \in Beginnings[unit],
           \A j \in 1..(i - 1) : IOSCases[j].prefix \notin Beginnings[unit]
    PROVE  UnitSeconds("ios", unit) = IOSCases[i].seconds
<1>1. DOMAIN IOSCases = 1..6
  BY DEF IOSCases
<1>2. Min({j \in DOMAIN IOSCases : IOSCases[j].prefix \in Beginnings[unit]}) = i
  BY <1>1, FirstCase
<1> QED
  BY <1>2 DEF UnitSeconds, Cases

(* The cases of every dialect take the units it shows for what they are. *)
LEMMA UnitsAreRead ==
    ASSUME NEW dialect \in Dialects, NEW unit \in Units(dialect)
    PROVE  UnitSeconds(dialect, unit) = Seconds[unit] /\ Seconds[unit] \in Nat
<1>1. CASE dialect = "ios"
  <2>1. unit \in {"year", "week", "day", "hour", "minute", "second",
                  "yr", "wk", "hr", "min", "sec"}
    BY <1>1 DEF Units
  <2>2. CASE unit \in {"year", "yr"}
    <3>1. UnitSeconds("ios", unit) = IOSCases[1].seconds
      BY <2>2, IOSCasesOf DEF IOSCases, Case, Beginnings
    <3> QED
      BY <1>1, <2>2, <3>1 DEF IOSCases, Case, Seconds
  <2>3. CASE unit \in {"week", "wk"}
    <3>1. UnitSeconds("ios", unit) = IOSCases[2].seconds
      BY <2>3, IOSCasesOf DEF IOSCases, Case, Beginnings
    <3> QED
      BY <1>1, <2>3, <3>1 DEF IOSCases, Case, Seconds
  <2>4. CASE unit = "day"
    <3>1. UnitSeconds("ios", unit) = IOSCases[3].seconds
      BY <2>4, IOSCasesOf DEF IOSCases, Case, Beginnings
    <3> QED
      BY <1>1, <2>4, <3>1 DEF IOSCases, Case, Seconds
  <2>5. CASE unit \in {"hour", "hr"}
    <3>1. UnitSeconds("ios", unit) = IOSCases[4].seconds
      BY <2>5, IOSCasesOf DEF IOSCases, Case, Beginnings
    <3> QED
      BY <1>1, <2>5, <3>1 DEF IOSCases, Case, Seconds
  <2>6. CASE unit \in {"minute", "min"}
    <3>1. UnitSeconds("ios", unit) = IOSCases[5].seconds
      BY <2>6, IOSCasesOf DEF IOSCases, Case, Beginnings
    <3> QED
      BY <1>1, <2>6, <3>1 DEF IOSCases, Case, Seconds
  <2>7. CASE unit \in {"second", "sec"}
    <3>1. UnitSeconds("ios", unit) = IOSCases[6].seconds
      BY <2>7, IOSCasesOf DEF IOSCases, Case, Beginnings
    <3> QED
      BY <1>1, <2>7, <3>1 DEF IOSCases, Case, Seconds
  <2> QED
    BY <2>1, <2>2, <2>3, <2>4, <2>5, <2>6, <2>7
<1>2. CASE dialect # "ios"
  <2>1. unit \in {"year", "month", "week", "day", "hour", "minute", "second"}
    BY <1>2 DEF Units
  <2>2. CASE unit = "year"
    <3>1. UnitSeconds(dialect, unit) = MonthCases[1].seconds
      BY <1>2, <2>2, MonthCasesOf DEF MonthCases, Case, Beginnings
    <3> QED
      BY <2>2, <3>1 DEF MonthCases, Case, Seconds
  <2>3. CASE unit = "month"
    <3>1. UnitSeconds(dialect, unit) = MonthCases[2].seconds
      BY <1>2, <2>3, MonthCasesOf DEF MonthCases, Case, Beginnings
    <3> QED
      BY <2>3, <3>1 DEF MonthCases, Case, Seconds
  <2>4. CASE unit = "week"
    <3>1. UnitSeconds(dialect, unit) = MonthCases[3].seconds
      BY <1>2, <2>4, MonthCasesOf DEF MonthCases, Case, Beginnings
    <3> QED
      BY <2>4, <3>1 DEF MonthCases, Case, Seconds
  <2>5. CASE unit = "day"
    <3>1. UnitSeconds(dialect, unit) = MonthCases[4].seconds
      BY <1>2, <2>5, MonthCasesOf DEF MonthCases, Case, Beginnings
    <3> QED
      BY <2>5, <3>1 DEF MonthCases, Case, Seconds
  <2>6. CASE unit = "hour"
    <3>1. UnitSeconds(dialect, unit) = MonthCases[5].seconds
      BY <1>2, <2>6, MonthCasesOf DEF MonthCases, Case, Beginnings
    <3> QED
      BY <2>6, <3>1 DEF MonthCases, Case, Seconds
  <2>7. CASE unit = "minute"
    <3>1. UnitSeconds(dialect, unit) = MonthCases[6].seconds
      BY <1>2, <2>7, MonthCasesOf DEF MonthCases, Case, Beginnings
    <3> QED
      BY <2>7, <3>1 DEF MonthCases, Case, Seconds
  <2>8. CASE unit = "second"
    <3>1. UnitSeconds(dialect, unit) = MonthCases[7].seconds
      BY <1>2, <2>8, MonthCasesOf DEF MonthCases, Case, Beginnings
    <3> QED
      BY <2>8, <3>1 DEF MonthCases, Case, Seconds
  <2> QED
    BY <2>1, <2>2, <2>3, <2>4, <2>5, <2>6, <2>7, <2>8
<1> QED
  BY <1>1, <1>2
-----------------------------------------------------------------------------
(* The parts of an uptime that a dialect finds, and the seconds of each. *)
Found(dialect, parts) == {p \in DOMAIN parts : parts[p].unit \in Units(dialect)}
PartSeconds(dialect, parts) ==
    [p \in Found(dialect, parts) |-> parts[p].val * UnitSeconds(dialect, parts[p].unit)]

(* They are finite in number, and natural numbers of seconds. *)
LEMMA FoundProperties ==
    ASSUME NEW dialect \in Dialects, NEW parts \in Seq(Parts)
    PROVE  /\ IsFiniteSet(Found(dialect, parts))
           /\ Found(dialect, parts) \in SUBSET (1..Len(parts))
           /\ PartSeconds(dialect, parts) \in [Found(dialect, parts) -> Nat]
<1>1. Found(dialect, parts) \in SUBSET (1..Len(parts))
  BY DEF Found
<1>2. IsFiniteSet(1..Len(parts))
  BY FS_Interval
<1>3. ASSUME NEW p \in Found(dialect, parts)
      PROVE  parts[p].val * UnitSeconds(dialect, parts[p].unit) \in Nat
  <2>1. parts[p] \in Parts /\ parts[p].unit \in Units(dialect)
    BY DEF Found
  <2>2. parts[p].val \in Nat /\ UnitSeconds(dialect, parts[p].unit) \in Nat
    BY <2>1, UnitsAreRead DEF Parts
  <2> QED
    BY <2>2
<1> QED
  BY <1>1, <1>2, <1>3, FS_Subset DEF PartSeconds

(* The library's sum is the solution of the equation. *)
LEMMA UptimeIsSum ==
    ASSUME NEW dialect \in Dialects, NEW parts \in Seq(Parts)
    PROVE  \E f : /\ IsSum(f, PartSeconds(dialect, parts), Found(dialect, parts))
                  /\ Uptime(dialect, parts) = f[Found(dialect, parts)]
<1> DEFINE S == Found(dialect, parts)
           w == PartSeconds(dialect, parts)
           Weight(p) == parts[p].val * UnitSeconds(dialect, parts[p].unit)
           sum == CHOOSE f : f = [s \in SUBSET S |-> IF s = {} THEN 0
                                    ELSE Weight(CHOOSE x \in s : TRUE) + f[s \ {CHOOSE x \in s : TRUE}]]
<1>1. Uptime(dialect, parts) = sum[S]
  BY Zenon DEF Uptime, MapThenSumSet, MapThenFoldSet, Found
<1>2. IsFiniteSet(S) /\ w \in [S -> Nat]
  BY FoundProperties
<1>3. \A s \in SUBSET S : s # {} => w[Pick(s)] = Weight(Pick(s))
  <2>1. \A s \in SUBSET S : s # {} => Pick(s) \in S
    BY PickIsElement
  <2> QED
    BY <2>1 DEF PartSeconds
<1>4. sum = [s \in SUBSET S |-> IF s = {} THEN 0 ELSE Weight(Pick(s)) + sum[s \ {Pick(s)}]]
  <2> HIDE DEF Weight, S, w
  <2>1. PICK f \in [SUBSET S -> Nat] : IsSum(f, w, S)
    BY <1>2, SumExists
  <2>2. f = [s \in SUBSET S |-> IF s = {} THEN 0 ELSE Weight(Pick(s)) + f[s \ {Pick(s)}]]
    BY <1>3, <2>1 DEF IsSum, SumStep
  <2> QED
    BY <2>2, Zenon DEF Pick
<1> HIDE DEF sum, Weight, S, w
<1>5. IsSum(sum, w, S)
  BY <1>3, <1>4 DEF IsSum, SumStep
<1> QED
  BY <1>1, <1>5 DEF S, w

(* An uptime is the sum of its parts, whichever units a device shows them  *)
(* in, however many and in whatever order: no case of the three parsers    *)
(* takes a unit for another.                                               *)
THEOREM UptimeInSecondsHolds == Spec => []UptimeInSeconds
<1>1. TypeOK => UptimeInSeconds
  <2> SUFFICES ASSUME answer \in Seq(Parts), NEW d \in Dialects,
                      \A p \in DOMAIN answer : answer[p].unit \in Units(d)
               PROVE  Uptime(d, answer) =
                        MapThenSumSet(LAMBDA p : answer[p].val * Seconds[answer[p].unit], DOMAIN answer)
    BY DEF UptimeInSeconds, TypeOK
  <2> DEFINE S == DOMAIN answer
             Read(p) == answer[p].val * UnitSeconds(d, answer[p].unit)
             Shown(p) == answer[p].val * Seconds[answer[p].unit]
             P(s) == CHOOSE x \in s : TRUE
  <2>1. {p \in S : answer[p].unit \in Units(d)} = S
    OBVIOUS
  <2>2. Uptime(d, answer) =
          (CHOOSE f : f = [s \in SUBSET S |-> IF s = {} THEN 0 ELSE Read(P(s)) + f[s \ {P(s)}]])[S]
    <3>1. Uptime(d, answer) = MapThenSumSet(LAMBDA p : answer[p].val * UnitSeconds(d, answer[p].unit),
                                            {p \in S : answer[p].unit \in Units(d)})
      BY Zenon DEF Uptime
    <3>2. Uptime(d, answer) = MapThenSumSet(LAMBDA p : answer[p].val * UnitSeconds(d, answer[p].unit), S)
      BY <2>1, <3>1, Zenon
    <3> QED
      BY <3>2, Zenon DEF MapThenSumSet, MapThenFoldSet
  <2>3. MapThenSumSet(LAMBDA p : answer[p].val * Seconds[answer[p].unit], S) =
          (CHOOSE f : f = [s \in SUBSET S |-> IF s = {} THEN 0 ELSE Shown(P(s)) + f[s \ {P(s)}]])[S]
    BY Zenon DEF MapThenSumSet, MapThenFoldSet
  <2>4. \A s \in SUBSET S : s # {} => Read(P(s)) = Shown(P(s))
    <3>1. \A s \in SUBSET S : s # {} => P(s) \in S
      BY PickIsElement, Zenon DEF Pick
    <3>2. \A p \in S : Read(p) = Shown(p)
      BY UnitsAreRead, Zenon
    <3> HIDE DEF P, Read, Shown
    <3> QED
      BY <3>1, <3>2
  <2> HIDE DEF P, Read, Shown, S
  <2>5. \A f : [s \in SUBSET S |-> IF s = {} THEN 0 ELSE Read(P(s)) + f[s \ {P(s)}]] =
               [s \in SUBSET S |-> IF s = {} THEN 0 ELSE Shown(P(s)) + f[s \ {P(s)}]]
    BY <2>4
  <2>6. (CHOOSE f : f = [s \in SUBSET S |-> IF s = {} THEN 0 ELSE Read(P(s)) + f[s \ {P(s)}]]) =
        (CHOOSE f : f = [s \in SUBSET S |-> IF s = {} THEN 0 ELSE Shown(P(s)) + f[s \ {P(s)}]])
    BY <2>5, Zenon
  <2> QED
    BY <2>2, <2>3, <2>6, Zenon DEF S
<1> QED
  BY <1>1, TypeCorrect, PTL
(* No uptime is negative. *)
LEMMA UptimeIsNat ==
    ASSUME NEW dialect \in Dialects, NEW parts \in Seq(Parts)
    PROVE  Uptime(dialect, parts) \in Nat
<1> DEFINE S == Found(dialect, parts)
           w == PartSeconds(dialect, parts)
<1>1. IsFiniteSet(S) /\ w \in [S -> Nat]
  BY FoundProperties
<1>2. PICK f : IsSum(f, w, S) /\ Uptime(dialect, parts) = f[S]
  BY UptimeIsSum
<1> HIDE DEF S, w
<1>3. PICK g \in [SUBSET S -> Nat] : IsSum(g, w, S)
  BY <1>1, SumExists
<1>4. f[S] = g[S] /\ g[S] \in Nat
  BY <1>1, <1>2, <1>3, SumIsUnique
<1> QED
  BY <1>2, <1>4

(* A part more, no shorter an uptime. *)
LEMMA UptimeGrows ==
    ASSUME NEW dialect \in Dialects, NEW parts \in Seq(Parts), NEW part \in Parts
    PROVE  Uptime(dialect, parts) <= Uptime(dialect, Append(parts, part))
<1> DEFINE longer == Append(parts, part)
           S == Found(dialect, parts)
           R == Found(dialect, longer)
           w == PartSeconds(dialect, parts)
           v == PartSeconds(dialect, longer)
           y == Len(parts) + 1
<1>1. /\ longer \in Seq(Parts) /\ Len(longer) = y /\ Len(parts) \in Nat
      /\ \A i \in 1..Len(parts) : longer[i] = parts[i]
  OBVIOUS
<1>2. DOMAIN parts = 1..Len(parts) /\ DOMAIN longer = 1..y
  BY <1>1
<1>3. S \subseteq R /\ R \subseteq S \cup {y} /\ S \subseteq 1..Len(parts)
  <2> HIDE DEF longer
  <2> QED
    BY <1>1, <1>2 DEF Found
<1>4. \A x \in S : v[x] = w[x]
  <2> HIDE DEF longer
  <2> QED
    BY <1>1, <1>3 DEF PartSeconds
<1>5. /\ IsFiniteSet(S) /\ w \in [S -> Nat]
      /\ IsFiniteSet(R) /\ v \in [R -> Nat]
  BY <1>1, FoundProperties
<1>6. PICK f : IsSum(f, w, S) /\ Uptime(dialect, parts) = f[S]
  BY UptimeIsSum
<1>7. PICK g : IsSum(g, v, R) /\ Uptime(dialect, longer) = g[R]
  BY <1>1, UptimeIsSum
<1> HIDE DEF S, R, w, v, y
<1>8. f[S] <= g[R]
  BY <1>3, <1>4, <1>5, <1>6, <1>7, SumGrows
<1> QED
  BY <1>6, <1>7, <1>8

(* The utilizations of a listing are percentages. *)
LEMMA UtilizationsProperties ==
    ASSUME NEW dialect, NEW listing \in Seq(FileSystems)
    PROVE  Utilizations(dialect, listing) \in SUBSET (0..100)
<1>1. ASSUME NEW p \in DOMAIN listing, listing[p].total > 0
      PROVE  Utilization(dialect, listing[p]) \in 0..100
  <2> DEFINE total == listing[p].total
             used == listing[p].used
  <2>1. total \in Nat /\ used \in Nat /\ used <= total /\ total > 0
    BY <1>1 DEF FileSystems
  <2> HIDE DEF total, used
  <2>2. (100 * used) \div total \in 0..100
    <3> DEFINE q == (100 * used) \div total
    <3>1. q \in Int /\ total * q <= 100 * used /\ 100 * used < total * q + total /\ 100 * used \in Nat
      BY <2>1
    <3>2. q >= 0
      BY <2>1, <3>1
    <3>3. q <= 100
      BY <2>1, <3>1
    <3>4. /\ q \in 0..100
          /\ q = (100 * used) \div total
      <4> HIDE DEF q
      <4>1. q \in 0..100
        BY <3>1, <3>2, <3>3
      <4> QED
        BY <4>1 DEF q
    <3> HIDE DEF q
    <3> QED
      BY <3>4
  <2> QED
    BY <2>2 DEF Utilization, total, used
<1> QED
  BY <1>1 DEF Utilizations

(* A line more, no emptier a file system. *)
LEMMA FlashGrows ==
    ASSUME NEW dialect, NEW listing \in Seq(FileSystems), NEW fs \in FileSystems
    PROVE  Flash(dialect, listing) <= Flash(dialect, Append(listing, fs))
<1> DEFINE longer == Append(listing, fs)
           S == {0} \cup Utilizations(dialect, listing)
           R == {0} \cup Utilizations(dialect, longer)
<1>1. /\ longer \in Seq(FileSystems)
      /\ \A p \in DOMAIN listing : p \in DOMAIN longer /\ longer[p] = listing[p]
  OBVIOUS
<1>2. S \subseteq R
  <2> HIDE DEF longer
  <2> QED
    BY <1>1 DEF Utilizations
<1>3. S \in SUBSET (0..100) /\ R \in SUBSET (0..100)
  <2>1. 0 \in 0..100
    OBVIOUS
  <2>2. /\ Utilizations(dialect, listing) \in SUBSET (0..100)
        /\ Utilizations(dialect, longer) \in SUBSET (0..100)
    <3> HIDE DEF longer
    <3> QED
      BY <1>1, UtilizationsProperties
  <2> QED
    BY Zenon, <2>1, <2>2
<1>4. Flash(dialect, listing) = Max(S) /\ Flash(dialect, longer) = Max(R)
  BY DEF Flash
<1>5. 0 \in S
  OBVIOUS
<1> HIDE DEF S, R, longer
<1>6. Max(S) \in S
  BY <1>3, <1>5, MaxIsGreatest
<1>7. Max(R) \in R /\ \A y \in R : Max(R) >= y
  <2>1. R # {}
    BY <1>2, <1>5
  <2>2. R \in SUBSET Nat /\ 100 \in Nat /\ \A x \in R : x <= 100
    BY <1>3
  <2> QED
    BY <2>1, <2>2, MaxIsGreatest
<1>8. Max(S) <= Max(R)
  BY <1>2, <1>3, <1>6, <1>7
<1> QED
  BY <1>4, <1>8 DEF longer

(* A line more, no VLANs less. *)
LEMMA VLANsGrow ==
    ASSUME NEW table \in Seq(VLANStates), NEW state \in VLANStates
    PROVE  /\ VLANs(table).count <= VLANs(Append(table, state)).count
           /\ VLANs(table).active <= VLANs(Append(table, state)).active
<1> DEFINE longer == Append(table, state)
           With(text, states) == {p \in DOMAIN text : text[p] \in states}
<1>1. /\ longer \in Seq(VLANStates)
      /\ \A p \in DOMAIN table : p \in DOMAIN longer /\ longer[p] = table[p]
      /\ DOMAIN table = 1..Len(table) /\ DOMAIN longer = 1..Len(longer)
  OBVIOUS
<1>2. ASSUME NEW states
      PROVE  Cardinality(With(table, states)) <= Cardinality(With(longer, states))
  <2>1. With(table, states) \subseteq With(longer, states)
    <3> HIDE DEF longer
    <3> QED
      BY <1>1
  <2>2. IsFiniteSet(1..Len(longer))
    BY <1>1, FS_Interval
  <2>3. IsFiniteSet(With(longer, states))
    <3>1. With(longer, states) \subseteq 1..Len(longer)
      <4> HIDE DEF longer
      <4> QED
        BY <1>1
    <3> QED
      BY <2>2, <3>1, FS_Subset
  <2> HIDE DEF With, longer
  <2> QED
    BY <2>1, <2>3, FS_Subset
<1>3. /\ VLANs(table).count = Cardinality(With(table, {"act/", "suspended"}))
      /\ VLANs(longer).count = Cardinality(With(longer, {"act/", "suspended"}))
  <2> HIDE DEF longer
  <2> QED
    BY DEF VLANs
<1>4. /\ VLANs(table).active = Cardinality(With(table, {"act/"}))
      /\ VLANs(longer).active = Cardinality(With(longer, {"act/"}))
  <2>1. ASSUME NEW text PROVE {p \in DOMAIN text : text[p] = "act/"} = With(text, {"act/"})
    OBVIOUS
  <2> HIDE DEF longer, With
  <2> QED
    BY <2>1 DEF VLANs
<1> HIDE DEF With, longer
<1> QED
  BY <1>2, <1>3, <1>4 DEF longer

(* Of a table that is cut short anywhere, nothing is read that is more     *)
(* than what is read from all of it: a VLAN table, a listing of file       *)
(* systems of any sizes, an uptime of any parts.                           *)
THEOREM CutTableIsLessHolds == Spec => CutTableIsLess
<1>1. TypeOK /\ [Next]_vars => Grows
  <2> SUFFICES ASSUME TypeOK, [Next]_vars PROVE Grows
    OBVIOUS
  <2>1. ASSUME input = "vlans"
        PROVE  /\ VLANs(answer).count <= VLANs(answer').count
               /\ VLANs(answer).active <= VLANs(answer').active
    <3>1. (\E state \in VLANStates : answer' = Append(answer, state)) \/ answer' = answer
      BY <2>1 DEF Next, vars, Line, Entry, Character, OpenTag, CloseTag, Text, Space, Marker, Bounded,
          Dialects
    <3>2. answer \in Seq(VLANStates)
      BY <2>1 DEF TypeOK
    <3>3. CASE \E state \in VLANStates : answer' = Append(answer, state)
      <4>1. PICK state \in VLANStates : answer' = Append(answer, state)
        BY <3>3
      <4> QED
        BY <3>2, <4>1, VLANsGrow
    <3>4. CASE answer' = answer
      <4>1. IsFiniteSet(DOMAIN answer)
        BY <3>2, FS_Interval
      <4>2. VLANs(answer).count \in Nat /\ VLANs(answer).active \in Nat
        BY <4>1, FS_Subset, FS_CardinalityType DEF VLANs
      <4> QED
        BY <3>4, <4>2
    <3> QED
      BY <3>1, <3>3, <3>4
  <2>2. ASSUME input = "files", NEW d \in Dialects
        PROVE  Flash(d, answer) <= Flash(d, answer')
    <3>1. (\E fs \in FileSystems : answer' = Append(answer, fs)) \/ answer' = answer
      <4>1. CASE Entry
        <5>1. PICK total \in 0..Sizes : \E used \in 0..total :
                answer' = Append(answer, FileSystem(total, used))
          BY <2>2, <4>1 DEF Entry
        <5>2. PICK used \in 0..total : answer' = Append(answer, FileSystem(total, used))
          BY <5>1
        <5>3. FileSystem(total, used) \in FileSystems
          BY DEF FileSystem, FileSystems
        <5> QED
          BY <5>2, <5>3
      <4>2. CASE ~ Entry
        BY <2>2, <4>2 DEF Next, vars, Line, Character, OpenTag, CloseTag, Text, Space, Marker, Bounded,
          Dialects
      <4> QED
        BY <4>1, <4>2
    <3>2. answer \in Seq(FileSystems)
      BY <2>2 DEF TypeOK
    <3>3. CASE \E fs \in FileSystems : answer' = Append(answer, fs)
      <4>1. PICK fs \in FileSystems : answer' = Append(answer, fs)
        BY <3>3
      <4> QED
        BY <3>2, <4>1, FlashGrows
    <3>4. CASE answer' = answer
      <4> DEFINE S == {0} \cup Utilizations(d, answer)
      <4>1. S \in SUBSET (0..100) /\ 0 \in S
        <5>1. 0 \in 0..100
          OBVIOUS
        <5>2. Utilizations(d, answer) \in SUBSET (0..100)
          BY <3>2, UtilizationsProperties
        <5> QED
          BY Zenon, <5>1, <5>2
      <4> HIDE DEF S
      <4>2. Max(S) \in S
        BY <4>1, MaxIsGreatest
      <4>3. Flash(d, answer) \in Int
        BY <4>1, <4>2 DEF Flash, S
      <4> QED
        BY <3>4, <4>3
    <3> QED
      BY <3>1, <3>3, <3>4
  <2>3. ASSUME input = "uptime", NEW d \in Dialects
        PROVE  Uptime(d, answer) <= Uptime(d, answer')
    <3>1. (\E part \in Parts : answer' = Append(answer, part)) \/ answer' = answer
      <4>1. CASE Entry
        <5>1. PICK val \in 1..2, unit \in UNION {Units(dd) : dd \in Dialects} :
                answer' = Append(answer, Part(val, unit))
          BY <2>3, <4>1 DEF Entry
        <5>2. Part(val, unit) \in Parts
          BY DEF Part, Parts
        <5> QED
          BY <5>1, <5>2
      <4>2. CASE ~ Entry
        BY <2>3, <4>2 DEF Next, vars, Line, Character, OpenTag, CloseTag, Text, Space, Marker, Bounded,
          Dialects
      <4> QED
        BY <4>1, <4>2
    <3>2. answer \in Seq(Parts)
      BY <2>3 DEF TypeOK
    <3>3. CASE \E part \in Parts : answer' = Append(answer, part)
      <4>1. PICK part \in Parts : answer' = Append(answer, part)
        BY <3>3
      <4> QED
        BY <3>2, <4>1, UptimeGrows
    <3>4. CASE answer' = answer
      <4>1. Uptime(d, answer) \in Nat
        BY <3>2, UptimeIsNat
      <4> QED
        BY <3>4, <4>1
    <3> QED
      BY <3>1, <3>3, <3>4
  <2> QED
    BY <2>1, <2>2, <2>3 DEF Grows
<1> QED
  BY <1>1, TypeCorrect, PTL DEF Spec, CutTableIsLess
=============================================================================
