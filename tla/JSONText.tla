------------------------------- MODULE JSONText -------------------------------
(***************************************************************************)
(* parseJSON of internal/provider/json/json.go: it takes the text from the *)
(* first opening brace to the one that balances it and leaves the rest to  *)
(* json.Unmarshal.  A text is a sequence of opening and closing braces,    *)
(* quotes that start or end a string, and anything else.                   *)
(***************************************************************************)
EXTENDS Integers, Sequences, FiniteSetsExt

Characters == {"open", "close", "quote", "other"}

(* strings.Index; 0 when there is none. *)
FirstBrace(raw) ==
    LET braces == {i \in DOMAIN raw : raw[i] = "open"}
    IN  IF braces = {} THEN 0 ELSE Min(braces)

Step(c) == IF c = "open" THEN 1 ELSE IF c = "close" THEN -1 ELSE 0

(* The loop's depth after character i. *)
Depth(raw) ==
    LET depth[i \in 0..Len(raw)] ==
          IF i < FirstBrace(raw) \/ i = 0 THEN 0 ELSE depth[i - 1] + Step(raw[i])
    IN  depth

(* Deviation: up to the last closing brace. *)
SpanToLast(raw) ==
    LET braces == {i \in DOMAIN raw : raw[i] = "close"}
    IN  IF braces = {} THEN 0 ELSE Max(braces)

(* Where the text it takes ends; 0 stands for the empty text that is left  *)
(* when no brace balances the first.                                       *)
SpanEnd(raw) ==
    LET balanced == {i \in DOMAIN raw : i >= FirstBrace(raw) /\ raw[i] = "close" /\ Depth(raw)[i] = 0}
    IN  IF FirstBrace(raw) = 0 \/ balanced = {} THEN 0 ELSE Min(balanced)

-----------------------------------------------------------------------------
(* The object as JSON has it, where braces inside of strings are text.     *)

InString(raw) ==
    LET in[i \in 0..Len(raw)] ==
          IF i < FirstBrace(raw) \/ i = 0 THEN FALSE
          ELSE IF raw[i] = "quote" THEN ~in[i - 1] ELSE in[i - 1]
    IN  in

(* The excess of opening over closing braces in the strings up to i. *)
Excess(raw) ==
    LET excess[i \in 0..Len(raw)] ==
          IF i = 0 THEN 0
          ELSE excess[i - 1] + IF InString(raw)[i] THEN Step(raw[i]) ELSE 0
    IN  excess

Nesting(raw) ==
    LET nesting[i \in 0..Len(raw)] ==
          IF i < FirstBrace(raw) \/ i = 0 THEN 0
          ELSE nesting[i - 1] + IF InString(raw)[i] THEN 0 ELSE Step(raw[i])
    IN  nesting

(* Where the first object ends, 0 when it is cut short. *)
ObjectEnd(raw) ==
    LET ends == {i \in DOMAIN raw : i >= FirstBrace(raw) /\ raw[i] = "close"
                                      /\ ~InString(raw)[i] /\ Nesting(raw)[i] = 0}
    IN  IF FirstBrace(raw) = 0 \/ ends = {} THEN 0 ELSE Min(ends)
=============================================================================
