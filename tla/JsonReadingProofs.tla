-------------------------- MODULE JsonReadingProofs ---------------------------
(***************************************************************************)
(* For every depth of the parser's stack, every text and every derivee:    *)
(* the stack stays within its array and is, while the text is valid, the   *)
(* text's open containers; a valid text is refused only if it is nested    *)
(* too deep or has a number the parser does not read as one, and one that  *)
(* is cut off is reported.                                                 *)
(***************************************************************************)
EXTENDS JsonReading, SequenceTheorems, TLAPS

-----------------------------------------------------------------------------
(* The stack of a text, cell by cell.                                      *)

CellOf(c) == IF c = "object" THEN "state_object_key" ELSE "state_array_item"

MemberWaits(d) == d.at \in {"colon", "value"}

\* s has the reserved cell, one for each container that is open, and one for
\* a member that waits for its value.
Matches(s, d) ==
    /\ Len(s) = Len(d.open) + (IF MemberWaits(d) THEN 2 ELSE 1)
    /\ s[1] = "state_bad"
    /\ \A i \in 1 .. Len(d.open) : s[i + 1] = CellOf(d.open[i])
    /\ MemberWaits(d) => s[Len(s)] = "state_object_value"

LEMMA OneCell == ASSUME NEW s, Len(s) >= 2 PROVE s # <<"state_bad">>
<1>1. Len(<<"state_bad">>) = 1
  OBVIOUS
<1>2. ~(1 >= 2)
  OBVIOUS
<1>3. QED
  BY <1>1, <1>2, Zenon

LEMMA StackOfMatches ==
    ASSUME NEW d \in Text
    PROVE  StackOf(d) \in Seq(State) /\ Matches(StackOf(d), d)
<1> DEFINE bottom == <<"state_bad">>
           cells == [i \in DOMAIN d.open |-> CellOf(d.open[i])]
           member == IF MemberWaits(d) THEN <<"state_object_value">> ELSE <<>>
<1>1. d.open \in Seq(Container) /\ Len(d.open) \in Nat
  BY DEF Text
<1>2. /\ cells \in Seq(State)
      /\ Len(cells) = Len(d.open)
      /\ \A i \in 1 .. Len(d.open) : cells[i] = CellOf(d.open[i])
  <2>1. DOMAIN d.open = 1 .. Len(d.open)
    BY <1>1
  <2>2. \A i \in 1 .. Len(d.open) : CellOf(d.open[i]) \in State
    BY DEF State, CellOf
  <2>3. cells \in [1 .. Len(d.open) -> State]
    BY <2>1, <2>2
  <2> HIDE DEF cells
  <2>4. cells \in Seq(State)
    BY <1>1, <2>3, SeqDef
  <2>5. DOMAIN cells = 1 .. Len(cells) /\ Len(cells) \in Nat
    BY <2>4, LenProperties
  <2>6. DOMAIN cells = 1 .. Len(d.open)
    BY <2>3
  <2>7. Len(cells) = Len(d.open)
    BY <1>1, <2>5, <2>6
  <2>8. \A i \in 1 .. Len(d.open) : cells[i] = CellOf(d.open[i])
    BY <2>1 DEF cells
  <2>9. QED
    BY <2>4, <2>7, <2>8
<1>3. member \in Seq(State) /\ bottom \in Seq(State) /\ Len(bottom) = 1
  <2>1. "state_bad" \in State /\ "state_object_value" \in State
    BY DEF State
  <2>2. <<"state_object_value">> \in Seq(State) /\ <<"state_bad">> \in Seq(State)
    BY <2>1
  <2>3. <<>> \in Seq(State)
    OBVIOUS
  <2>4. CASE MemberWaits(d)
    BY <2>2, <2>4
  <2>5. CASE ~MemberWaits(d)
    BY <2>2, <2>3, <2>5
  <2>6. QED
    BY <2>4, <2>5
<1>4. StackOf(d) = (bottom \o cells) \o member
  BY DEF StackOf, CellOf, MemberWaits
<1> HIDE DEF cells
<1>5. /\ bottom \o cells \in Seq(State)
      /\ Len(bottom \o cells) = Len(d.open) + 1
      /\ (bottom \o cells)[1] = "state_bad"
      /\ \A i \in 1 .. Len(d.open) : (bottom \o cells)[i + 1] = CellOf(d.open[i])
  BY <1>1, <1>2, <1>3, ConcatProperties
<1>6. CASE MemberWaits(d)
  BY <1>1, <1>3, <1>4, <1>5, <1>6, ConcatProperties DEF Matches
<1>7. CASE ~MemberWaits(d)
  BY <1>1, <1>3, <1>4, <1>5, <1>7, ConcatProperties DEF Matches
<1>8. QED
  BY <1>6, <1>7

LEMMA MatchesIsStack ==
    ASSUME NEW d \in Text, NEW s \in Seq(State), Matches(s, d)
    PROVE  s = StackOf(d)
<1> DEFINE r == StackOf(d)
<1>1. r \in Seq(State) /\ Matches(r, d)
  BY StackOfMatches
<1> HIDE DEF r
<1>2. Len(r) = Len(s) /\ Len(d.open) \in Nat
  BY <1>1 DEF Matches, Text
<1>3. ASSUME NEW i \in 1 .. Len(s) PROVE s[i] = r[i]
  <2>1. CASE i = 1
    BY <1>1, <2>1 DEF Matches
  <2>2. CASE i \in 2 .. Len(d.open) + 1
    <3>1. i - 1 \in 1 .. Len(d.open) /\ (i - 1) + 1 = i
      BY <1>2, <2>2
    <3>2. s[(i - 1) + 1] = r[(i - 1) + 1]
      BY <1>1, <3>1 DEF Matches
    <3>3. QED
      BY <3>1, <3>2
  <2>3. CASE i > Len(d.open) + 1
    <3>1. MemberWaits(d) /\ i = Len(s)
      <4>1. CASE MemberWaits(d)
        BY <1>2, <2>3, <4>1 DEF Matches, MemberWaits
      <4>2. CASE ~MemberWaits(d)
        BY <1>2, <2>3, <4>2 DEF Matches, MemberWaits
      <4>3. QED
        BY <4>1, <4>2
    <3>2. s[Len(s)] = "state_object_value" /\ r[Len(r)] = "state_object_value"
      BY <1>1, <3>1 DEF Matches, MemberWaits
    <3>3. QED
      BY <1>2, <3>1, <3>2
  <2>4. QED
    BY <1>2, <2>1, <2>2, <2>3
<1>4. r = s
  BY <1>1, <1>2, <1>3, SeqEqual
<1>5. QED
  BY <1>4 DEF r

-----------------------------------------------------------------------------
(* Whatever the text, the stack stays in its array.                        *)

StackOK ==
    /\ stack \in Seq(State)
    /\ Len(stack) \in 1 .. MaxDepth + 1
    /\ stack[1] = "state_bad"

\* The stacks a step can leave: the one there was, one cell more or less, or
\* the cell of a member turned into that of its value.
LEMMA ReadStack ==
    ASSUME StackOK, NEW token \in Token, Read(token)
    PROVE  \/ stack' = stack
           \/ ~full /\ \E s \in State : stack' = Pushed(s)
           \/ top = "state_object_value" /\ \E s \in State : stack' = Transformed(s)
           \/ (CanClose \/ top = "state_object_value") /\ stack' = Restored
<1> USE DEF State, Go, Stop, TooDeep, Fail, Abort
<1>1. CASE token = "lbrace" /\ Open("state_object_key", <<"on_new_object">>)
  BY <1>1 DEF Open
<1>2. CASE token = "lbracket" /\ Open("state_array_item", <<"on_new_array">>)
  BY <1>2 DEF Open
<1>3. CASE token = "rbrace" /\ Close(<<"on_object_end">>)
  BY <1>3 DEF Close
<1>4. CASE token = "rbracket" /\ Close(<<"on_array_end">>)
  BY <1>4 DEF Close
<1>5. CASE token = "comma" /\ Comma
  BY <1>5 DEF Comma
<1>6. CASE token = "colon" /\ Go(<<>>, stack, FALSE)
  BY <1>6
<1>7. CASE token = "string" /\ String(FALSE)
  BY <1>7 DEF String
<1>8. CASE token = "halfstring" /\ String(TRUE)
  BY <1>8 DEF String
<1>9. CASE token \in {"literal", "number", "exponent", "misspelt"}
           /\ (\E looks \in BOOLEAN : Value(looks))
  BY <1>9 DEF Value
<1>10. CASE token = "misspelt" /\ Misspelt
  BY <1>9, <1>10 DEF Misspelt
<1>11. CASE token = "other" /\ Other
  BY <1>11 DEF Other
<1>12. CASE token = "nul" /\ Stop("returned", <<>>, stack)
  BY <1>12
<1>13. CASE token = "exponent" /\ Exponent
  BY <1>9, <1>13 DEF Exponent
<1>14. QED
  BY <1>1, <1>2, <1>3, <1>4, <1>5, <1>6, <1>7, <1>8, <1>9, <1>10, <1>11, <1>12,
     <1>13 DEF Read

LEMMA PushedOK ==
    ASSUME StackOK, NEW s \in State
    PROVE  /\ Pushed(s) \in Seq(State)
           /\ Len(Pushed(s)) = Len(stack) + 1
           /\ \A i \in 1 .. Len(stack) : Pushed(s)[i] = stack[i]
           /\ Pushed(s)[Len(stack) + 1] = s
BY AppendProperties DEF StackOK, Pushed

LEMMA TransformedOK ==
    ASSUME StackOK, NEW s \in State
    PROVE  /\ Transformed(s) \in Seq(State)
           /\ Len(Transformed(s)) = Len(stack)
           /\ \A i \in 1 .. Len(stack) - 1 : Transformed(s)[i] = stack[i]
           /\ Transformed(s)[Len(stack)] = s
BY ExceptSeq DEF StackOK, Transformed

LEMMA RestoredOK ==
    ASSUME StackOK
    PROVE  /\ Restored \in Seq(State)
           /\ Len(Restored) = Len(stack) - 1
           /\ \A i \in 1 .. Len(stack) - 1 : Restored[i] = stack[i]
<1> DEFINE m == Len(stack) - 1
<1>1. m \in Nat /\ \A i \in 1 .. m : stack[i] \in State
  BY DEF StackOK
<1> HIDE DEF m
<1>2. /\ SubSeq(stack, 1, m) \in Seq(State)
      /\ Len(SubSeq(stack, 1, m)) = m
      /\ \A i \in 1 .. m : SubSeq(stack, 1, m)[i] = stack[i]
  BY <1>1, SubSeqProperties
<1>3. QED
  BY <1>2 DEF Restored, m

LEMMA StackStaysOK ==
    ASSUME StackOK, NEW token \in Token, Read(token)
    PROVE  StackOK'
<1> USE MaxDepthAssumption
<1>1. CASE stack' = stack
  BY <1>1 DEF StackOK
<1>2. ASSUME ~full, NEW s \in State, stack' = Pushed(s) PROVE StackOK'
  <2>1. Len(stack) + 1 \in 1 .. MaxDepth + 1
    BY <1>2 DEF full, StackOK
  <2>2. QED
    BY <1>2, <2>1, PushedOK DEF StackOK
<1>3. top = "state_object_value" => Len(stack) >= 2
  BY DEF top, StackOK
<1>4. ASSUME top = "state_object_value", NEW s \in State, stack' = Transformed(s)
      PROVE StackOK'
  BY <1>3, <1>4, TransformedOK DEF StackOK
<1>5. CASE (CanClose \/ top = "state_object_value") /\ stack' = Restored
  BY <1>3, <1>5, RestoredOK DEF StackOK, CanClose
<1>6. QED
  BY <1>1, <1>2, <1>4, <1>5, ReadStack

-----------------------------------------------------------------------------
(* What the parser's stack is after the texts that can come next.          *)

WellFormed(d) ==
    /\ d \in Text
    /\ d.at \in {"text", "end"} <=> d.open = <<>>
    /\ d.at \in {"colon", "value", "key"} => InObject(d)
    /\ d.at = "element" => InArray(d)

At(d, place) == [d EXCEPT !.at = place]

\* Between two steps, the parser is reading a valid text.
Reading ==
    /\ StackOK
    /\ status = "parsing"
    /\ WellFormed(text)
    /\ Matches(stack, text)

LEMMA TopOfText ==
    ASSUME Reading
    PROVE  /\ text.open = <<>> => top = "state_bad" /\ Len(stack) = 1
           /\ text.open # <<>> => Len(stack) >= 2
           /\ MemberWaits(text) =>
                 top = "state_object_value" /\ Len(stack) >= 3
           /\ InObject(text) /\ ~MemberWaits(text) => top = "state_object_key"
           /\ InArray(text) /\ ~MemberWaits(text) => top = "state_array_item"
<1> DEFINE n == Len(text.open)
<1>1. text.open \in Seq(Container) /\ n \in Nat /\ (n = 0 <=> text.open = <<>>)
  BY EmptySeq DEF Reading, WellFormed, Text
<1>2. stack[1] = "state_bad" /\ \A i \in 1 .. n : stack[i + 1] = CellOf(text.open[i])
  BY DEF Reading, Matches
<1>3. CASE MemberWaits(text)
  <2>1. Len(stack) = n + 2 /\ stack[Len(stack)] = "state_object_value"
    BY <1>3 DEF Reading, Matches, MemberWaits
  <2>2. text.open # <<>>
    BY <1>3 DEF Reading, WellFormed, MemberWaits
  <2>3. QED
    BY <1>1, <1>3, <2>1, <2>2 DEF top
<1>4. CASE ~MemberWaits(text)
  <2>1. Len(stack) = n + 1
    BY <1>4 DEF Reading, Matches, MemberWaits
  <2>2. CASE text.open = <<>>
    BY <1>1, <1>2, <1>4, <2>1, <2>2 DEF top, InObject, InArray
  <2>3. CASE text.open # <<>>
    <3>1. top = CellOf(Innermost(text)) /\ Len(stack) >= 2
      BY <1>1, <1>2, <2>1, <2>3 DEF top, Innermost
    <3>2. QED
      BY <1>4, <2>3, <3>1 DEF CellOf, InObject, InArray
  <2>4. QED
    BY <2>2, <2>3
<1>5. QED
  BY <1>3, <1>4

LEMMA OpenedText ==
    ASSUME Reading, NEW c \in Container
    PROVE  /\ WellFormed(Opened(text, c))
           /\ ~MemberWaits(Opened(text, c))
           /\ Len(Opened(text, c).open) = Len(text.open) + 1
           /\ ~MemberWaits(text) => Matches(Pushed(CellOf(c)), Opened(text, c))
           /\ MemberWaits(text) => Matches(Transformed(CellOf(c)), Opened(text, c))
<1> DEFINE d == Opened(text, c)
           n == Len(text.open)
<1>1. text.open \in Seq(Container) /\ n \in Nat
  BY DEF Reading, WellFormed, Text
<1>2. /\ d.open \in Seq(Container) /\ Len(d.open) = n + 1
      /\ \A i \in 1 .. n : d.open[i] = text.open[i]
      /\ d.open[n + 1] = c
      /\ d.at = "first"
  BY <1>1, AppendProperties DEF Opened
<1>3. WellFormed(d)
  <2>1. d \in Text
    BY <1>2 DEF Opened, Text, Place
  <2>2. d.open # <<>>
    BY <1>1, <1>2
  <2>3. QED
    BY <1>2, <2>1, <2>2 DEF WellFormed
<1>4. ~MemberWaits(d)
  BY <1>2 DEF MemberWaits
<1> HIDE DEF d
<1>5. CellOf(c) \in State /\ stack \in Seq(State) /\ Len(stack) \in Nat
  BY DEF CellOf, State, Reading, StackOK
<1>6. \A i \in 1 .. n : stack[i + 1] = CellOf(d.open[i])
  BY <1>2 DEF Reading, Matches
<1>7. ASSUME ~MemberWaits(text) PROVE Matches(Pushed(CellOf(c)), d)
  <2>1. Len(stack) = n + 1 /\ stack[1] = "state_bad"
    BY <1>7 DEF Reading, Matches, MemberWaits
  <2>2. Len(Pushed(CellOf(c))) = Len(d.open) + 1 /\ Pushed(CellOf(c))[1] = "state_bad"
    <3>1. /\ Len(Pushed(CellOf(c))) = Len(stack) + 1
          /\ \A i \in 1 .. Len(stack) : Pushed(CellOf(c))[i] = stack[i]
      BY <1>5, PushedOK DEF Reading
    <3>2. QED
      BY <1>1, <1>2, <2>1, <3>1
  <2>3. ASSUME NEW i \in 1 .. Len(d.open)
        PROVE  Pushed(CellOf(c))[i + 1] = CellOf(d.open[i])
    <3>1. CASE i = n + 1
      BY <1>1, <1>2, <1>5, <2>1, <3>1, PushedOK DEF Reading
    <3>2. CASE i \in 1 .. n
      <4>1. stack[i + 1] = CellOf(d.open[i])
        BY <1>6, <3>2
      <4>2. Pushed(CellOf(c))[i + 1] = stack[i + 1]
        BY <1>1, <1>5, <2>1, <3>2, PushedOK DEF Reading
      <4>3. QED
        BY <4>1, <4>2
    <3>3. QED
      BY <1>1, <1>2, <3>1, <3>2
  <2>4. QED
    BY <1>4, <2>2, <2>3 DEF Matches, MemberWaits
<1>8. ASSUME MemberWaits(text) PROVE Matches(Transformed(CellOf(c)), d)
  <2>1. Len(stack) = n + 2 /\ stack[1] = "state_bad"
    BY <1>8 DEF Reading, Matches, MemberWaits
  <2>2. Len(Transformed(CellOf(c))) = Len(d.open) + 1
        /\ Transformed(CellOf(c))[1] = "state_bad"
    BY <1>1, <1>2, <1>5, <2>1, TransformedOK DEF Reading
  <2>3. ASSUME NEW i \in 1 .. Len(d.open)
        PROVE  Transformed(CellOf(c))[i + 1] = CellOf(d.open[i])
    <3>1. CASE i = n + 1
      BY <1>1, <1>2, <1>5, <2>1, <3>1, TransformedOK DEF Reading
    <3>2. CASE i \in 1 .. n
      <4>1. stack[i + 1] = CellOf(d.open[i])
        BY <1>6, <3>2
      <4>2. Transformed(CellOf(c))[i + 1] = stack[i + 1]
        BY <1>1, <1>5, <2>1, <3>2, TransformedOK DEF Reading
      <4>3. QED
        BY <4>1, <4>2
    <3>3. QED
      BY <1>1, <1>2, <3>1, <3>2
  <2>4. QED
    BY <1>4, <2>2, <2>3 DEF Matches, MemberWaits
<1>9. QED
  BY <1>2, <1>3, <1>4, <1>7, <1>8 DEF d

LEMMA ClosedText ==
    ASSUME Reading, text.open # <<>>, ~MemberWaits(text)
    PROVE  WellFormed(Closed(text)) /\ Matches(Restored, Closed(text))
<1> DEFINE d == Closed(text)
           n == Len(text.open)
<1>1. text.open \in Seq(Container) /\ n \in Nat \ {0}
  BY EmptySeq DEF Reading, WellFormed, Text
<1>2. /\ SubSeq(text.open, 1, n - 1) \in Seq(Container)
      /\ Len(SubSeq(text.open, 1, n - 1)) = n - 1
      /\ \A i \in 1 .. n - 1 : SubSeq(text.open, 1, n - 1)[i] = text.open[i]
  BY <1>1, SubSeqProperties
<1>3. /\ d.open \in Seq(Container) /\ Len(d.open) = n - 1
      /\ \A i \in 1 .. n - 1 : d.open[i] = text.open[i]
      /\ d.at = IF d.open = <<>> THEN "end" ELSE "next"
  BY <1>2 DEF Closed
<1>4. WellFormed(d) /\ ~MemberWaits(d)
  BY <1>2, <1>3 DEF Closed, WellFormed, Text, Place, MemberWaits
<1> HIDE DEF d
<1>5. Len(stack) = n + 1 /\ stack[1] = "state_bad" /\ Len(stack) \in Nat
  BY DEF Reading, Matches, MemberWaits, StackOK
<1>6. ASSUME NEW i \in 1 .. n - 1 PROVE stack[i + 1] = CellOf(d.open[i])
  <2>1. i \in 1 .. n /\ d.open[i] = text.open[i]
    BY <1>1, <1>3
  <2>2. QED
    BY <2>1 DEF Reading, Matches
<1>7. /\ Len(Restored) = n
      /\ \A i \in 1 .. n : Restored[i] = stack[i]
  BY <1>5, RestoredOK DEF Reading
<1>8. \A i \in 1 .. n - 1 : Restored[i + 1] = CellOf(d.open[i])
  BY <1>1, <1>6, <1>7
<1>9. QED
  BY <1>1, <1>3, <1>4, <1>5, <1>7, <1>8 DEF Matches, MemberWaits, d

LEMMA MovedText ==
    ASSUME Reading, NEW place \in Place, ~MemberWaits(text),
           place \notin {"colon", "value"}
    PROVE  Matches(stack, At(text, place))
BY DEF Reading, WellFormed, Matches, MemberWaits, At, Text

LEMMA KeyText ==
    ASSUME Reading, ~MemberWaits(text)
    PROVE  Matches(Pushed("state_object_value"), At(text, "colon"))
<1> DEFINE n == Len(text.open)
           s == Pushed("state_object_value")
<1>1. n \in Nat /\ Len(stack) = n + 1 /\ stack[1] = "state_bad"
  BY DEF Reading, WellFormed, Text, Matches, MemberWaits
<1>2. /\ Len(s) = n + 2 /\ s[n + 2] = "state_object_value"
      /\ \A i \in 1 .. n + 1 : s[i] = stack[i]
  BY <1>1, PushedOK DEF Reading, State
<1> HIDE DEF s
<1>3. s[1] = "state_bad" /\ \A i \in 1 .. n : s[i + 1] = CellOf(text.open[i])
  BY <1>1, <1>2 DEF Reading, Matches
<1>4. At(text, "colon").open = text.open /\ At(text, "colon").at = "colon"
  BY DEF Reading, WellFormed, Text, At
<1>5. QED
  BY <1>2, <1>3, <1>4 DEF Matches, MemberWaits, s

LEMMA ColonText ==
    ASSUME Reading, MemberWaits(text)
    PROVE  Matches(stack, At(text, "value"))
BY DEF Reading, WellFormed, Matches, MemberWaits, At, Text

LEMMA MemberText ==
    ASSUME Reading, MemberWaits(text)
    PROVE  Matches(Restored, At(text, "next"))
<1> DEFINE n == Len(text.open)
<1>1. n \in Nat /\ Len(stack) = n + 2 /\ stack[1] = "state_bad"
  BY DEF Reading, WellFormed, Text, Matches, MemberWaits
<1>2. /\ Len(Restored) = n + 1
      /\ \A i \in 1 .. n + 1 : Restored[i] = stack[i]
  BY <1>1, RestoredOK DEF Reading
<1>3. Restored[1] = "state_bad" /\ \A i \in 1 .. n : Restored[i + 1] = CellOf(text.open[i])
  BY <1>1, <1>2 DEF Reading, Matches
<1>4. At(text, "next").open = text.open /\ At(text, "next").at = "next"
  BY DEF Reading, WellFormed, Text, At
<1>5. QED
  BY <1>2, <1>3, <1>4 DEF Matches, MemberWaits

LEMMA PlacesOK ==
    ASSUME Reading, NEW place \in Place, text.open # <<>>,
           place \notin {"text", "end"},
           place \in {"colon", "value", "key"} => InObject(text),
           place = "element" => InArray(text)
    PROVE  WellFormed(At(text, place))
BY DEF Reading, WellFormed, Text, At, InObject, InArray, Innermost

-----------------------------------------------------------------------------
(* One step through a valid text.                                          *)

\* How many cells a text needs.
Cells(d) == Len(d.open) + (IF MemberWaits(d) THEN 2 ELSE 1)

LEMMA CellsOfStack ==
    ASSUME NEW d \in Text
    PROVE  Len(StackOf(d)) = Cells(d)
BY StackOfMatches DEF Matches, Cells

\* After an allowed token, the parser goes on as the grammar says, or it has
\* refused the token for want of a cell, or it has been terminated.
FollowsGrammar(token) ==
    /\ WellFormed(After(text, token))
    /\ status' = "parsing" =>
          calls' = Told(text, token) /\ Matches(stack', After(text, token))
    /\ status' \in {"returned", "aborted"} =>
          Cells(After(text, token)) > MaxDepth + 1

\* A number that is split is an item twice, or is refused.
FollowsExponent ==
    /\ WellFormed(After(text, "exponent"))
    /\ status' = "parsing" =>
          /\ calls' = IF InArray(text) THEN Told(text, "exponent") \o Told(text, "exponent")
                      ELSE Told(text, "exponent")
          /\ Matches(stack', After(text, "exponent"))
    /\ status' \in {"returned", "aborted"} => has_error_handler

Follows(token) == IF token = "exponent" THEN FollowsExponent ELSE FollowsGrammar(token)

LEMMA OpenFollows ==
    ASSUME Reading, NEW token \in {"lbrace", "lbracket"},
           Allowed(text, token), Read(token)
    PROVE  FollowsGrammar(token)
<1> DEFINE c == IF token = "lbrace" THEN "object" ELSE "array"
<1>1. /\ After(text, token) = Opened(text, c)
      /\ c \in Container
      /\ CellOf(c) = IF token = "lbrace" THEN "state_object_key" ELSE "state_array_item"
  BY DEF After, Container, CellOf
<1>2. Open(CellOf(c), Told(text, token))
  BY <1>1 DEF Read, Told
<1> HIDE DEF c
<1>3. WellFormed(After(text, token))
  BY <1>1, OpenedText
<1>4. ValuePlace(text)
  BY DEF Allowed
<1>5. CASE MemberWaits(text)
  <2>1. top = "state_object_value"
    BY <1>5, TopOfText
  <2>2. Go(Told(text, token), Transformed(CellOf(c)), FALSE)
    BY <1>2, <2>1 DEF Open
  <2>3. Matches(Transformed(CellOf(c)), After(text, token))
    BY <1>1, <1>5, OpenedText
  <2>4. QED
    BY <1>3, <2>2, <2>3 DEF Go, FollowsGrammar
<1>6. CASE ~MemberWaits(text)
  <2>1. top \in {"state_bad", "state_array_item"}
    <3>1. CASE text.at = "text"
      BY <3>1, TopOfText DEF Reading, WellFormed
    <3>2. CASE text.at # "text"
      BY <1>4, <1>6, <3>2, TopOfText DEF Reading, WellFormed, ValuePlace, MemberWaits
    <3>3. QED
      BY <3>1, <3>2
  <2>2. IF full THEN TooDeep(<<>>) ELSE Go(Told(text, token), Pushed(CellOf(c)), FALSE)
    BY <1>2, <2>1 DEF Open
  <2>3. Matches(Pushed(CellOf(c)), After(text, token))
    BY <1>1, <1>6, OpenedText
  <2>4. Cells(After(text, token)) = Len(stack) + 1
    <3>1. Len(stack) = Len(text.open) + 1
      BY <1>6 DEF Reading, Matches, MemberWaits
    <3>2. Cells(After(text, token)) = Len(Opened(text, c).open) + 1
      BY <1>1, OpenedText DEF Cells, MemberWaits
    <3>3. QED
      BY <1>1, <3>1, <3>2, OpenedText
  <2>5. full => Cells(After(text, token)) > MaxDepth + 1
    BY <2>4, MaxDepthAssumption DEF full, Reading, StackOK
  <2>6. CASE full
    BY <1>3, <2>2, <2>5, <2>6 DEF TooDeep, Fail, Abort, FollowsGrammar
  <2>7. CASE ~full
    BY <1>3, <2>2, <2>3, <2>7 DEF Go, FollowsGrammar
  <2>8. QED
    BY <2>6, <2>7
<1>7. QED
  BY <1>5, <1>6

LEMMA CloseFollows ==
    ASSUME Reading, NEW token \in {"rbrace", "rbracket"},
           Allowed(text, token), Read(token)
    PROVE  FollowsGrammar(token)
<1>1. After(text, token) = Closed(text) /\ Close(Told(text, token))
  BY DEF After, Told, Read
<1>2. text.open # <<>> /\ ~MemberWaits(text)
  BY DEF Allowed, InObject, InArray, MemberWaits
<1>3. CanClose
  BY <1>2, TopOfText DEF CanClose
<1>4. Go(Told(text, token), Restored, FALSE)
  BY <1>1, <1>3 DEF Close
<1>5. WellFormed(After(text, token)) /\ Matches(Restored, After(text, token))
  BY <1>1, <1>2, ClosedText
<1>6. QED
  BY <1>4, <1>5 DEF Go, FollowsGrammar

LEMMA CommaFollows ==
    ASSUME Reading, Allowed(text, "comma"), Read("comma")
    PROVE  FollowsGrammar("comma")
<1> DEFINE place == IF InObject(text) THEN "key" ELSE "element"
<1>1. /\ text.at = "next" /\ Comma
      /\ After(text, "comma") = At(text, place) /\ Told(text, "comma") = <<>>
  BY DEF Allowed, Read, After, Told, At
<1>2. text.open # <<>> /\ ~MemberWaits(text)
  BY <1>1 DEF Reading, WellFormed, MemberWaits
<1>3. Go(<<>>, stack, FALSE)
  <2>1. Len(stack) >= 2 /\ Len(stack) \in Nat
    BY <1>2, TopOfText DEF Reading, StackOK
  <2>2. ~(Len(stack) <= 1)
    BY <2>1
  <2>3. QED
    BY <1>1, <2>2, Zenon DEF Comma
<1>4. InObject(text) \/ InArray(text)
  BY <1>2, EmptySeq DEF InObject, InArray, Innermost, Reading, WellFormed, Text, Container
<1>5. WellFormed(At(text, place))
  BY <1>2, <1>4, PlacesOK DEF Place
<1>6. Matches(stack, At(text, place))
  BY <1>2, MovedText DEF Place
<1>7. QED
  BY <1>1, <1>3, <1>5, <1>6 DEF Go, FollowsGrammar

LEMMA ColonFollows ==
    ASSUME Reading, Allowed(text, "colon"), Read("colon")
    PROVE  FollowsGrammar("colon")
<1>1. /\ text.at = "colon" /\ Go(<<>>, stack, FALSE)
      /\ After(text, "colon") = At(text, "value") /\ Told(text, "colon") = <<>>
  BY DEF Allowed, Read, After, Told, At
<1>2. text.open # <<>> /\ MemberWaits(text) /\ InObject(text)
  BY <1>1 DEF Reading, WellFormed, MemberWaits
<1>3. WellFormed(At(text, "value"))
  BY <1>2, PlacesOK DEF Place
<1>4. Matches(stack, At(text, "value"))
  BY <1>2, ColonText
<1>5. QED
  BY <1>1, <1>3, <1>4 DEF Go, FollowsGrammar

LEMMA ValueFollows ==
    ASSUME Reading, NEW token \in {"string", "literal", "number"},
           ~KeyPlace(text), Allowed(text, token), Read(token)
    PROVE  FollowsGrammar(token)
<1>1. ValuePlace(text) /\ text.at # "text" /\ After(text, token) = At(text, "next")
  BY DEF Allowed, After, At
<1>2. text.open # <<>>
  BY <1>1 DEF ValuePlace, InArray, Reading, WellFormed
<1>3. WellFormed(After(text, token))
  BY <1>1, <1>2, PlacesOK DEF Place
<1>4. CASE MemberWaits(text)
  <2>1. top = "state_object_value" /\ InObject(text)
    BY <1>4, TopOfText DEF Reading, WellFormed, MemberWaits
  <2>2. Told(text, token) = <<"on_value">>
    BY <2>1 DEF Told
  <2>3. \E looks \in BOOLEAN : Go(Told(text, token), Restored, looks)
    BY <2>1, <2>2 DEF Read, String, Value
  <2>4. Matches(Restored, After(text, token))
    BY <1>1, <1>4, MemberText
  <2>5. QED
    BY <1>3, <2>3, <2>4 DEF Go, Stop, FollowsGrammar
<1>5. CASE ~MemberWaits(text)
  <2>1. InArray(text) /\ ~InObject(text)
    BY <1>1, <1>5 DEF Reading, WellFormed, MemberWaits, ValuePlace, InArray, InObject
  <2>2. top = "state_array_item" /\ Told(text, token) = <<"on_array">>
    BY <1>5, <2>1, TopOfText DEF Told
  <2>3. \E looks \in BOOLEAN : Go(Told(text, token), stack, looks)
    BY <2>2 DEF Read, String, Value
  <2>4. Matches(stack, After(text, token))
    BY <1>1, <1>5, MovedText DEF Place
  <2>5. QED
    BY <1>3, <2>3, <2>4 DEF Go, Stop, FollowsGrammar
<1>6. QED
  BY <1>4, <1>5

LEMMA KeyFollows ==
    ASSUME Reading, KeyPlace(text), Read("string")
    PROVE  FollowsGrammar("string")
<1>1. After(text, "string") = At(text, "colon") /\ Told(text, "string") = <<"on_key">>
  BY DEF After, Told, At
<1>2. text.open # <<>> /\ InObject(text) /\ ~MemberWaits(text)
  BY DEF KeyPlace, InObject, Reading, WellFormed, MemberWaits
<1>3. top = "state_object_key"
  BY <1>2, TopOfText
<1>4. IF full THEN TooDeep(<<"on_key">>)
      ELSE Go(<<"on_key">>, Pushed("state_object_value"), TRUE)
  BY <1>3 DEF Read, String
<1>5. WellFormed(At(text, "colon")) /\ Matches(Pushed("state_object_value"), At(text, "colon"))
  BY <1>2, PlacesOK, KeyText DEF Place
<1>6. full => Cells(At(text, "colon")) > MaxDepth + 1
  <2>1. Cells(At(text, "colon")) = Len(text.open) + 2 /\ Len(stack) = Len(text.open) + 1
    BY <1>2 DEF Cells, At, MemberWaits, Reading, WellFormed, Text, Matches
  <2>2. Len(text.open) \in Nat
    BY DEF Reading, WellFormed, Text
  <2>3. QED
    BY <2>1, <2>2, MaxDepthAssumption DEF full
<1>7. CASE full
  BY <1>1, <1>4, <1>5, <1>6, <1>7 DEF TooDeep, Fail, Abort, FollowsGrammar
<1>8. CASE ~full
  BY <1>1, <1>4, <1>5, <1>8 DEF Go, Stop, FollowsGrammar
<1>9. QED
  BY <1>7, <1>8

LEMMA Doubled ==
    ASSUME NEW x PROVE <<x>> \o <<x>> = <<x, x>>
<1>1. <<x>> \in Seq({x}) /\ <<x, x>> \in Seq({x}) /\ Len(<<x>>) = 1 /\ Len(<<x, x>>) = 2
  OBVIOUS
<1>2. <<x>>[1] = x /\ <<x, x>>[1] = x /\ <<x, x>>[2] = x
  OBVIOUS
<1> DEFINE one == <<x>>
           two == <<x, x>>
<1> HIDE DEF one, two
<1>3. /\ one \o one \in Seq({x})
      /\ Len(one \o one) = 2
      /\ \A i \in 1 .. 2 : (one \o one)[i] = x
  <2>1. one \in Seq({x}) /\ Len(one) = 1 /\ one[1] = x
    BY <1>1, <1>2 DEF one
  <2>2. /\ one \o one \in Seq({x}) /\ Len(one \o one) = Len(one) + Len(one)
        /\ \A i \in 1 .. Len(one) + Len(one) :
              (one \o one)[i] = IF i <= Len(one) THEN one[i] ELSE one[i - Len(one)]
    BY <2>1, ConcatProperties
  <2>3. Len(one) + Len(one) = 2 /\ \A i \in 1 .. 2 : ~(i <= 1) => i - 1 = 1
    BY <2>1
  <2>4. \A i \in 1 .. 2 : i <= 1 => i = 1
    OBVIOUS
  <2>5. ASSUME NEW i \in 1 .. 2 PROVE (one \o one)[i] = x
    BY <2>1, <2>2, <2>3, <2>4
  <2>6. QED
    BY <2>2, <2>3, <2>5
<1>4. two \in Seq({x}) /\ Len(two) = 2 /\ \A i \in 1 .. 2 : two[i] = x
  <2>1. two \in Seq({x}) /\ Len(two) = 2 /\ two[1] = x /\ two[2] = x
    BY <1>1, <1>2 DEF two
  <2>2. QED
    BY <2>1
<1>5. one \o one = two
  BY <1>3, <1>4, SeqEqual
<1>6. QED
  BY <1>5 DEF one, two

LEMMA ExponentFollows ==
    ASSUME Reading, Allowed(text, "exponent"), Read("exponent")
    PROVE  FollowsExponent
<1>1. /\ ValuePlace(text) /\ text.at # "text" /\ Exponent
      /\ After(text, "exponent") = At(text, "next")
  <2>1. ValuePlace(text) /\ text.at # "text" /\ Exponent
    BY DEF Allowed, Read
  <2>2. ~KeyPlace(text)
    BY <2>1 DEF KeyPlace, ValuePlace, InObject, InArray
  <2>3. QED
    BY <2>1, <2>2 DEF After, At
<1>2. text.open # <<>> /\ ~KeyPlace(text)
  BY <1>1 DEF KeyPlace, ValuePlace, InObject, InArray, Reading, WellFormed
<1>3. WellFormed(After(text, "exponent"))
  BY <1>1, <1>2, PlacesOK DEF Place
<1>4. status' = "returned" => has_error_handler
  <2>1. ASSUME ~has_error_handler PROVE status' # "returned"
    BY <1>1, <2>1 DEF Exponent, Value, Go, Stop
  <2>2. QED
    BY <2>1
<1>5. status' # "aborted"
  BY <1>1 DEF Exponent, Value, Go, Stop, Fail
<1>6. CASE status' = "parsing" /\ MemberWaits(text)
  <2>1. top = "state_object_value" /\ InObject(text) /\ ~InArray(text)
    BY <1>6, TopOfText DEF Reading, WellFormed, MemberWaits, InObject, InArray
  <2>2. Told(text, "exponent") = <<"on_value">>
    BY <1>2, <2>1 DEF Told
  <2>3. calls' = Told(text, "exponent") /\ stack' = Restored
    BY <1>1, <1>6, <2>1, <2>2 DEF Exponent, Value, Go, Stop, Fail
  <2>4. Matches(Restored, After(text, "exponent"))
    BY <1>1, <1>6, MemberText
  <2>5. QED
    BY <1>3, <1>6, <2>1, <2>3, <2>4 DEF FollowsExponent
<1>7. CASE status' = "parsing" /\ ~MemberWaits(text)
  <2>1. InArray(text) /\ ~InObject(text)
    BY <1>1, <1>7 DEF Reading, WellFormed, MemberWaits, ValuePlace, InArray, InObject
  <2>2. top = "state_array_item" /\ Told(text, "exponent") = <<"on_array">>
    BY <1>2, <1>7, <2>1, TopOfText DEF Told
  <2>3. calls' = <<"on_array", "on_array">> /\ stack' = stack
    BY <1>1, <1>7, <2>2 DEF Exponent, Go, Stop, Fail
  <2>4. <<"on_array">> \o <<"on_array">> = <<"on_array", "on_array">>
    BY Doubled
  <2>5. Matches(stack, After(text, "exponent"))
    BY <1>1, <1>7, MovedText DEF Place
  <2>6. QED
    BY <1>3, <1>7, <2>1, <2>2, <2>3, <2>4, <2>5 DEF FollowsExponent
<1>8. QED
  BY <1>3, <1>4, <1>5, <1>6, <1>7 DEF FollowsExponent

LEMMA AllowedFollows ==
    ASSUME Reading, NEW token \in Token, Allowed(text, token), Read(token)
    PROVE  Follows(token)
<1>1. token \in {"lbrace", "lbracket", "rbrace", "rbracket", "comma", "colon",
                 "string", "literal", "number", "exponent"}
  BY DEF Allowed, Token
<1>2. ASSUME token \in {"literal", "number"} PROVE ~KeyPlace(text)
  <2>1. ValuePlace(text)
    BY <1>2 DEF Allowed
  <2>2. QED
    BY <2>1 DEF KeyPlace, ValuePlace, InObject, InArray
<1>3. QED
  BY <1>1, <1>2, OpenFollows, CloseFollows, CommaFollows, ColonFollows,
     ValueFollows, KeyFollows, ExponentFollows DEF Follows

-----------------------------------------------------------------------------
(* The inductive invariant.                                                *)

\* The grammar tells of a halfstring where a string could come, and the end
\* of a text in an open container, only to a reader of the text.
Inv ==
    /\ StackOK
    /\ status \in {"parsing", "returned", "terminated", "past", "aborted"}
    /\ has_error_handler \in BOOLEAN
    /\ valid \in BOOLEAN
    /\ split \in BOOLEAN
    /\ WellFormed(text)
    /\ valid /\ status = "parsing" => calls = Heard /\ Matches(stack, text)
    /\ OnlyDepthAndExponentsAreRefused
    /\ TruncationIsReported

LEMMA InitInv == Init => Inv
<1> SUFFICES ASSUME Init PROVE Inv
  OBVIOUS
<1>1. StackOK
  <2>1. "state_bad" \in State
    BY DEF State
  <2>2. QED
    BY <2>1, MaxDepthAssumption DEF Init, ParserInit, StackOK
<1>2. WellFormed(EmptyText) /\ Matches(<<"state_bad">>, EmptyText)
  BY DEF WellFormed, EmptyText, Text, Place, Matches, MemberWaits
<1>3. QED
  BY <1>1, <1>2 DEF Init, ParserInit, Inv, Heard, OnlyDepthAndExponentsAreRefused, TruncationIsReported

LEMMA ParseInv ==
    ASSUME Inv, Parse, Begin
    PROVE  Inv'
<1>1. StackOK'
  <2>1. "state_bad" \in State
    BY DEF State
  <2>2. QED
    BY <2>1, MaxDepthAssumption DEF Parse, StackOK
<1>2. WellFormed(EmptyText) /\ Matches(<<"state_bad">>, EmptyText)
  BY DEF WellFormed, EmptyText, Text, Place, Matches, MemberWaits
<1>3. QED
  BY <1>1, <1>2 DEF Inv, Parse, Begin, Heard, OnlyDepthAndExponentsAreRefused, TruncationIsReported

\* The end of the text, in a string or not.
LEMMA NulInv ==
    ASSUME Inv, valid, Read("nul"), Follow("nul")
    PROVE  /\ valid' /\ text' = text /\ told' = <<"nul">> /\ split' = FALSE
           /\ status' = "returned"
           /\ has_error_handler => (calls' # <<>> <=> text.open # <<>>)
<1>1. /\ status = "parsing" /\ status' = "returned"
      /\ calls' = IF has_error_handler /\ stack # <<"state_bad">>
                  THEN Append(<<>>, "unspecified") ELSE <<>>
  BY DEF Read, Stop
<1>2. Reading
  BY <1>1 DEF Reading, Inv
<1>3. stack = <<"state_bad">> <=> text.open = <<>>
  <2>1. CASE text.open = <<>>
    <3>1. stack \in Seq(State) /\ Len(stack) = 1 /\ stack[1] = "state_bad"
      BY <1>2, <2>1, TopOfText DEF Reading, StackOK
    <3>2. QED
      BY <2>1, <3>1
  <2>2. CASE text.open # <<>>
    BY <1>2, <2>2, TopOfText, OneCell
  <2>3. QED
    BY <2>1, <2>2
<1>4. QED
  BY <1>1, <1>3 DEF Follow

LEMMA HalfstringInv ==
    ASSUME Inv, valid, Read("halfstring"), Follow("halfstring")
    PROVE  /\ valid' /\ text' = text /\ told' = <<"halfstring">> /\ split' = FALSE
           /\ status' \in {"returned", "aborted"}
           /\ has_error_handler /\ status' = "returned" /\ Allowed(text, "string") =>
                 calls'[Len(calls')] \in Errors
<1> DEFINE Callback == {"on_key", "on_value", "on_array"} \cup Errors
<1>0. /\ <<"on_key">> \in Seq(Callback) /\ <<"on_value">> \in Seq(Callback)
      /\ <<"on_array">> \in Seq(Callback)
      /\ "too_deep" \in Errors /\ "unspecified" \in Errors
  BY DEF Errors
<1> HIDE DEF Callback
<1>1. status = "parsing" /\ String(TRUE)
  BY DEF Read
<1>2. Reading
  BY <1>1 DEF Reading, Inv
<1>3. valid' /\ text' = text /\ told' = <<"halfstring">> /\ split' = FALSE
  BY DEF Follow
<1>4. status' \in {"returned", "aborted"}
  BY <1>1 DEF String, Stop, TooDeep, Fail, Abort
<1>5. ASSUME has_error_handler, Allowed(text, "string")
      PROVE  \E c \in Seq(Callback), e \in Errors : calls' = Append(c, e)
  <2>1. text.open # <<>>
    BY <1>2, <1>5 DEF Allowed, KeyPlace, ValuePlace, InObject, InArray, Reading, WellFormed
  <2>2. Len(stack) >= 2 /\ (MemberWaits(text) => Len(stack) >= 3)
    BY <1>2, <2>1, TopOfText
  <2>3. top \in {"state_object_value", "state_object_key", "state_array_item"}
    BY <1>2, <2>1, TopOfText, EmptySeq
       DEF InObject, InArray, Innermost, Reading, WellFormed, Text, Container
  <2>4. CASE top = "state_object_key"
    <3>1. Pushed("state_object_value") # <<"state_bad">>
      BY <1>2, <2>2, PushedOK, OneCell DEF Reading, State, StackOK
    <3>2. QED
      BY <1>1, <1>5, <2>4, <3>1, <1>0 DEF String, Stop, TooDeep, Fail
  <2>5. CASE top = "state_object_value"
    <3>1. MemberWaits(text)
      BY <1>2, <2>1, <2>5, TopOfText, EmptySeq
         DEF InObject, InArray, Innermost, Reading, WellFormed, Text, Container
    <3>2. Restored # <<"state_bad">>
      BY <1>2, <2>2, <3>1, RestoredOK, OneCell DEF Reading, StackOK
    <3>3. QED
      BY <1>1, <1>5, <2>5, <3>2, <1>0 DEF String, Stop
  <2>6. CASE top = "state_array_item"
    <3>1. stack # <<"state_bad">>
      BY <2>2, OneCell
    <3>2. QED
      BY <1>1, <1>5, <2>6, <3>1, <1>0 DEF String, Stop
  <2>7. QED
    BY <2>3, <2>4, <2>5, <2>6
<1>6. \A c \in Seq(Callback), e \in Errors : Append(c, e)[Len(Append(c, e))] = e
  <2>1. SUFFICES ASSUME NEW c \in Seq(Callback), NEW e \in Errors
                 PROVE  Append(c, e)[Len(Append(c, e))] = e
    OBVIOUS
  <2>2. e \in Callback
    BY DEF Callback
  <2>3. QED
    BY <2>2, AppendProperties
<1>7. QED
  BY <1>3, <1>4, <1>5, <1>6

LEMMA ReadInv ==
    ASSUME Inv, NEW token \in Token, Read(token), Follow(token)
    PROVE  Inv'
<1>1. StackOK' /\ has_error_handler' = has_error_handler /\ status = "parsing"
  BY StackStaysOK DEF Inv, Read
<1>2. status' \in {"parsing", "returned", "terminated", "past", "aborted"}
  BY DEF Read, Open, Close, Comma, String, Value, Exponent, Misspelt, Other, Go, Stop,
         TooDeep, Fail, Abort
<1>3. CASE valid /\ token = "nul"
  <2>1. /\ valid' /\ text' = text /\ told' = <<"nul">> /\ split' = FALSE
        /\ status' = "returned"
        /\ has_error_handler => (calls' # <<>> <=> text.open # <<>>)
    BY <1>3, NulInv
  <2>2. OnlyDepthAndExponentsAreRefused' /\ TruncationIsReported'
    BY <1>1, <2>1 DEF OnlyDepthAndExponentsAreRefused, TruncationIsReported
  <2>3. QED
    BY <1>1, <2>1, <2>2 DEF Inv
<1>4. CASE valid /\ token = "halfstring"
  <2>1. /\ valid' /\ text' = text /\ told' = <<"halfstring">> /\ split' = FALSE
        /\ status' \in {"returned", "aborted"}
        /\ has_error_handler /\ status' = "returned" /\ Allowed(text, "string") =>
              calls'[Len(calls')] \in Errors
    BY <1>4, HalfstringInv
  <2>2. OnlyDepthAndExponentsAreRefused' /\ TruncationIsReported'
    BY <1>1, <2>1 DEF OnlyDepthAndExponentsAreRefused, TruncationIsReported
  <2>3. QED
    BY <1>1, <2>1, <2>2 DEF Inv
<1>5. CASE valid /\ token \notin {"nul", "halfstring"} /\ Allowed(text, token)
  <2>1. /\ text' = After(text, token) /\ valid' = TRUE /\ told' = Told(text, token)
        /\ split' = (token = "exponent")
    BY <1>5 DEF Follow
  <2>2. Reading
    BY <1>1, <1>5 DEF Inv, Reading
  <2>3. Follows(token)
    BY <1>5, <2>2, AllowedFollows
  <2>4. WellFormed(text)'
    BY <2>1, <2>3 DEF Follows, FollowsGrammar, FollowsExponent
  <2>5. OnlyDepthAndExponentsAreRefused'
    <3>1. Len(StackOf(text')) = Cells(text')
      BY <2>4, CellsOfStack DEF WellFormed
    <3>2. QED
      BY <1>1, <2>1, <2>3, <3>1 DEF Follows, FollowsGrammar, FollowsExponent,
         OnlyDepthAndExponentsAreRefused
  <2>6. TruncationIsReported'
    <3>1. told' \notin {<<"nul">>, <<"halfstring">>}
      BY <2>1 DEF Told
    <3>2. QED
      BY <3>1 DEF TruncationIsReported
  <2>7. status' = "parsing" => calls' = Heard' /\ Matches(stack', text')
    <3>1. token = "exponent" => InArray(After(text, token)) = InArray(text)
      BY <2>2 DEF After, InArray, Innermost, Reading, WellFormed, Text
    <3>2. QED
      BY <2>1, <2>3, <3>1 DEF Follows, FollowsGrammar, FollowsExponent, Heard
  <2>8. QED
    BY <1>1, <1>2, <2>1, <2>4, <2>5, <2>6, <2>7 DEF Inv
<1>6. CASE ~valid \/ (token \notin {"nul", "halfstring"} /\ ~Allowed(text, token))
  <2>1. text' = EmptyText /\ valid' = FALSE /\ split' = FALSE
    BY <1>6 DEF Follow
  <2>2. WellFormed(EmptyText)
    BY DEF WellFormed, EmptyText, Text, Place
  <2>3. QED
    BY <1>1, <1>2, <2>1, <2>2 DEF Inv, OnlyDepthAndExponentsAreRefused, TruncationIsReported
<1>7. QED
  BY <1>3, <1>4, <1>5, <1>6

LEMMA NextInv == Inv /\ [Next]_vars => Inv'
<1> SUFFICES ASSUME Inv, [Next]_vars PROVE Inv'
  OBVIOUS
<1>1. ASSUME NEW token \in Token, Read(token), Follow(token) PROVE Inv'
  BY <1>1, ReadInv
<1>2. CASE Parse /\ Begin
  BY <1>2, ParseInv
<1>3. CASE UNCHANGED vars
  BY <1>3 DEF vars, pvars, Inv, StackOK, Heard, OnlyDepthAndExponentsAreRefused, TruncationIsReported
<1>4. QED
  BY <1>1, <1>2, <1>3 DEF Next

LEMMA Invariance == Spec => []Inv
BY InitInv, NextInv, PTL DEF Spec

-----------------------------------------------------------------------------
(* What the invariant says.                                                *)

\* For a stack of any size: no text, valid or not, makes the parser leave its
\* stack; and in a valid one, of any length, it calls the derivee as the
\* grammar says, but for the items it splits, and knows the containers it is
\* in.
THEOREM ParserFollowsGrammar == Spec => []CallsFollowText
<1>1. Inv => CallsFollowText
  <2> SUFFICES ASSUME Inv PROVE CallsFollowText
    OBVIOUS
  <2>1. TypeOK
    BY DEF Inv, StackOK, WellFormed, TypeOK
  <2>2. valid /\ status = "parsing" => stack = StackOf(text)
    BY MatchesIsStack DEF Inv, StackOK, WellFormed
  <2>3. QED
    BY <2>1, <2>2 DEF Inv, CallsFollowText
<1>2. QED
  BY <1>1, Invariance, PTL

\* The parser gives up a valid text only where it needs more cells than there
\* are, or, with an error handler, at a number with a sign or a capital E in
\* its exponent.
THEOREM RefusesOnlyDepthAndExponents == Spec => []OnlyDepthAndExponentsAreRefused
<1>1. Inv => OnlyDepthAndExponentsAreRefused
  BY DEF Inv
<1>2. QED
  BY <1>1, Invariance, PTL

\* However deep a text is when it ends, between tokens or in a string, but for
\* a text without any token, an error handler is told that it ended too early,
\* and only then.
THEOREM ReportsTruncation == Spec => []TruncationIsReported
<1>1. Inv => TruncationIsReported
  BY DEF Inv
<1>2. QED
  BY <1>1, Invariance, PTL
==============================================================================
