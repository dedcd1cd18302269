---------------------------- MODULE JsonReading ------------------------------
(***************************************************************************)
(* The parser reading texts, valid or not, next to the grammar: `text' is  *)
(* what a valid text has come to, as long as it is one.                    *)
(*                                                                         *)
(* The grammar is that of RFC 8259 for texts that are an object or an      *)
(* array, token by token, as a pushdown automaton with the events that a   *)
(* reader of the text is told of.  How a number is spelt, the grammar      *)
(* leaves to the tokens; those that the parser does not read as one number *)
(* have a token of their own, "exponent".                                  *)
(***************************************************************************)
EXTENDS JsonParser

-----------------------------------------------------------------------------
(* The grammar                                                             *)

Container == {"object", "array"}
\* Where a text may be: before its only value, after a key, after a comma, at
\* the start of a container, after an item or a member, or at its end.
Place == {"text", "colon", "value", "key", "element", "first", "next", "end"}

\* A text as far as it has been read: the containers that are open, and the
\* place in the innermost one.
Text == [open : Seq(Container), at : Place]

EmptyText == [open |-> <<>>, at |-> "text"]

Innermost(d) == d.open[Len(d.open)]
InObject(d) == d.open # <<>> /\ Innermost(d) = "object"
InArray(d) == d.open # <<>> /\ Innermost(d) = "array"

\* Where a key may come, and where a value may.
KeyPlace(d) == d.at = "key" \/ (d.at = "first" /\ InObject(d))

ValuePlace(d) ==
    \/ d.at \in {"text", "value", "element"}
    \/ d.at = "first" /\ InArray(d)

\* The tokens that may come next.
Allowed(d, token) ==
    CASE token \in {"lbrace", "lbracket"} -> ValuePlace(d)
      [] token \in {"literal", "number", "exponent"} ->
            ValuePlace(d) /\ d.at # "text"
      [] token = "string"   -> KeyPlace(d) \/ (ValuePlace(d) /\ d.at # "text")
      [] token = "rbrace"   -> InObject(d) /\ d.at \in {"first", "next"}
      [] token = "rbracket" -> InArray(d) /\ d.at \in {"first", "next"}
      [] token = "comma"    -> d.at = "next"
      [] token = "colon"    -> d.at = "colon"
      [] OTHER -> FALSE

Opened(d, c) == [open |-> Append(d.open, c), at |-> "first"]

Closed(d) ==
    LET rest == SubSeq(d.open, 1, Len(d.open) - 1)
    IN  [open |-> rest, at |-> IF rest = <<>> THEN "end" ELSE "next"]

\* The text after an allowed token.
After(d, token) ==
    CASE token = "lbrace"   -> Opened(d, "object")
      [] token = "lbracket" -> Opened(d, "array")
      [] token \in {"rbrace", "rbracket"} -> Closed(d)
      [] token = "comma" ->
            [d EXCEPT !.at = IF InObject(d) THEN "key" ELSE "element"]
      [] token = "colon" -> [d EXCEPT !.at = "value"]
      [] OTHER -> [d EXCEPT !.at = IF KeyPlace(d) THEN "colon" ELSE "next"]

\* What its reader is told of an allowed token.
Told(d, token) ==
    CASE token = "lbrace"   -> <<"on_new_object">>
      [] token = "lbracket" -> <<"on_new_array">>
      [] token = "rbrace"   -> <<"on_object_end">>
      [] token = "rbracket" -> <<"on_array_end">>
      [] token \in {"comma", "colon"} -> <<>>
      [] OTHER -> IF KeyPlace(d) THEN <<"on_key">>
                  ELSE IF InObject(d) THEN <<"on_value">> ELSE <<"on_array">>

-----------------------------------------------------------------------------
(* The parser reads a text                                                 *)

VARIABLES
    text,   \* history: what has been read, if valid
    valid,  \* history: it is the beginning of a valid text
    told,   \* history: what the grammar says of the last token
    split   \* history: the last token was a valid number, but one that the
            \* parser does not read as one

vars == <<pvars, text, valid, told, split>>

Init ==
    ParserInit /\ text = EmptyText /\ valid = TRUE /\ told = <<>> /\ split = FALSE

\* The end of a text is told of if it comes too early.
Follow(token) ==
    IF valid /\ token \in {"nul", "halfstring"}
    THEN /\ UNCHANGED <<text, valid>>
         /\ told' = <<token>>
         /\ split' = FALSE
    ELSE IF valid /\ Allowed(text, token)
    THEN /\ text' = After(text, token)
         /\ valid' = TRUE
         /\ told' = Told(text, token)
         /\ split' = (token = "exponent")
    ELSE /\ text' = EmptyText
         /\ valid' = FALSE
         /\ told' = <<>>
         /\ split' = FALSE

\* A new text begins.
Begin ==
    text' = EmptyText /\ valid' = TRUE /\ told' = <<>> /\ split' = FALSE

Next ==
    \/ \E token \in Token : Read(token) /\ Follow(token)
    \/ Parse /\ Begin

Spec == Init /\ [][Next]_vars

-----------------------------------------------------------------------------
(* Properties                                                              *)

\* The cell of an open container, and the one of a member whose value has not
\* come yet.
StackOf(d) ==
    <<"state_bad">>
    \o [i \in DOMAIN d.open |-> IF d.open[i] = "object" THEN "state_object_key"
                                ELSE "state_array_item"]
    \o (IF d.at \in {"colon", "value"} THEN <<"state_object_value">> ELSE <<>>)

\* The stack is never empty while parse() runs, never larger than its array,
\* and has the reserved cell at its bottom.
TypeOK ==
    /\ stack \in Seq(State)
    /\ Len(stack) \in 1 .. MaxDepth + 1
    /\ stack[1] = "state_bad"
    /\ status \in {"parsing", "returned", "terminated", "past", "aborted"}
    /\ has_error_handler \in BOOLEAN
    /\ text \in Text
    /\ valid \in BOOLEAN
    /\ split \in BOOLEAN

\* What the derivee hears of the last token: an item that is split is two.
Heard == IF split /\ InArray(text) THEN told \o told ELSE told

\* Whatever the text, the stack stays within its array.  In a valid text the
\* derivee is called for every token as the grammar says, but that an item in
\* an array whose exponent has a sign or a capital E comes to it as two; the
\* container around a string decides whether it is a key, a member's value or
\* an item; and the stack is the text's open containers.
CallsFollowText ==
    /\ TypeOK
    /\ valid /\ status = "parsing" => calls = Heard /\ stack = StackOf(text)

\* A valid text is refused only if it needs more cells than there are (nested
\* deeper than MaxDepth, or as deep and with a member in its deepest object),
\* or at a number with a sign or a capital E in its exponent, which is refused
\* at any depth if there is an error handler, and only then.
OnlyDepthAndExponentsAreRefused ==
    /\ valid
    /\ status \in {"returned", "aborted"}
    /\ told \notin {<<"nul">>, <<"halfstring">>}
    => IF split THEN has_error_handler ELSE Len(StackOf(text)) > MaxDepth + 1

\* A derivee with an error handler is told when a text ends too early,
\* wherever that is but before its first token, within a string as well, and
\* not if it ends where it may.
TruncationIsReported ==
    has_error_handler /\ valid /\ status = "returned" =>
        /\ told = <<"nul">> => (calls # <<>> <=> text.open # <<>>)
        /\ told = <<"halfstring">> /\ Allowed(text, "string") =>
               calls[Len(calls)] \in Errors

\* A derivee may call terminate() in any callback: the parser reads no
\* further, neither in the text nor past the empty one that took its place.
TerminateStops == status # "past"
==============================================================================
