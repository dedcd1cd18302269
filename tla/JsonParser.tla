----------------------------- MODULE JsonParser ------------------------------
(***************************************************************************)
(* haisu::json::parser<T, MaxDepth> (src/haisu/json.h): parse() reads a    *)
(* text and calls the derivee T, with a stack of parser states of fixed    *)
(* size.  `state' is always the top of the stack.                          *)
(*                                                                         *)
(* The text comes in tokens, in any order: braces, brackets, commas and    *)
(* colons; strings, or the beginning of one when the text ends in it;      *)
(* literals that a separator follows; numbers that one follows, in the     *)
(* characters the parser takes for a number's (digits, points and "e"), or *)
(* with a capital E or a sign in their exponent; what is misspelt, or has  *)
(* no separator behind it; any other character; and the NUL at the end.    *)
(* Blanks change nothing.                                                  *)
(***************************************************************************)
EXTENDS Integers, Sequences

CONSTANTS MaxDepth,
          TerminateIn,        \* the callbacks in which it may call terminate()
          Texts               \* bound: so many texts are parsed

ASSUME MaxDepthAssumption == MaxDepth \in Nat \ {0}
ASSUME TextsAssumption == Texts \in Nat

VARIABLES
    has_error_handler,  \* the derivee has a method on_error(); never changes
    stack,   \* stack_, the top last
    status,  \* parse() is "parsing", has "returned", by itself or because it
             \* was "terminated", is "past" the text that was to stop it, or
             \* an assertion has failed: "aborted"
    calls,   \* the callbacks of the last step
    texts    \* history: how many texts have been begun

pvars == <<has_error_handler, stack, status, calls, texts>>

State == {"state_bad", "state_object_key", "state_object_value",
          "state_array_item"}

Token == {"lbrace", "rbrace", "lbracket", "rbracket", "comma", "colon",
          "string", "halfstring", "literal", "number", "exponent",
          "misspelt", "other", "nul"}

Errors == {"too_deep", "malformed", "unexpected", "unspecified"}

\* parse(), up to the loop.
ParserInit ==
    /\ has_error_handler \in BOOLEAN
    /\ stack = <<"state_bad">>
    /\ status = "parsing"
    /\ calls = <<>>
    /\ texts = 1

\* Mutant: the stack is not cleared.
Parse_continues ==
    /\ status \in {"returned", "terminated"}
    /\ texts < Texts
    /\ stack' = IF Len(stack) > MaxDepth THEN stack ELSE Append(stack, "state_bad")
    /\ status' = "parsing"
    /\ calls' = <<>>
    /\ texts' = texts + 1
    /\ UNCHANGED has_error_handler

\* The parser is used again, after whatever text.
Parse ==
    /\ status \in {"returned", "terminated"}
    /\ texts < Texts
    /\ stack' = <<"state_bad">>
    /\ status' = "parsing"
    /\ calls' = <<>>
    /\ texts' = texts + 1
    /\ UNCHANGED has_error_handler

-----------------------------------------------------------------------------
(* The stack                                                               *)

top == stack[Len(stack)]

\* Mutant: no cell is reserved.
full_early == Len(stack) >= MaxDepth

full == Len(stack) > MaxDepth

Pushed(s) == Append(stack, s)
Transformed(s) == [stack EXCEPT ![Len(stack)] = s]

Restored == SubSeq(stack, 1, Len(stack) - 1)

-----------------------------------------------------------------------------
(* The ways a step ends                                                    *)

Abort(c) == status' = "aborted" /\ calls' = c /\ UNCHANGED stack

Fail(c, error) ==
    /\ status' = "returned"
    /\ calls' = Append(c, error)
    /\ UNCHANGED stack

\* Mutant: the end of the text is not checked.
Stop_unchecked(how, c, s) == status' = how /\ calls' = c /\ stack' = s

\* stop_parsing
Stop(how, c, s) ==
    /\ status' = how
    /\ stack' = s
    /\ calls' = IF has_error_handler /\ s # <<"state_bad">>
                THEN Append(c, "unspecified") ELSE c

\* The stack has no room: reported, or the assertion of push().
TooDeep(c) == IF has_error_handler THEN Fail(c, "too_deep") ELSE Abort(c)

\* terminate() replaces the text by an empty one, and then the loop advances:
\* it ends at the empty text's NUL if the step looks at it first, and goes
\* past it if not.
Go(c, s, looks) ==
    \/ status' = "parsing" /\ calls' = c /\ stack' = s
    \/ /\ \E i \in DOMAIN c : c[i] \in TerminateIn
       /\ IF looks THEN Stop("terminated", c, s)
          ELSE status' = "past" /\ calls' = c /\ stack' = s

-----------------------------------------------------------------------------
(* The loop                                                                *)

\* '{' and '['
Open(new, callback) ==
    \/ /\ top = "state_object_value"
       /\ Go(callback, Transformed(new), FALSE)
    \/ /\ top \in {"state_bad", "state_array_item"}
       /\ IF full THEN TooDeep(<<>>) ELSE Go(callback, Pushed(new), FALSE)
    \/ /\ top = "state_object_key"
       /\ Go(callback, stack, FALSE)

CanClose == Len(stack) >= 2

\* '}' and ']', whichever of them
Close(callback) ==
    IF CanClose THEN Go(callback, Restored, FALSE)
    ELSE IF has_error_handler THEN Fail(<<>>, "malformed") ELSE Abort(callback)

Comma ==
    IF has_error_handler /\ Len(stack) <= 1
    THEN Fail(<<>>, "malformed") ELSE Go(<<>>, stack, FALSE)

\* A string; the loop stops behind it if the text does.
String(ends) ==
    LET Next(c, s) == IF ends THEN Stop("returned", c, s) ELSE Go(c, s, TRUE)
    IN  \/ /\ top = "state_object_key"
           /\ IF full THEN TooDeep(<<"on_key">>)
              ELSE Next(<<"on_key">>, Pushed("state_object_value"))
        \/ top = "state_object_value" /\ Next(<<"on_value">>, Restored)
        \/ top = "state_array_item" /\ Next(<<"on_array">>, stack)
        \/ top = "state_bad" /\ Next(<<>>, stack)

\* A literal or a number.  Only numbers step back before the loop advances.
Value(looks) ==
    \/ top = "state_object_value" /\ Go(<<"on_value">>, Restored, looks)
    \/ top = "state_array_item" /\ Go(<<"on_array">>, stack, looks)
    \/ top \in {"state_object_key", "state_bad"} /\ Go(<<>>, stack, looks)

\* A valid number such as 1e-5 or 1E5.  The number ends for the parser at the
\* sign or the capital: an error, or, if there is nobody to tell of it, two
\* numbers, the second with what is left of the exponent.
Exponent ==
    IF has_error_handler THEN Fail(<<>>, "unexpected")
    ELSE IF top # "state_array_item" THEN Value(TRUE)
    ELSE \/ Go(<<"on_array", "on_array">>, stack, TRUE)
         \/ "on_array" \in TerminateIn /\ Stop("terminated", <<"on_array">>, stack)

\* What no error handler is told of is taken for a number, or skipped.
Misspelt == IF has_error_handler THEN Fail(<<>>, "unexpected") ELSE Value(TRUE)

Other ==
    IF has_error_handler THEN Fail(<<>>, "unspecified")
    ELSE Go(<<>>, stack, FALSE)

Read(token) ==
    /\ status = "parsing"
    /\ UNCHANGED <<has_error_handler, texts>>
    /\ \/ token = "lbrace" /\ Open("state_object_key", <<"on_new_object">>)
       \/ token = "lbracket" /\ Open("state_array_item", <<"on_new_array">>)
       \/ token = "rbrace" /\ Close(<<"on_object_end">>)
       \/ token = "rbracket" /\ Close(<<"on_array_end">>)
       \/ token = "comma" /\ Comma
       \/ token = "colon" /\ Go(<<>>, stack, FALSE)
       \/ token = "string" /\ String(FALSE)
       \/ token = "halfstring" /\ String(TRUE)
       \/ token = "literal" /\ Value(FALSE)
       \/ token = "number" /\ Value(TRUE)
       \/ token = "exponent" /\ Exponent
       \/ token = "misspelt" /\ Misspelt
       \/ token = "other" /\ Other
       \/ token = "nul" /\ Stop("returned", <<>>, stack)
==============================================================================
