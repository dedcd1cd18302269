------------------------------ MODULE JsonModel ------------------------------
(***************************************************************************)
(* json::model (src/haisu/json_model.h): a derivee of the parser, without  *)
(* an error handler, that keeps a document as cells of one buffer, a zbuf. *)
(* A key has a cell, which knows the next key of its object; behind it     *)
(* comes the cell of its value, or the first key of its value if that is   *)
(* an object.  An array has a cell in front of every item, and one behind  *)
(* the last.  A view is the offset of a cell.                              *)
(*                                                                         *)
(* The buffer holds what the views need if all values are strings, objects *)
(* and arrays, no object is empty, and the items of arrays are strings:    *)
(* numbers and empty objects have no cell, so that the view of one would   *)
(* be the cell of the next key.  The model is followed through such texts. *)
(*                                                                         *)
(* An offset is a number of cells; the text of a string does not matter.   *)
(***************************************************************************)
EXTENDS JsonReading, SequencesExt, FiniteSetsExt

CONSTANTS Name,     \* the keys of objects
          MaxCells  \* bound on the cells of a text

VARIABLES
    buf,    \* buf_
    places, \* model::stack_: the last cell of each open container
    doc,    \* history: the containers of the text, and those that are open
    taken   \* history: the text so far is one of the texts described above

model == <<buf, places, doc, taken>>
modelVars == <<vars, model>>

npos == -1

NoDoc == [all |-> <<>>, open |-> <<>>]

ModelInit ==
    /\ Init
    /\ buf = <<>> /\ places = <<>> /\ doc = NoDoc
    /\ taken = ~has_error_handler

-----------------------------------------------------------------------------
(* The callbacks                                                           *)

Object(name) == [tag |-> "object", next |-> 0, key |-> name]
Array == [tag |-> "array", next |-> 0]
Literal == [tag |-> "string"]

SetTop(offset) == [places EXCEPT ![Len(places)] = offset]
Linked(offset) == [buf EXCEPT ![Last(places) + 1].next = offset]

Current == Last(doc.open)

\* Mutant: the place of the object stays at its first key.
on_key_keeps_place(name) ==
    /\ buf' = Append(IF Last(places) = npos THEN buf ELSE Linked(Len(buf)),
                     Object(name))
    /\ places' = IF Last(places) = npos THEN SetTop(Len(buf)) ELSE places
    /\ doc' = [doc EXCEPT !.all[Current] =
                  [@ EXCEPT !.members = Append(@, [key |-> name, object |-> 0])]]

on_key(name) ==
    /\ buf' = Append(IF Last(places) = npos THEN buf ELSE Linked(Len(buf)),
                     Object(name))
    /\ places' = SetTop(Len(buf))
    /\ doc' = [doc EXCEPT !.all[Current] =
                  [@ EXCEPT !.members = Append(@, [key |-> name, object |-> 0])]]

on_value == buf' = Append(buf, Literal) /\ UNCHANGED <<places, doc>>

\* The document has another container, the value of the last key.
Opening(type) ==
    LET id == Len(doc.all) + 1
        members == doc.all[Current].members
        owned == IF doc.open = <<>> \/ type = "array" THEN doc.all
                 ELSE [doc.all EXCEPT ![Current].members[Len(members)].object = id]
    IN  [all |-> Append(owned, [type |-> type, members |-> <<>>]),
         open |-> Append(doc.open, id)]

on_new_object ==
    /\ places' = Append(places, npos)
    /\ doc' = Opening("object")
    /\ UNCHANGED buf

on_new_array ==
    /\ buf' = Append(buf, Array)
    /\ places' = Append(places, Len(buf))
    /\ doc' = Opening("array")

on_array ==
    /\ buf' = Linked(Len(buf) + 1) \o <<Literal, Array>>
    /\ places' = SetTop(Len(buf) + 1)
    /\ doc' = [doc EXCEPT !.all[Current] =
                  [@ EXCEPT !.members = Append(@, [object |-> 0])]]

on_end ==
    /\ places' = Front(places)
    /\ doc' = [doc EXCEPT !.open = Front(@)]
    /\ UNCHANGED buf

Callback(c) ==
    CASE c = <<"on_key">>        -> \E name \in Name : on_key(name)
      [] c = <<"on_value">>      -> on_value
      [] c = <<"on_array">>      -> on_array
      [] c = <<"on_new_object">> -> on_new_object
      [] c = <<"on_new_array">>  -> on_new_array
      [] c \in {<<"on_object_end">>, <<"on_array_end">>} -> on_end
      [] OTHER -> UNCHANGED <<buf, places, doc>>

-----------------------------------------------------------------------------
(* A text for the model                                                    *)

Takes(token) ==
    /\ taken
    /\ token \notin {"literal", "number", "exponent"}
    /\ token \in {"lbrace", "lbracket"} => ~InArray(text)
    /\ token = "rbrace" => text.at # "first"
    /\ Len(buf) + 2 <= MaxCells

Forgets == buf' = <<>> /\ places' = <<>> /\ doc' = NoDoc

\* The model does not call terminate().
ReadText(token) ==
    /\ Read(token) /\ Follow(token)
    /\ taken' = (Takes(token) /\ valid' /\ status' \in {"parsing", "returned"})
    /\ IF taken' THEN Callback(calls') ELSE Forgets

\* model::parse() asserts that nothing has been parsed.
ParseText ==
    /\ Parse /\ Begin
    /\ taken' = (taken /\ buf = <<>> /\ places = <<>>)
    /\ IF taken' THEN UNCHANGED <<buf, places, doc>> ELSE Forgets

ModelNext == (\E token \in Token : ReadText(token)) \/ ParseText

ModelSpec == ModelInit /\ [][ModelNext]_modelVars

-----------------------------------------------------------------------------
(* Views                                                                   *)

is_empty(o) == Len(buf) <= o
is_object(o) == ~is_empty(o) /\ buf[o + 1].tag = "object"
is_array(o) == ~is_empty(o) /\ buf[o + 1].tag = "array"

\* The cells from one on, each the next of the one before.
Chain(o) ==
    LET cell[i \in 0 .. Len(buf)] ==
            IF i = 0 THEN o
            ELSE IF cell[i - 1] = npos \/ buf[cell[i - 1] + 1].next = 0 THEN npos
            ELSE buf[cell[i - 1] + 1].next
    IN  {cell[i] : i \in 0 .. Len(buf)} \ {npos}

has_key(o, name) ==
    is_object(o) /\ \E m \in Chain(o) : buf[m + 1].key = name

\* The first object of that key; no other value is a child.
child(o, name) ==
    LET found == {m \in Chain(o) : buf[m + 1].key = name /\ is_object(m + 1)}
    IN  IF is_object(o) /\ found # {} THEN Min(found) + 1 ELSE Len(buf)

count(o) == IF is_object(o) THEN Cardinality(Chain(o)) ELSE 0
count_array(o) == IF is_array(o) THEN Cardinality(Chain(o)) - 1 ELSE 0

-----------------------------------------------------------------------------
(* Properties                                                              *)

\* A view of the root, and one of the object at the end of a path of keys.
View(p) ==
    LET view[i \in 0 .. Len(p)] ==
            IF i = 0 THEN 0 ELSE child(view[i - 1], p[i])
    IN  view[Len(p)]

\* The container of the text that is there, or 0.
Members(c, name) ==
    {i \in DOMAIN doc.all[c].members : doc.all[c].members[i].key = name}
ObjectAt(p) ==
    LET object[i \in 0 .. Len(p)] ==
            IF i = 0 THEN 1
            ELSE IF object[i - 1] = 0 \/ doc.all[object[i - 1]].type = "array" THEN 0
            ELSE LET c == object[i - 1]
                     owners == {j \in Members(c, p[i]) :
                                    doc.all[c].members[j].object # 0}
                 IN  IF owners = {} THEN 0 ELSE doc.all[c].members[Min(owners)].object
    IN  object[Len(p)]

Shows(o, c) ==
    IF c = 0 THEN is_empty(o)
    ELSE LET members == doc.all[c].members
         IN  IF doc.all[c].type = "array" THEN count_array(o) = Len(members)
             ELSE /\ count(o) = Len(members)
                  /\ \A name \in Name : has_key(o, name) = (Members(c, name) # {})

\* When a text has been parsed, the views of the model are the text: from the
\* root along every path of keys they show the object that is there, with its
\* keys and as many of them, or are empty where there is none.
ModelIsText ==
    taken /\ text.at = "end" =>
        \A p \in SeqOf(Name, MaxDepth) : Shows(View(p), ObjectAt(p))
==============================================================================
