------------------------------- MODULE SmallAny ------------------------------
(***************************************************************************)
(* haisu::stack_any (src/haisu/small_any.h), of which small_any is an      *)
(* instance: a place for an object of any type, with the functions that    *)
(* destroy, copy and move an object of the type it was given last.  Those  *)
(* functions trust that the object is there.                               *)
(*                                                                         *)
(* The objects are plain numbers and std::shared_ptrs to resources, which  *)
(* count their owners; a shared_ptr that was moved from is null.           *)
(*                                                                         *)
(* The copy assignment destroys with the functions of the new type, and    *)
(* the move assignment destroys nothing.  CopyAssignable and               *)
(* MoveAssignable say when that does no harm; the program assigns then     *)
(* only.  Constructors do not throw.                                       *)
(***************************************************************************)
EXTENDS Integers, FiniteSets

CONSTANTS Any,       \* the anys of the program
          Resource,  \* what shared_ptrs point to
          Null, Number, NoObject  \* a null shared_ptr, a number, no object

VARIABLES
    vtable,  \* vtable_: the type whose functions it holds, "void" if empty
    object,  \* storage_: the object alive in it
    count,   \* use_count() of every resource
    held,    \* history: what each any should hold
    wild     \* a function was called on an object that is not there

vars == <<vtable, object, count, held, wild>>

TypeOf(o) == IF o = NoObject THEN "void"
             ELSE IF o = Number THEN "number" ELSE "shared"

Init ==
    /\ vtable = [a \in Any |-> "void"]
    /\ object = [a \in Any |-> NoObject]
    /\ count = [r \in Resource |-> 0]
    /\ held = [a \in Any |-> NoObject]
    /\ wild = FALSE

-----------------------------------------------------------------------------
(* The functions of a vtable; m is the memory they work in                 *)

Memory == [object |-> object, count |-> count, wild |-> wild]

Counted(c, o, d) == IF o \in Resource THEN [c EXCEPT ![o] = @ + d] ELSE c

destroy(m, type, a) ==
    IF type # "shared" THEN [m EXCEPT !.object[a] = NoObject]
    ELSE [object |-> [m.object EXCEPT ![a] = NoObject],
          count |-> Counted(m.count, m.object[a], -1),
          wild |-> m.wild \/ TypeOf(m.object[a]) # "shared"]

\* A copy, or a moved object, is constructed over whatever is there.
copy(m, type, from, to) ==
    IF type = "void" THEN m
    ELSE [object |-> [m.object EXCEPT ![to] = m.object[from]],
          count |-> Counted(m.count, m.object[from], 1),
          wild |-> m.wild \/ TypeOf(m.object[from]) # type]

MovedFrom(o) == IF o \in Resource THEN Null ELSE o

move(m, type, from, to) ==
    IF type = "void" THEN m
    ELSE [object |-> [m.object EXCEPT ![from] = MovedFrom(@), ![to] = m.object[from]],
          count |-> m.count,
          wild |-> m.wild \/ TypeOf(m.object[from]) # type]

Becomes(m) == object' = m.object /\ count' = m.count /\ wild' = m.wild

-----------------------------------------------------------------------------
(* The operations                                                          *)

\* stack_any(T&&) and reset(): a number, or a shared_ptr the program has made
\* or has in another any.
reset(a, o) ==
    LET m == destroy(Memory, vtable[a], a) IN
    /\ Becomes([m EXCEPT !.object[a] = o, !.count = Counted(@, o, 1)])
    /\ vtable' = [vtable EXCEPT ![a] = TypeOf(o)]
    /\ held' = [held EXCEPT ![a] = o]

\* Mutant: clear() forgets the object without destroying it.
clear_forgets(a) ==
    /\ Becomes([Memory EXCEPT !.object[a] = NoObject])
    /\ vtable' = [vtable EXCEPT ![a] = "void"]
    /\ held' = [held EXCEPT ![a] = NoObject]

\* The destructor too.
clear(a) ==
    /\ Becomes(destroy(Memory, vtable[a], a))
    /\ vtable' = [vtable EXCEPT ![a] = "void"]
    /\ held' = [held EXCEPT ![a] = NoObject]

\* The copy and move constructors, over an any that has just been destroyed
\* or was never constructed.
construct_copy(a, b) ==
    /\ a # b
    /\ LET m == destroy(Memory, vtable[a], a)
       IN  Becomes(copy(m, vtable[b], b, a))
    /\ vtable' = [vtable EXCEPT ![a] = vtable[b]]
    /\ held' = [held EXCEPT ![a] = held[b]]

construct_move(a, b) ==
    /\ a # b
    /\ LET m == destroy(Memory, vtable[a], a)
       IN  Becomes(move(m, vtable[b], b, a))
    /\ vtable' = [vtable EXCEPT ![a] = vtable[b]]
    /\ held' = [held EXCEPT ![a] = held[b], ![b] = MovedFrom(held[b])]

\* The old object is of the type of the new one, or neither owns anything.
CopyAssignable(a, b) ==
    /\ a # b
    /\ vtable[a] # vtable[b] => vtable[b] # "shared" /\ object[a] \notin Resource

assign_copy(a, b) ==
    /\ CopyAssignable(a, b)
    /\ LET m == destroy(Memory, vtable[b], a)
       IN  Becomes(copy(m, vtable[b], b, a))
    /\ vtable' = [vtable EXCEPT ![a] = vtable[b]]
    /\ held' = [held EXCEPT ![a] = held[b]]

\* The old object owns nothing.
MoveAssignable(a, b) == a # b /\ object[a] \notin Resource

assign_move(a, b) ==
    /\ MoveAssignable(a, b)
    /\ LET m == [Memory EXCEPT !.object[a] = NoObject]
       IN  Becomes(move(m, vtable[b], b, a))
    /\ vtable' = [vtable EXCEPT ![a] = vtable[b]]
    /\ held' = [held EXCEPT ![a] = held[b], ![b] = MovedFrom(held[b])]

\* swap(), through a temporary any tmp.
swap(a, b) ==
    /\ a # b
    /\ LET tmp == object[b]
           m1 == [Memory EXCEPT !.object[b] = MovedFrom(tmp)]
           m2 == move([m1 EXCEPT !.object[b] = NoObject], vtable[a], a, b)
       IN  Becomes([m2 EXCEPT !.object[a] = tmp])
    /\ vtable' = [vtable EXCEPT ![a] = vtable[b], ![b] = vtable[a]]
    /\ held' = [held EXCEPT ![a] = held[b], ![b] = held[a]]

Next ==
    \/ \E a \in Any :
          \/ \E o \in Resource \cup {Null, Number} : reset(a, o)
          \/ clear(a)
    \/ \E a, b \in Any : construct_copy(a, b) \/ construct_move(a, b)
                         \/ assign_copy(a, b) \/ assign_move(a, b) \/ swap(a, b)

Spec == Init /\ [][Next]_vars

-----------------------------------------------------------------------------
(* Properties                                                              *)

\* cast(): the object, if it is of the type asked for.
cast(a, type) == IF vtable[a] = type THEN object[a] ELSE NoObject

\* However anys are copied, moved and swapped, each gives the object it
\* should, under the object's type only; no object is destroyed twice, and
\* none that owns a resource is forgotten: a resource counts as owners those
\* anys that hold it.
AnyOwnsObject ==
    /\ ~wild
    /\ \A a \in Any, type \in {"number", "shared"} :
          cast(a, type) = IF TypeOf(held[a]) = type THEN held[a] ELSE NoObject
    /\ \A r \in Resource : count[r] = Cardinality({a \in Any : held[a] = r})
=============================================================================
