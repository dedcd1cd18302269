-------------------------------- MODULE Deque --------------------------------
(***************************************************************************)
(* What the fixed-capacity containers of haisu/mono promise their caller:  *)
(* a double-ended queue of at most Capacity items.  mono::queue,           *)
(* mono::slist, mono::list and mono::xorlist differ only in how they       *)
(* thread the items through an array; each of their modules states that it *)
(* implements this one.                                                    *)
(*                                                                         *)
(* `ret' is what the last call handed back to the caller: the item a pop   *)
(* returned, or None for a call that returns nothing.                      *)
(***************************************************************************)
EXTENDS Integers, Sequences

CONSTANTS Capacity,  \* the template argument N of the container
          Item,      \* the values of T
          None       \* "nothing returned"

VARIABLES contents, ret

vars == <<contents, ret>>

TypeOK ==
    /\ contents \in Seq(Item)
    /\ Len(contents) <= Capacity
    /\ ret \in Item \cup {None}

Init ==
    /\ contents = << >>
    /\ ret = None

PushBack(x) ==
    /\ Len(contents) < Capacity
    /\ contents' = Append(contents, x)
    /\ ret' = None

PushFront(x) ==
    /\ Len(contents) < Capacity
    /\ contents' = <<x>> \o contents
    /\ ret' = None

PopBack ==
    /\ Len(contents) > 0
    /\ ret' = contents[Len(contents)]
    /\ contents' = SubSeq(contents, 1, Len(contents) - 1)

PopFront ==
    /\ Len(contents) > 0
    /\ ret' = contents[1]
    /\ contents' = SubSeq(contents, 2, Len(contents))

\* An assignment through a reference that front(), back() or an iterator
\* returned.
Write(i, x) ==
    /\ contents' = [contents EXCEPT ![i] = x]
    /\ ret' = None

Clear ==
    /\ contents' = << >>
    /\ ret' = None

Next ==
    \/ \E x \in Item : PushBack(x) \/ PushFront(x)
    \/ PopBack
    \/ PopFront
    \/ \E i \in 1 .. Len(contents), x \in Item : Write(i, x)
    \/ Clear

Spec == Init /\ [][Next]_vars
==============================================================================
