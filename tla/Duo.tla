--------------------------------- MODULE Duo ---------------------------------
(***************************************************************************)
(* haisu::duo::list<T, N> (src/haisu/duo.h): an intrusive list of chunks,  *)
(* each a mono::list<T, N> of its own on the heap.                         *)
(*                                                                         *)
(* The chunks of a list are a sequence, as IntrusiveList shows, and the    *)
(* items of a chunk are one too, as Lists shows for mono::list in          *)
(* programs that pop from one end.                                         *)
(***************************************************************************)
EXTENDS Integers, SequencesExt

CONSTANTS N,     \* capacity of a chunk
          Item, List,
          None,  \* "nothing returned"
          Most   \* bound: so many items are in a list

VARIABLES
    chunks,    \* list_ of each list
    ret,       \* what the last call returned
    contents,  \* history: the items of each list
    due        \* history: what the last call ought to have returned

vars == <<chunks, ret, contents, due>>

FirstOf(s) == s[1]
LastOf(s) == s[Len(s)]

\* Type invariant: no chunk is empty, so that front() and back() find an item.
TypeOK ==
    /\ \A l \in List : \A i \in DOMAIN chunks[l] :
          chunks[l][i] \in Seq(Item) /\ Len(chunks[l][i]) \in 1 .. N
    /\ contents \in [List -> Seq(Item)]
    /\ {ret, due} \subseteq Item \cup {None}

Init ==
    /\ chunks = [l \in List |-> <<>>]
    /\ ret = None
    /\ contents = [l \in List |-> <<>>]
    /\ due = None

Nothing == ret' = None /\ due' = None

\* Mutant: the new item goes to any chunk that has room, as in a bag.
AddedBack_anywhere(c, x) ==
    IF c # <<>> /\ Len(FirstOf(c)) < N THEN [c EXCEPT ![1] = Append(@, x)]
    ELSE Append(c, <<x>>)

\* The last chunk takes the item, or a new one does.
AddedBack(c, x) ==
    IF c # <<>> /\ Len(LastOf(c)) < N THEN [c EXCEPT ![Len(c)] = Append(@, x)]
    ELSE Append(c, <<x>>)

AddedFront(c, x) ==
    IF c # <<>> /\ Len(FirstOf(c)) < N THEN [c EXCEPT ![1] = <<x>> \o @]
    ELSE <<<<x>>>> \o c

push_back(l, x) ==
    /\ Len(contents[l]) < Most
    /\ chunks' = [chunks EXCEPT ![l] = AddedBack(@, x)]
    /\ contents' = [contents EXCEPT ![l] = Append(@, x)]
    /\ Nothing

push_front(l, x) ==
    /\ Len(contents[l]) < Most
    /\ chunks' = [chunks EXCEPT ![l] = AddedFront(@, x)]
    /\ contents' = [contents EXCEPT ![l] = <<x>> \o @]
    /\ Nothing

LessBack(c) ==
    IF Len(LastOf(c)) = 1 THEN Front(c) ELSE [c EXCEPT ![Len(c)] = Front(@)]

LessFront(c) ==
    IF Len(FirstOf(c)) = 1 THEN Tail(c) ELSE [c EXCEPT ![1] = Tail(@)]

\* The assertion !empty() is the guard of the pops.
pop_back(l) ==
    /\ chunks[l] # <<>>
    /\ ret' = LastOf(LastOf(chunks[l]))
    /\ chunks' = [chunks EXCEPT ![l] = LessBack(@)]
    /\ due' = LastOf(contents[l])
    /\ contents' = [contents EXCEPT ![l] = Front(@)]

pop_front(l) ==
    /\ chunks[l] # <<>>
    /\ ret' = FirstOf(FirstOf(chunks[l]))
    /\ chunks' = [chunks EXCEPT ![l] = LessFront(@)]
    /\ due' = FirstOf(contents[l])
    /\ contents' = [contents EXCEPT ![l] = Tail(@)]

\* push_back(self_type&&), not of a list to itself; chunks that are not full
\* stay as they are in the middle.
push_back_list(l, m) ==
    /\ l # m
    /\ Len(contents[l]) + Len(contents[m]) <= Most
    /\ chunks' = [chunks EXCEPT ![l] = @ \o chunks[m], ![m] = <<>>]
    /\ contents' = [contents EXCEPT ![l] = @ \o contents[m], ![m] = <<>>]
    /\ Nothing

clear(l) ==
    /\ chunks' = [chunks EXCEPT ![l] = <<>>]
    /\ contents' = [contents EXCEPT ![l] = <<>>]
    /\ Nothing

Next ==
    \/ \E l \in List, x \in Item : push_back(l, x) \/ push_front(l, x)
    \/ \E l \in List : pop_back(l) \/ pop_front(l) \/ clear(l)
    \/ \E l, m \in List : push_back_list(l, m)

Spec == Init /\ [][Next]_vars

-----------------------------------------------------------------------------
(* Properties                                                              *)

\* Chunk after chunk, full or not, the items are those that were pushed, in
\* order, and a pop returns the one at its end.
ChunksAreContents ==
    /\ \A l \in List : FlattenSeq(chunks[l]) = contents[l]
    /\ ret = due
==============================================================================
