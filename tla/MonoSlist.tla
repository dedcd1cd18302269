------------------------------ MODULE MonoSlist ------------------------------
(***************************************************************************)
(* haisu::mono::slist<T, N> (src/haisu/mono_slist.h): a singly-linked list *)
(* threaded by index through an array of N nodes, with the free nodes in a *)
(* second list through the same `next' fields.  An assert on the list's    *)
(* state is the guard of the action.                                       *)
(***************************************************************************)
EXTENDS Integers, FiniteSetsExt

CONSTANTS N,     \* number of nodes
          Item,  \* the values of T
          None   \* "nothing returned"

VARIABLES
    item,       \* _buf[n].t
    next,       \* _buf[n].next
    free_list,  \* _free_list
    head,       \* _head
    tail,       \* _tail
    ret         \* what the last call returned

vars == <<item, next, free_list, head, tail, ret>>

Node == 0 .. N - 1
nil == -1  \* the greatest offset, which is no node

\* Type invariant.
TypeOK ==
    /\ item \in [Node -> Item]
    /\ next \in [Node -> Node \cup {nil}]
    /\ {free_list, head, tail} \subseteq Node \cup {nil}
    /\ ret \in Item \cup {None}

\* The items themselves are not initialised.
Init ==
    /\ item \in [Node -> Item]
    /\ next = [n \in Node |-> IF n = N - 1 THEN nil ELSE n + 1]
    /\ free_list = 0
    /\ head = nil
    /\ tail = nil
    /\ ret = None

empty == head = nil
full == free_list = nil

\* The node i links behind node n, or nil.
After(n) == LET at[i \in 0 .. N] ==
                    IF i = 0 THEN n
                    ELSE IF at[i - 1] = nil THEN nil ELSE next[at[i - 1]]
            IN  at

\* size(): how many nodes the walk from _head passes up to _tail.
size ==
    IF empty THEN 0
    ELSE 1 + Min({i \in 0 .. N - 1 : After(head)[i] = tail} \cup {N})

Nodes == [i \in 1 .. size |-> After(head)[i - 1]]

\* Every push takes a node from the free list, alloc(), and puts the item in
\* it.
Take(x) ==
    /\ ~full
    /\ item' = [item EXCEPT ![free_list] = x]
    /\ free_list' = next[free_list]
    /\ ret' = None

\* init(): the first node of an empty list.
PushFirst(x) ==
    /\ empty
    /\ Take(x)
    /\ next' = [next EXCEPT ![free_list] = nil]
    /\ head' = free_list
    /\ tail' = free_list

push_back(x) ==
    \/ PushFirst(x)
    \/ /\ ~empty
       /\ Take(x)
       /\ next' = [next EXCEPT ![free_list] = nil, ![tail] = free_list]
       /\ tail' = free_list
       /\ UNCHANGED head

push_front(x) ==
    \/ PushFirst(x)
    \/ /\ ~empty
       /\ Take(x)
       /\ next' = [next EXCEPT ![free_list] = head]
       /\ head' = free_list
       /\ UNCHANGED tail

\* find_prev(_tail).
find_prev ==
    LET before == {i \in 0 .. N - 1 :
                      After(head)[i] # nil /\ After(head)[i + 1] = tail}
    IN  IF before = {} THEN nil ELSE After(head)[Min(before)]

\* Mutant: the node that becomes the tail keeps its link.
pop_back_keeps_link ==
    /\ ~empty
    /\ ret' = item[tail]
    /\ tail' = find_prev
    /\ head' = IF find_prev = nil THEN nil ELSE head
    /\ next' = [next EXCEPT ![tail] = free_list]
    /\ free_list' = tail
    /\ UNCHANGED item

\* The popped node goes to the front of the free list; its item is moved out
\* to the caller after that.
pop_back ==
    /\ ~empty
    /\ ret' = item[tail]
    /\ IF find_prev # nil
       THEN /\ next' = [next EXCEPT ![find_prev] = nil, ![tail] = free_list]
            /\ tail' = find_prev
            /\ UNCHANGED head
       ELSE /\ next' = [next EXCEPT ![tail] = free_list]
            /\ tail' = nil
            /\ head' = nil
    /\ free_list' = tail
    /\ UNCHANGED item

pop_front ==
    /\ ~empty
    /\ ret' = item[head]
    /\ head' = next[head]
    /\ tail' = IF next[head] = nil THEN nil ELSE tail
    /\ next' = [next EXCEPT ![head] = free_list]
    /\ free_list' = head
    /\ UNCHANGED item

\* Assignments through front() and back().
write_front(x) ==
    /\ ~empty
    /\ item' = [item EXCEPT ![head] = x]
    /\ ret' = None
    /\ UNCHANGED <<next, free_list, head, tail>>

write_back(x) ==
    /\ ~empty
    /\ item' = [item EXCEPT ![tail] = x]
    /\ ret' = None
    /\ UNCHANGED <<next, free_list, head, tail>>

\* clear(): the whole list goes in front of the free list in one piece.
clear ==
    /\ ret' = None
    /\ IF empty
       THEN UNCHANGED <<next, free_list, head, tail>>
       ELSE /\ next' = [next EXCEPT ![tail] = free_list]
            /\ free_list' = head
            /\ head' = nil
            /\ tail' = nil
    /\ UNCHANGED item

Next ==
    \/ \E x \in Item :
        push_back(x) \/ push_front(x) \/ write_front(x) \/ write_back(x)
    \/ pop_back
    \/ pop_front
    \/ clear

Spec == Init /\ [][Next]_vars

-----------------------------------------------------------------------------
(* Properties                                                              *)

Live == {Nodes[i] : i \in 1 .. size}
Free == {After(free_list)[i] : i \in 0 .. N} \ {nil}

\* Every node is in exactly one of the two lists that run through the array,
\* whatever order of calls has shuffled them: a push never takes a node that
\* still carries an item, and no node is ever lost.
EveryNodeInOneList ==
    /\ Live \cup Free = Node
    /\ Live \cap Free = {}

\* The items in the order of the nodes; a walk that runs off the array reads
\* no item.
Contents ==
    [i \in 1 .. size |-> IF Nodes[i] = nil THEN None ELSE item[Nodes[i]]]
==============================================================================
