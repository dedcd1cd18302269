------------------------------ MODULE MonoList -------------------------------
(***************************************************************************)
(* haisu::mono::list<T, N> (src/haisu/mono_list.h): a doubly-linked list   *)
(* threaded by index through an array of N nodes; the free nodes are a     *)
(* singly-linked list through the same `next' fields.                      *)
(*                                                                         *)
(* The pops tell an only node from others by its own `next' or `prev', but *)
(* never reset the field of the node that becomes the new end.  In a       *)
(* program that uses one of the two the stale fields are never read.       *)
(***************************************************************************)
EXTENDS Integers, FiniteSetsExt

CONSTANTS N,     \* number of nodes
          Item,  \* the values of T
          None   \* "nothing returned"

VARIABLES
    item,       \* _buf[n].t
    next,       \* _buf[n].next
    prev,       \* _buf[n].prev
    free_list,  \* _free_list
    head,       \* _head
    tail,       \* _tail
    ret         \* what the last call returned

vars == <<item, next, prev, free_list, head, tail, ret>>

Node == 0 .. N - 1
nil == -1  \* the greatest offset, which is no node

\* Type invariant.
TypeOK ==
    /\ item \in [Node -> Item]
    /\ next \in [Node -> Node \cup {nil}]
    /\ prev \in [Node -> Node \cup {nil}]
    /\ {free_list, head, tail} \subseteq Node \cup {nil}
    /\ ret \in Item \cup {None}

\* clear_init(); it leaves the items and the prev fields as they are.
Init ==
    /\ item \in [Node -> Item]
    /\ next = [n \in Node |-> IF n = N - 1 THEN nil ELSE n + 1]
    /\ prev \in [Node -> Node \cup {nil}]
    /\ free_list = 0
    /\ head = nil
    /\ tail = nil
    /\ ret = None

empty == head = nil
full == free_list = nil

\* The node i links behind node n, or nil.
After(n) == LET at[i \in 0 .. N] ==
                    IF i = 0 THEN n
                    ELSE IF at[i - 1] = nil THEN nil ELSE next[at[i - 1]]
            IN  at

\* size(): how many nodes the walk from _head passes up to _tail.
size ==
    IF empty THEN 0
    ELSE 1 + Min({i \in 0 .. N - 1 : After(head)[i] = tail} \cup {N})

Nodes == [i \in 1 .. size |-> After(head)[i - 1]]

\* alloc() and the move of the item into the node.
Take(x) ==
    /\ ~full
    /\ item' = [item EXCEPT ![free_list] = x]
    /\ free_list' = next[free_list]
    /\ ret' = None

\* init(): the first node of an empty list.
PushFirst(x) ==
    /\ empty
    /\ Take(x)
    /\ next' = [next EXCEPT ![free_list] = nil]
    /\ prev' = [prev EXCEPT ![free_list] = nil]
    /\ head' = free_list
    /\ tail' = free_list

push_back(x) ==
    \/ PushFirst(x)
    \/ /\ ~empty
       /\ Take(x)
       /\ next' = [next EXCEPT ![free_list] = nil, ![tail] = free_list]
       /\ prev' = [prev EXCEPT ![free_list] = tail]
       /\ tail' = free_list
       /\ UNCHANGED head

push_front(x) ==
    \/ PushFirst(x)
    \/ /\ ~empty
       /\ Take(x)
       /\ next' = [next EXCEPT ![free_list] = head]
       /\ prev' = [prev EXCEPT ![free_list] = nil, ![head] = free_list]
       /\ head' = free_list
       /\ UNCHANGED tail

\* free(n), and then the item is moved out to the caller.
Give(n) ==
    /\ ret' = item[n]
    /\ next' = [next EXCEPT ![n] = free_list]
    /\ free_list' = n
    /\ UNCHANGED <<item, prev>>

pop_back ==
    /\ ~empty
    /\ Give(tail)
    /\ tail' = prev[tail]
    /\ head' = IF prev[tail] = nil THEN nil ELSE head

pop_front ==
    /\ ~empty
    /\ Give(head)
    /\ head' = next[head]
    /\ tail' = IF next[head] = nil THEN nil ELSE tail

\* Assignments through front() and back().
write_front(x) ==
    /\ ~empty
    /\ item' = [item EXCEPT ![head] = x]
    /\ ret' = None
    /\ UNCHANGED <<next, prev, free_list, head, tail>>

write_back(x) ==
    /\ ~empty
    /\ item' = [item EXCEPT ![tail] = x]
    /\ ret' = None
    /\ UNCHANGED <<next, prev, free_list, head, tail>>

\* clear(): the whole list goes in front of the free list in one piece.
clear ==
    /\ ret' = None
    /\ IF empty
       THEN UNCHANGED <<next, free_list, head, tail>>
       ELSE /\ next' = [next EXCEPT ![tail] = free_list]
            /\ free_list' = head
            /\ head' = nil
            /\ tail' = nil
    /\ UNCHANGED <<item, prev>>

Next ==
    \/ \E x \in Item :
        push_back(x) \/ push_front(x) \/ write_front(x) \/ write_back(x)
    \/ pop_back
    \/ pop_front
    \/ clear

Spec == Init /\ [][Next]_vars

-----------------------------------------------------------------------------
(* Properties                                                              *)

Live == {Nodes[i] : i \in 1 .. size}
Free == {After(free_list)[i] : i \in 0 .. N} \ {nil}

\* Every node is in exactly one of the two lists that run through the array.
EveryNodeInOneList ==
    /\ Live \cup Free = Node
    /\ Live \cap Free = {}

\* The items in the order of the nodes; a walk that runs off the array reads
\* no item.
Contents ==
    [i \in 1 .. size |-> IF Nodes[i] = nil THEN None ELSE item[Nodes[i]]]
==============================================================================
