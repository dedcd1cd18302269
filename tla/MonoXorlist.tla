----------------------------- MODULE MonoXorlist -----------------------------
(***************************************************************************)
(* haisu::mono::xorlist<T, N> (src/haisu/mono_xorlist.h): a doubly-linked  *)
(* list threaded by index through an array of N nodes, with one link per   *)
(* node: the exclusive or of the indices of its two neighbours.  A missing *)
(* neighbour counts as 0, which is also the index of the first node, and   *)
(* the pops take a link of 0 for the sign of an only node.  clear() treats  *)
(* the links as if they led from each node to the next.                    *)
(***************************************************************************)
EXTENDS Integers, SequencesExt, FiniteSetsExt

CONSTANTS N,     \* number of nodes
          nil,   \* the greatest value of offset_type
          Item,  \* the values of T
          None   \* "nothing returned"


VARIABLES
    item,       \* _buf[n].t
    link,       \* _buf[n].link
    free_list,  \* _free_list
    head,       \* _head
    tail,       \* _tail
    ret         \* what the last call returned

vars == <<item, link, free_list, head, tail, ret>>

Node == 0 .. N - 1

\* operator^ of two offsets, bit by bit.
Xor[a \in 0 .. nil] ==
    [b \in 0 .. nil |->
        IF a = 0 /\ b = 0 THEN 0
        ELSE ((a + b) % 2) + 2 * Xor[a \div 2][b \div 2]]

\* Type invariant: offset_type holds every link, those that are no index of a
\* node included.
TypeOK ==
    /\ item \in [Node -> Item]
    /\ link \in [Node -> 0 .. nil]
    /\ {free_list, head, tail} \subseteq Node \cup {nil}
    /\ ret \in Item \cup {None}

\* clear_init(); it leaves the items as they are.
Init ==
    /\ item \in [Node -> Item]
    /\ link = [n \in Node |-> IF n = N - 1 THEN nil ELSE n + 1]
    /\ free_list = 0
    /\ head = nil
    /\ tail = nil
    /\ ret = None

empty == head = nil
full == free_list = nil

\* The walk of size(): next = at(cur).link ^ prev, with 0 for the first prev.
\* From the head it is the list, and from the tail the list backwards.
Walk(from, to) ==
    LET step[i \in 0 .. N] ==
            IF i = 0 THEN [cur |-> from, prev |-> 0]
            ELSE IF step[i - 1].cur \notin Node THEN step[i - 1]
            ELSE [cur  |-> Xor[link[step[i - 1].cur]][step[i - 1].prev],
                  prev |-> step[i - 1].cur]
        arrivals == {i \in 0 .. N - 1 : step[i].cur = to}
        steps == Min(arrivals \cup {N})
    IN  IF from = nil THEN << >>
        ELSE [i \in 1 .. steps + 1 |-> step[i - 1].cur]

Nodes == Walk(head, tail)

\* alloc() and the move of the item into the node.
Take(x) ==
    /\ ~full
    /\ item' = [item EXCEPT ![free_list] = x]
    /\ free_list' = link[free_list]
    /\ ret' = None

\* Mutant: init() does not reset the link of the node.
PushFirst_keeps_link(x) ==
    /\ empty
    /\ Take(x)
    /\ head' = free_list
    /\ tail' = free_list
    /\ UNCHANGED link

\* init(): the first node of an empty list.
PushFirst(x) ==
    /\ empty
    /\ Take(x)
    /\ link' = [link EXCEPT ![free_list] = 0]
    /\ head' = free_list
    /\ tail' = free_list

push_back(x) ==
    \/ PushFirst(x)
    \/ /\ ~empty
       /\ Take(x)
       /\ link' = [link EXCEPT ![free_list] = tail, ![tail] = Xor[@][free_list]]
       /\ tail' = free_list
       /\ UNCHANGED head

push_front(x) ==
    \/ PushFirst(x)
    \/ /\ ~empty
       /\ Take(x)
       /\ link' = [link EXCEPT ![free_list] = head, ![head] = Xor[@][free_list]]
       /\ head' = free_list
       /\ UNCHANGED tail

\* The only node of the list as far as the pops can tell: the list becomes
\* empty and node n alone is freed.
PopLast(n) ==
    /\ ~empty
    /\ link[n] = 0
    /\ ret' = item[n]
    /\ head' = nil
    /\ tail' = nil
    /\ link' = [link EXCEPT ![n] = free_list]
    /\ free_list' = n
    /\ UNCHANGED item

pop_back ==
    \/ PopLast(tail)
    \/ /\ ~empty
       /\ link[tail] # 0
       /\ ret' = item[tail]
       /\ tail' = link[tail]
       /\ link' = [link EXCEPT ![link[tail]] = Xor[@][tail], ![tail] = free_list]
       /\ free_list' = tail
       /\ UNCHANGED <<item, head>>

\* Mutant: the new head still links to the old one.
pop_front_keeps_link ==
    \/ PopLast(head)
    \/ /\ ~empty
       /\ link[head] # 0
       /\ ret' = item[head]
       /\ head' = link[head]
       /\ link' = [link EXCEPT ![head] = free_list]
       /\ free_list' = head
       /\ UNCHANGED <<item, tail>>

pop_front ==
    \/ PopLast(head)
    \/ /\ ~empty
       /\ link[head] # 0
       /\ ret' = item[head]
       /\ head' = link[head]
       /\ link' = [link EXCEPT ![link[head]] = Xor[@][head], ![head] = free_list]
       /\ free_list' = head
       /\ UNCHANGED <<item, tail>>

\* The neighbour of the end is the node 0, which the pops take for none.
PopDropsItems ==
    \/ Len(Nodes) > 1 /\ link[tail] = 0 /\ pop_back
    \/ Len(Nodes) > 1 /\ link[head] = 0 /\ pop_front

\* Assignments through front() and back().
write_front(x) ==
    /\ ~empty
    /\ item' = [item EXCEPT ![head] = x]
    /\ ret' = None
    /\ UNCHANGED <<link, free_list, head, tail>>

write_back(x) ==
    /\ ~empty
    /\ item' = [item EXCEPT ![tail] = x]
    /\ ret' = None
    /\ UNCHANGED <<link, free_list, head, tail>>

\* clear(): the whole list is put in front of the free list, through the
\* links as they are.
clear ==
    /\ ret' = None
    /\ IF empty
       THEN UNCHANGED <<link, free_list, head, tail>>
       ELSE /\ link' = [link EXCEPT ![tail] = free_list]
            /\ free_list' = head
            /\ head' = nil
            /\ tail' = nil
    /\ UNCHANGED item

Next ==
    \/ \E x \in Item :
        push_back(x) \/ push_front(x) \/ write_front(x) \/ write_back(x)
    \/ pop_back
    \/ pop_front
    \/ clear

Spec == Init /\ [][Next]_vars

-----------------------------------------------------------------------------
(* Properties                                                              *)

\* The nodes alloc() would hand out one after the other.
FreeFrom[i \in 0 .. N] ==
    IF i = 0 THEN free_list
    ELSE IF FreeFrom[i - 1] = nil THEN nil ELSE link[FreeFrom[i - 1]]

Free == {FreeFrom[i] : i \in 0 .. N} \ {nil}

\* The list reads the same from both ends: the walk from the tail passes the
\* nodes of the walk from the head in reverse, so that a pop at either end
\* finds the neighbour that the walk of size() goes to.
ReadsBothWays == Walk(tail, head) = Reverse(Nodes)

\* No node is free and in the list: a push never overwrites an item.
FreeNodesHoldNoItem ==
    /\ Free \cap {Nodes[i] : i \in 1 .. Len(Nodes)} = {}
    /\ FreeFrom[N] = nil
==============================================================================
