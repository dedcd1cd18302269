---------------------------- MODULE IntrusiveList ----------------------------
(***************************************************************************)
(* haisu::intrusive_list<T> (src/haisu/intrusive.h): doubly-linked lists   *)
(* of nodes that belong to the program, which links a node into one list   *)
(* at a time and erases it only from the list it is in.                    *)
(*                                                                         *)
(* haisu::list<T> (the same file): an intrusive list that owns its nodes,  *)
(* which it creates with new and deletes.  The nodes of the intrusive list *)
(* are the addresses new may return.                                       *)
(***************************************************************************)
EXTENDS Integers, SequencesExt, FiniteSets

CONSTANTS Node, List, Null

VARIABLES
    head, tail,  \* of each list
    prev, next,  \* of each node; of one that was never linked, whatever
    items,       \* history: the nodes of each list, in order
    allocated,   \* of list<T>: the nodes that are not deleted
    exists       \* and the lists that are constructed and not destroyed

links == <<head, tail, prev, next>>
vars == <<links, items>>

Pointer == Node \cup {Null}
Linked == UNION {Range(items[l]) : l \in List}

\* Type invariant.
TypeOK ==
    /\ head \in [List -> Pointer] /\ tail \in [List -> Pointer]
    /\ prev \in [Node -> Pointer] /\ next \in [Node -> Pointer]
    /\ items \in [List -> Seq(Node)]

\* The lists are empty; node(T) leaves prev and next uninitialised.
Init ==
    /\ head = [l \in List |-> Null]
    /\ tail = [l \in List |-> Null]
    /\ prev \in [Node -> Pointer]
    /\ next \in [Node -> Pointer]
    /\ items = [l \in List |-> <<>>]

empty(l) == head[l] = Null

-----------------------------------------------------------------------------
(* What the operations do to the links                                     *)

\* init()
LinkOnly(l, n) ==
    /\ head' = [head EXCEPT ![l] = n]
    /\ tail' = [tail EXCEPT ![l] = n]
    /\ prev' = [prev EXCEPT ![n] = Null]
    /\ next' = [next EXCEPT ![n] = Null]

LinkBack(l, n) ==
    IF empty(l) THEN LinkOnly(l, n)
    ELSE /\ next' = [next EXCEPT ![tail[l]] = n, ![n] = Null]
         /\ prev' = [prev EXCEPT ![n] = tail[l]]
         /\ tail' = [tail EXCEPT ![l] = n]
         /\ UNCHANGED head

LinkFront(l, n) ==
    IF empty(l) THEN LinkOnly(l, n)
    ELSE /\ prev' = [prev EXCEPT ![head[l]] = n, ![n] = Null]
         /\ next' = [next EXCEPT ![n] = head[l]]
         /\ head' = [head EXCEPT ![l] = n]
         /\ UNCHANGED tail

\* operator=(self_type&&); m may be l.
TakeAll(l, m) ==
    /\ head' = [head EXCEPT ![l] = head[m], ![m] = Null]
    /\ tail' = [tail EXCEPT ![l] = tail[m], ![m] = Null]
    /\ UNCHANGED <<prev, next>>

\* push_back(self_type&&)
Splice(l, m) ==
    IF empty(l) THEN TakeAll(l, m)
    ELSE IF empty(m) THEN UNCHANGED links
    ELSE /\ next' = [next EXCEPT ![tail[l]] = head[m]]
         /\ prev' = [prev EXCEPT ![head[m]] = tail[l]]
         /\ tail' = [tail EXCEPT ![l] = tail[m], ![m] = Null]
         /\ head' = [head EXCEPT ![m] = Null]

Forget(l) ==
    /\ head' = [head EXCEPT ![l] = Null]
    /\ tail' = [tail EXCEPT ![l] = Null]

UnlinkBack(l) ==
    LET last == tail[l] IN
    IF prev[last] # Null
    THEN /\ next' = [next EXCEPT ![prev[last]] = Null]
         /\ tail' = [tail EXCEPT ![l] = prev[last]]
         /\ prev' = [prev EXCEPT ![last] = Null]
         /\ UNCHANGED head
    ELSE /\ Forget(l)
         /\ prev' = [prev EXCEPT ![last] = Null]
         /\ UNCHANGED next

UnlinkFront(l) ==
    LET first == head[l] IN
    IF next[first] # Null
    THEN /\ prev' = [prev EXCEPT ![next[first]] = Null]
         /\ head' = [head EXCEPT ![l] = next[first]]
         /\ next' = [next EXCEPT ![first] = Null]
         /\ UNCHANGED tail
    ELSE /\ Forget(l)
         /\ next' = [next EXCEPT ![first] = Null]
         /\ UNCHANGED prev

\* erase() finds out from the node where in the list it is.
Unlink(l, n) ==
    LET p == prev[n]
        q == next[n]
    IN  /\ IF p = Null /\ q = Null THEN Forget(l)
           ELSE /\ head' = IF p = Null THEN [head EXCEPT ![l] = q] ELSE head
                /\ tail' = IF q = Null THEN [tail EXCEPT ![l] = p] ELSE tail
        /\ next' = [i \in Node |-> IF i = n THEN Null
                                   ELSE IF i = p THEN q ELSE next[i]]
        /\ prev' = [i \in Node |-> IF i = n THEN Null
                                   ELSE IF i = q THEN p ELSE prev[i]]

-----------------------------------------------------------------------------
(* The operations                                                          *)

push_back(l, n) ==
    /\ n \notin Linked
    /\ LinkBack(l, n)
    /\ items' = [items EXCEPT ![l] = Append(@, n)]

push_front(l, n) ==
    /\ n \notin Linked
    /\ LinkFront(l, n)
    /\ items' = [items EXCEPT ![l] = <<n>> \o @]

\* The program does not push a list to itself.
push_back_list(l, m) ==
    /\ l # m
    /\ Splice(l, m)
    /\ items' = [items EXCEPT ![l] = @ \o items[m], ![m] = <<>>]

\* The assertions on head and tail are the guards.
pop_back(l) ==
    /\ tail[l] # Null
    /\ UnlinkBack(l)
    /\ items' = [items EXCEPT ![l] = SubSeq(@, 1, Len(@) - 1)]

pop_front(l) ==
    /\ head[l] # Null
    /\ UnlinkFront(l)
    /\ items' = [items EXCEPT ![l] = Tail(@)]

erase(l, n) ==
    \E i \in DOMAIN items[l] :
        /\ items[l][i] = n
        /\ Unlink(l, n)
        /\ items' = [items EXCEPT ![l] = RemoveAt(@, i)]

clear(l) ==
    /\ Forget(l)
    /\ items' = [items EXCEPT ![l] = <<>>]
    /\ UNCHANGED <<prev, next>>

MoveAssign(l, m) ==
    /\ TakeAll(l, m)
    /\ items' = [items EXCEPT ![l] = items[m], ![m] = <<>>]

Next ==
    \/ \E l \in List, n \in Node :
          push_back(l, n) \/ push_front(l, n) \/ erase(l, n)
    \/ \E l \in List : pop_back(l) \/ pop_front(l) \/ clear(l)
    \/ \E l, m \in List : push_back_list(l, m) \/ MoveAssign(l, m)

Spec == Init /\ [][Next]_vars

-----------------------------------------------------------------------------
(* list<T>                                                                 *)

hvars == <<vars, allocated, exists>>

HeapTypeOK ==
    /\ TypeOK
    /\ allocated \subseteq Node
    /\ exists \subseteq List

HeapInit == Init /\ allocated = {} /\ exists = {}

\* list(); the list is empty.
Construct(l) ==
    /\ l \notin exists
    /\ exists' = exists \cup {l}
    /\ UNCHANGED <<vars, allocated>>

\* list(list&&)
MoveConstruct(l, m) ==
    /\ l \notin exists
    /\ m \in exists
    /\ MoveAssign(l, m)
    /\ exists' = exists \cup {l}
    /\ UNCHANGED allocated

\* push_back(T), emplace_back() and the same at the front: new never returns
\* a node that is not deleted.
PushNew(l) ==
    /\ l \in exists
    /\ \E n \in Node \ allocated :
        /\ push_back(l, n) \/ push_front(l, n)
        /\ allocated' = allocated \cup {n}
    /\ UNCHANGED exists

\* push_back(list<T>&&); the program does not push a list to itself.
PushList(l, m) ==
    /\ {l, m} \subseteq exists
    /\ push_back_list(l, m)
    /\ UNCHANGED <<allocated, exists>>

\* pop_back(), erase_back() and the same at the front.
PopDelete(l) ==
    /\ l \in exists
    /\ \/ pop_back(l) /\ allocated' = allocated \ {tail[l]}
       \/ pop_front(l) /\ allocated' = allocated \ {head[l]}
    /\ UNCHANGED exists

\* The nodes that clear() deletes: it pops from the back to the front, which
\* are no more steps than there are nodes.
From(n) ==
    LET at[i \in 0 .. Cardinality(Node)] ==
            IF i = 0 THEN n
            ELSE IF at[i - 1] = Null THEN Null ELSE prev[at[i - 1]]
    IN  {at[i] : i \in DOMAIN at} \ {Null}

\* What clear() leaves of the links of the deleted nodes is never read.
Delete(l) == allocated' = allocated \ From(tail[l])

Clear(l) ==
    /\ l \in exists
    /\ clear(l)
    /\ Delete(l)
    /\ UNCHANGED exists

\* Mutant: what the list had is not deleted.
ClearAndMove_leaks(l, m) == MoveAssign(l, m) /\ UNCHANGED allocated

\* operator=(list<T>&&): l is cleared first, so that a list assigned to
\* itself is empty.
ClearAndMove(l, m) ==
    /\ Delete(l)
    /\ IF l = m THEN clear(l) ELSE MoveAssign(l, m)

Assign(l, m) ==
    /\ {l, m} \subseteq exists
    /\ ClearAndMove(l, m)
    /\ UNCHANGED exists

\* ~list()
Destroy(l) ==
    /\ l \in exists
    /\ clear(l)
    /\ Delete(l)
    /\ exists' = exists \ {l}

HeapNext ==
    \/ \E l \in List :
          Construct(l) \/ PushNew(l) \/ PopDelete(l) \/ Clear(l) \/ Destroy(l)
    \/ \E l, m \in List :
          MoveConstruct(l, m) \/ PushList(l, m) \/ Assign(l, m)

-----------------------------------------------------------------------------
(* Properties                                                              *)

At(s, i) == IF i \in DOMAIN s THEN s[i] ELSE Null

\* Both ways through a list lead along the nodes that were put there, to its
\* ends and no further, whatever pointers the nodes had before.
LinksAreItems ==
    \A l \in List :
        /\ head[l] = At(items[l], 1)
        /\ tail[l] = At(items[l], Len(items[l]))
        /\ \A i \in DOMAIN items[l] :
              /\ next[items[l][i]] = At(items[l], i + 1)
              /\ prev[items[l][i]] = At(items[l], i - 1)

\* Every node that was created is in one list or deleted, and no list has a
\* deleted node; a list that is destroyed has none.
NodesAreOwned ==
    /\ allocated = UNION {Range(items[l]) : l \in exists}
    /\ \A l \in List \ exists : items[l] = <<>>
    /\ \A l, m \in List : l # m => Range(items[l]) \cap Range(items[m]) = {}
==============================================================================
