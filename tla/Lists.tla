------------------------------- MODULE Lists ---------------------------------
(***************************************************************************)
(* The lists of haisu.  A program uses those in arrays or one of those     *)
(* with pointers: an intrusive_list on nodes of its own, a list on nodes   *)
(* that the list owns, or a duo::list on chunks, from one end.             *)
(*                                                                         *)
(* mono::queue, mono::slist and mono::list can be used one for the other:  *)
(* they are given the same calls here and must give the same answers.      *)
(*                                                                         *)
(* A program that pops from both ends does not use mono::list, whose pops  *)
(* leave stale links for one another.  mono::xorlist goes its own way: its *)
(* pops take the index 0 for the sign of an only node, and clear() takes   *)
(* its links for links to the next node, which in a list of three or more  *)
(* they are not (see MaxCleared).                                          *)
(***************************************************************************)
EXTENDS MonoQueue, FiniteSets

CONSTANTS MaxOffset,   \* the nil of mono::xorlist
          MaxCleared,  \* the program clears xorlists of at most so many items
          ListNode, List, Null,  \* of the lists with pointers
          ChunkSize,   \* N of duo::list
          Most         \* bound: so many items are in a duo::list

ASSUME MaxOffsetAssumption == MaxOffset \in Nat /\ MaxOffset >= N
ASSUME MaxClearedAssumption == MaxCleared \in Nat
ASSUME NodeAssumption == IsFiniteSet(ListNode) /\ Null \notin ListNode
ASSUME ChunkSizeAssumption == ChunkSize \in Nat \ {0}
ASSUME MostAssumption == Most \in Nat

VARIABLES
    program,  \* the ends the program pops from, or "xorlist", or one of the
              \* lists with pointers
    sl_item, sl_next, sl_free_list, sl_head, sl_tail, sl_ret,
    l_item, l_next, l_prev, l_free_list, l_head, l_tail, l_ret,
    x_item, x_link, x_free_list, x_head, x_tail, x_ret,
    il_head, il_tail, prev, next, items, allocated, exists,
    chunks, duo_ret, duo_contents, duo_due

slist == <<sl_item, sl_next, sl_free_list, sl_head, sl_tail, sl_ret>>
list == <<l_item, l_next, l_prev, l_free_list, l_head, l_tail, l_ret>>
xorlist == <<x_item, x_link, x_free_list, x_head, x_tail, x_ret>>
linked == <<il_head, il_tail, prev, next, items, allocated, exists>>
duo == <<chunks, duo_ret, duo_contents, duo_due>>

S == INSTANCE MonoSlist WITH
        item <- sl_item, next <- sl_next, free_list <- sl_free_list,
        head <- sl_head, tail <- sl_tail, ret <- sl_ret
L == INSTANCE MonoList WITH
        item <- l_item, next <- l_next, prev <- l_prev, free_list <- l_free_list,
        head <- l_head, tail <- l_tail, ret <- l_ret
X == INSTANCE MonoXorlist WITH
        nil <- MaxOffset,
        item <- x_item, link <- x_link, free_list <- x_free_list,
        head <- x_head, tail <- x_tail, ret <- x_ret
\* MaxOffset is all ones: an offset holds the exclusive or of any two.
ASSUME OffsetAssumption ==
    \A a, b \in 0 .. MaxOffset : X!Xor[a][b] \in 0 .. MaxOffset

XContents == [i \in DOMAIN X!Nodes |-> x_item[X!Nodes[i]]]
XD == INSTANCE Deque WITH Capacity <- N, contents <- XContents, ret <- x_ret
H == INSTANCE IntrusiveList WITH
        Node <- ListNode, head <- il_head, tail <- il_tail
D == INSTANCE Duo WITH
        N <- ChunkSize, ret <- duo_ret, contents <- duo_contents, due <- duo_due

arrays == <<vars, slist, list, xorlist>>
listVars == <<program, arrays, linked, duo>>

InArrays == program \in {"both", "back", "front", "xorlist"}
Pointers == program \in {"intrusive_list", "list"}

\* What the memory holds is overwritten before it is read, but for the cells
\* of the queue and the pointers of a node that was never linked.  It does not
\* matter in lists that the program does not use.
ListsInit ==
    /\ program \in {"both", "back", "front", "xorlist", "intrusive_list", "list",
                   "duo back", "duo front"}
    /\ IF InArrays THEN data \in [Cell -> Item]
       ELSE data = [c \in Cell |-> CHOOSE x \in Item : TRUE]
    /\ sl_item = data /\ l_item = data /\ x_item = data
    /\ \E p \in IF InArrays THEN {S!nil, 0} ELSE {0} : l_prev = [n \in L!Node |-> p]
    /\ IF Pointers THEN prev \in [ListNode -> H!Pointer]
       ELSE prev = [n \in ListNode |-> Null]
    /\ program # "intrusive_list" => next = prev
    /\ Init /\ S!Init /\ L!Init /\ X!Init /\ H!HeapInit /\ D!Init

-----------------------------------------------------------------------------
(* One call, of every container.                                           *)

UsesList == program \in {"back", "front"}

Calls(inQueue, inSlist, inList) ==
    /\ program \in {"both", "back", "front"}
    /\ inQueue /\ inSlist
    /\ IF UsesList THEN inList ELSE UNCHANGED list
    /\ UNCHANGED <<program, xorlist, linked, duo>>

PushBack(x) == Calls(push_back(x), S!push_back(x), L!push_back(x))
PushFront(x) == Calls(push_front(x), S!push_front(x), L!push_front(x))

\* The lists have no emplace: they push what the queue's cell holds.
EmplaceBack ==
    Calls(emplace_back, S!push_back(data[tail]), L!push_back(data[tail]))
EmplaceFront ==
    LET x == data[move_backward(head)]
    IN  Calls(emplace_front, S!push_front(x), L!push_front(x))

WriteBack(x) == Calls(write_back(x), S!write_back(x), L!write_back(x))
WriteFront(x) == Calls(write_front(x), S!write_front(x), L!write_front(x))

PopBack ==
    program # "front" /\ Calls(pop_back, S!pop_back, L!pop_back)
PopFront ==
    program # "back" /\ Calls(pop_front, S!pop_front, L!pop_front)
Clear == Calls(clear, S!clear, L!clear)

XorlistCall ==
    /\ program = "xorlist"
    /\ \/ \E x \in Item :
            \/ X!push_back(x) \/ X!push_front(x)
            \/ X!write_back(x) \/ X!write_front(x)
       \/ X!pop_back \/ X!pop_front
       \/ Len(X!Nodes) <= MaxCleared /\ X!clear
    /\ UNCHANGED <<program, vars, slist, list, linked, duo>>

IntrusiveListCall ==
    /\ program = "intrusive_list"
    /\ H!Next
    /\ UNCHANGED <<program, arrays, allocated, exists, duo>>

HeapListCall ==
    program = "list" /\ H!HeapNext /\ UNCHANGED <<program, arrays, duo>>

\* duo::list, from the end the program pops from.
DuoCall ==
    /\ program \in {"duo back", "duo front"}
    /\ \/ \E l \in List, x \in Item : D!push_back(l, x) \/ D!push_front(l, x)
       \/ \E l \in List :
             \/ program = "duo back" /\ D!pop_back(l)
             \/ program = "duo front" /\ D!pop_front(l)
             \/ D!clear(l)
       \/ \E l, m \in List : D!push_back_list(l, m)
    /\ UNCHANGED <<program, arrays, linked>>

ListsNext ==
    \/ \E x \in Item :
          PushBack(x) \/ PushFront(x) \/ WriteBack(x) \/ WriteFront(x)
    \/ EmplaceBack \/ EmplaceFront
    \/ PopBack \/ PopFront \/ Clear
    \/ XorlistCall
    \/ IntrusiveListCall \/ HeapListCall \/ DuoCall

ListsSpec == ListsInit /\ [][ListsNext]_listVars

-----------------------------------------------------------------------------
(* Properties                                                              *)

\* Every link leads to a node or says that there is none.
ListsTypeOK == TypeOK /\ S!TypeOK /\ L!TypeOK /\ X!TypeOK

\* The containers hold the same items in the same order and return the same,
\* although they put them in different places, search the predecessor of the
\* tail (mono::slist) or never reset the links of a new end (mono::list).
SameAnswers ==
    /\ program # "xorlist" => S!Contents = Contents /\ sl_ret = ret
    /\ UsesList => L!Contents = Contents /\ l_ret = ret

\* Every node is in exactly one of the two lists that run through the array
\* of an slist or list: a push never takes a node that holds an item, and none
\* is lost.  An xorlist reads the same from both ends, so that a pop at either
\* end finds the neighbour that the walk of size() goes to, and none of its
\* nodes is free.
NodesAreSound ==
    /\ ListsTypeOK
    /\ S!EveryNodeInOneList
    /\ L!EveryNodeInOneList
    /\ X!ReadsBothWays
    /\ X!FreeNodesHoldNoItem

\* An xorlist is a deque of its items, but for a pop of one of two or more
\* whose neighbour is the node 0, which empties the list.
XorlistIsDeque == [][XD!Next \/ X!PopDropsItems]_<<XContents, x_ret>>

\* The links of an intrusive_list lead along its items both ways, and the
\* owning list has its nodes to itself: every node that was created is in one
\* list or deleted, whatever was moved, spliced, assigned or destroyed.
LinkedNodesAreItems ==
    /\ H!HeapTypeOK
    /\ H!LinksAreItems
    /\ program = "list" => H!NodesAreOwned

\* Chunk after chunk, full or not but never empty, the items of a duo::list are
\* those that were pushed, in order, and a pop returns the one at its end.
ChunksAreContents == D!TypeOK /\ D!ChunksAreContents
==============================================================================
