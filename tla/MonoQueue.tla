------------------------------ MODULE MonoQueue ------------------------------
(***************************************************************************)
(* haisu::mono::queue<T, N> (src/haisu/mono_queue.h): a double-ended queue *)
(* in a ring of N cells.  One action per member function that changes the  *)
(* queue.  A call that would run into an assert (push on a full queue, pop *)
(* on an empty one) is a call the program may not make, so the assert is   *)
(* the guard of the action.                                                *)
(*                                                                         *)
(* T is taken to be trivially copyable: a cell keeps its old value when an *)
(* item is moved out of it, which is what emplace_back() and               *)
(* emplace_front() then show the caller.                                   *)
(***************************************************************************)
EXTENDS Integers, Sequences

CONSTANTS N,     \* number of cells
          Item,  \* the values of T
          None   \* "nothing returned"

ASSUME NAssumption == N \in Nat \ {0}
ASSUME ItemAssumption == None \notin Item

VARIABLES
    data,   \* the cells
    head,   \* the cell of the first item
    tail,   \* the cell after the last item
    count,  \* the number of items
    ret     \* what the last call returned

vars == <<data, head, tail, count, ret>>

Cell == 0 .. N - 1

\* Type invariant.  count and the cursors stay within what size_type, the
\* smallest unsigned type that holds N, can represent.
TypeOK ==
    /\ data \in [Cell -> Item]
    /\ head \in Cell
    /\ tail \in Cell
    /\ count \in 0 .. N
    /\ ret \in Item \cup {None}

empty == count = 0
full == count = N

move_forward(ptr) == (ptr + 1) % N
move_backward(ptr) == ((N - 1) + ptr) % N

\* The array of a trivially constructible T is not initialised.
Init ==
    /\ data \in [Cell -> Item]
    /\ head = 0
    /\ tail = 0
    /\ count = 0
    /\ ret = None

push_back(x) ==
    /\ ~full
    /\ data' = [data EXCEPT ![tail] = x]
    /\ tail' = move_forward(tail)
    /\ count' = count + 1
    /\ ret' = None
    /\ UNCHANGED head

push_front(x) ==
    /\ ~full
    /\ head' = move_backward(head)
    /\ data' = [data EXCEPT ![move_backward(head)] = x]
    /\ count' = count + 1
    /\ ret' = None
    /\ UNCHANGED tail

\* The new item is whatever the cell held; the caller assigns it through the
\* reference it gets, which is a later write_back or write_front.
emplace_back ==
    /\ ~full
    /\ tail' = move_forward(tail)
    /\ count' = count + 1
    /\ ret' = None
    /\ UNCHANGED <<data, head>>

emplace_front ==
    /\ ~full
    /\ head' = move_backward(head)
    /\ count' = count + 1
    /\ ret' = None
    /\ UNCHANGED <<data, tail>>

\* Mutant: the item is read before the tail moves back.
pop_back_reads_first ==
    /\ ~empty
    /\ tail' = move_backward(tail)
    /\ count' = count - 1
    /\ ret' = data[tail]
    /\ UNCHANGED <<data, head>>

pop_back ==
    /\ ~empty
    /\ tail' = move_backward(tail)
    /\ count' = count - 1
    /\ ret' = data[move_backward(tail)]
    /\ UNCHANGED <<data, head>>

pop_front ==
    /\ ~empty
    /\ ret' = data[head]
    /\ head' = move_forward(head)
    /\ count' = count - 1
    /\ UNCHANGED <<data, tail>>

\* An assignment through the reference front() returns, and through the one
\* back() returns.
write_front(x) ==
    /\ ~empty
    /\ data' = [data EXCEPT ![head] = x]
    /\ ret' = None
    /\ UNCHANGED <<head, tail, count>>

write_back(x) ==
    /\ ~empty
    /\ data' = [data EXCEPT ![move_backward(tail)] = x]
    /\ ret' = None
    /\ UNCHANGED <<head, tail, count>>

\* Mutant: clear() forgets the tail.
clear_keeps_tail ==
    /\ count' = 0
    /\ head' = 0
    /\ ret' = None
    /\ UNCHANGED <<data, tail>>

clear ==
    /\ count' = 0
    /\ head' = 0
    /\ tail' = 0
    /\ ret' = None
    /\ UNCHANGED data

Next ==
    \/ \E x \in Item :
        push_back(x) \/ push_front(x) \/ write_front(x) \/ write_back(x)
    \/ emplace_back
    \/ emplace_front
    \/ pop_back
    \/ pop_front
    \/ clear

Spec == Init /\ [][Next]_vars

-----------------------------------------------------------------------------
\* The items in the order the iterator visits them: `count' cells from head.
Contents == [i \in 1 .. count |-> data[(head + i - 1) % N]]

\* The three cursors agree: the tail is `count' cells after the head.  It is
\* what makes pop_back, which looks only at the tail, and iteration, which
\* looks only at head and count, speak of the same items.
TailFollowsHead == tail = (head + count) % N

Promise == INSTANCE Deque WITH Capacity <- N, contents <- Contents

\* The queue behaves as a bounded deque: every call adds, removes or returns
\* what the deque does, at whatever place the ring has rotated to.
ImplementsDeque == Promise!Spec
==============================================================================
