------------------------------ MODULE MonoStack ------------------------------
(***************************************************************************)
(* mono::overflow_stack (src/haisu/mono_stack.h): a mono::stack, which is  *)
(* an array and a size, that also counts the items it has no cell for.  It *)
(* is the path of a metric, and one may be appended to another one of      *)
(* another capacity.                                                       *)
(*                                                                         *)
(* The comparisons are memcmp()s of all cells, so that they rely on unused *)
(* cells being zero.  They cannot tell an unused cell from a zero item:    *)
(* the items are not zero.  An item is a byte.                             *)
(***************************************************************************)
EXTENDS Integers, Sequences, SequencesExt, FiniteSetsExt

CONSTANTS Stack,      \* the stacks of the program
          Capacity,   \* N of each
          Item, SizeMod,  \* one above the largest size_type
          MaxItems    \* bound on the items pushed

VARIABLES
    cells,    \* _stack._stack of every stack, from cell 0
    size,     \* _stack._size
    overflow, \* _overflow
    pushed    \* history: the items pushed and not popped since

vars == <<cells, size, overflow, pushed>>

Zeroes(n) == [i \in 0 .. n - 1 |-> 0]

Init ==
    /\ cells = [s \in Stack |-> Zeroes(Capacity[s])]
    /\ size = [s \in Stack |-> 0]
    /\ overflow = [s \in Stack |-> 0]
    /\ pushed = [s \in Stack |-> <<>>]

-----------------------------------------------------------------------------
(* The operations                                                          *)

\* What a push makes of a stack with cells c, size n and overflow o.
State(s) == [c |-> cells[s], n |-> size[s], o |-> overflow[s]]
Push(st, t) ==
    IF st.n \in DOMAIN st.c
    THEN [st EXCEPT !.c[st.n] = t, !.n = @ + 1]
    ELSE [st EXCEPT !.o = (@ + 1) % SizeMod]

Becomes(s, st) ==
    /\ cells' = [cells EXCEPT ![s] = st.c]
    /\ size' = [size EXCEPT ![s] = st.n]
    /\ overflow' = [overflow EXCEPT ![s] = st.o]

\* push() and operator+= (T)
push(s, t) ==
    /\ Len(pushed[s]) < MaxItems
    /\ Becomes(s, Push(State(s), t))
    /\ pushed' = [pushed EXCEPT ![s] = Append(@, t)]

\* Mutant: the cell keeps its item.
pop_leaves_item(s) ==
    /\ size[s] + overflow[s] > 0
    /\ IF overflow[s] > 0
       THEN Becomes(s, [State(s) EXCEPT !.o = @ - 1])
       ELSE Becomes(s, [State(s) EXCEPT !.n = @ - 1])
    /\ pushed' = [pushed EXCEPT ![s] = Front(@)]

\* A program that pops an empty stack is stopped by the assertion.
pop(s) ==
    /\ size[s] + overflow[s] > 0
    /\ IF overflow[s] > 0
       THEN Becomes(s, [State(s) EXCEPT !.o = @ - 1])
       ELSE Becomes(s, [State(s) EXCEPT !.c[size[s] - 1] = 0, !.n = @ - 1])
    /\ pushed' = [pushed EXCEPT ![s] = Front(@)]

\* The items that a stack has ignored cannot be appended to a stack that has
\* room for them: the sum would be a stack with room and an overflow.  Nor
\* does the program append a stack to itself.
Appendable(s, o) ==
    /\ s # o
    /\ overflow[o] > 0 => size[s] + size[o] >= Capacity[s]

\* operator+= (overflow_stack)
append(s, o) ==
    /\ Appendable(s, o)
    /\ Len(pushed[s]) + Len(pushed[o]) <= MaxItems
    /\ LET st[n \in 0 .. size[o]] ==
               IF n = 0 THEN State(s) ELSE Push(st[n - 1], cells[o][n - 1])
       IN  Becomes(s, [st[size[o]] EXCEPT !.o = (@ + overflow[o]) % SizeMod])
    /\ pushed' = [pushed EXCEPT ![s] = @ \o pushed[o]]

\* The copy constructor and operator=, between stacks of one capacity.
copy(s, o) ==
    /\ Capacity[s] = Capacity[o]
    /\ Becomes(s, State(o))
    /\ pushed' = [pushed EXCEPT ![s] = pushed[o]]

Next ==
    \E s \in Stack :
        \/ \E t \in Item : push(s, t)
        \/ pop(s)
        \/ \E o \in Stack : append(s, o) \/ copy(s, o)

Spec == Init /\ [][Next]_vars

-----------------------------------------------------------------------------
(* What the queries return                                                 *)

full_size(s) == (size[s] + overflow[s]) % SizeMod

\* operator== compares the cells of the left stack, operator< those of two
\* stacks of one capacity.
equal(s, o) ==
    size[s] = size[o] /\ \A i \in DOMAIN cells[s] : cells[s][i] = cells[o][i]
less(s, o) ==
    \E i \in DOMAIN cells[s] :
        /\ cells[s][i] < cells[o][i]
        /\ \A j \in 0 .. i - 1 : cells[s][j] = cells[o][j]

-----------------------------------------------------------------------------
(* Properties                                                              *)

Kept(s) == SubSeq(pushed[s], 1, Min({Capacity[s], Len(pushed[s])}))

\* A stack holds the items that were pushed first, as many as it has cells
\* for, and counts the others: its size is that of what was pushed, its items
\* are at their places and the top is the last one.
StackIsPrefix ==
    \A s \in Stack :
        /\ [i \in 1 .. size[s] |-> cells[s][i - 1]] = Kept(s)
        /\ full_size(s) = Len(pushed[s])

\* Stacks of one capacity are totally ordered, and equal exactly when they
\* hold the same items; so are stacks of different capacities, the smaller
\* one on the left.
StacksAreOrdered ==
    \A s, o \in Stack :
        /\ Capacity[s] <= Capacity[o] => equal(s, o) = (Kept(s) = Kept(o))
        /\ Capacity[s] = Capacity[o] =>
              Cardinality({r \in 1 .. 3 : <<less(s, o), equal(s, o), less(o, s)>>[r]}) = 1
=============================================================================
