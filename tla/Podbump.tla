------------------------------- MODULE Podbump -------------------------------
(***************************************************************************)
(* haisu::podbump (src/haisu/memory.h): one map of fixed size behind a     *)
(* bufbump.  The program frees what it has got, once, in any order.        *)
(***************************************************************************)
EXTENDS Bump, FiniteSets

CONSTANTS Size,     \* the size of the map
          Requests  \* the sizes the program asks for

ASSUME SizeAssumption == Size \in Nat
ASSUME RequestsAssumption == Requests \subseteq 0 .. Size + 1

VARIABLES
    bump,  \* _bump
    live   \* history: what is handed out and not freed, [at, size, id]

vars == <<bump, live>>

Ids == 1 .. Size + 1  \* bound: so many allocations are live at once

\* Type invariant: the cursor stays in the map.
TypeOK ==
    /\ bump \in [size : {Size}, cursor : 0 .. Size, refs : Nat]
    /\ live \subseteq [at : 0 .. Size, size : Requests, id : Ids]

Init ==
    /\ bump = assign(Size)
    /\ live = {}

alloc(n) ==
    /\ Fits(bump, n)
    /\ bump' = Bumped(bump, n)
    /\ \E i \in Ids \ {a.id : a \in live} :
            live' = live \cup {[at |-> bump.cursor, size |-> n, id |-> i]}

\* The memory is exhausted: alloc() returns null.
alloc_fails(n) == ~Fits(bump, n) /\ UNCHANGED vars

\* owns(ptr) is an assert.
free(a) ==
    /\ a \in live
    /\ a.at < Size
    /\ bump' = Freed(bump)
    /\ live' = live \ {a}

Next ==
    \/ \E n \in Requests : alloc(n) \/ alloc_fails(n)
    \/ \E a \in live : free(a)

Spec == Init /\ [][Next]_vars

-----------------------------------------------------------------------------
(* Properties                                                              *)

Bytes(a) == a.at .. a.at + a.size - 1

\* No byte is handed out twice, however frees and allocations interleave:
\* the memory is recycled only when nobody holds any of it.
AllocationsAreDisjoint ==
    \A a, b \in live :
        /\ Bytes(a) \subseteq 0 .. Size - 1
        /\ a # b => Bytes(a) \cap Bytes(b) = {}

\* The reference count is the number of allocations, and when there are none
\* the whole map is available again.
RefsCountAllocations ==
    /\ bump.refs = Cardinality(live)
    /\ live = {} => left(bump) = Size
==============================================================================
