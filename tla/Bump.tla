-------------------------------- MODULE Bump ---------------------------------
(***************************************************************************)
(* haisu::bufbump (src/haisu/memory.h): memory that is handed out from the *)
(* front and recycled all at once.  A bump is a record; its cursor is an   *)
(* offset from _ptr.                                                       *)
(***************************************************************************)
EXTENDS Integers

CONSTANT IntMax  \* the greatest int

ASSUME IntMaxAssumption == IntMax \in Nat

\* assign()
assign(size) == [size |-> size, cursor |-> 0, refs |-> 0]

left(b) == b.size - b.cursor

\* The conversion of a size_t below twice the range of int to an int.
AsInt(n) == IF n <= IntMax THEN n ELSE n - 2 * (IntMax + 1)

Fits(b, n) == n <= left(b)

\* alloc() when the bytes fit; move_cursor() takes an int.
Bumped(b, n) == [b EXCEPT !.cursor = @ + AsInt(n), !.refs = @ + 1]

\* Mutants: no free() recycles the memory; every one does.
Freed_keeps(b) == [b EXCEPT !.refs = @ - 1]

Freed_recycles(b) == [b EXCEPT !.refs = @ - 1, !.cursor = 0]

\* free(): the last one recycles the memory.
Freed(b) == [b EXCEPT !.refs = @ - 1,
                      !.cursor = IF b.refs = 1 THEN 0 ELSE @]
==============================================================================
