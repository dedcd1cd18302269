------------------------------- MODULE Arenas --------------------------------
(***************************************************************************)
(* haisu::growbump and haisu::refbump (src/haisu/memory.h): a list of      *)
(* memory maps, melist<bufbump>, each with a bump of its own in its first  *)
(* bytes.  Small requests are served by the last map of the list, which is *)
(* followed by a new one when it cannot serve them; large ones get a map   *)
(* of their own at the front of the list.                                  *)
(*                                                                         *)
(* alloc() calls itself after it has added a map, so that a call is a      *)
(* sequence of attempts.                                                   *)
(*                                                                         *)
(* In a refbump each allocation is preceded by a pointer to the bump it    *)
(* came from, so that free() finds the map, and a map that is no longer    *)
(* referenced goes back to the system at once.                             *)
(***************************************************************************)
EXTENDS Bump, Sequences, SequencesExt, FiniteSetsExt

CONSTANTS
    Block,     \* BLOCK_SIZE
    Overhead,  \* what each allocation takes in addition to its size
    Requests,  \* the sizes the program asks for
    FreesAll,  \* whether the program ever frees its only allocation
    MaxArenas, \* bound: maps at the same time
    MaxLive    \* bound: live allocations at the same time

VARIABLES
    list,    \* _list: the maps from the first to the last
    bump,    \* bump[m]: the bump of map m
    request, \* the size alloc() was called with, or Idle
    tries,   \* how many maps the call has added
    live     \* history: what is handed out and not freed, [map, at, size]

vars == <<list, bump, request, tries, live>>

Map == 1 .. MaxArenas
Idle == 0

\* Type invariant: a call adds at most one map; the bytes of an allocation
\* include its overhead.
TypeOK ==
    /\ list \in Seq(Map) /\ IsInjective(list)
    /\ bump \in [Map -> [size : Nat, cursor : Nat, refs : 0 .. MaxLive]]
    /\ \A m \in Map : bump[m].cursor <= bump[m].size
    /\ request \in Requests \cup {Idle}
    /\ tries \in 0 .. 1
    /\ live \subseteq [map : Map, at : Nat, size : Nat]

\* The constructors add a first block.
Init ==
    /\ list = <<1>>
    /\ bump = [m \in Map |-> assign(Block)]
    /\ request = Idle
    /\ tries = 0
    /\ live = {}

Unmapped == Map \ ToSet(list)

\* The program calls alloc(n).
Begin(n) ==
    /\ request = Idle
    /\ Cardinality(live) < MaxLive
    /\ request' = n
    /\ tries' = 0
    /\ UNCHANGED <<list, bump, live>>

\* n bytes of map m, whose bump is b, are handed out and alloc() returns.
HandOut(m, b, n) ==
    /\ bump' = [bump EXCEPT ![m] = Bumped(b, n)]
    /\ live' = live \cup {[map |-> m, at |-> b.cursor, size |-> n]}
    /\ request' = Idle
    /\ tries' = 0

\* The last map serves the request.
AllocFromBack ==
    LET m == Last(list) IN
    /\ request # Idle
    /\ list # << >>
    /\ Fits(bump[m], request + Overhead)
    /\ HandOut(m, bump[m], request + Overhead)
    /\ UNCHANGED list

BackIsFull ==
    /\ request # Idle
    /\ list # << >>
    /\ ~Fits(bump[Last(list)], request + Overhead)

\* Mutant: no block is added before the next attempt.
AddBlock_adds_none ==
    /\ BackIsFull
    /\ request < Block
    /\ UNCHANGED vars

\* A new block is added at the back and alloc() calls itself.
AddBlock ==
    /\ BackIsFull
    /\ request < Block
    /\ \E m \in Unmapped :
        /\ m = Min(Unmapped)
        /\ list' = Append(list, m)
        /\ bump' = [bump EXCEPT ![m] = assign(Block)]
    /\ tries' = tries + 1
    /\ UNCHANGED <<request, live>>

\* A request too large for a block gets a map of its own, at the front.
AllocLarge ==
    /\ BackIsFull
    /\ request >= Block
    /\ \E m \in Unmapped :
        /\ m = Min(Unmapped)
        /\ list' = <<m>> \o list
        /\ HandOut(m, assign(request + Overhead), request + Overhead)

Alloc == AllocFromBack \/ AddBlock \/ AllocLarge

-----------------------------------------------------------------------------
(* refbump                                                                 *)

\* Mutant: the map stays when its last allocation is freed.
free_keeps_map(a) ==
    /\ request = Idle
    /\ a \in live
    /\ FreesAll \/ live # {a}
    /\ bump' = [bump EXCEPT ![a.map] = Freed(@)]
    /\ live' = live \ {a}
    /\ UNCHANGED <<list, request, tries>>

free(a) ==
    /\ request = Idle
    /\ a \in live
    /\ FreesAll \/ live # {a}
    /\ bump' = [bump EXCEPT ![a.map] = Freed(@)]
    /\ live' = live \ {a}
    /\ list' = IF bump'[a.map].refs = 0
               THEN RemoveAt(list, CHOOSE i \in DOMAIN list : list[i] = a.map)
               ELSE list
    /\ UNCHANGED <<request, tries>>

Next ==
    \/ \E n \in Requests : Begin(n)
    \/ Alloc
    \/ \E a \in live : free(a)

-----------------------------------------------------------------------------
(* Properties                                                              *)

Bytes(a) == {a.map} \X (a.at .. a.at + a.size - 1)

\* Every allocation lies within a map that is still there, and no byte is
\* handed out twice.
AllocationsAreDisjoint ==
    \A a \in live :
        /\ a.map \in ToSet(list)
        /\ a.at >= 0 /\ a.at + a.size <= bump[a.map].size
        /\ \A b \in live \ {a} : Bytes(a) \cap Bytes(b) = {}

\* A map is there exactly as long as something in it is in use; only the
\* first block, until it is used, and one added by an alloc() that has not
\* returned are there without references.
MapsAreReferenced ==
    \A m \in ToSet(list) :
        /\ bump[m].refs = Cardinality({a \in live : a.map = m})
        /\ bump[m].refs = 0 => bump[m].cursor = 0 /\ (m = 1 \/ request # Idle)
==============================================================================
