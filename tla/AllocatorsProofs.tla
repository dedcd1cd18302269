-------------------------- MODULE AllocatorsProofs ---------------------------
(***************************************************************************)
(* The bump allocators of memory.h never hand out a byte twice, whatever   *)
(* the sizes of their maps and of the requests, as long as these are ints; *)
(* and the pools of object_pool.h neither hand out an object twice nor     *)
(* lose one, for any number of pools, slabs and objects.                   *)
(*                                                                         *)
(* In one map, the cursor is above everything handed out and the reference *)
(* count reaches zero only when nothing is: so what alloc() hands out is   *)
(* above the rest, and free() recycles nothing that is in use.  In a list  *)
(* of maps, every reference is counted in the map it is to, so that free() *)
(* of a refbump gives no map back that is in use.                          *)
(*                                                                         *)
(* In a pool, the links of the free objects go down in some ranking and    *)
(* never meet (IsFreeList).  That says, without walking along the list,    *)
(* that the walk takes every free object once; each call is shown to keep  *)
(* it for a ranking of its own.                                            *)
(***************************************************************************)
EXTENDS Allocators, FiniteSetTheorems, SequenceTheorems, WellFoundedInduction, TLAPS

-----------------------------------------------------------------------------
(* podbump: one map.                                                       *)

\* Every allocation is below the cursor and apart from every other.
Below(a) == a.at + a.size <= bump.cursor
Apart(a, b) == a.at + a.size <= b.at \/ b.at + b.size <= a.at

PodbumpInv ==
    /\ TypeOK
    /\ IsFiniteSet(live)
    /\ bump.refs = Cardinality(live)
    /\ live = {} => bump.cursor = 0
    /\ \A a \in live : Below(a)
    /\ \A a, b \in live : a # b => Apart(a, b)

LEMMA PodbumpInit == Init => PodbumpInv
BY FS_EmptySet, SizeAssumption DEF Init, PodbumpInv, TypeOK, assign

LEMMA PodbumpAlloc ==
    ASSUME Size <= IntMax, PodbumpInv, NEW n \in Requests, alloc(n)
    PROVE  PodbumpInv'
<1> USE SizeAssumption, RequestsAssumption, IntMaxAssumption
<1>1. /\ bump.size = Size /\ bump.cursor \in 0 .. Size /\ bump.refs \in Nat
      /\ n \in Nat /\ n <= Size - bump.cursor
  BY DEF PodbumpInv, TypeOK, alloc, Fits, left
<1>2. bump' = [size |-> Size, cursor |-> bump.cursor + n,
               refs |-> bump.refs + 1]
  <2>1. AsInt(n) = n
    BY <1>1 DEF AsInt
  <2>2. bump' = [bump EXCEPT !.cursor = bump.cursor + n, !.refs = bump.refs + 1]
    BY <2>1 DEF alloc, Bumped
  <2>3. QED
    BY <1>1, <2>2 DEF PodbumpInv, TypeOK
<1>3. PICK i \in Ids \ {a.id : a \in live} :
          live' = live \cup {[at |-> bump.cursor, size |-> n, id |-> i]}
  BY DEF alloc
<1> DEFINE new == [at |-> bump.cursor, size |-> n, id |-> i]
<1>4. new \notin live
  BY <1>3
<1>5. IsFiniteSet(live') /\ Cardinality(live') = Cardinality(live) + 1
  BY <1>3, <1>4, FS_AddElement DEF PodbumpInv
<1>6. \A a \in live : a.at \in Nat /\ a.size \in Nat /\ Below(a)
  BY DEF PodbumpInv, TypeOK
<1>7. TypeOK'
  <2>1. new \in [at : 0 .. Size, size : Requests, id : Ids]
    BY <1>1, <1>3
  <2>2. live' \subseteq [at : 0 .. Size, size : Requests, id : Ids]
    BY <1>3, <2>1 DEF PodbumpInv, TypeOK
  <2>3. QED
    BY <1>1, <1>2, <2>2 DEF TypeOK
<1>8. \A a \in live' : Below(a)'
  BY <1>1, <1>2, <1>3, <1>6 DEF Below
<1>9. \A a, b \in live' : a # b => Apart(a, b)
  <2>1. \A a \in live : Apart(a, new) /\ Apart(new, a)
    BY <1>1, <1>6 DEF Below, Apart
  <2>2. QED
    BY <1>3, <2>1 DEF PodbumpInv
<1>10. QED
  BY <1>1, <1>2, <1>3, <1>5, <1>7, <1>8, <1>9 DEF PodbumpInv, Apart

LEMMA PodbumpFree ==
    ASSUME PodbumpInv, NEW a \in live, free(a)
    PROVE  PodbumpInv'
<1> USE SizeAssumption, RequestsAssumption
<1>1. /\ bump.size = Size /\ bump.cursor \in 0 .. Size /\ bump.refs \in Nat
      /\ live' = live \ {a}
  BY DEF PodbumpInv, TypeOK, free
<1>2. bump' = [size |-> Size, refs |-> bump.refs - 1,
               cursor |-> IF bump.refs = 1 THEN 0 ELSE bump.cursor]
  BY <1>1 DEF free, Freed, PodbumpInv, TypeOK
<1>3. /\ IsFiniteSet(live') /\ Cardinality(live') = Cardinality(live) - 1
      /\ Cardinality(live) \in Nat /\ Cardinality(live') \in Nat
  BY <1>1, FS_RemoveElement, FS_CardinalityType DEF PodbumpInv
<1>4. bump.refs = 1 <=> live' = {}
  BY <1>3, FS_EmptySet DEF PodbumpInv
<1>5. TypeOK'
  BY <1>1, <1>2, <1>3 DEF TypeOK, PodbumpInv
<1>6. \A b \in live' : Below(b)'
  BY <1>1, <1>2, <1>4 DEF Below, PodbumpInv
<1>7. QED
  BY <1>1, <1>2, <1>3, <1>4, <1>5, <1>6 DEF PodbumpInv, Apart

LEMMA PodbumpNext ==
    ASSUME Size <= IntMax, PodbumpInv, [Next]_vars
    PROVE  PodbumpInv'
<1>1. ASSUME UNCHANGED vars PROVE PodbumpInv'
  BY <1>1 DEF vars, PodbumpInv, TypeOK, Below, Apart
<1>2. QED
  BY <1>1, PodbumpAlloc, PodbumpFree DEF Next, alloc_fails

LEMMA PodbumpDisjoint == PodbumpInv => AllocationsAreDisjoint
<1> SUFFICES ASSUME PodbumpInv, NEW a \in live, NEW b \in live
             PROVE  /\ Bytes(a) \subseteq 0 .. Size - 1
                    /\ a # b => Bytes(a) \cap Bytes(b) = {}
  BY DEF AllocationsAreDisjoint
<1> USE SizeAssumption, RequestsAssumption
<1>1. /\ a.at \in Nat /\ a.size \in Nat /\ a.at + a.size <= Size
      /\ b.at \in Nat /\ b.size \in Nat
  <2>1. ASSUME NEW c \in live PROVE c.at \in Nat /\ c.size \in Nat
    <3>1. c \in [at : 0 .. Size, size : Requests, id : Ids]
      BY DEF PodbumpInv, TypeOK
    <3>2. c.at \in 0 .. Size /\ c.size \in Requests
      BY <3>1
    <3>3. c.size \in 0 .. Size + 1
      BY <3>2
    <3>4. QED
      BY <3>2, <3>3
  <2>2. bump.cursor \in Nat /\ bump.cursor <= Size
    BY DEF PodbumpInv, TypeOK
  <2>3. a.at + a.size <= bump.cursor
    BY DEF PodbumpInv, Below
  <2>4. QED
    BY <2>1, <2>2, <2>3
<1>2. Bytes(a) \subseteq 0 .. Size - 1
  BY <1>1 DEF Bytes
<1>3. ASSUME a # b PROVE Bytes(a) \cap Bytes(b) = {}
  <2>1. Apart(a, b)
    BY <1>3 DEF PodbumpInv
  <2>2. QED
    BY <1>1, <2>1 DEF Apart, Bytes
<1>4. QED
  BY <1>2, <1>3

-----------------------------------------------------------------------------
(* growbump and refbump: a list of maps.  The two differ in the overhead   *)
(* of an allocation, which is a parameter of the lemmas.                   *)

ArenaId == 1 .. MaxArenas
Maps == {list[i] : i \in DOMAIN list}
Back == list[Len(list)]
In(S, m) == {a \in S : a.map = m}
On(m) == In(held, m)

ArenasTypeOK ==
    /\ list \in Seq(ArenaId)
    /\ bumps \in [ArenaId -> [size : Nat, cursor : Nat, refs : 0 .. MaxLive]]
    /\ request \in BlockRequests \cup {0}
    /\ tries \in 0 .. 1
    /\ IsFiniteSet(held) /\ Cardinality(held) <= MaxLive
    /\ held \subseteq [map : ArenaId, at : Nat, size : Nat \ {0}]

\* No map is twice in the list.
MapsDiffer == \A i, j \in 1 .. Len(list) : list[i] = list[j] => i = j

\* What is handed out is below the cursor of a map of the list, and apart.
HeldBelow == \A a \in held : a.map \in Maps /\ a.at + a.size <= bumps[a.map].cursor
HeldApart == \A a, b \in held : a # b /\ a.map = b.map => Apart(a, b)

\* A map without references is the first block or has been added by the call
\* under way.
MapsCount ==
    \A m \in Maps :
        /\ bumps[m].refs = Cardinality(On(m))
        /\ bumps[m].refs = 0 => /\ bumps[m].cursor = 0
                                /\ m = 1 \/ (tries = 1 /\ m = Back)

\* A block that has been added serves the request it was added for.
AddedServes ==
    tries = 1 => /\ request # 0 /\ list # <<>>
                 /\ bumps[Back].cursor = 0 /\ request + Overhead <= bumps[Back].size

ArenasInv ==
    /\ ArenasTypeOK
    /\ MapsDiffer
    /\ \A m \in ArenaId : bumps[m].cursor <= bumps[m].size
    /\ request # 0 => Cardinality(held) < MaxLive
    /\ HeldBelow
    /\ HeldApart
    /\ MapsCount
    /\ AddedServes

\* What the theorem assumes of the sizes: they are ints, and a request that is
\* below the size of a block is served by a new one.
RequestsFit ==
    \A n \in BlockRequests : n + Overhead <= IntMax /\ (n < Block => n + Overhead <= Block)

LEMMA ArenasInit == G!Init => ArenasInv
<1> SUFFICES ASSUME G!Init PROVE ArenasInv
  OBVIOUS
<1> USE MaxArenasAssumption, BlockAssumption
<1>1. /\ list = <<1>> /\ bumps = [m \in ArenaId |-> [size |-> Block, cursor |-> 0, refs |-> 0]]
      /\ request = 0 /\ tries = 0 /\ held = {}
  BY DEF G!Init, G!assign, G!Map, G!Idle, ArenaId
<1>2. IsFiniteSet(held) /\ Cardinality(held) = 0 /\ \A m : Cardinality(On(m)) = 0
  <2>1. \A m : On(m) = {}
    BY <1>1 DEF On, In
  <2>2. QED
    BY <1>1, <2>1, FS_EmptySet
<1>3. list \in Seq(ArenaId) /\ Len(list) = 1 /\ Maps = {1}
  BY <1>1 DEF ArenaId, Maps
<1>4. ArenasTypeOK
  BY <1>1, <1>2, <1>3 DEF ArenasTypeOK
<1>5. MapsDiffer /\ HeldBelow /\ HeldApart /\ AddedServes
  BY <1>1, <1>3 DEF MapsDiffer, HeldBelow, HeldApart, AddedServes
<1>6. MapsCount
  BY <1>1, <1>2, <1>3 DEF MapsCount, ArenaId
<1>7. QED
  BY <1>1, <1>4, <1>5, <1>6 DEF ArenasInv

LEMMA ArenasBegin ==
    ASSUME ArenasInv, NEW n \in BlockRequests,
           request = 0, Cardinality(held) < MaxLive,
           request' = n, tries' = 0, UNCHANGED <<list, bumps, held>>
    PROVE  ArenasInv'
<1>1. tries = 0
  BY DEF ArenasInv, ArenasTypeOK, AddedServes
<1>2. ArenasTypeOK' /\ MapsDiffer'
  BY DEF ArenasInv, ArenasTypeOK, MapsDiffer
<1>3. HeldBelow' /\ HeldApart' /\ AddedServes'
  BY DEF ArenasInv, HeldBelow, HeldApart, AddedServes, Maps, Back
<1>4. MapsCount'
  BY <1>1 DEF ArenasInv, MapsCount, Maps, On, In, Back
<1>5. QED
  BY <1>2, <1>3, <1>4 DEF ArenasInv

\* One more allocation is counted in its map only.
LEMMA CountsOne ==
    ASSUME NEW S, IsFiniteSet(S), NEW a, a \notin S, NEW m
    PROVE  Cardinality(In(S \cup {a}, m)) =
              Cardinality(In(S, m)) + (IF a.map = m THEN 1 ELSE 0)
<1> DEFINE T == In(S, m)
           U == In(S \cup {a}, m)
<1>1. IsFiniteSet(T) /\ Cardinality(T) \in Nat
  BY FS_Subset, FS_CardinalityType DEF In
<1>2. a.map = m => U = T \cup {a} /\ a \notin T
  BY DEF In
<1>3. a.map # m => U = T
  BY DEF In
<1> HIDE DEF T, U
<1>4. Cardinality(U) = Cardinality(T) + (IF a.map = m THEN 1 ELSE 0)
  BY <1>1, <1>2, <1>3, FS_AddElement
<1>5. QED
  BY <1>4 DEF T, U

\* n bytes of map m, which is in the list, are handed out.
LEMMA ArenasHandOut ==
    ASSUME ArenasInv, NEW n \in Nat \ {0}, NEW m \in Maps,
           n <= IntMax, n <= bumps[m].size - bumps[m].cursor,
           request # 0, request' = 0, tries' = 0, list' = list,
           tries = 1 => m = Back,
           bumps' = [bumps EXCEPT ![m] = Bumped(bumps[m], n)],
           held' = held \cup {[map |-> m, at |-> bumps[m].cursor, size |-> n]}
    PROVE  ArenasInv'
<1> DEFINE b == bumps[m]
           new == [map |-> m, at |-> b.cursor, size |-> n]
<1>1. /\ list \in Seq(ArenaId) /\ Maps \subseteq ArenaId
      /\ bumps \in [ArenaId -> [size : Nat, cursor : Nat, refs : 0 .. MaxLive]]
      /\ IsFiniteSet(held) /\ Cardinality(held) < MaxLive
      /\ held \subseteq [map : ArenaId, at : Nat, size : Nat \ {0}]
  BY DEF ArenasInv, ArenasTypeOK, Maps
<1>2. /\ b \in [size : Nat, cursor : Nat, refs : 0 .. MaxLive]
      /\ b.cursor \in Nat /\ b.size \in Nat /\ b.refs \in Nat
  BY <1>1
<1>3. Bumped(b, n) = [size |-> b.size, cursor |-> b.cursor + n, refs |-> b.refs + 1]
  <2>1. AsInt(n) = n
    BY DEF AsInt
  <2>2. Bumped(b, n) = [b EXCEPT !.cursor = b.cursor + n, !.refs = b.refs + 1]
    BY <2>1 DEF Bumped
  <2>3. QED
    BY <1>2, <2>2
<1>4. /\ bumps'[m].size = b.size /\ bumps'[m].cursor = b.cursor + n
      /\ bumps'[m].refs = b.refs + 1
      /\ \A k \in ArenaId \ {m} : bumps'[k] = bumps[k]
  BY <1>1, <1>3
<1>5. \A a \in held : a.map = m => a.at \in Nat /\ a.size \in Nat /\ a.at + a.size <= b.cursor
  BY <1>1 DEF ArenasInv, HeldBelow
<1>6. new \notin held
  <2> SUFFICES ASSUME new \in held PROVE FALSE
    OBVIOUS
  <2>1. new.at + new.size <= b.cursor
    BY <1>5
  <2>2. QED
    BY <1>2, <2>1
<1>7. /\ IsFiniteSet(held') /\ Cardinality(held') = Cardinality(held) + 1
      /\ Cardinality(held) \in Nat
  BY <1>1, <1>6, FS_AddElement, FS_CardinalityType
<1>8. \A k : Cardinality(On(k)') = Cardinality(On(k)) + (IF k = m THEN 1 ELSE 0)
  <2> SUFFICES ASSUME NEW k
               PROVE  Cardinality(On(k)') = Cardinality(On(k)) + (IF k = m THEN 1 ELSE 0)
    OBVIOUS
  <2>1. On(k)' = In(held \cup {new}, k) /\ On(k) = In(held, k)
    BY DEF On, In
  <2>2. new.map = m
    OBVIOUS
  <2> HIDE DEF new
  <2>3. Cardinality(In(held \cup {new}, k)) =
           Cardinality(In(held, k)) + (IF new.map = k THEN 1 ELSE 0)
    BY <1>1, <1>6, CountsOne
  <2>4. QED
    BY <2>1, <2>2, <2>3
<1>9. b.refs = Cardinality(On(m)) /\ Cardinality(On(m)) <= Cardinality(held)
  <2>1. b.refs = Cardinality(On(m))
    BY DEF ArenasInv, MapsCount
  <2>2. QED
    BY <1>1, <2>1, FS_Subset DEF On, In
<1>10. ArenasTypeOK'
  <2>1. Bumped(b, n) \in [size : Nat, cursor : Nat, refs : 0 .. MaxLive]
    BY <1>1, <1>2, <1>3, <1>7, <1>9, MaxArenasAssumption
  <2>2. bumps' \in [ArenaId -> [size : Nat, cursor : Nat, refs : 0 .. MaxLive]]
    BY <1>1, <2>1
  <2>3. new \in [map : ArenaId, at : Nat, size : Nat \ {0}]
    BY <1>1, <1>2
  <2>4. QED
    BY <1>1, <1>7, <2>2, <2>3, MaxArenasAssumption DEF ArenasTypeOK
<1>11. \A k \in ArenaId : bumps'[k].cursor <= bumps'[k].size
  <2>1. b.cursor + n <= b.size
    BY <1>2
  <2>2. QED
    BY <1>4, <2>1 DEF ArenasInv
<1>12. MapsDiffer' /\ Maps' = Maps /\ AddedServes'
  BY DEF ArenasInv, MapsDiffer, Maps, AddedServes
<1>13. HeldBelow'
  <2> SUFFICES ASSUME NEW a \in held'
               PROVE  a.map \in Maps /\ a.at + a.size <= bumps'[a.map].cursor
    BY <1>12 DEF HeldBelow
  <2>1. CASE a = new
    <3>1. a.map = m /\ a.at + a.size = b.cursor + n
      BY <2>1
    <3>2. QED
      BY <1>2, <1>4, <3>1
  <2>2. CASE a \in held
    <3>1. a.map \in Maps /\ a.at + a.size <= bumps[a.map].cursor
      BY <2>2 DEF ArenasInv, HeldBelow
    <3>2. CASE a.map = m
      BY <1>1, <1>2, <1>4, <1>5, <2>2, <3>1, <3>2
    <3>3. CASE a.map # m
      BY <1>1, <1>4, <3>1, <3>3
    <3>4. QED
      BY <3>2, <3>3
  <2>3. QED
    BY <2>1, <2>2
<1>14. HeldApart'
  <2>1. \A a \in held : a.map = m => Apart(a, new) /\ Apart(new, a)
    BY <1>5 DEF Apart
  <2>2. QED
    BY <2>1 DEF ArenasInv, HeldApart
<1>15. MapsCount'
  <2> SUFFICES ASSUME NEW k \in Maps
               PROVE  /\ bumps'[k].refs = Cardinality(On(k)')
                      /\ bumps'[k].refs = 0 => bumps'[k].cursor = 0 /\ k = 1
    BY <1>12 DEF MapsCount
  <2>1. CASE k = m
    BY <1>2, <1>4, <1>8, <1>9, <2>1
  <2>2. CASE k # m
    <3>1. bumps'[k] = bumps[k] /\ Cardinality(On(k)') = Cardinality(On(k)) + 0
      BY <1>1, <1>4, <1>8, <2>2
    <3>2. bumps[k].refs = Cardinality(On(k)) /\ Cardinality(On(k)) \in Nat
      BY <1>1, FS_Subset, FS_CardinalityType DEF ArenasInv, MapsCount, On, In
    <3>3. bumps[k].refs = 0 => bumps[k].cursor = 0 /\ k = 1
      <4>1. tries = 1 => k # Back
        BY <2>2
      <4>2. QED
        BY <4>1 DEF ArenasInv, MapsCount
    <3>4. QED
      BY <3>1, <3>2, <3>3
  <2>3. QED
    BY <2>1, <2>2
<1>16. QED
  BY <1>10, <1>11, <1>12, <1>13, <1>14, <1>15 DEF ArenasInv

\* A map that is added, at either end.
LEMMA MapsAdded ==
    ASSUME list \in Seq(ArenaId), MapsDiffer, NEW m \in ArenaId \ Maps,
           list' = Append(list, m) \/ list' = <<m>> \o list
    PROVE  /\ list' \in Seq(ArenaId) /\ MapsDiffer' /\ Maps' = Maps \cup {m}
           /\ list' = Append(list, m) => list' # <<>> /\ Back' = m
<1> DEFINE n == Len(list)
<1>1. n \in Nat /\ \A i \in 1 .. n : list[i] # m /\ list[i] \in ArenaId
  BY ElementOfSeq DEF Maps
<1>2. CASE list' = Append(list, m)
  <2>1. /\ list' \in Seq(ArenaId) /\ Len(list') = n + 1 /\ list'[n + 1] = m
        /\ \A i \in 1 .. n : list'[i] = list[i]
    BY <1>2, AppendProperties
  <2>2. MapsDiffer'
    BY <1>1, <2>1 DEF MapsDiffer
  <2>3. DOMAIN list' = 1 .. n + 1 /\ DOMAIN list = 1 .. n
    BY <2>1
  <2>4. Maps' = Maps \cup {m}
    BY <1>1, <2>1, <2>3 DEF Maps
  <2>5. QED
    BY <1>1, <2>1, <2>2, <2>4, EmptySeq DEF Back
<1>3. CASE list' = <<m>> \o list
  <2>1. <<m>> \in Seq(ArenaId) /\ Len(<<m>>) = 1 /\ <<m>>[1] = m
    OBVIOUS
  <2>2. /\ list' \in Seq(ArenaId) /\ Len(list') = n + 1 /\ list'[1] = m
        /\ \A i \in 2 .. n + 1 : list'[i] = list[i - 1]
    BY <1>1, <1>3, <2>1, ConcatProperties
  <2>3. MapsDiffer'
    BY <1>1, <2>2 DEF MapsDiffer
  <2>4. DOMAIN list' = 1 .. n + 1 /\ DOMAIN list = 1 .. n
    BY <2>2
  <2>5. \A i \in 1 .. n : i + 1 \in 2 .. n + 1 /\ list'[i + 1] = list[i]
    BY <1>1, <2>2
  <2>6. Maps' = Maps \cup {m}
    <3>1. ASSUME NEW k \in Maps' PROVE k \in Maps \cup {m}
      <4>1. PICK i \in 1 .. n + 1 : k = list'[i]
        BY <2>4, <3>1 DEF Maps
      <4>2. CASE i = 1
        BY <2>2, <4>1, <4>2
      <4>3. CASE i \in 2 .. n + 1
        BY <1>1, <2>2, <2>4, <4>1, <4>3 DEF Maps
      <4>4. QED
        BY <1>1, <4>2, <4>3
    <3>2. ASSUME NEW k \in Maps PROVE k \in Maps'
      BY <1>1, <2>4, <2>5, <3>2 DEF Maps
    <3>3. m \in Maps'
      BY <1>1, <2>2, <2>4 DEF Maps
    <3>4. QED
      BY <3>1, <3>2, <3>3
  <2>7. list' # Append(list, m) \/ Back' = m
    BY <1>2, <2>2, AppendProperties DEF Back
  <2>8. QED
    BY <1>1, <2>2, <2>3, <2>6, <2>7, EmptySeq
<1>4. QED
  BY <1>2, <1>3

\* Nothing is handed out from a map that is not in the list.
LEMMA NothingOnOthers ==
    ASSUME ArenasInv, NEW m, m \notin Maps
    PROVE  On(m) = {}
BY DEF ArenasInv, HeldBelow, On, In

\* A map that a call has added is not full.
LEMMA FullIsFirst ==
    ASSUME ArenasInv, NEW o \in 0 .. Overhead, request # 0, list # <<>>,
           ~(request + o <= bumps[Back].size - bumps[Back].cursor)
    PROVE  tries = 0
<1> SUFFICES ASSUME tries = 1 PROVE FALSE
  BY DEF ArenasInv, ArenasTypeOK
<1> DEFINE size == bumps[Back].size
<1>1. bumps[Back].cursor = 0 /\ request + Overhead <= size
  BY DEF ArenasInv, AddedServes
<1>2. request \in Nat
  BY BlockRequestsAssumption DEF ArenasInv, ArenasTypeOK
<1>3. list[Len(list)] \in ArenaId
  BY EmptySeq, ElementOfSeq DEF ArenasInv, ArenasTypeOK
<1>4. size \in Nat
  BY <1>3 DEF Back, ArenasInv, ArenasTypeOK
<1>5. ~(request + o <= size - 0)
  BY <1>1
<1> HIDE DEF size
<1>6. QED
  BY <1>1, <1>2, <1>4, <1>5, BlockAssumption

LEMMA ArenasAddBlock ==
    ASSUME ArenasInv, RequestsFit, NEW o \in 0 .. Overhead,
           request # 0, list # <<>>, request < Block,
           ~(request + o <= bumps[Back].size - bumps[Back].cursor),
           NEW m \in ArenaId \ Maps,
           list' = Append(list, m),
           bumps' = [bumps EXCEPT ![m] = [size |-> Block, cursor |-> 0, refs |-> 0]],
           tries' = tries + 1, UNCHANGED <<request, held>>
    PROVE  ArenasInv'
<1>1. /\ list \in Seq(ArenaId) /\ MapsDiffer /\ Maps \subseteq ArenaId
      /\ bumps \in [ArenaId -> [size : Nat, cursor : Nat, refs : 0 .. MaxLive]]
      /\ request \in BlockRequests
      /\ \A a \in held : a.map \in Maps
  <2>1. list \in Seq(ArenaId) /\ request \in BlockRequests
    BY DEF ArenasInv, ArenasTypeOK
  <2>2. Maps \subseteq ArenaId
    BY <2>1, ElementOfSeq DEF Maps
  <2>3. \A a \in held : a.map \in Maps
    BY DEF ArenasInv, HeldBelow
  <2>4. QED
    BY <2>1, <2>2, <2>3 DEF ArenasInv, ArenasTypeOK
<1>2. tries = 0
  BY FullIsFirst
<1>3. /\ list' \in Seq(ArenaId) /\ MapsDiffer' /\ Maps' = Maps \cup {m}
      /\ list' # <<>> /\ Back' = m
  BY <1>1, MapsAdded
<1>4. /\ bumps'[m].size = Block /\ bumps'[m].cursor = 0 /\ bumps'[m].refs = 0
      /\ \A k \in ArenaId \ {m} : bumps'[k] = bumps[k]
  BY <1>1
<1>5. ArenasTypeOK'
  <2>1. [size |-> Block, cursor |-> 0, refs |-> 0] \in
           [size : Nat, cursor : Nat, refs : 0 .. MaxLive]
    BY BlockAssumption, MaxArenasAssumption
  <2>2. bumps' \in [ArenaId -> [size : Nat, cursor : Nat, refs : 0 .. MaxLive]]
    BY <1>1, <2>1
  <2>3. QED
    BY <1>2, <1>3, <2>2 DEF ArenasInv, ArenasTypeOK
<1>6. \A k \in ArenaId : bumps'[k].cursor <= bumps'[k].size
  BY <1>4, BlockAssumption DEF ArenasInv
<1>7. HeldBelow' /\ HeldApart'
  BY <1>1, <1>3, <1>4 DEF ArenasInv, HeldBelow, HeldApart
<1>8. MapsCount'
  <2> SUFFICES ASSUME NEW k \in Maps'
               PROVE  /\ bumps'[k].refs = Cardinality(On(k))
                      /\ bumps'[k].refs = 0 => bumps'[k].cursor = 0 /\ (k = 1 \/ k = m)
    BY <1>2, <1>3 DEF MapsCount, On
  <2>1. CASE k = m
    <3>1. Cardinality(On(k)) = 0
      BY <2>1, NothingOnOthers, FS_EmptySet
    <3>2. QED
      BY <1>4, <2>1, <3>1
  <2>2. CASE k \in Maps
    <3>1. bumps'[k] = bumps[k]
      BY <1>1, <1>4, <2>2
    <3>2. QED
      BY <1>2, <2>2, <3>1 DEF ArenasInv, MapsCount
  <2>3. QED
    BY <1>3, <2>1, <2>2
<1>9. AddedServes'
  <2>1. request + Overhead <= Block
    BY <1>1 DEF RequestsFit
  <2>2. QED
    BY <1>3, <1>4, <2>1 DEF AddedServes
<1>10. request' # 0 => Cardinality(held') < MaxLive
  BY DEF ArenasInv
<1>11. QED
  BY <1>3, <1>5, <1>6, <1>7, <1>8, <1>9, <1>10 DEF ArenasInv

\* A request too large for a block: its map is added in front and all of it
\* is handed out.
LEMMA ArenasAllocLarge ==
    ASSUME ArenasInv, NEW n \in Nat \ {0}, n <= IntMax,
           NEW m \in ArenaId \ Maps,
           request # 0, request' = 0, tries' = 0,
           list' = <<m>> \o list, tries = 0,
           bumps' = [bumps EXCEPT ![m] = [size |-> n, cursor |-> n, refs |-> 1]],
           held' = held \cup {[map |-> m, at |-> 0, size |-> n]}
    PROVE  ArenasInv'
<1> DEFINE new == [map |-> m, at |-> 0, size |-> n]
<1>1. /\ list \in Seq(ArenaId) /\ MapsDiffer /\ Maps \subseteq ArenaId
      /\ bumps \in [ArenaId -> [size : Nat, cursor : Nat, refs : 0 .. MaxLive]]
      /\ IsFiniteSet(held) /\ Cardinality(held) < MaxLive
      /\ held \subseteq [map : ArenaId, at : Nat, size : Nat \ {0}]
      /\ \A a \in held : a.map \in Maps /\ a.at + a.size <= bumps[a.map].cursor
  BY DEF ArenasInv, ArenasTypeOK, Maps, HeldBelow
<1>2. list' \in Seq(ArenaId) /\ MapsDiffer' /\ Maps' = Maps \cup {m}
  BY <1>1, MapsAdded
<1>3. /\ bumps'[m].size = n /\ bumps'[m].cursor = n /\ bumps'[m].refs = 1
      /\ \A k \in ArenaId \ {m} : bumps'[k] = bumps[k]
  BY <1>1
<1>4. new \notin held
  BY <1>1
<1>5. /\ IsFiniteSet(held') /\ Cardinality(held') = Cardinality(held) + 1
      /\ Cardinality(held) \in Nat
  BY <1>1, <1>4, FS_AddElement, FS_CardinalityType
<1>6. ASSUME NEW k
      PROVE  Cardinality(On(k)') = Cardinality(On(k)) + (IF k = m THEN 1 ELSE 0)
  <2>1. On(k)' = In(held \cup {new}, k) /\ On(k) = In(held, k)
    BY DEF On, In
  <2>2. new.map = m
    OBVIOUS
  <2> HIDE DEF new
  <2>3. Cardinality(In(held \cup {new}, k)) =
           Cardinality(In(held, k)) + (IF new.map = k THEN 1 ELSE 0)
    BY <1>1, <1>4, CountsOne
  <2>4. QED
    BY <2>1, <2>2, <2>3
<1>7. ArenasTypeOK'
  <2>1. 1 \in 0 .. MaxLive
    BY <1>1, <1>5, MaxArenasAssumption
  <2>2. bumps' \in [ArenaId -> [size : Nat, cursor : Nat, refs : 0 .. MaxLive]]
    BY <1>1, <2>1
  <2>3. new \in [map : ArenaId, at : Nat, size : Nat \ {0}]
    OBVIOUS
  <2>4. QED
    BY <1>1, <1>2, <1>5, <2>2, <2>3, MaxArenasAssumption DEF ArenasTypeOK
<1>8. \A k \in ArenaId : bumps'[k].cursor <= bumps'[k].size
  BY <1>3 DEF ArenasInv
<1>9. HeldBelow'
  <2> SUFFICES ASSUME NEW a \in held'
               PROVE  a.map \in Maps' /\ a.at + a.size <= bumps'[a.map].cursor
    BY DEF HeldBelow
  <2>1. CASE a = new
    <3>1. a.map = m /\ a.at + a.size = n
      BY <2>1
    <3>2. QED
      BY <1>2, <1>3, <3>1
  <2>2. CASE a \in held
    BY <1>1, <1>2, <1>3, <2>2
  <2>3. QED
    BY <2>1, <2>2
<1>10. HeldApart'
  <2>1. \A a \in held : a.map # m
    BY <1>1
  <2>2. QED
    BY <2>1 DEF ArenasInv, HeldApart
<1>11. MapsCount'
  <2> SUFFICES ASSUME NEW k \in Maps'
               PROVE  /\ bumps'[k].refs = Cardinality(On(k)')
                      /\ bumps'[k].refs = 0 => bumps'[k].cursor = 0 /\ k = 1
    BY DEF MapsCount
  <2>1. CASE k = m
    <3>1. Cardinality(On(k)) = 0
      BY <2>1, NothingOnOthers, FS_EmptySet
    <3>2. QED
      BY <1>3, <1>6, <2>1, <3>1
  <2>2. CASE k \in Maps
    <3>1. k # m /\ bumps'[k] = bumps[k]
      BY <1>1, <1>3, <2>2
    <3>2. Cardinality(On(k)') = Cardinality(On(k)) + 0
      BY <1>6, <3>1
    <3>3. bumps[k].refs = Cardinality(On(k)) /\ Cardinality(On(k)) \in Nat
      BY <1>1, <2>2, FS_Subset, FS_CardinalityType DEF ArenasInv, MapsCount, On, In
    <3>4. bumps[k].refs = 0 => bumps[k].cursor = 0 /\ k = 1
      BY <2>2 DEF ArenasInv, MapsCount
    <3>5. QED
      BY <3>1, <3>2, <3>3, <3>4
  <2>3. QED
    BY <1>2, <2>1, <2>2
<1>12. AddedServes'
  BY DEF AddedServes
<1>13. QED
  BY <1>2, <1>7, <1>8, <1>9, <1>10, <1>11, <1>12 DEF ArenasInv

\* A sequence without its j-th element.
Without(s, j) == SubSeq(s, 1, j - 1) \o SubSeq(s, j + 1, Len(s))

LEMMA WithoutIs ==
    ASSUME NEW S, NEW s \in Seq(S), NEW j \in 1 .. Len(s)
    PROVE  /\ Without(s, j) \in Seq(S) /\ Len(Without(s, j)) = Len(s) - 1
           /\ \A i \in 1 .. Len(s) - 1 :
                 Without(s, j)[i] = s[IF i < j THEN i ELSE i + 1]
<1> DEFINE n == Len(s)
           before == SubSeq(s, 1, j - 1)
           after == SubSeq(s, j + 1, n)
<1>1. n \in Nat /\ j \in 1 .. n /\ \A i \in 1 .. n : s[i] \in S
  BY ElementOfSeq
<1>2. /\ before \in Seq(S) /\ Len(before) = j - 1
      /\ \A i \in 1 .. j - 1 : before[i] = s[i]
  <2>1. /\ before \in Seq(S)
        /\ Len(before) = IF 1 <= j - 1 THEN (j - 1) - 1 + 1 ELSE 0
        /\ \A i \in 1 .. (j - 1) - 1 + 1 : before[i] = s[1 + i - 1]
    <3>1. j - 1 \in Int /\ \A i \in 1 .. j - 1 : s[i] \in S
      BY <1>1
    <3>2. QED
      BY <3>1, SubSeqProperties
  <2> HIDE DEF before, n
  <2>2. QED
    BY <1>1, <2>1
<1>3. /\ after \in Seq(S) /\ Len(after) = n - j
      /\ \A i \in 1 .. n - j : after[i] = s[j + i]
  <2>1. /\ after \in Seq(S)
        /\ Len(after) = IF j + 1 <= n THEN n - (j + 1) + 1 ELSE 0
        /\ \A i \in 1 .. n - (j + 1) + 1 : after[i] = s[(j + 1) + i - 1]
    <3>1. j + 1 \in Int /\ n \in Int /\ \A i \in j + 1 .. n : s[i] \in S
      BY <1>1
    <3>2. QED
      BY <3>1, SubSeqProperties
  <2> HIDE DEF after, n
  <2>2. QED
    BY <1>1, <2>1
<1>4. Without(s, j) = before \o after
  BY DEF Without
<1> HIDE DEF before, after, n
<1>5. /\ Without(s, j) \in Seq(S) /\ Len(Without(s, j)) = Len(before) + Len(after)
      /\ \A i \in 1 .. Len(before) + Len(after) :
            Without(s, j)[i] = IF i <= Len(before) THEN before[i] ELSE after[i - Len(before)]
  BY <1>2, <1>3, <1>4, ConcatProperties
<1>6. Len(Without(s, j)) = n - 1
  BY <1>1, <1>2, <1>3, <1>5
<1>7. ASSUME NEW i \in 1 .. n - 1 PROVE Without(s, j)[i] = s[IF i < j THEN i ELSE i + 1]
  <2>1. i \in 1 .. Len(before) + Len(after)
    BY <1>1, <1>2, <1>3
  <2>2. CASE i < j
    BY <1>1, <1>2, <1>5, <2>1, <2>2
  <2>3. CASE ~(i < j)
    <3>1. i - (j - 1) \in 1 .. n - j /\ j + (i - (j - 1)) = i + 1 /\ ~(i <= j - 1)
      BY <1>1, <2>3
    <3>2. Without(s, j)[i] = after[i - (j - 1)]
      BY <1>2, <1>5, <2>1, <3>1
    <3>3. after[i - (j - 1)] = s[j + (i - (j - 1))]
      BY <1>3, <3>1
    <3>4. QED
      BY <2>3, <3>1, <3>2, <3>3
  <2>4. QED
    BY <2>2, <2>3
<1>8. QED
  BY <1>5, <1>6, <1>7 DEF n

\* A map that is removed from the list.
LEMMA MapRemoved ==
    ASSUME list \in Seq(ArenaId), MapsDiffer, NEW m \in Maps,
           list' = Without(list, CHOOSE i \in DOMAIN list : list[i] = m)
    PROVE  list' \in Seq(ArenaId) /\ MapsDiffer' /\ Maps' = Maps \ {m}
<1> DEFINE j == CHOOSE i \in DOMAIN list : list[i] = m
           n == Len(list)
           at(i) == IF i < j THEN i ELSE i + 1
<1>1. n \in Nat /\ DOMAIN list = 1 .. n
  OBVIOUS
<1>2. j \in 1 .. n /\ list[j] = m
  BY <1>1 DEF Maps
<1> HIDE DEF j
<1>3. /\ list' \in Seq(ArenaId) /\ Len(list') = n - 1
      /\ \A i \in 1 .. n - 1 : list'[i] = list[at(i)]
  BY <1>2, WithoutIs DEF j
<1>4. DOMAIN list' = 1 .. n - 1
  BY <1>3, LenProperties
<1>5. \A i \in 1 .. n : list[i] = m => i = j
  BY <1>2 DEF MapsDiffer
<1>6. \A i, k \in 1 .. n : list[i] = list[k] => i = k
  BY DEF MapsDiffer
<1> HIDE DEF n
<1>7. /\ \A i \in 1 .. n - 1 : at(i) \in 1 .. n /\ at(i) # j
      /\ \A i, k \in 1 .. n - 1 : at(i) = at(k) => i = k
      /\ \A l \in 1 .. n : l # j => \E i \in 1 .. n - 1 : at(i) = l
  <2>1. /\ \A i \in 1 .. n - 1 : at(i) \in 1 .. n /\ at(i) # j
        /\ \A i, k \in 1 .. n - 1 : at(i) = at(k) => i = k
    BY <1>1, <1>2
  <2>2. ASSUME NEW l \in 1 .. n, l # j PROVE \E i \in 1 .. n - 1 : at(i) = l
    <3>1. CASE l < j
      <4>1. l \in 1 .. n - 1 /\ at(l) = l
        BY <1>1, <1>2, <3>1
      <4>2. QED
        BY <4>1
    <3>2. CASE l > j
      <4>1. l - 1 \in 1 .. n - 1 /\ at(l - 1) = l
        BY <1>1, <1>2, <3>2
      <4>2. QED
        BY <4>1
    <3>3. QED
      BY <1>2, <2>2, <3>1, <3>2
  <2>3. QED
    BY <2>1, <2>2
<1> HIDE DEF at
<1>8. MapsDiffer'
  BY <1>3, <1>6, <1>7 DEF MapsDiffer
<1>9. Maps' = {list[at(i)] : i \in 1 .. n - 1} /\ Maps = {list[i] : i \in 1 .. n}
  BY <1>1, <1>3, <1>4 DEF Maps
<1>10. Maps' = Maps \ {m}
  BY <1>2, <1>5, <1>7, <1>9
<1>11. QED
  BY <1>3, <1>8, <1>10

\* One reference less in map a.map, which goes back with the last of them.
LEMMA ArenasFree ==
    ASSUME ArenasInv, NEW a \in held, request = 0,
           UNCHANGED <<request, tries>>,
           bumps' = [bumps EXCEPT ![a.map] = Freed(bumps[a.map])],
           held' = held \ {a},
           bumps'[a.map].refs # 0 => list' = list,
           bumps'[a.map].refs = 0 =>
              list' \in Seq(ArenaId) /\ MapsDiffer' /\ Maps' = Maps \ {a.map}
    PROVE  ArenasInv'
<1> DEFINE m == a.map
           b == bumps[m]
<1>1. /\ list \in Seq(ArenaId) /\ tries = 0 /\ m \in Maps /\ m \in ArenaId
      /\ bumps \in [ArenaId -> [size : Nat, cursor : Nat, refs : 0 .. MaxLive]]
      /\ IsFiniteSet(held) /\ Cardinality(held) \in Nat
      /\ held \subseteq [map : ArenaId, at : Nat, size : Nat \ {0}]
  BY FS_CardinalityType DEF ArenasInv, ArenasTypeOK, AddedServes, HeldBelow
<1>2. /\ b \in [size : Nat, cursor : Nat, refs : 0 .. MaxLive]
      /\ b.cursor \in Nat /\ b.size \in Nat /\ b.refs \in Nat
      /\ bumps' = [bumps EXCEPT ![m] = Freed(b)]
      /\ bumps'[m].refs # 0 => list' = list
      /\ bumps'[m].refs = 0 => Maps' = Maps \ {m}
  BY <1>1
<1>3. Maps \subseteq ArenaId
  BY <1>1, ElementOfSeq DEF Maps
<1> HIDE DEF b
<1>4. Freed(b) = [size |-> b.size, refs |-> b.refs - 1,
                  cursor |-> IF b.refs = 1 THEN 0 ELSE b.cursor]
  <2>1. Freed(b) = [b EXCEPT !.refs = b.refs - 1,
                             !.cursor = IF b.refs = 1 THEN 0 ELSE b.cursor]
    BY DEF Freed
  <2>2. QED
    BY <1>2, <2>1
<1>5. /\ bumps'[m].size = b.size /\ bumps'[m].refs = b.refs - 1
      /\ bumps'[m].cursor = (IF b.refs = 1 THEN 0 ELSE b.cursor)
      /\ \A k \in ArenaId \ {m} : bumps'[k] = bumps[k]
  BY <1>1, <1>2, <1>4
<1>6. IsFiniteSet(held') /\ Cardinality(held') = Cardinality(held) - 1
  BY <1>1, FS_RemoveElement
<1>7. \A k \in Maps : /\ bumps[k].refs = Cardinality(On(k)) /\ Cardinality(On(k)) \in Nat
                      /\ IsFiniteSet(On(k))
  BY <1>1, FS_Subset, FS_CardinalityType DEF ArenasInv, MapsCount, On, In
<1>8. On(m)' = On(m) \ {a} /\ a \in On(m) /\ \A k \in Maps \ {m} : On(k)' = On(k)
  BY DEF On, In
<1>9. Cardinality(On(m)') = Cardinality(On(m)) - 1 /\ Cardinality(On(m)) > 0
  <2>1. IsFiniteSet(On(m)) /\ Cardinality(On(m)) \in Nat
    BY <1>1, <1>7
  <2>2. Cardinality(On(m)) # 0
    BY <1>8, <2>1, FS_EmptySet
  <2>3. Cardinality(On(m) \ {a}) = Cardinality(On(m)) - 1
    BY <1>8, <2>1, FS_RemoveElement
  <2>4. QED
    BY <1>8, <2>1, <2>2, <2>3
<1>10. b.refs > 0 /\ b.refs - 1 \in 0 .. MaxLive
  <2>1. b.refs = Cardinality(On(m)) /\ b.refs \in 0 .. MaxLive
    BY <1>1, <1>2, <1>7 DEF b
  <2>2. QED
    BY <1>9, <2>1, MaxArenasAssumption
<1>11. \A k \in Maps' : k \in Maps /\ (k = m => b.refs # 1)
  <2>1. CASE b.refs = 1
    BY <1>2, <1>5, <2>1
  <2>2. CASE b.refs # 1
    <3>1. list' = list
      BY <1>2, <1>5, <2>2
    <3>2. QED
      BY <2>2, <3>1 DEF Maps
  <2>3. QED
    BY <2>1, <2>2
<1>12. list' \in Seq(ArenaId) /\ MapsDiffer'
  BY <1>1 DEF ArenasInv, MapsDiffer
<1>13. ArenasTypeOK'
  <2>1. Freed(b) \in [size : Nat, cursor : Nat, refs : 0 .. MaxLive]
    BY <1>2, <1>4, <1>10
  <2>2. bumps' \in [ArenaId -> [size : Nat, cursor : Nat, refs : 0 .. MaxLive]]
    BY <1>1, <1>2, <2>1
  <2>3. Cardinality(held') <= MaxLive
    BY <1>1, <1>6, MaxArenasAssumption DEF ArenasInv, ArenasTypeOK
  <2>4. QED
    BY <1>1, <1>6, <1>12, <2>2, <2>3 DEF ArenasInv, ArenasTypeOK
<1>14. \A k \in ArenaId : bumps'[k].cursor <= bumps'[k].size
  <2>1. \A k \in ArenaId : bumps[k].cursor <= bumps[k].size
    BY DEF ArenasInv
  <2>2. b.cursor <= b.size
    BY <1>1, <2>1 DEF b
  <2>3. QED
    BY <1>2, <1>5, <2>1, <2>2
<1>15. HeldBelow'
  <2> SUFFICES ASSUME NEW c \in held'
               PROVE  c.map \in Maps' /\ c.at + c.size <= bumps'[c.map].cursor
    BY DEF HeldBelow
  <2>1. c \in held /\ c # a /\ c.map \in Maps /\ c.at + c.size <= bumps[c.map].cursor
    BY DEF ArenasInv, HeldBelow
  <2>2. CASE c.map = m
    <3>1. c \in On(m)'
      BY <2>2 DEF On, In
    <3>2. b.refs # 1
      <4> SUFFICES ASSUME b.refs = 1 PROVE FALSE
        OBVIOUS
      <4>1. Cardinality(On(m)') = 0
        BY <1>1, <1>7, <1>9 DEF b
      <4>2. IsFiniteSet(On(m)')
        BY <1>6, FS_Subset DEF On, In
      <4>3. QED
        BY <3>1, <4>1, <4>2, FS_EmptySet
    <3>3. list' = list
      BY <1>2, <1>5, <3>2
    <3>4. QED
      BY <1>5, <2>1, <2>2, <3>2, <3>3 DEF Maps, b
  <2>3. CASE c.map # m
    <3>1. c.map \in Maps'
      BY <2>1, <2>3 DEF Maps
    <3>2. QED
      BY <1>3, <1>5, <2>1, <2>3, <3>1
  <2>4. QED
    BY <2>2, <2>3
<1>16. HeldApart' /\ AddedServes'
  BY <1>1 DEF ArenasInv, HeldApart, AddedServes
<1>17. MapsCount'
  <2> SUFFICES ASSUME NEW k \in Maps'
               PROVE  /\ bumps'[k].refs = Cardinality(On(k)')
                      /\ bumps'[k].refs = 0 => bumps'[k].cursor = 0 /\ k = 1
    BY DEF MapsCount
  <2>1. CASE k = m
    <3>1. b.refs # 1 /\ b.refs = Cardinality(On(m))
      BY <1>1, <1>7, <1>11, <2>1 DEF b
    <3>2. bumps'[k].refs = Cardinality(On(m)') /\ bumps'[k].refs # 0
      BY <1>2, <1>5, <1>9, <2>1, <3>1
    <3>3. QED
      BY <2>1, <3>2
  <2>2. CASE k # m
    <3>1. k \in Maps /\ bumps'[k] = bumps[k] /\ On(k)' = On(k)
      BY <1>3, <1>5, <1>8, <1>11, <2>2
    <3>2. bumps[k].refs = 0 => bumps[k].cursor = 0 /\ k = 1
      BY <1>1, <3>1 DEF ArenasInv, MapsCount
    <3>3. QED
      BY <1>7, <3>1, <3>2
  <2>3. QED
    BY <2>1, <2>2
<1>18. request' # 0 => Cardinality(held') < MaxLive
  OBVIOUS
<1>19. QED
  BY <1>12, <1>13, <1>14, <1>15, <1>16, <1>17, <1>18 DEF ArenasInv

-----------------------------------------------------------------------------
(* The steps of the two allocators.                                        *)

\* What the instances call by names of their own.
LEMMA SameOperators ==
    /\ \A S : G!Cardinality(S) = Cardinality(S) /\ R!Cardinality(S) = Cardinality(S)
    /\ \A s : G!ToSet(s) = {s[i] : i \in DOMAIN s} /\ R!ToSet(s) = {s[i] : i \in DOMAIN s}
    /\ \A s : G!Last(s) = s[Len(s)] /\ R!Last(s) = s[Len(s)]
    /\ \A b, n : /\ G!Fits(b, n) <=> n <= b.size - b.cursor
                 /\ R!Fits(b, n) <=> n <= b.size - b.cursor
                 /\ G!Bumped(b, n) = Bumped(b, n) /\ R!Bumped(b, n) = Bumped(b, n)
                 /\ R!Freed(b) = Freed(b)
    /\ \A n : LET e == [size |-> n, cursor |-> 0, refs |-> 0]
              IN  G!assign(n) = e /\ R!assign(n) = e
<1>1. \A S : G!Cardinality(S) = Cardinality(S) /\ R!Cardinality(S) = Cardinality(S)
  BY DEF G!Cardinality, R!Cardinality, Cardinality
<1>2. \A s : G!ToSet(s) = {s[i] : i \in DOMAIN s} /\ R!ToSet(s) = {s[i] : i \in DOMAIN s}
  BY DEF G!ToSet, R!ToSet
<1>3. \A s : G!Last(s) = s[Len(s)] /\ R!Last(s) = s[Len(s)]
  BY DEF G!Last, R!Last
<1>4. \A b, n : /\ G!Fits(b, n) <=> n <= b.size - b.cursor
                /\ R!Fits(b, n) <=> n <= b.size - b.cursor
  BY DEF G!Fits, R!Fits, G!left, R!left
<1>5. \A b, n : /\ G!Bumped(b, n) = Bumped(b, n) /\ R!Bumped(b, n) = Bumped(b, n)
                /\ R!Freed(b) = Freed(b)
  BY DEF G!Bumped, R!Bumped, Bumped, G!AsInt, R!AsInt, AsInt, R!Freed, Freed
<1>6. \A n : LET e == [size |-> n, cursor |-> 0, refs |-> 0]
             IN  G!assign(n) = e /\ R!assign(n) = e
  BY DEF G!assign, R!assign
<1>7. QED
  BY <1>1, <1>2, <1>3, <1>4, <1>5, <1>6

\* The attempts of alloc(), with the overhead o.
Serves(o) ==
    /\ request # 0 /\ list # <<>>
    /\ request + o <= bumps[Back].size - bumps[Back].cursor
    /\ bumps' = [bumps EXCEPT ![Back] = Bumped(bumps[Back], request + o)]
    /\ held' = held \cup {[map |-> Back, at |-> bumps[Back].cursor, size |-> request + o]}
    /\ request' = 0 /\ tries' = 0 /\ list' = list

IsFull(o) ==
    /\ request # 0 /\ list # <<>>
    /\ ~(request + o <= bumps[Back].size - bumps[Back].cursor)

Adds(o) ==
    /\ IsFull(o) /\ request < Block
    /\ \E m \in ArenaId \ Maps :
          /\ list' = Append(list, m)
          /\ bumps' = [bumps EXCEPT ![m] = [size |-> Block, cursor |-> 0, refs |-> 0]]
    /\ tries' = tries + 1 /\ UNCHANGED <<request, held>>

AllocsLarge(o) ==
    /\ IsFull(o)
    /\ \E m \in ArenaId \ Maps :
          /\ list' = <<m>> \o list
          /\ bumps' = [bumps EXCEPT ![m] =
                         Bumped([size |-> request + o, cursor |-> 0, refs |-> 0], request + o)]
          /\ held' = held \cup {[map |-> m, at |-> 0, size |-> request + o]}
    /\ request' = 0 /\ tries' = 0

LEMMA GrowbumpAttempts == G!Alloc => Serves(0) \/ Adds(0) \/ AllocsLarge(0)
<1>1. CASE G!AllocFromBack
  BY <1>1, SameOperators DEF G!AllocFromBack, G!HandOut, G!Idle, Serves, Back
<1>2. CASE G!AddBlock
  BY <1>2, SameOperators
     DEF G!AddBlock, G!BackIsFull, G!Idle, G!Unmapped, G!Map, IsFull, Adds, Back, Maps, ArenaId
<1>3. CASE G!AllocLarge
  BY <1>3, SameOperators
     DEF G!AllocLarge, G!BackIsFull, G!HandOut, G!Idle, G!Unmapped, G!Map, IsFull, AllocsLarge,
         Back, Maps, ArenaId
<1>4. QED
  BY <1>1, <1>2, <1>3 DEF G!Alloc

LEMMA RefbumpAttempts ==
    R!Alloc => Serves(Overhead) \/ Adds(Overhead) \/ AllocsLarge(Overhead)
<1>1. CASE R!AllocFromBack
  BY <1>1, SameOperators DEF R!AllocFromBack, R!HandOut, R!Idle, Serves, Back
<1>2. CASE R!AddBlock
  BY <1>2, SameOperators
     DEF R!AddBlock, R!BackIsFull, R!Idle, R!Unmapped, R!Map, IsFull, Adds, Back, Maps, ArenaId
<1>3. CASE R!AllocLarge
  BY <1>3, SameOperators
     DEF R!AllocLarge, R!BackIsFull, R!HandOut, R!Idle, R!Unmapped, R!Map, IsFull, AllocsLarge,
         Back, Maps, ArenaId
<1>4. QED
  BY <1>1, <1>2, <1>3 DEF R!Alloc

\* An attempt preserves the invariant, whatever the overhead.
LEMMA ArenasAttempt ==
    ASSUME RequestsFit, ArenasInv, NEW o \in 0 .. Overhead,
           Serves(o) \/ Adds(o) \/ AllocsLarge(o)
    PROVE  ArenasInv'
<1> DEFINE n == request + o
<1>1. request # 0
  BY DEF Serves, Adds, AllocsLarge, IsFull
<1>2. n \in Nat \ {0} /\ n <= IntMax
  <2>1. request \in BlockRequests
    BY <1>1 DEF ArenasInv, ArenasTypeOK
  <2>2. request \in Nat \ {0} /\ request + Overhead <= IntMax
    BY <2>1, BlockRequestsAssumption DEF RequestsFit
  <2>3. QED
    BY <2>2, BlockAssumption, IntMaxAssumption
<1>3. CASE Serves(o)
  <2>1. Back \in Maps
    BY <1>3, EmptySeq DEF Serves, Back, Maps, ArenasInv, ArenasTypeOK
  <2>2. QED
    BY <1>2, <1>3, <2>1, ArenasHandOut DEF Serves
<1>4. CASE Adds(o)
  BY <1>4, ArenasAddBlock DEF Adds, IsFull
<1>5. CASE AllocsLarge(o)
  <2> HIDE DEF n
  <2>1. tries = 0
    BY <1>5, FullIsFirst DEF AllocsLarge, IsFull
  <2>2. Bumped([size |-> n, cursor |-> 0, refs |-> 0], n) =
           [size |-> n, cursor |-> n, refs |-> 1]
    <3>1. AsInt(n) = n
      BY <1>2, IntMaxAssumption DEF AsInt
    <3>2. Bumped([size |-> n, cursor |-> 0, refs |-> 0], n) =
             [[size |-> n, cursor |-> 0, refs |-> 0] EXCEPT !.cursor = 0 + n, !.refs = 0 + 1]
      BY <3>1 DEF Bumped
    <3>3. 0 + n = n /\ 0 + 1 = 1
      BY <1>2
    <3>4. QED
      BY <3>2, <3>3
  <2>3. QED
    BY <1>1, <1>2, <1>5, <2>1, <2>2, ArenasAllocLarge DEF AllocsLarge, n
<1>6. QED
  BY <1>3, <1>4, <1>5

LEMMA ArenasStay == ArenasInv /\ UNCHANGED arenas => ArenasInv'
<1> SUFFICES ASSUME ArenasInv, UNCHANGED arenas PROVE ArenasInv'
  OBVIOUS
<1>1. UNCHANGED <<list, bumps, request, tries, held>>
  BY DEF arenas
<1>2. UNCHANGED <<Maps, Back>> /\ \A m : UNCHANGED On(m)
  BY <1>1 DEF Maps, Back, On
<1>3. ArenasTypeOK'
  BY <1>1 DEF ArenasInv, ArenasTypeOK
<1>4. MapsDiffer'
  BY <1>1 DEF ArenasInv, MapsDiffer
<1>5. HeldBelow'
  BY <1>1, <1>2 DEF ArenasInv, HeldBelow
<1>6. HeldApart'
  BY <1>1 DEF ArenasInv, HeldApart
<1>7. MapsCount'
  BY <1>1, <1>2 DEF ArenasInv, MapsCount
<1>8. AddedServes'
  BY <1>1, <1>2 DEF ArenasInv, AddedServes
<1>9. /\ \A m \in ArenaId : bumps'[m].cursor <= bumps'[m].size
      /\ request' # 0 => Cardinality(held') < MaxLive
  BY <1>1 DEF ArenasInv
<1>10. QED
  BY <1>3, <1>4, <1>5, <1>6, <1>7, <1>8, <1>9 DEF ArenasInv

LEMMA GrowbumpStep ==
    ASSUME RequestsFit, ArenasInv, GrowbumpCall
    PROVE  ArenasInv'
<1>1. ASSUME NEW n \in BlockRequests, G!Begin(n) PROVE ArenasInv'
  BY <1>1, ArenasBegin, SameOperators DEF G!Begin, G!Idle
<1>2. CASE G!Alloc
  BY <1>2, GrowbumpAttempts, ArenasAttempt, BlockAssumption
<1>3. QED
  BY <1>1, <1>2, ArenasStay DEF GrowbumpCall

LEMMA RefbumpStep ==
    ASSUME RequestsFit, ArenasInv, RefbumpCall
    PROVE  ArenasInv'
<1>1. ASSUME NEW n \in BlockRequests, R!Begin(n) PROVE ArenasInv'
  BY <1>1, ArenasBegin, SameOperators DEF R!Begin, R!Idle
<1>2. CASE R!Alloc
  BY <1>2, RefbumpAttempts, ArenasAttempt, BlockAssumption
<1>3. ASSUME NEW a \in held, R!free(a) PROVE ArenasInv'
  <2>1. /\ request = 0 /\ UNCHANGED <<request, tries>>
        /\ bumps' = [bumps EXCEPT ![a.map] = Freed(bumps[a.map])]
        /\ held' = held \ {a}
        /\ bumps'[a.map].refs # 0 => list' = list
        /\ bumps'[a.map].refs = 0 =>
              list' = Without(list, CHOOSE i \in DOMAIN list : list[i] = a.map)
    BY <1>3, SameOperators DEF R!free, R!Idle, R!RemoveAt, Without
  <2>2. list \in Seq(ArenaId) /\ MapsDiffer /\ a.map \in Maps
    BY DEF ArenasInv, ArenasTypeOK, HeldBelow
  <2>3. bumps'[a.map].refs = 0 =>
           list' \in Seq(ArenaId) /\ MapsDiffer' /\ Maps' = Maps \ {a.map}
    BY <2>1, <2>2, MapRemoved
  <2>4. QED
    BY <2>1, <2>3, ArenasFree
<1>4. QED
  BY <1>1, <1>2, <1>3 DEF RefbumpCall, R!Next

LEMMA ArenasNext ==
    ASSUME RequestsFit, ArenasInv, [AllocNext]_allocVars
    PROVE  ArenasInv'
<1>1. CASE PodbumpCall \/ PoolCall \/ UNCHANGED allocVars
  BY <1>1, ArenasStay DEF PodbumpCall, PoolCall, allocVars
<1>2. QED
  BY <1>1, GrowbumpStep, RefbumpStep DEF AllocNext

LEMMA ArenasHold == ArenasInv => MapsHoldAllocations
<1> SUFFICES ASSUME ArenasInv PROVE MapsHoldAllocations
  OBVIOUS
<1>1. /\ list \in Seq(ArenaId)
      /\ bumps \in [ArenaId -> [size : Nat, cursor : Nat, refs : 0 .. MaxLive]]
      /\ held \subseteq [map : ArenaId, at : Nat, size : Nat \ {0}]
      /\ Maps \subseteq ArenaId /\ Maps = G!ToSet(list) /\ Maps = R!ToSet(list)
  <2>1. list \in Seq(ArenaId)
    BY DEF ArenasInv, ArenasTypeOK
  <2>2. Maps \subseteq ArenaId
    BY <2>1, ElementOfSeq DEF Maps
  <2>3. QED
    BY <2>2, SameOperators DEF ArenasInv, ArenasTypeOK, Maps
<1>2. G!TypeOK
  <2>1. G!IsInjective(list)
    <3>1. DOMAIN list = 1 .. Len(list)
      BY <1>1
    <3>2. \A i, j \in DOMAIN list : list[i] = list[j] => i = j
      BY <3>1 DEF ArenasInv, MapsDiffer
    <3>3. QED
      BY <3>2 DEF G!IsInjective
  <2>2. held \subseteq [map : ArenaId, at : Nat, size : Nat]
    BY <1>1
  <2>3. QED
    BY <1>1, <2>1, <2>2 DEF G!TypeOK, G!Map, G!Idle, ArenaId, ArenasInv, ArenasTypeOK
<1>3. G!AllocationsAreDisjoint
  <2> SUFFICES ASSUME NEW a \in held
               PROVE  /\ a.map \in Maps /\ a.at >= 0
                      /\ a.at + a.size <= bumps[a.map].size
                      /\ \A b \in held \ {a} : G!Bytes(a) \cap G!Bytes(b) = {}
    BY <1>1 DEF G!AllocationsAreDisjoint
  <2>1. \A b \in held : b.at \in Nat /\ b.size \in Nat
    BY <1>1
  <2>2. /\ a.map \in Maps /\ a.at + a.size <= bumps[a.map].cursor
        /\ bumps[a.map].cursor <= bumps[a.map].size
        /\ bumps[a.map].cursor \in Nat /\ bumps[a.map].size \in Nat
    BY <1>1 DEF ArenasInv, HeldBelow
  <2>3. ASSUME NEW b \in held \ {a} PROVE G!Bytes(a) \cap G!Bytes(b) = {}
    <3>1. CASE a.map # b.map
      BY <3>1 DEF G!Bytes
    <3>2. CASE a.map = b.map
      <4>1. Apart(a, b)
        BY <3>2 DEF ArenasInv, HeldApart
      <4>2. (a.at .. a.at + a.size - 1) \cap (b.at .. b.at + b.size - 1) = {}
        BY <2>1, <4>1 DEF Apart
      <4>3. QED
        BY <4>2 DEF G!Bytes
    <3>3. QED
      BY <3>1, <3>2
  <2>4. QED
    BY <2>1, <2>2, <2>3
<1>4. R!MapsAreReferenced
  <2> SUFFICES ASSUME NEW m \in Maps
               PROVE  /\ bumps[m].refs = Cardinality(On(m))
                      /\ bumps[m].refs = 0 =>
                            bumps[m].cursor = 0 /\ (m = 1 \/ request # 0)
    BY <1>1, SameOperators DEF R!MapsAreReferenced, R!Idle, On, In
  <2>1. QED
    BY DEF ArenasInv, MapsCount, AddedServes
<1>5. QED
  BY <1>2, <1>3, <1>4 DEF MapsHoldAllocations

-----------------------------------------------------------------------------
(* Free lists.  That a list runs through all the free objects is said      *)
(* without walking along it: the links go down in some ranking, no two of  *)
(* them lead to the same place, and none to the first object.              *)

IsFreeList(nil, first, link, F, rank) ==
    /\ first \in F \cup {nil}
    /\ first = nil => F = {}
    /\ \A o \in F : link[o] \in F \cup {nil} /\ link[o] # first
    /\ \A o \in F : link[o] \in F => rank[link[o]] < rank[o]
    /\ \A o, q \in F : link[o] = link[q] => o = q

LEMMA LeastExists ==
    ASSUME NEW P \in SUBSET Nat, P # {}
    PROVE  \E n \in P : \A m \in P : n <= m
<1>1. PICK c \in P : \A d \in P : ~(<<d, c>> \in OpToRel(<, Nat))
  BY WFMin, NatLessThanWellFounded
<1>2. \A d \in P : ~(d < c)
  BY <1>1 DEF OpToRel
<1>3. QED
  BY <1>2

\* The first object leaves the list.
LEMMA FirstTaken ==
    ASSUME NEW Obj, NEW nil, nil \notin Obj, NEW F \in SUBSET Obj, NEW first \in F,
           NEW link, NEW rank \in [Obj -> Nat], IsFreeList(nil, first, link, F, rank)
    PROVE  IsFreeList(nil, link[first], link, F \ {first}, rank)
<1>1. link[first] \in (F \ {first}) \cup {nil}
  BY DEF IsFreeList
<1>2. link[first] = nil => F \ {first} = {}
  <2> SUFFICES ASSUME link[first] = nil, F \ {first} # {} PROVE FALSE
    OBVIOUS
  <2> DEFINE rest == F \ {first}
             ranks == {rank[o] : o \in rest}
  <2>1. ranks \in SUBSET Nat /\ ranks # {}
    OBVIOUS
  <2> HIDE DEF ranks
  <2>2. PICK n \in ranks : \A m \in ranks : n <= m
    BY <2>1, LeastExists
  <2>3. PICK o \in rest : n = rank[o] /\ \A q \in rest : rank[o] <= rank[q]
    BY <2>2 DEF ranks
  <2>4. link[o] # nil /\ link[o] # first
    BY <2>3 DEF IsFreeList
  <2>5. link[o] \in rest /\ rank[link[o]] < rank[o]
    BY <2>4 DEF IsFreeList
  <2>6. QED
    BY <2>3, <2>5
<1>3. QED
  BY <1>1, <1>2 DEF IsFreeList

\* An object comes in front of the list.
LEMMA PutFirst ==
    ASSUME NEW Obj, NEW nil, nil \notin Obj, NEW F \in SUBSET Obj, NEW first,
           NEW link, DOMAIN link = Obj, NEW rank \in [Obj -> Nat],
           IsFreeList(nil, first, link, F, rank), NEW o \in Obj, o \notin F,
           NEW link2, link2 = [link EXCEPT ![o] = first]
    PROVE  IsFreeList(nil, o, link2, F \cup {o},
                    [rank EXCEPT ![o] = IF first = nil THEN 0 ELSE rank[first] + 1])
<1> DEFINE rank2 == [rank EXCEPT ![o] = IF first = nil THEN 0 ELSE rank[first] + 1]
<1>1. link2[o] = first /\ \A q \in F : link2[q] = link[q] /\ rank2[q] = rank[q] /\ q # o
  OBVIOUS
<1>2. first \in F => rank2[first] < rank2[o]
  <2>1. SUFFICES ASSUME first \in F PROVE rank2[first] < rank2[o]
    OBVIOUS
  <2>2. first # nil /\ rank2[o] = rank[first] + 1 /\ rank2[first] = rank[first]
    BY <1>1, <2>1
  <2>3. QED
    BY <2>1, <2>2
<1> HIDE DEF rank2
<1>3. \A q \in F \cup {o} : link2[q] \in F \cup {o, nil} /\ link2[q] # o
  BY <1>1 DEF IsFreeList
<1>4. \A q \in F \cup {o} : link2[q] \in F => rank2[link2[q]] < rank2[q]
  BY <1>1, <1>2 DEF IsFreeList
<1>5. \A q, r \in F \cup {o} : link2[q] = link2[r] => q = r
  BY <1>1 DEF IsFreeList
<1>6. IsFreeList(nil, o, link2, F \cup {o}, rank2)
  BY <1>3, <1>4, <1>5 DEF IsFreeList
<1>7. QED
  BY <1>6 DEF rank2

-----------------------------------------------------------------------------
(* The object_pool.                                                        *)

FixedFree == O!Object \ O!Used

FixedInv ==
    /\ O!TypeOK
    /\ \E rank \in [O!Object -> Nat] :
           IsFreeList(O!Null, fixed_free, fixed_next, FixedFree, rank)

LEMMA FixedInit == O!Init => FixedInv
<1> SUFFICES ASSUME O!Init PROVE FixedInv
  OBVIOUS
<1> USE NAssumption DEF O!Object, O!Null
<1>1. O!TypeOK
  BY DEF O!Init, O!TypeOK, O!Void
<1>2. FixedFree = O!Object
  BY DEF O!Init, FixedFree, O!Used
<1> DEFINE rank == [o \in O!Object |-> N - o]
<1>3. rank \in [O!Object -> Nat]
  OBVIOUS
<1>4. IsFreeList(O!Null, fixed_free, fixed_next, O!Object, rank)
  BY DEF O!Init, IsFreeList
<1>5. QED
  BY <1>1, <1>2, <1>3, <1>4 DEF FixedInv

\* The greatest and the least of a set of objects.
LEMMA Ends ==
    ASSUME NEW P \in SUBSET O!Object, P # {}
    PROVE  /\ O!Min(P) \in P /\ \A q \in P : O!Min(P) <= q
           /\ O!Max(P) \in P /\ \A q \in P : q <= O!Max(P)
<1> USE NAssumption DEF O!Object
<1>1. PICK n \in P : \A q \in P : n <= q
  BY LeastExists
<1> DEFINE mirror == {N - q : q \in P}
<1>2. mirror \in SUBSET Nat /\ mirror # {}
  OBVIOUS
<1> HIDE DEF mirror
<1>3. PICK c \in mirror : \A d \in mirror : c <= d
  BY <1>2, LeastExists
<1>4. PICK m \in P : c = N - m
  BY DEF mirror
<1>5. ASSUME NEW q \in P PROVE m >= q
  <2>1. N - m <= N - q
    BY <1>3, <1>4 DEF mirror
  <2>2. QED
    BY <2>1
<1>6. QED
  BY <1>1, <1>5 DEF O!Min, O!Max

\* foreach_object(): the objects in use come in front of the list, the
\* greatest first.
LEMMA FreeUsedInv ==
    ASSUME FixedInv, O!FreeUsed
    PROVE  FixedInv'
<1> USE NAssumption DEF O!Object, O!Null
<1>1. PICK rank \in [O!Object -> Nat] :
         IsFreeList(O!Null, fixed_free, fixed_next, FixedFree, rank)
  BY DEF FixedInv
<1> DEFINE U == O!Used
           less(o) == {p \in U : p < o}
<1>2. FixedFree' = O!Object
  BY DEF O!FreeUsed, FixedFree, O!Used
<1>3. CASE U = {}
  <2>1. fixed_next' = fixed_next /\ fixed_free' = fixed_free /\ FixedFree = O!Object
    BY <1>3 DEF O!FreeUsed, FixedInv, O!TypeOK, FixedFree
  <2>2. O!TypeOK'
    BY <2>1 DEF O!FreeUsed, FixedInv, O!TypeOK, O!Void
  <2>3. QED
    BY <1>1, <1>2, <2>1, <2>2 DEF FixedInv
<1>4. CASE U # {}
  <2> DEFINE least == O!Min(U)
             most == O!Max(U)
             above == IF fixed_free = O!Null THEN 0 ELSE rank[fixed_free] + 1
             rank2 == [o \in O!Object |-> IF o \in U THEN above + o ELSE rank[o]]
  <2>1. /\ U \in SUBSET O!Object /\ FixedFree = O!Object \ U
        /\ fixed_free \in O!Object \cup {O!Null}
        /\ fixed_next \in [O!Object -> O!Object \cup {O!Null}]
    BY DEF FixedInv, O!TypeOK, O!Used, FixedFree
  <2> HIDE DEF U
  <2>2. /\ least \in U /\ \A q \in U : least <= q
        /\ most \in U /\ \A q \in U : q <= most
    BY <1>4, <2>1, Ends
  <2> HIDE DEF least, most
  <2>0. /\ \A q \in U : q \in Nat
        /\ least \in Nat /\ most \in Nat
    <3>1. \A q \in U : q \in Nat
      BY <2>1
    <3>2. QED
      BY <2>2, <3>1
  <2>3. ASSUME NEW o \in U, o # least
        PROVE  /\ O!Max(less(o)) \in U /\ O!Max(less(o)) < o
               /\ \A q \in U : q < o => q <= O!Max(less(o))
    <3>0. least < o
      BY <2>0, <2>2, <2>3
    <3>1. less(o) # {} /\ less(o) \in SUBSET O!Object
      BY <2>1, <2>2, <3>0
    <3>2. QED
      BY <3>1, Ends
  <2>4. /\ fixed_free' = most
        /\ \A o \in O!Object : fixed_next'[o] =
              IF o \notin U THEN fixed_next[o]
              ELSE IF o = least THEN fixed_free ELSE O!Max(less(o))
        /\ fixed_next' = [o \in O!Object |-> fixed_next'[o]]
    BY <1>4 DEF O!FreeUsed, U, least, most
  <2>5. above \in Nat /\ rank2 \in [O!Object -> Nat]
    BY <2>0, <2>1
  <2> HIDE DEF above, less
  <2>6. fixed_next' \in [O!Object -> O!Object \cup {O!Null}]
    BY <2>1, <2>3, <2>4
  <2>7. O!TypeOK'
    BY <2>1, <2>2, <2>4, <2>6 DEF O!FreeUsed, O!TypeOK, O!Void
  <2>8. \A o \in O!Object : fixed_next'[o] # most
    <3> SUFFICES ASSUME NEW o \in O!Object, fixed_next'[o] = most PROVE FALSE
      OBVIOUS
    <3>1. CASE o \notin U
      BY <1>1, <2>1, <2>2, <2>4, <3>1 DEF IsFreeList
    <3>2. CASE o = least
      BY <1>1, <2>1, <2>2, <2>4, <3>2 DEF IsFreeList
    <3>3. CASE o \in U /\ o # least
      BY <2>1, <2>2, <2>3, <2>4, <3>3
    <3>4. QED
      BY <3>1, <3>2, <3>3
  <2>9. ASSUME NEW o \in O!Object, fixed_next'[o] \in O!Object
        PROVE  rank2[fixed_next'[o]] < rank2[o]
    <3>1. CASE o \notin U
      <4>1. fixed_next'[o] = fixed_next[o] /\ o \in FixedFree
        BY <2>1, <2>4, <3>1
      <4>2. fixed_next[o] \in FixedFree /\ rank[fixed_next[o]] < rank[o]
        BY <1>1, <2>1, <2>9, <4>1 DEF IsFreeList
      <4>3. QED
        BY <2>1, <3>1, <4>1, <4>2
    <3>2. CASE o = least
      <4>1. fixed_next'[o] = fixed_free /\ o \in U
        BY <2>2, <2>4, <3>2
      <4>2. fixed_free \in FixedFree /\ above = rank[fixed_free] + 1
        BY <1>1, <2>9, <4>1 DEF IsFreeList, above
      <4>3. rank2[fixed_free] = rank[fixed_free] /\ rank2[o] = above + o
        BY <2>1, <4>1, <4>2
      <4>4. rank[fixed_free] \in Nat /\ o \in Nat
        BY <2>1, <4>2
      <4>5. QED
        BY <4>1, <4>2, <4>3, <4>4
    <3>3. CASE o \in U /\ o # least
      <4>1. fixed_next'[o] \in U /\ fixed_next'[o] < o
        BY <2>1, <2>3, <2>4, <3>3
      <4>2. rank2[o] = above + o /\ rank2[fixed_next'[o]] = above + fixed_next'[o]
        BY <2>1, <3>3, <4>1
      <4>3. o \in Nat /\ fixed_next'[o] \in Nat
        BY <2>0, <3>3, <4>1
      <4>4. QED
        BY <2>5, <4>1, <4>2, <4>3
    <3>4. QED
      BY <3>1, <3>2, <3>3
  <2>10. ASSUME NEW o \in O!Object, NEW q \in O!Object, fixed_next'[o] = fixed_next'[q]
         PROVE  o = q
    <3>1. ASSUME NEW x \in O!Object, x \notin U
          PROVE  fixed_next'[x] \in FixedFree \cup {O!Null} /\ fixed_next'[x] # fixed_free
      BY <1>1, <2>1, <2>4, <3>1 DEF IsFreeList
    <3>2. fixed_next'[least] = fixed_free /\ fixed_free \in FixedFree \cup {O!Null}
      BY <1>1, <2>1, <2>2, <2>4 DEF IsFreeList
    <3>3. ASSUME NEW x \in U, x # least
          PROVE  fixed_next'[x] \in U /\ fixed_next'[x] < x /\
                 \A y \in U : y < x => y <= fixed_next'[x]
      BY <2>1, <2>3, <2>4, <3>3
    <3>4. U \cap (FixedFree \cup {O!Null}) = {}
      BY <2>1
    <3>5. CASE o \notin U /\ q \notin U
      BY <1>1, <2>1, <2>4, <2>10, <3>5 DEF IsFreeList
    <3>6. CASE o \in U /\ q \in U /\ o # least /\ q # least
      <4>1. /\ fixed_next'[o] \in Nat /\ fixed_next'[o] < o /\ fixed_next'[q] < q
            /\ o < q => o <= fixed_next'[q]
            /\ q < o => q <= fixed_next'[o]
        BY <2>0, <3>3, <3>6
      <4>2. o \in Nat /\ q \in Nat
        BY <2>0, <3>6
      <4>3. QED
        BY <2>10, <4>1, <4>2
    <3>7. QED
      BY <2>10, <3>1, <3>2, <3>3, <3>4, <3>5, <3>6
  <2>11. IsFreeList(O!Null, most, fixed_next', O!Object, rank2)
    BY <2>1, <2>2, <2>6, <2>8, <2>9, <2>10 DEF IsFreeList
  <2>12. QED
    BY <1>2, <2>4, <2>5, <2>7, <2>11 DEF FixedInv
<1>5. QED
  BY <1>3, <1>4

LEMMA TakeInv ==
    ASSUME FixedInv, NEW use \in {"raw", "building"}, O!Take(use), fixed_ret' = fixed_free
    PROVE  /\ FixedInv'
           /\ fixed_free \in FixedFree
           /\ O!Used' = O!Used \cup {fixed_free}
<1> USE NAssumption DEF O!Object, O!Null
<1>1. PICK rank \in [O!Object -> Nat] :
         IsFreeList(O!Null, fixed_free, fixed_next, FixedFree, rank)
  BY DEF FixedInv
<1>2. fixed_free \in FixedFree
  BY <1>1 DEF IsFreeList, O!Take
<1>3. FixedFree \in SUBSET O!Object /\ O!Null \notin O!Object
  BY DEF FixedFree
<1>4. IsFreeList(O!Null, fixed_next[fixed_free], fixed_next, FixedFree \ {fixed_free}, rank)
  BY <1>1, <1>2, <1>3, FirstTaken
<1>5. O!Used' = O!Used \cup {fixed_free}
  BY <1>2 DEF O!Take, FixedFree, FixedInv, O!TypeOK, O!Used
<1>6. FixedFree' = FixedFree \ {fixed_free}
  BY <1>5 DEF FixedFree
<1>7. O!TypeOK'
  BY <1>2, <1>3 DEF O!Take, FixedInv, O!TypeOK, O!Void
<1>8. IsFreeList(O!Null, fixed_free', fixed_next', FixedFree', rank)
  BY <1>4, <1>6 DEF O!Take
<1>9. QED
  BY <1>2, <1>5, <1>7, <1>8 DEF FixedInv

LEMMA DeallocInv ==
    ASSUME FixedInv, NEW o \in O!Object, O!dealloc(o)
    PROVE  FixedInv' /\ o \in O!Used /\ O!Used' = O!Used \ {o}
<1> USE NAssumption DEF O!Object, O!Null
<1>1. PICK rank \in [O!Object -> Nat] :
         IsFreeList(O!Null, fixed_free, fixed_next, FixedFree, rank)
  BY DEF FixedInv
<1>2. o \in O!Used /\ O!Used' = O!Used \ {o}
  BY DEF O!dealloc, FixedInv, O!TypeOK, O!Used
<1>3. o \notin FixedFree /\ FixedFree' = FixedFree \cup {o}
  BY <1>2 DEF FixedFree
<1>4. /\ FixedFree \in SUBSET O!Object /\ O!Null \notin O!Object
      /\ DOMAIN fixed_next = O!Object
  BY DEF FixedFree, FixedInv, O!TypeOK
<1>5. /\ fixed_next' = [fixed_next EXCEPT ![o] = fixed_free]
      /\ fixed_free' = o
  BY DEF O!dealloc
<1> DEFINE rank2 == [rank EXCEPT ![o] = IF fixed_free = O!Null THEN 0
                                        ELSE rank[fixed_free] + 1]
<1>6. IsFreeList(O!Null, o, fixed_next', FixedFree \cup {o}, rank2)
  BY <1>1, <1>3, <1>4, <1>5, PutFirst
<1>7. fixed_free \in O!Object \cup {O!Null}
  BY DEF FixedInv, O!TypeOK
<1>8. rank2 \in [O!Object -> Nat]
  BY <1>7
<1>9. O!TypeOK'
  BY <1>7 DEF O!dealloc, FixedInv, O!TypeOK, O!Void
<1> HIDE DEF rank2
<1>10. QED
  BY <1>2, <1>3, <1>5, <1>6, <1>8, <1>9 DEF FixedInv

\* The constructor of an object ends or throws: it stays in use.
LEMMA ConstructorInv ==
    ASSUME FixedInv, NEW o \in O!Object, O!EndConstruct(o) \/ O!ConstructorThrows(o)
    PROVE  FixedInv' /\ O!Used' = O!Used /\ fixed_ret' = fixed_ret
<1>1. O!Used' = O!Used /\ UNCHANGED <<fixed_next, fixed_free, fixed_ret>> /\ O!TypeOK'
  BY DEF O!EndConstruct, O!ConstructorThrows, FixedInv, O!TypeOK, O!Used, O!Object
<1>2. FixedFree' = FixedFree
  BY <1>1 DEF FixedFree, O!Object
<1>3. QED
  BY <1>1, <1>2 DEF FixedInv, O!Object

\* What alloc() and construct() do when no object is free.
LEMMA FullInv ==
    ASSUME FixedInv, fixed_free = O!Null, fixed_ret' = O!Null,
           UNCHANGED <<fixed_next, fixed_free, fixed_state>>
    PROVE  FixedInv' /\ O!Used = O!Object /\ O!Used' = O!Used
<1>1. FixedFree = {} /\ O!Used \subseteq O!Object
  BY DEF FixedInv, IsFreeList, O!Used
<1>2. O!Used = O!Object
  BY <1>1 DEF FixedFree
<1>3. O!TypeOK' /\ O!Used' = O!Used
  BY DEF FixedInv, O!TypeOK, O!Used, O!Object, O!Null
<1>4. FixedFree' = FixedFree
  BY <1>3 DEF FixedFree, O!Object
<1>5. QED
  BY <1>2, <1>3, <1>4 DEF FixedInv, O!Object, O!Null

Ret == CASE fixed_ret = O!Void -> <<>>
         [] fixed_ret = O!Null -> <<"object_pool">>
         [] OTHER -> <<"object_pool", fixed_ret>>

LEMMA FixedStep ==
    ASSUME FixedInv, [O!Next]_fixed
    PROVE  FixedInv' /\ [O!Promise!Next]_(O!Promise!vars)
<1> DEFINE id == "object_pool"
           used2 == [p \in {id} |-> O!Used]
           owned == [p \in {id} |-> O!Object]
<1>0. O!Null \notin O!Object /\ O!Void \notin O!Object \cup {O!Null} /\ O!Used \subseteq O!Object
  BY NAssumption DEF O!Null, O!Void, O!Object, O!Used
<1>1. CASE O!Used' = O!Used /\ fixed_ret' = fixed_ret /\ FixedInv'
  BY <1>1 DEF O!Promise!vars, O!Object, O!Void, O!Null
<1>2. ASSUME FixedInv', fixed_free \in FixedFree,
             O!Used' = O!Used \cup {fixed_free}, fixed_ret' = fixed_free
      PROVE  O!Promise!Next
  <2>1. fixed_free \in O!Object \ O!Used
    BY <1>2 DEF FixedFree
  <2>2. Ret' = <<id, fixed_free>>
    BY <1>0, <1>2, <2>1 DEF Ret, O!Void, O!Null
  <2>3. used2' = [used2 EXCEPT ![id] = @ \cup {fixed_free}]
    BY <1>2
  <2>4. O!Promise!Alloc(id, fixed_free)
    BY <2>1, <2>2, <2>3 DEF O!Promise!Alloc, O!Promise!HandOut, Ret, O!Object
  <2>5. QED
    BY <2>1, <2>4 DEF O!Promise!Next
<1>3. ASSUME FixedInv', O!Used = O!Object, O!Used' = O!Used, fixed_ret' = O!Null
      PROVE  O!Promise!Next
  <2>1. Ret' = <<id>>
    BY <1>0, <1>3 DEF Ret, O!Void, O!Null
  <2>2. owned' = owned /\ used2' = used2 /\ used2[id] = owned[id] /\ id \in {id}
    BY <1>3 DEF O!Object
  <2>3. O!Promise!GiveUp(id)
    BY <2>1, <2>2 DEF O!Promise!GiveUp, Ret, O!Object
  <2>4. QED
    BY <2>3 DEF O!Promise!Next
<1>4. ASSUME FixedInv', NEW o \in O!Used, O!Used' = O!Used \ {o}, fixed_ret' = O!Void
      PROVE  O!Promise!Next
  <2>1. Ret' = <<>>
    BY <1>0, <1>4 DEF Ret, O!Void, O!Null
  <2>2. owned' = owned /\ used2' = [used2 EXCEPT ![id] = @ \ {o}] /\ o \in used2[id]
    BY <1>4 DEF O!Object
  <2>3. O!Promise!Dealloc(id, o)
    BY <2>1, <2>2 DEF O!Promise!Dealloc, Ret, O!Object
  <2>4. QED
    BY <1>0, <2>3 DEF O!Promise!Next
<1>5. ASSUME FixedInv', O!FreeUsed
      PROVE  O!Promise!Next
  <2>1. Ret' = <<>>
    BY <1>0, <1>5 DEF Ret, O!Void, O!Null, O!FreeUsed
  <2>2. owned' = owned /\ used2' = [used2 EXCEPT ![id] = {}]
    BY <1>5 DEF O!FreeUsed, O!Used, O!Object
  <2>3. O!Promise!DeallocAll(id)
    BY <2>1, <2>2 DEF O!Promise!DeallocAll, Ret, O!Object
  <2>4. QED
    BY <2>3 DEF O!Promise!Next
<1>6. CASE UNCHANGED fixed
  <2>1. O!Used' = O!Used /\ fixed_ret' = fixed_ret /\ O!TypeOK' /\ FixedFree' = FixedFree
    BY <1>6 DEF fixed, O!Used, O!Object, O!Null, O!Void, FixedInv, O!TypeOK, FixedFree
  <2>2. FixedInv'
    BY <1>6, <2>1 DEF fixed, FixedInv, O!Object, O!Null
  <2>3. QED
    BY <1>1, <2>1, <2>2
<1>7. ASSUME NEW use \in {"raw", "building"}, O!Take(use), fixed_ret' = fixed_free
      PROVE  FixedInv' /\ O!Promise!Next
  BY <1>2, <1>7, TakeInv
<1>8. CASE /\ fixed_free = O!Null /\ fixed_ret' = O!Null
           /\ UNCHANGED <<fixed_next, fixed_free, fixed_state>>
  BY <1>3, <1>8, FullInv
<1>9. CASE O!alloc
  BY <1>7, <1>8, <1>9 DEF O!alloc
<1>10. CASE O!BeginConstruct
  BY <1>7, <1>8, <1>10 DEF O!BeginConstruct
<1>11. ASSUME NEW o \in O!Object, O!EndConstruct(o) \/ O!ConstructorThrows(o)
       PROVE  FixedInv' /\ [O!Promise!Next]_(O!Promise!vars)
  BY <1>1, <1>11, ConstructorInv
<1>12. ASSUME NEW o \in O!Object, O!dealloc(o)
       PROVE  FixedInv' /\ O!Promise!Next
  <2>1. FixedInv' /\ o \in O!Used /\ O!Used' = O!Used \ {o} /\ fixed_ret' = O!Void
    BY <1>12, DeallocInv DEF O!dealloc
  <2>2. QED
    BY <1>4, <2>1
<1>13. CASE O!dealloc_all \/ O!destroy_all
  BY <1>5, <1>13, FreeUsedInv DEF O!dealloc_all, O!destroy_all
<1>14. QED
  BY <1>6, <1>9, <1>10, <1>11, <1>12, <1>13 DEF O!Next

-----------------------------------------------------------------------------
(* The heap_pools.                                                         *)

PoolType == [slabs : Seq(H!Slab), flist : H!Object \cup {H!Null},
             slab_size : 0 .. 2 * PageSlab, capacity : Int, size : Int]

SlabsOf(p) == H!ToSet(pool[p].slabs)
FreeOf(p) == H!Owned(p) \ used[p]

HeapTypes ==
    /\ pool \in [PoolId -> PoolType]
    /\ \A p \in PoolId : pool[p].slab_size = 0 => ~H!Exists(p)
    /\ count \in [H!Slab -> 0 .. 2 * PageSlab]
    /\ next \in [H!Object -> H!Object \cup {H!Null}]
    /\ heap \in SUBSET H!Slab
    /\ used \in [PoolId -> SUBSET H!Object]

\* Every slab of a pool has been allocated for it alone, with some objects.
SlabsOwned ==
    /\ \A p \in PoolId : \A s \in SlabsOf(p) : s \in heap /\ count[s] > 0
    /\ \A p, q \in PoolId : p # q => SlabsOf(p) \cap SlabsOf(q) = {}
    /\ \A p \in PoolId : \A i, j \in 1 .. Len(pool[p].slabs) :
          pool[p].slabs[i] = pool[p].slabs[j] => i = j

ListsAreFree(rank) ==
    \A p \in PoolId : IsFreeList(H!Null, pool[p].flist, next, FreeOf(p), rank)

HeapInv ==
    /\ HeapTypes
    /\ SlabsOwned
    /\ \A p \in PoolId : used[p] \subseteq H!Owned(p)
    /\ \E rank \in [H!Object -> Nat] : ListsAreFree(rank)

LEMMA NoPoolIs ==
    /\ H!NoPool \in PoolType /\ H!NoPool.slabs = <<>> /\ H!NoPool.flist = H!Null
    /\ H!Defaults \in PoolType /\ H!Defaults.slabs = <<>> /\ H!Defaults.flist = H!Null
    /\ H!Defaults.slab_size = 1
    /\ H!ToSet(<<>>) = {}
<1>1. H!NoPool \in PoolType /\ H!NoPool.slabs = <<>> /\ H!NoPool.flist = H!Null
  BY SlabAssumption DEF H!NoPool, H!Null, PoolType
<1>2. H!Defaults \in PoolType /\ H!Defaults.slabs = <<>> /\ H!Defaults.flist = H!Null
  <2>1. H!Defaults = [slabs |-> <<>>, flist |-> H!Null, slab_size |-> 1,
                      capacity |-> 0, size |-> 0]
    BY DEF H!NoPool, H!Defaults
  <2>2. 1 \in 0 .. 2 * PageSlab
    BY SlabAssumption
  <2>3. QED
    BY <2>1, <2>2 DEF PoolType
<1>3. H!Defaults.slab_size = 1
  BY DEF H!NoPool, H!Defaults
<1>4. H!ToSet(<<>>) = {}
  BY DEF H!ToSet
<1>5. QED
  BY <1>1, <1>2, <1>3, <1>4

LEMMA OwnedIs ==
    ASSUME HeapTypes, NEW p \in PoolId
    PROVE  /\ H!Owned(p) = {o \in H!Object : o[1] \in SlabsOf(p) /\ o[2] < count[o[1]]}
           /\ SlabsOf(p) \in SUBSET H!Slab
           /\ SlabsOf(p) = {pool[p].slabs[i] : i \in 1 .. Len(pool[p].slabs)}
<1>1. pool[p].slabs \in Seq(H!Slab)
  BY DEF HeapTypes, PoolType
<1>2. SlabsOf(p) = {pool[p].slabs[i] : i \in 1 .. Len(pool[p].slabs)}
  BY <1>1 DEF SlabsOf, H!ToSet
<1>3. SlabsOf(p) \in SUBSET H!Slab
  BY <1>1, <1>2
<1>4. ASSUME NEW s \in SlabsOf(p)
      PROVE  H!ObjectsOf(s) = {o \in H!Object : o[1] = s /\ o[2] < count[s]}
  <2>1. count[s] \in 0 .. 2 * PageSlab /\ s \in H!Slab
    BY <1>3 DEF HeapTypes
  <2>2. QED
    BY <2>1, SlabAssumption DEF H!ObjectsOf, H!Object
<1>5. H!Owned(p) = UNION {H!ObjectsOf(s) : s \in SlabsOf(p)}
  BY DEF H!Owned, SlabsOf
<1>6. QED
  BY <1>2, <1>3, <1>4, <1>5

LEMMA OwnedApart ==
    ASSUME HeapTypes, SlabsOwned, NEW p \in PoolId, NEW q \in PoolId, p # q
    PROVE  H!Owned(p) \cap H!Owned(q) = {}
BY OwnedIs DEF SlabsOwned

LEMMA HeapInit == H!Init => HeapInv
<1> SUFFICES ASSUME H!Init PROVE HeapInv
  OBVIOUS
<1>1. HeapTypes
  BY NoPoolIs, SlabAssumption DEF H!Init, HeapTypes, H!Exists
<1>2. \A p \in PoolId : pool[p] = H!NoPool /\ SlabsOf(p) = {} /\ H!Owned(p) = {}
  BY <1>1, NoPoolIs, OwnedIs DEF H!Init, SlabsOf
<1>3. SlabsOwned
  BY <1>2, NoPoolIs DEF SlabsOwned
<1>4. ListsAreFree([o \in H!Object |-> 0])
  BY <1>2, NoPoolIs DEF IsFreeList, ListsAreFree, FreeOf
<1>5. QED
  BY <1>1, <1>2, <1>3, <1>4 DEF HeapInv, H!Exists, H!Init

\* A pool that has the slabs another had owns what that one did.
LEMMA OwnedStays ==
    ASSUME NEW p \in PoolId, NEW q \in PoolId, pool'[p].slabs = pool[q].slabs,
           \A s \in SlabsOf(q) : count'[s] = count[s]
    PROVE  SlabsOf(p)' = SlabsOf(q) /\ H!Owned(p)' = H!Owned(q)
<1>1. SlabsOf(p)' = SlabsOf(q)
  BY DEF SlabsOf, H!ToSet
<1>2. SlabsOf(p)' = H!ToSet(pool'[p].slabs)
  BY DEF SlabsOf, H!ToSet
<1>3. \A s \in SlabsOf(q) : H!ObjectsOf(s)' = H!ObjectsOf(s)
  BY DEF H!ObjectsOf
<1>4. H!Owned(p)' = UNION {H!ObjectsOf(s)' : s \in SlabsOf(q)}
  BY <1>1, <1>2 DEF H!Owned, H!ObjectsOf
<1>5. H!Owned(q) = UNION {H!ObjectsOf(s) : s \in SlabsOf(q)}
  BY DEF H!Owned, SlabsOf
<1>6. QED
  BY <1>1, <1>3, <1>4, <1>5

\* What is left to show when no slab changes hands.
LEMMA SlabsStay ==
    ASSUME HeapInv, HeapTypes', UNCHANGED <<count, heap>>,
           \A p \in PoolId : pool'[p].slabs = pool[p].slabs
    PROVE  /\ SlabsOwned'
           /\ \A p \in PoolId : H!Owned(p)' = H!Owned(p)
<1>1. \A p \in PoolId : SlabsOf(p)' = SlabsOf(p) /\ H!Owned(p)' = H!Owned(p)
  BY OwnedStays DEF HeapInv
<1>2. QED
  BY <1>1 DEF HeapInv, SlabsOwned

\* Setting the free list and the size of a pool.
LEMMA ListSet ==
    ASSUME HeapTypes, NEW p \in PoolId, H!Exists(p),
           NEW x \in H!Object \cup {H!Null}, NEW n \in Int,
           pool' = [[pool EXCEPT ![p].flist = x] EXCEPT ![p].size = n]
    PROVE  /\ pool' \in [PoolId -> PoolType]
           /\ \A q \in PoolId : pool'[q].slab_size = 0 => ~H!Exists(q)'
           /\ \A q \in PoolId : pool'[q].slabs = pool[q].slabs
           /\ pool'[p].flist = x
           /\ \A q \in PoolId : q # p => pool'[q] = pool[q]
<1>1. pool[p] \in PoolType /\ pool \in [PoolId -> PoolType] /\ pool[p].slab_size # 0
  BY DEF HeapTypes
<1>2. /\ pool'[p] = [[pool[p] EXCEPT !.flist = x] EXCEPT !.size = n]
      /\ \A q \in PoolId : q # p => pool'[q] = pool[q]
      /\ DOMAIN pool' = PoolId /\ pool' = [q \in PoolId |-> pool'[q]]
  BY <1>1
<1> DEFINE r == [[pool[p] EXCEPT !.flist = x] EXCEPT !.size = n]
<1>3. r \in PoolType /\ r.slabs = pool[p].slabs /\ r.flist = x
      /\ r.slab_size = pool[p].slab_size
  BY <1>1 DEF PoolType
<1> HIDE DEF r
<1>4. pool'[p] = r
  BY <1>2 DEF r
<1>5. \A q \in PoolId : pool'[q] \in PoolType
  BY <1>1, <1>2, <1>3, <1>4
<1>6. pool' \in [PoolId -> PoolType]
  BY <1>2, <1>5
<1>7. \A q \in PoolId : pool'[q].slab_size = 0 => ~H!Exists(q)'
  BY <1>1, <1>2, <1>3, <1>4 DEF HeapTypes, H!Exists, H!NoPool
<1>8. QED
  BY <1>2, <1>3, <1>4, <1>6, <1>7

LEMMA FreeKept ==
    ASSUME NEW nil, NEW first, NEW link, NEW F, NEW rank, NEW link2, NEW rank2,
           IsFreeList(nil, first, link, F, rank),
           \A o \in F : link2[o] = link[o] /\ rank2[o] = rank[o]
    PROVE  IsFreeList(nil, first, link2, F, rank2)
BY DEF IsFreeList

\* Pool p comes to hold u and to have its other objects in a list from x.
LEMMA ListStep ==
    ASSUME HeapInv, NEW p \in PoolId, H!Exists(p),
           NEW x \in H!Object \cup {H!Null}, NEW n \in Int,
           pool' = [[pool EXCEPT ![p].flist = x] EXCEPT ![p].size = n],
           NEW u \in SUBSET H!Owned(p), used' = [used EXCEPT ![p] = u],
           next' \in [H!Object -> H!Object \cup {H!Null}], UNCHANGED <<count, heap>>,
           NEW rank \in [H!Object -> Nat],
           IsFreeList(H!Null, x, next', H!Owned(p) \ u, rank),
           \A q \in PoolId \ {p} :
              IsFreeList(H!Null, pool[q].flist, next', FreeOf(q), rank)
    PROVE  HeapInv' /\ \A q \in PoolId : H!Owned(q)' = H!Owned(q)
<1>1. HeapTypes
  BY DEF HeapInv
<1>2. /\ pool' \in [PoolId -> PoolType]
      /\ \A q \in PoolId : pool'[q].slab_size = 0 => ~H!Exists(q)'
      /\ \A q \in PoolId : pool'[q].slabs = pool[q].slabs
      /\ pool'[p].flist = x
      /\ \A q \in PoolId : q # p => pool'[q] = pool[q]
  BY <1>1, ListSet
<1>3. H!Owned(p) \in SUBSET H!Object
  BY <1>1, OwnedIs
<1>4. used' \in [PoolId -> SUBSET H!Object]
  BY <1>1, <1>3 DEF HeapTypes
<1>5. /\ count' \in [H!Slab -> 0 .. 2 * PageSlab]
      /\ heap' \in SUBSET H!Slab
  BY <1>1 DEF HeapTypes
<1>6. HeapTypes'
  BY <1>2, <1>4, <1>5 DEF HeapTypes, H!Slab, H!Object, H!Null, PoolType
<1>7. SlabsOwned' /\ \A q \in PoolId : H!Owned(q)' = H!Owned(q)
  BY <1>2, <1>6, SlabsStay
<1>8. used'[p] = u /\ \A q \in PoolId \ {p} : used'[q] = used[q]
  BY <1>1 DEF HeapTypes
<1>9. \A q \in PoolId : used'[q] \subseteq H!Owned(q)'
  BY <1>7, <1>8 DEF HeapInv
<1>10. \A q \in PoolId : FreeOf(q)' = H!Owned(q) \ used'[q]
  BY <1>7 DEF FreeOf
<1>11. ASSUME NEW q \in PoolId
       PROVE  IsFreeList(H!Null, pool'[q].flist, next', FreeOf(q)', rank)
  <2>1. CASE q = p
    BY <1>2, <1>8, <1>10, <2>1
  <2>2. CASE q # p
    <3>1. pool'[q].flist = pool[q].flist /\ FreeOf(q)' = FreeOf(q)
      BY <1>2, <1>8, <1>10, <2>2 DEF FreeOf
    <3>2. QED
      BY <2>2, <3>1
  <2>3. QED
    BY <2>1, <2>2
<1>12. ListsAreFree(rank)'
  BY <1>11 DEF ListsAreFree, H!Null
<1>13. rank \in [H!Object' -> Nat]
  BY DEF H!Object, H!Slab
<1>14. QED
  BY <1>6, <1>7, <1>9, <1>12, <1>13 DEF HeapInv, H!Object, H!Slab

\* remove_free_list_head()
LEMMA TakeFreeInv ==
    ASSUME HeapInv, NEW p \in PoolId, H!Exists(p), H!TakeFree(p)
    PROVE  /\ HeapInv'
           /\ \A q \in PoolId : H!Owned(q)' = H!Owned(q)
           /\ pool[p].flist \in FreeOf(p)
<1> DEFINE f == pool[p].flist
           u == used[p] \cup {f}
<1>1. PICK rank \in [H!Object -> Nat] : ListsAreFree(rank)
  BY DEF HeapInv
<1>2. f \in FreeOf(p) /\ next[f] \in FreeOf(p) \cup {H!Null}
  BY <1>1 DEF IsFreeList, ListsAreFree, H!TakeFree
<1>3. FreeOf(p) \in SUBSET H!Object
  BY OwnedIs DEF HeapInv, FreeOf
<1>4. H!Null \notin H!Object
  BY DEF H!Null, H!Object, H!Slab
<1>5. IsFreeList(H!Null, next[f], next, FreeOf(p) \ {f}, rank)
  BY <1>1, <1>2, <1>3, <1>4, FirstTaken DEF ListsAreFree
<1>6. pool \in [PoolId -> PoolType] /\ pool[p].size \in Int
  BY DEF HeapInv, HeapTypes, PoolType
<1>7. pool' = [[pool EXCEPT ![p].flist = next[f]] EXCEPT ![p].size = pool[p].size + 1]
  BY <1>6 DEF H!TakeFree
<1>8. /\ used' = [used EXCEPT ![p] = u]
      /\ UNCHANGED <<count, next, heap>>
  BY DEF H!TakeFree
<1>9. u \in SUBSET H!Owned(p) /\ H!Owned(p) \ u = FreeOf(p) \ {f}
  BY <1>2 DEF FreeOf, HeapInv
<1>10. /\ next[f] \in H!Object \cup {H!Null} /\ pool[p].size + 1 \in Int
       /\ next' \in [H!Object -> H!Object \cup {H!Null}]
  BY <1>2, <1>3, <1>6, <1>8 DEF HeapInv, HeapTypes
<1>11. \A q \in PoolId \ {p} : IsFreeList(H!Null, pool[q].flist, next', FreeOf(q), rank)
  BY <1>1, <1>8 DEF ListsAreFree
<1>12. IsFreeList(H!Null, next[f], next', H!Owned(p) \ u, rank)
  BY <1>5, <1>8, <1>9
<1> HIDE DEF f, u
<1>13. HeapInv' /\ \A q \in PoolId : H!Owned(q)' = H!Owned(q)
  BY <1>7, <1>8, <1>9, <1>10, <1>11, <1>12, ListStep
<1>14. QED
  BY <1>2, <1>13 DEF f

\* dealloc()
LEMMA HeapDeallocInv ==
    ASSUME HeapInv, NEW p \in PoolId, NEW o \in H!Object, H!dealloc(p, o)
    PROVE  HeapInv' /\ \A q \in PoolId : H!Owned(q)' = H!Owned(q)
<1> DEFINE u == used[p] \ {o}
           first == pool[p].flist
<1>1. PICK rank \in [H!Object -> Nat] : ListsAreFree(rank)
  BY DEF HeapInv
<1>2. o \in used[p] /\ o \in H!Owned(p) /\ o \notin FreeOf(p)
  BY DEF H!dealloc, HeapInv, FreeOf
<1>3. H!Exists(p)
  <2>1. H!Owned(p) # {} /\ SlabsOf(p) # {}
    BY <1>2, OwnedIs DEF HeapInv
  <2>2. QED
    BY <2>1, NoPoolIs DEF H!Exists, SlabsOf
<1>4. H!Null \notin H!Object
  BY DEF H!Null, H!Object, H!Slab
<1>5. pool \in [PoolId -> PoolType] /\ pool[p].size \in Int
      /\ first \in H!Object \cup {H!Null} /\ HeapTypes
  BY DEF HeapInv, HeapTypes, PoolType
<1>6. pool' = [[pool EXCEPT ![p].flist = o] EXCEPT ![p].size = pool[p].size - 1]
  BY <1>5 DEF H!dealloc
<1>7. /\ used' = [used EXCEPT ![p] = u]
      /\ next' = [next EXCEPT ![o] = first]
      /\ UNCHANGED <<count, heap>>
  BY DEF H!dealloc
<1>8. \A q \in PoolId : FreeOf(q) \in SUBSET H!Object
  BY <1>5, OwnedIs DEF FreeOf
<1>9. u \in SUBSET H!Owned(p) /\ H!Owned(p) \ u = FreeOf(p) \cup {o}
  BY <1>2 DEF FreeOf, HeapInv
<1> DEFINE rank2 == [rank EXCEPT ![o] = IF first = H!Null THEN 0 ELSE rank[first] + 1]
<1>10. IsFreeList(H!Null, first, next, FreeOf(p), rank) /\ DOMAIN next = H!Object
  BY <1>1, <1>5 DEF ListsAreFree, HeapTypes
<1>11. rank2 \in [H!Object -> Nat]
  BY <1>5
<1>12. IsFreeList(H!Null, o, next', FreeOf(p) \cup {o}, rank2)
  <2> HIDE DEF first
  <2>1. QED
    BY <1>2, <1>4, <1>7, <1>8, <1>10, PutFirst
<1>13. ASSUME NEW q \in PoolId \ {p}
       PROVE  IsFreeList(H!Null, pool[q].flist, next', FreeOf(q), rank2)
  <2>1. o \notin FreeOf(q)
    BY <1>2, <1>5, OwnedApart DEF FreeOf, HeapInv
  <2>2. \A r \in FreeOf(q) : next'[r] = next[r] /\ rank2[r] = rank[r]
    BY <1>5, <1>7, <1>8, <2>1 DEF HeapTypes
  <2>3. IsFreeList(H!Null, pool[q].flist, next, FreeOf(q), rank)
    BY <1>1 DEF ListsAreFree
  <2> HIDE DEF rank2
  <2>4. QED
    BY <2>2, <2>3, FreeKept
<1>14. /\ next' \in [H!Object -> H!Object \cup {H!Null}] /\ pool[p].size - 1 \in Int
       /\ o \in H!Object \cup {H!Null}
  BY <1>5, <1>7 DEF HeapTypes
<1> HIDE DEF rank2, u, first
<1>15. IsFreeList(H!Null, o, next', H!Owned(p) \ u, rank2)
  BY <1>9, <1>12
<1>16. QED
  BY <1>3, <1>6, <1>7, <1>9, <1>11, <1>13, <1>14, <1>15, ListStep

\* Pool p takes over what q has, and q, which may be p itself, is left with
\* nothing: as when q is moved, constructed or destroyed.
LEMMA HandedOver ==
    ASSUME HeapInv, NEW p \in PoolId, NEW q \in PoolId, NEW e \in {H!NoPool, H!Defaults},
           pool' = [pool EXCEPT ![p] = pool[q], ![q] = e],
           used' = [used EXCEPT ![p] = used[q], ![q] = {}],
           UNCHANGED <<count, next>>,
           heap' = heap \/ (p = q /\ heap' = heap \ SlabsOf(q))
    PROVE  /\ HeapInv'
           /\ H!Owned(q)' = {}
           /\ p # q => H!Owned(p)' = H!Owned(q)
           /\ \A r \in PoolId \ {p, q} : H!Owned(r)' = H!Owned(r)
           /\ p # q => SlabsOf(p)' = SlabsOf(q)
           /\ \A r \in PoolId \ {p, q} : SlabsOf(r)' = SlabsOf(r)
<1>1. HeapTypes
  BY DEF HeapInv
<1>2. /\ pool'[q] = e /\ used'[q] = {}
      /\ p # q => pool'[p] = pool[q] /\ used'[p] = used[q]
      /\ \A r \in PoolId \ {p, q} : pool'[r] = pool[r] /\ used'[r] = used[r]
  BY <1>1 DEF HeapTypes
<1>3. e \in PoolType /\ e.slabs = <<>> /\ e.flist = H!Null
      /\ (e.slab_size = 0 => e = H!NoPool)
  BY NoPoolIs
<1>4. /\ pool' \in [PoolId -> PoolType]
      /\ used' \in [PoolId -> SUBSET H!Object]
      /\ count' \in [H!Slab -> 0 .. 2 * PageSlab]
      /\ heap' \in SUBSET H!Slab
      /\ next' \in [H!Object -> H!Object \cup {H!Null}]
  BY <1>1, <1>3 DEF HeapTypes
<1>5. \A r \in PoolId : pool'[r].slab_size = 0 => pool'[r] = H!NoPool
  BY <1>1, <1>2, <1>3 DEF HeapTypes, H!Exists
<1>6. HeapTypes'
  BY <1>4, <1>5 DEF HeapTypes, H!Exists, H!NoPool, H!Slab, H!Object, H!Null, PoolType
<1>7. /\ SlabsOf(q)' = {} /\ H!Owned(q)' = {}
  <2>1. SlabsOf(q)' = {}
    BY <1>2, <1>3, NoPoolIs DEF SlabsOf, H!ToSet
  <2>2. H!ToSet(pool'[q].slabs) = {}
    BY <2>1 DEF SlabsOf, H!ToSet
  <2>3. QED
    BY <2>1, <2>2 DEF H!Owned, H!ToSet
<1>8. p # q => SlabsOf(p)' = SlabsOf(q) /\ H!Owned(p)' = H!Owned(q)
  BY <1>2, OwnedStays
<1>9. \A r \in PoolId \ {p, q} : SlabsOf(r)' = SlabsOf(r) /\ H!Owned(r)' = H!Owned(r)
  BY <1>2, OwnedStays
<1> DEFINE from(r) == IF r = p THEN q ELSE r
<1>10. /\ \A r \in PoolId \ {q} : /\ from(r) \in PoolId
                                  /\ pool'[r] = pool[from(r)] /\ used'[r] = used[from(r)]
                                  /\ SlabsOf(r)' = SlabsOf(from(r))
                                  /\ H!Owned(r)' = H!Owned(from(r))
       /\ \A r, s \in PoolId \ {q} : r # s => from(r) # from(s)
       /\ p = q => \A r \in PoolId \ {q} : from(r) # q
  BY <1>2, <1>8, <1>9
<1> HIDE DEF from
<1>11. SlabsOwned'
  <2>1. \A r \in PoolId : \A s \in SlabsOf(r)' : s \in heap' /\ count'[s] > 0
    BY <1>7, <1>10 DEF HeapInv, SlabsOwned
  <2>2. \A r, s \in PoolId : r # s => SlabsOf(r)' \cap SlabsOf(s)' = {}
    BY <1>7, <1>10 DEF HeapInv, SlabsOwned
  <2>3. \A r \in PoolId : \A i, j \in 1 .. Len(pool'[r].slabs) :
           pool'[r].slabs[i] = pool'[r].slabs[j] => i = j
    <3>1. 1 .. Len(pool'[q].slabs) = {}
      BY <1>2, <1>3
    <3>2. \A r \in PoolId \ {q} : \A i, j \in 1 .. Len(pool[from(r)].slabs) :
             pool[from(r)].slabs[i] = pool[from(r)].slabs[j] => i = j
      BY <1>10 DEF HeapInv, SlabsOwned
    <3>3. ASSUME NEW r \in PoolId \ {q}, NEW i \in 1 .. Len(pool'[r].slabs),
                 NEW j \in 1 .. Len(pool'[r].slabs), pool'[r].slabs[i] = pool'[r].slabs[j]
          PROVE  i = j
      <4>1. pool'[r] = pool[from(r)]
        BY <1>10
      <4>2. QED
        BY <3>2, <3>3, <4>1
    <3>4. QED
      BY <3>1, <3>3
  <2>4. QED
    BY <2>1, <2>2, <2>3 DEF SlabsOwned
<1>12. \A r \in PoolId : used'[r] \subseteq H!Owned(r)'
  <2>1. \A r \in PoolId \ {q} : used[from(r)] \subseteq H!Owned(from(r))
    BY <1>10 DEF HeapInv
  <2>2. ASSUME NEW r \in PoolId \ {q} PROVE used'[r] \subseteq H!Owned(r)'
    <3>1. used'[r] = used[from(r)] /\ H!Owned(r)' = H!Owned(from(r))
      BY <1>10
    <3>2. QED
      BY <2>1, <3>1
  <2>3. QED
    BY <1>2, <2>2
<1>13. PICK rank \in [H!Object -> Nat] : ListsAreFree(rank)
  BY DEF HeapInv
<1>14. ASSUME NEW r \in PoolId
       PROVE  IsFreeList(H!Null, pool'[r].flist, next', FreeOf(r)', rank)
  <2>1. FreeOf(r)' = H!Owned(r)' \ used'[r]
    BY DEF FreeOf
  <2>2. CASE r = q
    BY <1>2, <1>3, <1>7, <2>1, <2>2 DEF IsFreeList
  <2>3. CASE r # q
    <3>1. /\ from(r) \in PoolId /\ pool'[r].flist = pool[from(r)].flist
          /\ FreeOf(r)' = FreeOf(from(r))
      BY <1>10, <2>1, <2>3 DEF FreeOf
    <3>2. QED
      BY <1>13, <3>1 DEF ListsAreFree
  <2>4. QED
    BY <2>2, <2>3
<1>15. ListsAreFree(rank)' /\ rank \in [H!Object' -> Nat]
  BY <1>14 DEF ListsAreFree, H!Null, H!Object, H!Slab
<1>16. HeapInv'
  BY <1>6, <1>11, <1>12, <1>15 DEF HeapInv, H!Object, H!Slab
<1>17. QED
  BY <1>7, <1>8, <1>9, <1>16

\* The free list of dealloc_all(): from the last slab to the first, and
\* through each slab in order.
At(p, o) == CHOOSE i \in DOMAIN pool[p].slabs : pool[p].slabs[i] = o[1]

LEMMA AtIs ==
    ASSUME HeapInv, NEW p \in PoolId
    PROVE  /\ \A o \in H!Owned(p) : /\ At(p, o) \in 1 .. Len(pool[p].slabs)
                                    /\ pool[p].slabs[At(p, o)] = o[1]
           /\ \A o \in H!Owned(p) : \A i \in 1 .. Len(pool[p].slabs) :
                 pool[p].slabs[i] = o[1] => At(p, o) = i
<1>1. DOMAIN pool[p].slabs = 1 .. Len(pool[p].slabs)
  BY DEF HeapInv, HeapTypes, PoolType
<1>2. \A o \in H!Owned(p) : \E i \in 1 .. Len(pool[p].slabs) : pool[p].slabs[i] = o[1]
  BY OwnedIs DEF HeapInv
<1>3. \A o \in H!Owned(p) : /\ At(p, o) \in 1 .. Len(pool[p].slabs)
                            /\ pool[p].slabs[At(p, o)] = o[1]
  BY <1>1, <1>2 DEF At
<1>4. QED
  BY <1>3 DEF HeapInv, SlabsOwned

LEMMA FreeListIs ==
    ASSUME HeapInv, NEW p \in PoolId, NEW o \in H!Owned(p)
    PROVE  /\ DOMAIN H!FreeList(pool[p].slabs) = H!Owned(p)
           /\ H!FreeList(pool[p].slabs)[o] =
                 IF o[2] = count[o[1]] - 1
                 THEN IF At(p, o) = 1 THEN H!Null
                      ELSE <<pool[p].slabs[At(p, o) - 1], 0>>
                 ELSE <<o[1], o[2] + 1>>
<1>1. o \in H!ObjectsOf(o[1])
  BY DEF H!Owned, H!ObjectsOf
<1>2. DOMAIN H!FreeList(pool[p].slabs) = H!Owned(p)
  BY DEF H!FreeList, H!Owned
<1>3. H!FreeList(pool[p].slabs)[o] =
         H!Linked(o[1], count[o[1]],
                  IF At(p, o) = 1 THEN H!Null
                  ELSE <<pool[p].slabs[At(p, o) - 1], 0>>)[o]
  BY DEF H!FreeList, H!Owned, At
<1>4. QED
  BY <1>1, <1>2, <1>3 DEF H!Linked, H!ObjectsOf

\* A list from the first object of the last slab, through each slab from its
\* first object to its last and then on to the slab before.  at[o] is the
\* slab of o, k[o] its place there, last[o] the place of the last one there.
RunsBackwards(nil, first, link, F, L, K, at, k, last) ==
    /\ nil \notin F /\ L \in Nat /\ K \in Nat
    /\ at \in [F -> Nat] /\ k \in [F -> Nat] /\ last \in [F -> Nat]
    /\ \A o \in F : 1 <= at[o] /\ at[o] <= L /\ k[o] <= last[o] /\ last[o] < K
    /\ \A o, q \in F : at[o] = at[q] => last[o] = last[q] /\ (k[o] = k[q] => o = q)
    /\ \A o \in F : k[o] # last[o] =>
          link[o] \in F /\ at[link[o]] = at[o] /\ k[link[o]] = k[o] + 1
    /\ \A o \in F : k[o] = last[o] /\ at[o] # 1 =>
          link[o] \in F /\ at[link[o]] = at[o] - 1 /\ k[link[o]] = 0
    /\ \A o \in F : k[o] = last[o] /\ at[o] = 1 => link[o] = nil
    /\ \/ first = nil /\ F = {}
       \/ first \in F /\ at[first] = L /\ k[first] = 0

LEMMA BackwardsIsFree ==
    ASSUME NEW nil, NEW first, NEW link, NEW F, NEW L, NEW K, NEW at, NEW k, NEW last,
           RunsBackwards(nil, first, link, F, L, K, at, k, last),
           NEW rank, \A o \in F : rank[o] = K * at[o] - k[o]
    PROVE  IsFreeList(nil, first, link, F, rank)
<1> USE DEF RunsBackwards
<1>1. \A o \in F : at[o] \in Nat /\ k[o] \in Nat /\ last[o] \in Nat
  OBVIOUS
<1>2. \A o \in F : link[o] \in F \cup {nil}
  OBVIOUS
<1>3. \A o \in F : link[o] # first
  <2> SUFFICES ASSUME NEW o \in F, link[o] = first PROVE FALSE
    OBVIOUS
  <2>1. first \in F /\ at[first] = L /\ k[first] = 0
    OBVIOUS
  <2>2. CASE k[o] # last[o]
    BY <1>1, <2>1, <2>2
  <2>3. CASE k[o] = last[o]
    BY <1>1, <2>1, <2>3
  <2>4. QED
    BY <2>2, <2>3
<1>4. ASSUME NEW o \in F, link[o] \in F PROVE rank[link[o]] < rank[o]
  <2>1. rank[o] = K * at[o] - k[o] /\ rank[link[o]] = K * at[link[o]] - k[link[o]]
    BY <1>4
  <2>2. CASE k[o] # last[o]
    <3>1. at[link[o]] = at[o] /\ k[link[o]] = k[o] + 1
      BY <2>2
    <3>2. K * at[o] \in Int /\ k[o] \in Nat
      BY <1>1
    <3>3. QED
      BY <2>1, <3>1, <3>2
  <2>3. CASE k[o] = last[o]
    <3>1. at[link[o]] = at[o] - 1 /\ k[link[o]] = 0
      BY <1>4, <2>3
    <3>2. K * (at[o] - 1) = K * at[o] - K /\ K * at[o] \in Int
      BY <1>1
    <3>3. k[o] < K /\ k[o] \in Nat
      BY <1>1, <2>3
    <3>4. QED
      BY <2>1, <3>1, <3>2, <3>3
  <2>4. QED
    BY <2>2, <2>3
<1>5. ASSUME NEW o \in F, NEW q \in F, link[o] = link[q] PROVE o = q
  <2>1. CASE k[o] # last[o] /\ k[q] # last[q]
    BY <1>1, <1>5, <2>1
  <2>2. CASE k[o] = last[o] /\ k[q] # last[q]
    BY <1>1, <1>5, <2>2
  <2>3. CASE k[o] # last[o] /\ k[q] = last[q]
    BY <1>1, <1>5, <2>3
  <2>4. CASE k[o] = last[o] /\ k[q] = last[q]
    <3>1. at[o] = at[q]
      BY <1>1, <1>5, <2>4
    <3>2. QED
      BY <2>4, <3>1
  <2>5. QED
    BY <2>1, <2>2, <2>3, <2>4
<1>6. QED
  BY <1>2, <1>3, <1>4, <1>5 DEF IsFreeList

LEMMA RebuiltIsFree ==
    ASSUME HeapInv, NEW p \in PoolId, NEW link,
           \A o \in H!Owned(p) : link[o] = H!FreeList(pool[p].slabs)[o],
           NEW rank, \A o \in H!Owned(p) : rank[o] = 2 * PageSlab * At(p, o) - o[2]
    PROVE  IsFreeList(H!Null,
                      IF pool[p].slabs = <<>> THEN H!Null
                      ELSE <<H!Last(pool[p].slabs), 0>>,
                      link, H!Owned(p), rank)
<1> DEFINE S == pool[p].slabs
           K == 2 * PageSlab
           F == H!Owned(p)
           at == [o \in F |-> At(p, o)]
           place == [o \in F |-> o[2]]
           last == [o \in F |-> count[o[1]] - 1]
           first == IF S = <<>> THEN H!Null ELSE <<H!Last(S), 0>>
<1>1. /\ S \in Seq(H!Slab) /\ K \in Nat /\ Len(S) \in Nat
      /\ \A i \in 1 .. Len(S) : S[i] \in H!Slab /\ count[S[i]] > 0
  <2>1. S \in Seq(H!Slab) /\ K \in Nat
    BY SlabAssumption DEF HeapInv, HeapTypes, PoolType
  <2>2. SlabsOf(p) = {S[i] : i \in 1 .. Len(S)}
    BY OwnedIs DEF HeapInv
  <2>3. \A i \in 1 .. Len(S) : S[i] \in SlabsOf(p)
    BY <2>2
  <2>4. \A i \in 1 .. Len(S) : count[S[i]] > 0
    BY <2>3 DEF HeapInv, SlabsOwned
  <2> HIDE DEF S
  <2>5. QED
    BY <2>1, <2>4
<1>2. \A s \in H!Slab : count[s] \in 0 .. K
  BY DEF HeapInv, HeapTypes
<1>3. \A o \in F : o \in H!Object /\ o[1] \in H!Slab /\ o[2] \in Nat /\ o[2] < count[o[1]]
  BY OwnedIs DEF HeapInv, H!Object
<1>4. \A o \in F : at[o] \in 1 .. Len(S) /\ S[at[o]] = o[1]
  BY AtIs
<1>5. ASSUME NEW i \in 1 .. Len(S), NEW m \in Nat, m < count[S[i]]
      PROVE  <<S[i], m>> \in F /\ at[<<S[i], m>>] = i
  <2>1. S[i] \in SlabsOf(p) /\ S[i] \in H!Slab
    BY <1>1, OwnedIs DEF HeapInv
  <2>2. <<S[i], m>> \in H!Object
    BY <1>1, <1>2, <1>5, <2>1 DEF H!Object
  <2>3. <<S[i], m>> \in F
    BY <1>5, <2>1, <2>2, OwnedIs DEF HeapInv
  <2>4. QED
    BY <2>3, AtIs
<1>6. \A o, q \in F : o[1] = q[1] /\ o[2] = q[2] => o = q
  BY <1>3 DEF H!Object
<1>7. ASSUME NEW o \in F
      PROVE  /\ o[2] # count[o[1]] - 1 => link[o] = <<o[1], o[2] + 1>>
             /\ o[2] = count[o[1]] - 1 /\ at[o] = 1 => link[o] = H!Null
             /\ o[2] = count[o[1]] - 1 /\ at[o] # 1 => link[o] = <<S[at[o] - 1], 0>>
  BY FreeListIs
<1>8. H!Null \notin F
  BY <1>3 DEF H!Null, H!Slab
<1>9. H!Last(S) = S[Len(S)]
  BY DEF H!Last
<1>10. \A o \in F : count[o[1]] \in Nat /\ count[o[1]] <= K /\ o[2] < count[o[1]] /\ o[2] \in Nat
  BY <1>2, <1>3, <1>1
<1>11. \A o \in F : at[o] \in Nat /\ place[o] = o[2] /\ last[o] = count[o[1]] - 1
  BY <1>4, <1>10
<1>12. at \in [F -> Nat] /\ place \in [F -> Nat] /\ last \in [F -> Nat]
  BY <1>10, <1>11
<1> HIDE DEF S, F, at, place, last, K
<1>13. \A o \in F : /\ 1 <= at[o] /\ at[o] <= Len(S) /\ place[o] <= last[o] /\ last[o] < K
  BY <1>1, <1>4, <1>10, <1>11
<1>14. \A o, q \in F : at[o] = at[q] => last[o] = last[q] /\ (place[o] = place[q] => o = q)
  BY <1>4, <1>6, <1>11
<1>15. ASSUME NEW o \in F, place[o] # last[o]
       PROVE  link[o] \in F /\ at[link[o]] = at[o] /\ place[link[o]] = place[o] + 1
  <2>1. o[2] + 1 \in Nat /\ o[2] + 1 < count[o[1]]
    BY <1>10, <1>11, <1>15
  <2>2. link[o] = <<S[at[o]], o[2] + 1>>
    BY <1>4, <1>7, <1>11, <1>15
  <2>3. link[o] \in F /\ at[link[o]] = at[o]
    BY <1>4, <1>5, <2>1, <2>2
  <2>4. QED
    BY <1>11, <2>2, <2>3
<1>16. ASSUME NEW o \in F, place[o] = last[o], at[o] # 1
       PROVE  link[o] \in F /\ at[link[o]] = at[o] - 1 /\ place[link[o]] = 0
  <2>1. at[o] - 1 \in 1 .. Len(S) /\ link[o] = <<S[at[o] - 1], 0>>
    BY <1>1, <1>4, <1>7, <1>11, <1>16
  <2>2. link[o] \in F /\ at[link[o]] = at[o] - 1
    BY <1>1, <1>5, <2>1
  <2>3. QED
    BY <1>11, <2>1, <2>2
<1>17. \A o \in F : place[o] = last[o] /\ at[o] = 1 => link[o] = H!Null
  BY <1>7, <1>11
<1>18. \/ first = H!Null /\ F = {}
       \/ first \in F /\ at[first] = Len(S) /\ place[first] = 0
  <2>1. CASE S = <<>>
    BY <1>4, <2>1
  <2>2. CASE S # <<>>
    <3>1. Len(S) \in 1 .. Len(S)
      BY <1>1, <2>2
    <3>2. first = <<S[Len(S)], 0>> /\ first \in F /\ at[first] = Len(S)
      BY <1>1, <1>5, <1>9, <2>2, <3>1
    <3>3. place[first] = 0
      BY <1>11, <3>2
    <3>4. QED
      BY <3>2, <3>3
  <2>3. QED
    BY <2>1, <2>2
<1>19. \A o \in F : rank[o] = K * at[o] - place[o]
  BY <1>11 DEF F, K, at
<1> HIDE DEF first
<1>20. IsFreeList(H!Null, first, link, F, rank)
  <2>1. \A o \in F : place[o] # last[o] => /\ link[o] \in F /\ at[link[o]] = at[o]
                                          /\ place[link[o]] = place[o] + 1
    BY <1>15
  <2>2. \A o \in F : place[o] = last[o] /\ at[o] # 1 => /\ link[o] \in F
                                                        /\ at[link[o]] = at[o] - 1
                                                        /\ place[link[o]] = 0
    BY <1>16
  <2>3. Len(S) \in Nat /\ K \in Nat
    BY <1>1
  <2>4. RunsBackwards(H!Null, first, link, F, Len(S), K, at, place, last)
    BY <1>8, <1>12, <1>13, <1>14, <1>17, <1>18, <2>1, <2>2, <2>3 DEF RunsBackwards
  <2>5. QED
    BY <1>19, <2>4, BackwardsIsFree
<1>21. QED
  BY <1>20 DEF first, S, F

\* dealloc_all()
LEMMA HeapDeallocAllInv ==
    ASSUME HeapInv, NEW p \in PoolId, H!dealloc_all(p)
    PROVE  HeapInv' /\ \A q \in PoolId : H!Owned(q)' = H!Owned(q)
<1> DEFINE first == IF pool[p].slabs = <<>> THEN H!Null
                    ELSE <<H!Last(pool[p].slabs), 0>>
           new == H!FreeList(pool[p].slabs)
<1>1. PICK rank \in [H!Object -> Nat] : ListsAreFree(rank)
  BY DEF HeapInv
<1> DEFINE rank2 == [o \in H!Object |-> IF o \in H!Owned(p)
                                        THEN 2 * PageSlab * At(p, o) - o[2] ELSE rank[o]]
<1>2. /\ HeapTypes /\ H!Exists(p) /\ H!Owned(p) \in SUBSET H!Object
      /\ pool \in [PoolId -> PoolType] /\ next \in [H!Object -> H!Object \cup {H!Null}]
  BY OwnedIs DEF HeapInv, HeapTypes, H!dealloc_all
<1>3. pool' = [[pool EXCEPT ![p].flist = first] EXCEPT ![p].size = 0]
  BY <1>2 DEF H!dealloc_all
<1>4. /\ used' = [used EXCEPT ![p] = {}] /\ UNCHANGED <<count, heap>>
      /\ next' = H!Override(next, new)
  BY DEF H!dealloc_all
<1>5. DOMAIN new = H!Owned(p)
  BY DEF H!FreeList, H!Owned
<1>6. /\ \A o \in H!Owned(p) : next'[o] = new[o]
      /\ \A o \in H!Object \ H!Owned(p) : next'[o] = next[o]
      /\ next' = [o \in H!Object |-> next'[o]]
  <2> HIDE DEF new
  <2>1. QED
    BY <1>2, <1>4, <1>5 DEF H!Override
<1>7. ASSUME NEW o \in H!Owned(p)
      PROVE  rank2[o] = 2 * PageSlab * At(p, o) - o[2] /\ rank2[o] \in Nat
  <2>1. /\ o \in H!Object /\ At(p, o) \in Nat /\ At(p, o) >= 1
        /\ o[2] \in 0 .. 2 * PageSlab - 1
    <3>1. o \in H!Object
      BY <1>2
    <3>2. At(p, o) \in 1 .. Len(pool[p].slabs)
      BY AtIs
    <3>3. QED
      BY <3>1, <3>2 DEF H!Object
  <2>2. 2 * PageSlab * At(p, o) \in Nat /\ 2 * PageSlab * At(p, o) >= 2 * PageSlab
    BY <2>1, SlabAssumption
  <2>3. 2 * PageSlab * At(p, o) - o[2] \in Nat
    BY <2>1, <2>2, SlabAssumption
  <2>4. QED
    BY <2>1, <2>3
<1>8. rank2 \in [H!Object -> Nat]
  BY <1>7
<1>9. \A o \in H!Object \ H!Owned(p) : rank2[o] = rank[o]
  OBVIOUS
<1> HIDE DEF rank2, new
<1>10. IsFreeList(H!Null, first, next', H!Owned(p), rank2)
  BY <1>6, <1>7, RebuiltIsFree DEF new
<1> HIDE DEF first
<1>11. first \in H!Object \cup {H!Null}
  BY <1>2, <1>10 DEF IsFreeList
<1>12. next' \in [H!Object -> H!Object \cup {H!Null}]
  <2>1. \A o \in H!Object : next'[o] \in H!Object \cup {H!Null}
    BY <1>2, <1>6, <1>10 DEF IsFreeList
  <2>2. QED
    BY <1>6, <2>1
<1>13. ASSUME NEW q \in PoolId \ {p}
       PROVE  IsFreeList(H!Null, pool[q].flist, next', FreeOf(q), rank2)
  <2>1. FreeOf(q) \subseteq H!Object \ H!Owned(p)
    BY <1>2, OwnedIs, OwnedApart DEF FreeOf, HeapInv
  <2>2. \A o \in FreeOf(q) : next'[o] = next[o] /\ rank2[o] = rank[o]
    BY <1>6, <1>9, <2>1
  <2>3. IsFreeList(H!Null, pool[q].flist, next, FreeOf(q), rank)
    BY <1>1 DEF ListsAreFree
  <2>4. QED
    BY <2>2, <2>3, FreeKept
<1>14. H!Owned(p) \ {} = H!Owned(p) /\ {} \in SUBSET H!Owned(p) /\ 0 \in Int
  OBVIOUS
<1>15. IsFreeList(H!Null, first, next', H!Owned(p) \ {}, rank2)
  BY <1>10, <1>14
<1>16. QED
  BY <1>2, <1>3, <1>4, <1>8, <1>11, <1>12, <1>13, <1>14, <1>15, ListStep

LEMMA CountTo ==
    ASSUME NEW n \in Nat
    PROVE  IsFiniteSet(0 .. n - 1) /\ Cardinality(0 .. n - 1) = n
<1>1. n - 1 \in Int /\ 0 \in Int
  OBVIOUS
<1>2. IsFiniteSet(0 .. n - 1) /\ Cardinality(0 .. n - 1) = IF 0 > n - 1 THEN 0 ELSE n - 1 - 0 + 1
  BY <1>1, FS_Interval
<1>3. QED
  BY <1>2

\* create_new_slab(): a pool whose objects are all in use gets the first
\* slab the heap has.
LEMMA NewSlabIs ==
    ASSUME HeapInv, NEW p \in PoolId, H!Exists(p), H!TakeFromNewSlab(p)
    PROVE  \E s \in H!Slab \ heap, n \in 1 .. 2 * PageSlab, m \in 1 .. 2 * PageSlab :
              /\ n = pool[p].slab_size /\ m = H!increase_next_slab_size(n)
              /\ s = H!Min(H!Slab \ heap)
<1>1. PICK s \in H!Slab \ heap : \A r \in H!Slab \ heap : s <= r
  <2>1. H!Slab \ heap # {} /\ H!Slab \ heap \in SUBSET Nat
    <3>1. heap # H!Slab /\ heap \in SUBSET H!Slab
      BY DEF H!TakeFromNewSlab, HeapInv, HeapTypes
    <3>2. H!Slab \in SUBSET Nat
      BY DEF H!Slab
    <3>3. QED
      BY <3>1, <3>2
  <2>2. QED
    BY <2>1, LeastExists
<1>2. s = H!Min(H!Slab \ heap)
  <2>1. \A r \in H!Slab : r \in Nat
    BY DEF H!Slab
  <2>2. H!Min(H!Slab \ heap) \in H!Slab \ heap
        /\ \A r \in H!Slab \ heap : H!Min(H!Slab \ heap) <= r
    BY <1>1 DEF H!Min
  <2>3. s <= H!Min(H!Slab \ heap) /\ H!Min(H!Slab \ heap) <= s
    BY <1>1, <2>2
  <2>4. s \in Nat /\ H!Min(H!Slab \ heap) \in Nat
    BY <2>1, <2>2
  <2>5. QED
    BY <2>3, <2>4
<1>3. pool[p].slab_size \in 1 .. 2 * PageSlab
  BY SlabAssumption DEF HeapInv, HeapTypes, PoolType
<1>4. H!increase_next_slab_size(pool[p].slab_size) \in 1 .. 2 * PageSlab
  BY <1>3, SlabAssumption DEF H!increase_next_slab_size
<1>5. QED
  BY <1>1, <1>2, <1>3, <1>4

LEMMA NewSlabInv ==
    ASSUME HeapInv, NEW p \in PoolId, H!Exists(p), H!TakeFromNewSlab(p)
    PROVE  /\ HeapInv'
           /\ used[p] = H!Owned(p)
           /\ \E new \in SUBSET H!Object, o \in H!Object :
                 /\ o \in new
                 /\ \A q \in PoolId : new \cap H!Owned(q) = {}
                 /\ H!Owned(p)' = H!Owned(p) \cup new
                 /\ \A q \in PoolId \ {p} : H!Owned(q)' = H!Owned(q)
                 /\ used' = [used EXCEPT ![p] = @ \cup {o}]
                 /\ pool_ret' = <<p, o>>
                 /\ IsFiniteSet(new)
                 /\ pool'[p].capacity = pool[p].capacity + Cardinality(new)
                 /\ pool'[p].size = pool[p].size + 1
                 /\ \A q \in PoolId \ {p} : pool'[q] = pool[q]
           /\ \A q \in PoolId : SlabsOf(q) \subseteq SlabsOf(q)'
           /\ heap' \ heap \subseteq SlabsOf(p)'
<1>1. PICK s \in H!Slab \ heap, n \in 1 .. 2 * PageSlab, m \in 1 .. 2 * PageSlab :
         n = pool[p].slab_size /\ m = H!increase_next_slab_size(n)
         /\ s = H!Min(H!Slab \ heap)
  BY NewSlabIs
<1>2. PICK rank \in [H!Object -> Nat] : ListsAreFree(rank)
  BY DEF HeapInv
<1>3. /\ pool \in [PoolId -> PoolType] /\ next \in [H!Object -> H!Object \cup {H!Null}]
      /\ count \in [H!Slab -> 0 .. 2 * PageSlab] /\ heap \in SUBSET H!Slab
      /\ used \in [PoolId -> SUBSET H!Object] /\ PageSlab \in Nat \ {0}
  BY SlabAssumption DEF HeapInv, HeapTypes
<1> DEFINE x == IF n = 1 THEN H!Null ELSE <<s, 1>>
           new == {s} \X (0 .. n - 1)
           o1 == <<s, 0>>
           links == H!Linked(s, n, H!Null)
           S == pool[p].slabs
           r == [slabs |-> Append(S, s), flist |-> x, slab_size |-> m,
                 capacity |-> pool[p].capacity + n, size |-> pool[p].size + 1]
           rank2 == [o \in H!Object |-> IF o \in new THEN 2 * PageSlab - o[2] ELSE rank[o]]
<1>4. /\ heap' = heap \cup {s}
      /\ count' = [count EXCEPT ![s] = n]
      /\ next' = H!Override(next, links)
      /\ pool' = [pool EXCEPT ![p] = r]
      /\ used' = [used EXCEPT ![p] = @ \cup {o1}]
      /\ pool_ret' = <<p, o1>>
      /\ pool[p].flist = H!Null
  BY <1>1 DEF H!TakeFromNewSlab
<1>5. /\ s \in H!Slab /\ s \notin heap /\ n \in Nat /\ n >= 1 /\ n <= 2 * PageSlab
      /\ new \in SUBSET H!Object /\ o1 \in new
      /\ x \in H!Object \cup {H!Null}
  <2>1. s \in H!Slab /\ s \notin heap /\ n \in Nat /\ n >= 1 /\ n <= 2 * PageSlab
    BY <1>1, <1>3
  <2>2. new \in SUBSET H!Object
    <3>1. 0 .. n - 1 \subseteq 0 .. 2 * PageSlab - 1
      BY <1>3, <2>1
    <3>2. QED
      BY <2>1, <3>1 DEF H!Object
  <2>3. o1 \in new
    BY <2>1
  <2>4. n # 1 => <<s, 1>> \in H!Object
    <3>1. n # 1 => 1 \in 0 .. 2 * PageSlab - 1
      BY <1>3, <2>1
    <3>2. QED
      BY <2>1, <3>1 DEF H!Object
  <2>5. QED
    BY <2>1, <2>2, <2>3, <2>4
<1>6. /\ pool'[p] = r /\ \A q \in PoolId \ {p} : pool'[q] = pool[q]
      /\ pool' = [q \in PoolId |-> pool'[q]]
  <2> HIDE DEF r
  <2>1. QED
    BY <1>3, <1>4
<1>7. pool[p].capacity \in Int /\ pool[p].size \in Int /\ S \in Seq(H!Slab)
  BY <1>3 DEF PoolType
<1>8. /\ r \in PoolType /\ r.slabs = Append(S, s) /\ r.flist = x /\ r.slab_size # 0
      /\ r.capacity = pool[p].capacity + n /\ r.size = pool[p].size + 1
  <2> HIDE DEF x, S
  <2>1. Append(S, s) \in Seq(H!Slab) /\ m \in 0 .. 2 * PageSlab /\ m # 0
    BY <1>1, <1>5, <1>7
  <2>2. QED
    BY <1>5, <1>7, <2>1 DEF PoolType
<1> HIDE DEF r
<1>9. pool' \in [PoolId -> PoolType]
  BY <1>3, <1>6, <1>8
<1>10. \A q \in PoolId : pool'[q].slab_size = 0 => pool'[q] = H!NoPool
  BY <1>6, <1>8 DEF HeapInv, HeapTypes, H!Exists
<1>11. /\ DOMAIN links = new
       /\ \A o \in new : links[o] = IF o[2] = n - 1 THEN H!Null ELSE <<s, o[2] + 1>>
  BY DEF H!Linked
<1>12. /\ \A o \in new : next'[o] = links[o]
       /\ \A o \in H!Object \ new : next'[o] = next[o]
       /\ next' = [o \in H!Object |-> next'[o]]
  <2> HIDE DEF new, links
  <2>1. QED
    BY <1>3, <1>4, <1>5, <1>11 DEF H!Override
<1>13. ASSUME NEW o \in new
       PROVE  o = <<s, o[2]>> /\ o[2] \in Nat /\ o[2] < n
  BY <1>5
<1>14. ASSUME NEW o \in new, o[2] # n - 1
       PROVE  next'[o] = <<s, o[2] + 1>> /\ next'[o] \in new
  <2>1. o[2] + 1 \in 0 .. n - 1
    BY <1>5, <1>13, <1>14
  <2>2. next'[o] = <<s, o[2] + 1>>
    BY <1>11, <1>12, <1>14
  <2>3. QED
    BY <2>1, <2>2
<1>15. ASSUME NEW o \in new, o[2] = n - 1
       PROVE  next'[o] = H!Null
  BY <1>11, <1>12, <1>15
<1>16. H!Null \notin new /\ (n # 1 => <<s, 1>> \in new)
  BY <1>5 DEF H!Null, H!Slab
<1>17. IsFreeList(H!Null, x, next', new \ {o1}, rank2)
  <2>1. x \in (new \ {o1}) \cup {H!Null}
    BY <1>16
  <2>2. x = H!Null => new \ {o1} = {}
    <3> SUFFICES ASSUME x = H!Null, NEW o \in new PROVE o = o1
      OBVIOUS
    <3>1. n = 1
      BY <1>16
    <3>2. o[2] = 0
      BY <1>13, <3>1
    <3>3. QED
      BY <1>13, <3>2
  <2>3. ASSUME NEW o \in new \ {o1}
        PROVE  next'[o] \in (new \ {o1}) \cup {H!Null} /\ next'[o] # x
    <3>1. o[2] # 0 /\ o[2] \in Nat
      BY <1>13
    <3>2. CASE o[2] # n - 1
      <4>1. next'[o] = <<s, o[2] + 1>> /\ next'[o] \in new
        BY <1>14, <3>2
      <4>2. o[2] + 1 # 0 /\ o[2] + 1 # 1
        BY <3>1
      <4>3. <<s, o[2] + 1>> # o1 /\ <<s, o[2] + 1>> # <<s, 1>>
        BY <4>2
      <4>4. next'[o] # H!Null
        BY <1>16, <4>1
      <4>5. QED
        BY <4>1, <4>3, <4>4
    <3>3. CASE o[2] = n - 1
      <4>1. n # 1
        BY <1>5, <3>1, <3>3
      <4>2. x # H!Null
        BY <1>16, <4>1
      <4>3. QED
        BY <1>15, <3>3, <4>2
    <3>4. QED
      BY <3>2, <3>3
  <2>4. ASSUME NEW o \in new, next'[o] \in new
        PROVE  rank2[next'[o]] < rank2[o]
    <3>1. o[2] # n - 1
      BY <1>15, <1>16, <2>4
    <3>2. next'[o][2] = o[2] + 1 /\ o[2] \in Nat
      BY <1>13, <1>14, <3>1
    <3>3. o \in H!Object /\ next'[o] \in H!Object
      BY <1>5, <2>4
    <3> HIDE DEF new
    <3>4. rank2[o] = 2 * PageSlab - o[2] /\ rank2[next'[o]] = 2 * PageSlab - next'[o][2]
      BY <2>4, <3>3
    <3>5. 2 * PageSlab \in Nat
      BY <1>3
    <3> HIDE DEF rank2
    <3>6. QED
      BY <3>2, <3>4, <3>5
  <2>5. ASSUME NEW o \in new, NEW q \in new, next'[o] = next'[q]
        PROVE  o = q
    <3>1. CASE o[2] = n - 1
      <4>1. q[2] = n - 1
        BY <1>14, <1>15, <1>16, <2>5, <3>1
      <4>2. QED
        BY <1>13, <3>1, <4>1
    <3>2. CASE o[2] # n - 1
      <4>1. q[2] # n - 1
        BY <1>14, <1>15, <1>16, <2>5, <3>2
      <4>2. <<s, o[2] + 1>> = <<s, q[2] + 1>>
        BY <1>14, <2>5, <3>2, <4>1
      <4>3. o[2] = q[2]
        <5>1. o[2] + 1 = q[2] + 1
          BY <4>2
        <5>2. o[2] \in Nat /\ q[2] \in Nat
          BY <1>13
        <5>3. QED
          BY <5>1, <5>2
      <4>4. QED
        BY <1>13, <4>3
    <3>3. QED
      BY <3>1, <3>2
  <2> HIDE DEF x, new, o1, rank2
  <2>6. QED
    BY <2>1, <2>2, <2>3, <2>4, <2>5 DEF IsFreeList
<1> HIDE DEF x, new, links, rank2
\* What belongs to whom.
<1>18. \A q \in PoolId : s \notin SlabsOf(q) /\ SlabsOf(q) \in SUBSET heap
  BY <1>5 DEF HeapInv, SlabsOwned
<1>19. count'[s] = n /\ \A t \in H!Slab \ {s} : count'[t] = count[t]
  BY <1>3, <1>4, <1>5
<1>20. \A q \in PoolId \ {p} : /\ SlabsOf(q)' = SlabsOf(q)
                               /\ H!Owned(q)' = H!Owned(q)
  <2>1. \A q \in PoolId : \A t \in SlabsOf(q) : count'[t] = count[t]
    BY <1>3, <1>18, <1>19
  <2>2. QED
    BY <1>6, <2>1, OwnedStays
<1>21. SlabsOf(p)' = SlabsOf(p) \cup {s} /\ SlabsOf(p)' = H!ToSet(pool'[p].slabs)
  <2>1. SlabsOf(p)' = H!ToSet(Append(S, s)) /\ SlabsOf(p)' = H!ToSet(pool'[p].slabs)
    BY <1>6, <1>8 DEF SlabsOf, H!ToSet
  <2>2. H!ToSet(S) = {S[i] : i \in 1 .. Len(S)}
    BY <1>7 DEF H!ToSet
  <2>3. /\ Len(Append(S, s)) = Len(S) + 1 /\ Len(S) \in Nat
        /\ \A i \in 1 .. Len(S) + 1 : Append(S, s)[i] = IF i = Len(S) + 1 THEN s ELSE S[i]
    BY <1>5, <1>7
  <2>4. H!ToSet(Append(S, s)) = {Append(S, s)[i] : i \in 1 .. Len(S) + 1}
    <3>1. Append(S, s) \in Seq(H!Slab)
      BY <1>5, <1>7
    <3>2. QED
      BY <2>3, <3>1 DEF H!ToSet
  <2> DEFINE S2 == Append(S, s)
  <2> HIDE DEF S, S2
  <2>5. {S2[i] : i \in 1 .. Len(S) + 1} = {S[i] : i \in 1 .. Len(S)} \cup {s}
    BY <2>3 DEF S2
  <2>6. QED
    BY <2>1, <2>2, <2>4, <2>5 DEF S, S2, SlabsOf
<1>22. H!Owned(p)' = H!Owned(p) \cup new
  <2>1. \A t \in SlabsOf(p) : H!ObjectsOf(t)' = H!ObjectsOf(t)
    BY <1>3, <1>18, <1>19 DEF H!ObjectsOf
  <2>2. H!ObjectsOf(s)' = new
    BY <1>19 DEF H!ObjectsOf, new
  <2>3. H!Owned(p)' = UNION {H!ObjectsOf(t)' : t \in SlabsOf(p) \cup {s}}
    BY <1>21 DEF H!Owned, H!ObjectsOf
  <2>4. H!Owned(p) = UNION {H!ObjectsOf(t) : t \in SlabsOf(p)}
    BY DEF H!Owned, SlabsOf
  <2>5. QED
    BY <2>1, <2>2, <2>3, <2>4
<1>23. \A q \in PoolId : new \cap H!Owned(q) = {} /\ H!Owned(q) \in SUBSET H!Object
  <2>1. \A o \in new : o[1] = s
    BY DEF new
  <2>2. QED
    BY <1>18, <2>1, OwnedIs DEF HeapInv
<1>24. used[p] = H!Owned(p) /\ used'[p] = H!Owned(p) \cup {o1}
       /\ \A q \in PoolId \ {p} : used'[q] = used[q]
  <2>1. FreeOf(p) = {}
    BY <1>2, <1>4 DEF ListsAreFree, IsFreeList
  <2>2. used[p] = H!Owned(p)
    BY <2>1 DEF FreeOf, HeapInv
  <2>3. QED
    BY <1>3, <1>4, <2>2
<1>25. HeapTypes'
  <2>1. next' \in [H!Object -> H!Object \cup {H!Null}]
    <3>1. \A o \in H!Object : next'[o] \in H!Object \cup {H!Null}
      BY <1>3, <1>5, <1>12, <1>14, <1>15
    <3>2. QED
      BY <1>12, <3>1
  <2>2. count' \in [H!Slab -> 0 .. 2 * PageSlab] /\ heap' \in SUBSET H!Slab
    BY <1>3, <1>4, <1>5
  <2>3. used' \in [PoolId -> SUBSET H!Object]
    BY <1>3, <1>4, <1>5
  <2>4. QED
    BY <1>9, <1>10, <2>1, <2>2, <2>3
       DEF HeapTypes, H!Exists, H!NoPool, H!Null, H!Object, H!Slab, PoolType
<1>26. SlabsOwned'
  <2>1. \A q \in PoolId : \A t \in SlabsOf(q)' : t \in heap' /\ count'[t] > 0
    <3>1. \A q \in PoolId : \A t \in SlabsOf(q) : t \in heap' /\ count'[t] > 0
      BY <1>3, <1>4, <1>18, <1>19 DEF HeapInv, SlabsOwned
    <3>2. s \in heap' /\ count'[s] > 0
      BY <1>4, <1>5, <1>19
    <3>3. QED
      BY <1>20, <1>21, <3>1, <3>2
  <2>2. \A q, t \in PoolId : q # t => SlabsOf(q)' \cap SlabsOf(t)' = {}
    BY <1>18, <1>20, <1>21 DEF HeapInv, SlabsOwned
  <2>3. ASSUME NEW q \in PoolId, NEW i \in 1 .. Len(pool'[q].slabs),
               NEW j \in 1 .. Len(pool'[q].slabs), pool'[q].slabs[i] = pool'[q].slabs[j]
        PROVE  i = j
    <3>1. CASE q # p
      BY <1>6, <2>3, <3>1 DEF HeapInv, SlabsOwned
    <3>2. CASE q = p
      <4>1. /\ pool'[q].slabs = Append(S, s)
            /\ Len(Append(S, s)) = Len(S) + 1 /\ Len(S) \in Nat
            /\ \A h \in 1 .. Len(S) + 1 : Append(S, s)[h] = IF h = Len(S) + 1 THEN s ELSE S[h]
        <5>1. pool'[q].slabs = Append(S, s)
          BY <1>6, <1>8, <3>2
        <5> HIDE DEF S
        <5>2. QED
          BY <1>5, <1>7, <5>1
      <4>2. \A h \in 1 .. Len(S) : S[h] # s
        <5>1. \A h \in 1 .. Len(S) : S[h] \in SlabsOf(p)
          BY OwnedIs DEF HeapInv
        <5>2. QED
          BY <1>18, <5>1
      <4>3. \A h, l \in 1 .. Len(S) : S[h] = S[l] => h = l
        BY DEF HeapInv, SlabsOwned
      <4> HIDE DEF S
      <4>4. QED
        BY <2>3, <4>1, <4>2, <4>3
    <3>3. QED
      BY <3>1, <3>2
  <2>4. QED
    BY <2>1, <2>2, <2>3 DEF SlabsOwned
<1>27. \A q \in PoolId : used'[q] \subseteq H!Owned(q)'
  <2>1. used'[p] \subseteq H!Owned(p)'
    BY <1>5, <1>22, <1>24
  <2>2. QED
    BY <1>20, <1>24, <2>1 DEF HeapInv
<1>28. ASSUME NEW q \in PoolId
       PROVE  IsFreeList(H!Null, pool'[q].flist, next', FreeOf(q)', rank2)
  <2>1. FreeOf(q)' = H!Owned(q)' \ used'[q]
    BY DEF FreeOf
  <2>2. CASE q = p
    <3>1. FreeOf(p)' = new \ {o1}
      BY <1>22, <1>23, <1>24, <2>1, <2>2
    <3>2. pool'[p].flist = x
      BY <1>6, <1>8
    <3>3. QED
      BY <1>17, <2>2, <3>1, <3>2
  <2>3. CASE q # p
    <3>1. FreeOf(q)' = FreeOf(q) /\ pool'[q].flist = pool[q].flist
      BY <1>6, <1>20, <1>24, <2>1, <2>3 DEF FreeOf
    <3>2. \A o \in FreeOf(q) : o \in H!Object \ new
      BY <1>23 DEF FreeOf
    <3>3. \A o \in FreeOf(q) : next'[o] = next[o] /\ rank2[o] = rank[o]
      BY <1>12, <3>2 DEF rank2
    <3>4. IsFreeList(H!Null, pool[q].flist, next, FreeOf(q), rank)
      BY <1>2 DEF ListsAreFree
    <3>5. IsFreeList(H!Null, pool[q].flist, next', FreeOf(q), rank2)
      BY <3>3, <3>4, FreeKept
    <3>6. QED
      BY <3>1, <3>5
  <2>4. QED
    BY <2>2, <2>3
<1>29. rank2 \in [H!Object -> Nat]
  <2>1. \A o \in new : 2 * PageSlab - o[2] \in Nat
    BY <1>3, <1>5, <1>13
  <2>2. QED
    BY <2>1 DEF rank2
<1>30. ListsAreFree(rank2)' /\ rank2 \in [H!Object' -> Nat]
  BY <1>28, <1>29 DEF ListsAreFree, H!Null, H!Object, H!Slab
<1>31. HeapInv'
  BY <1>25, <1>26, <1>27, <1>30 DEF HeapInv, H!Object, H!Slab
<1>32. new \in SUBSET H!Object /\ o1 \in H!Object /\ o1 \in new
  BY <1>5
<1>33. IsFiniteSet(new) /\ Cardinality(new) = n
  <2>1. IsFiniteSet(0 .. n - 1) /\ Cardinality(0 .. n - 1) = n
    BY <1>5, CountTo
  <2>2. IsFiniteSet({s}) /\ Cardinality({s}) = 1
    BY FS_Singleton
  <2>3. IsFiniteSet(new) /\ Cardinality(new) = 1 * n
    BY <2>1, <2>2, FS_Product DEF new
  <2>4. QED
    BY <1>5, <2>3
<1>34. /\ pool'[p].capacity = pool[p].capacity + Cardinality(new)
       /\ pool'[p].size = pool[p].size + 1
  BY <1>6, <1>8, <1>33
<1>35. /\ \A q \in PoolId : SlabsOf(q) \subseteq SlabsOf(q)'
       /\ heap' \ heap \subseteq SlabsOf(p)'
  BY <1>4, <1>20, <1>21
<1>36. QED
  BY <1>4, <1>6, <1>20, <1>22, <1>23, <1>24, <1>31, <1>32, <1>33, <1>34, <1>35

Has == [p \in PoolId |-> H!Owned(p)]

LEMMA HeapStays ==
    ASSUME HeapInv, UNCHANGED <<pool, count, next, heap, used>>
    PROVE  HeapInv' /\ Has' = Has
<1>1. HeapTypes' /\ \A p \in PoolId : SlabsOf(p)' = SlabsOf(p) /\ H!Owned(p)' = H!Owned(p)
      /\ FreeOf(p)' = FreeOf(p)
  BY DEF HeapInv, HeapTypes, H!Exists, H!NoPool, H!Null, H!Object, H!Slab,
         PoolType, SlabsOf, H!ToSet, H!Owned, H!ObjectsOf, FreeOf
<1>2. SlabsOwned'
  BY <1>1 DEF HeapInv, SlabsOwned
<1>3. HeapInv'
  BY <1>1, <1>2 DEF HeapInv, ListsAreFree, H!Null, H!Object, H!Slab
<1>4. QED
  BY <1>1, <1>3 DEF Has

LEMMA HeapStep ==
    ASSUME HeapInv, MovesOnto = 0, [H!Next]_slabs
    PROVE  HeapInv' /\ [H!Promise!Next]_(H!Promise!vars)
<1>0. /\ Has' = [p \in PoolId |-> H!Owned(p)'] /\ DOMAIN used = PoolId
      /\ \A p \in PoolId : Has[p] = H!Owned(p) /\ Has'[p] = H!Owned(p)'
      /\ \A p \in PoolId : used[p] \subseteq H!Owned(p) /\ H!Owned(p) \in SUBSET H!Object
  BY OwnedIs DEF Has, HeapInv, HeapTypes
<1>1. (\A q \in PoolId : H!Owned(q)' = H!Owned(q)) => Has' = Has
  BY <1>0 DEF Has
<1>2. CASE UNCHANGED slabs
  <2>1. HeapInv' /\ Has' = Has
    BY <1>2, HeapStays DEF slabs
  <2>2. UNCHANGED H!Promise!vars
    BY <1>2, <2>1 DEF slabs, H!Promise!vars, Has
  <2>3. QED
    BY <2>1, <2>2
<1>3. ASSUME NEW p \in PoolId, H!Construct(p)
      PROVE  HeapInv' /\ H!Promise!DeallocAll(p)
  <2>1. pool[p] = H!NoPool /\ H!Owned(p) = {} /\ used[p] = {}
    <3>1. pool[p] = H!NoPool
      BY <1>3 DEF H!Construct, H!Exists
    <3>2. SlabsOf(p) = {}
      BY <3>1, NoPoolIs DEF SlabsOf
    <3>3. QED
      BY <1>0, <3>1, <3>2, OwnedIs DEF HeapInv
  <2>2. pool' = [pool EXCEPT ![p] = pool[p], ![p] = H!Defaults]
    BY <1>3 DEF H!Construct, HeapInv, HeapTypes
  <2>3. used' = [used EXCEPT ![p] = used[p], ![p] = {}] /\ used' = [used EXCEPT ![p] = {}]
    BY <1>3, <2>1 DEF H!Construct, HeapInv, HeapTypes
  <2>4. HeapInv' /\ \A q \in PoolId : H!Owned(q)' = H!Owned(q)
    BY <1>3, <2>1, <2>2, <2>3, HandedOver DEF H!Construct
  <2>5. QED
    BY <1>1, <1>3, <2>3, <2>4 DEF H!Promise!DeallocAll, H!Construct, Has
<1>4. ASSUME NEW p \in PoolId, H!alloc(p)
      PROVE  HeapInv' /\ H!Promise!Next
  <2>1. CASE H!TakeFree(p)
    <3>1. /\ HeapInv' /\ \A q \in PoolId : H!Owned(q)' = H!Owned(q)
          /\ pool[p].flist \in H!Owned(p) \ used[p]
      BY <1>4, <2>1, TakeFreeInv DEF H!alloc, FreeOf
    <3>2. /\ used' = [used EXCEPT ![p] = @ \cup {pool[p].flist}]
          /\ pool_ret' = <<p, pool[p].flist>>
      BY <2>1 DEF H!TakeFree
    <3>3. pool[p].flist \in H!Object /\ pool[p].flist \in Has[p] \ used[p] /\ Has' = Has
      BY <1>0, <1>1, <3>1
    <3>4. H!Promise!Alloc(p, pool[p].flist)
      BY <3>2, <3>3 DEF H!Promise!Alloc, H!Promise!HandOut, Has
    <3>5. QED
      BY <3>1, <3>3, <3>4 DEF H!Promise!Next
  <2>2. CASE H!TakeFromNewSlab(p)
    <3>1. HeapInv' /\ used[p] = H!Owned(p)
      BY <1>4, <2>2, NewSlabInv DEF H!alloc
    <3>2. PICK new \in SUBSET H!Object, o \in H!Object :
                 /\ o \in new
                 /\ \A q \in PoolId : new \cap H!Owned(q) = {}
                 /\ H!Owned(p)' = H!Owned(p) \cup new
                 /\ \A q \in PoolId \ {p} : H!Owned(q)' = H!Owned(q)
                 /\ used' = [used EXCEPT ![p] = @ \cup {o}]
                 /\ pool_ret' = <<p, o>>
      BY <1>4, <2>2, NewSlabInv DEF H!alloc
    <3>3. /\ used[p] = Has[p]
          /\ Has'[p] \ Has[p] = new
          /\ new \cap UNION {Has[q] : q \in PoolId} = {}
          /\ Has' = [Has EXCEPT ![p] = @ \cup new]
      <4>1. used[p] = Has[p] /\ Has'[p] \ Has[p] = new
        BY <1>0, <3>1, <3>2
      <4>2. new \cap UNION {Has[q] : q \in PoolId} = {}
        BY <1>0, <3>2
      <4>3. DOMAIN Has = PoolId /\ \A q \in PoolId \ {p} : Has'[q] = Has[q]
        BY <1>0, <3>2 DEF Has
      <4>4. Has'[p] = Has[p] \cup new
        BY <1>0, <3>2
      <4>5. QED
        BY <1>0, <4>1, <4>2, <4>3, <4>4
    <3>4. H!Promise!GrowAndAlloc(p, o)
      BY <3>2, <3>3 DEF H!Promise!GrowAndAlloc, H!Promise!HandOut, Has
    <3>5. QED
      BY <3>1, <3>4 DEF H!Promise!Next
  <2>3. CASE H!NoMemory(p)
    <3>1. used[p] = Has[p]
      <4>1. FreeOf(p) = {}
        BY <2>3 DEF H!NoMemory, HeapInv, ListsAreFree, IsFreeList
      <4>2. QED
        BY <1>0, <4>1 DEF FreeOf
    <3>2. HeapInv' /\ Has' = Has
      BY <2>3, HeapStays DEF H!NoMemory
    <3>3. H!Promise!GiveUp(p)
      BY <2>3, <3>1, <3>2 DEF H!NoMemory, H!Promise!GiveUp, Has
    <3>4. QED
      BY <3>2, <3>3 DEF H!Promise!Next
  <2>4. QED
    BY <1>4, <2>1, <2>2, <2>3 DEF H!alloc
<1>5. ASSUME NEW p \in PoolId, NEW o \in H!Object, H!dealloc(p, o)
      PROVE  HeapInv' /\ H!Promise!Dealloc(p, o)
  <2>1. HeapInv' /\ Has' = Has
    BY <1>1, <1>5, HeapDeallocInv
  <2>2. QED
    BY <1>5, <2>1 DEF H!dealloc, H!Promise!Dealloc, Has
<1>6. ASSUME NEW p \in PoolId, H!dealloc_all(p)
      PROVE  HeapInv' /\ H!Promise!DeallocAll(p)
  <2>1. HeapInv' /\ Has' = Has
    BY <1>1, <1>6, HeapDeallocAllInv
  <2>2. QED
    BY <1>6, <2>1 DEF H!dealloc_all, H!Promise!DeallocAll, Has
<1>7. ASSUME NEW p \in PoolId, NEW q \in PoolId, H!Move(p, q), H!Owned(p) = {}
      PROVE  HeapInv' /\ H!Promise!Move(p, q)
  <2>1. /\ HeapInv' /\ H!Owned(q)' = {}
        /\ p # q => H!Owned(p)' = H!Owned(q)
        /\ \A r \in PoolId \ {p, q} : H!Owned(r)' = H!Owned(r)
    BY <1>7, HandedOver DEF H!Move
  <2>2. Has' = [Has EXCEPT ![p] = Has[q], ![q] = {}]
    <3>1. /\ Has'[q] = {} /\ (p # q => Has'[p] = Has[q])
          /\ \A r \in PoolId \ {p, q} : Has'[r] = Has[r]
      BY <1>0, <2>1
    <3>2. Has' = [r \in PoolId |-> Has'[r]] /\ Has = [r \in PoolId |-> Has[r]]
      BY <1>0 DEF Has
    <3>3. QED
      BY <3>1, <3>2
  <2>3. Has[p] = {}
    BY <1>0, <1>7
  <2>4. QED
    BY <1>7, <2>1, <2>2, <2>3 DEF H!Move, H!Promise!Move, Has
<1>8. ASSUME NEW p \in PoolId, NEW q \in PoolId, H!MoveConstruct(p, q) \/ H!MoveAssign(p, q)
      PROVE  HeapInv' /\ H!Promise!Move(p, q)
  <2>1. pool[p].slabs = <<>>
    <3>1. CASE H!MoveConstruct(p, q)
      BY <3>1, NoPoolIs DEF H!MoveConstruct, H!Exists
    <3>2. CASE H!MoveAssign(p, q)
      <4>1. Len(pool[p].slabs) <= 0 /\ pool[p].slabs \in Seq(H!Slab)
        BY <3>2 DEF H!MoveAssign, HeapInv, HeapTypes, PoolType
      <4>2. QED
        BY <4>1
    <3>3. QED
      BY <1>8, <3>1, <3>2
  <2>2. H!Owned(p) = {}
    <3>1. SlabsOf(p) = {}
      BY <2>1, NoPoolIs DEF SlabsOf
    <3>2. QED
      BY <3>1, OwnedIs DEF HeapInv
  <2>3. QED
    BY <1>7, <1>8, <2>2 DEF H!MoveConstruct, H!MoveAssign
<1>9. ASSUME NEW p \in PoolId, H!Destruct(p)
      PROVE  HeapInv' /\ H!Promise!Destruct(p)
  <2>1. /\ pool' = [pool EXCEPT ![p] = pool[p], ![p] = H!NoPool]
        /\ used' = [used EXCEPT ![p] = used[p], ![p] = {}]
        /\ heap' = heap \ SlabsOf(p) /\ UNCHANGED <<count, next>>
    BY <1>9 DEF H!Destruct, HeapInv, HeapTypes, SlabsOf
  <2>2. /\ HeapInv' /\ H!Owned(p)' = {}
        /\ \A r \in PoolId \ {p} : H!Owned(r)' = H!Owned(r)
    BY <2>1, HandedOver
  <2>3. Has' = [Has EXCEPT ![p] = {}]
    BY <1>0, <2>2 DEF Has
  <2>4. QED
    BY <1>9, <2>2, <2>3 DEF H!Destruct, H!Promise!Destruct, Has
<1>10. QED
  <2>1. CASE H!Next
    <3>1. PICK p \in PoolId :
             \/ H!Construct(p) \/ H!alloc(p)
             \/ \E o \in H!Object : H!dealloc(p, o)
             \/ H!dealloc_all(p)
             \/ \E q \in PoolId : H!MoveConstruct(p, q) \/ H!MoveAssign(p, q)
             \/ H!Destruct(p)
      BY <2>1 DEF H!Next
    <3>2. QED
      BY <1>3, <1>4, <1>5, <1>6, <1>8, <1>9, <3>1 DEF H!Promise!Next
  <2>2. QED
    BY <1>2, <2>1

-----------------------------------------------------------------------------
(* The walk along a free list.                                             *)

IsWalk(nil, first, link, n, at) ==
    at = [i \in 0 .. n |-> IF i = 0 THEN first
                           ELSE IF at[i - 1] = nil THEN nil ELSE link[at[i - 1]]]

LEMMA WalkExists ==
    ASSUME NEW nil, NEW first, NEW link, NEW n \in Nat
    PROVE  \E at : IsWalk(nil, first, link, n, at)
<1> DEFINE bad == {m \in Nat : ~\E at : IsWalk(nil, first, link, m, at)}
<1>1. SUFFICES ASSUME bad # {} PROVE FALSE
  OBVIOUS
<1>2. PICK m \in bad : \A k \in bad : m <= k
  BY <1>1, LeastExists
<1>3. CASE m = 0
  <2>1. IsWalk(nil, first, link, 0, [i \in 0 .. 0 |-> first])
    BY DEF IsWalk
  <2>2. QED
    BY <1>3, <2>1
<1>4. CASE m # 0
  <2>1. m \in Nat /\ m - 1 \in Nat /\ m - 1 \notin bad
    BY <1>2, <1>4
  <2>2. PICK g : IsWalk(nil, first, link, m - 1, g)
    BY <2>1
  <2> DEFINE last == IF g[m - 1] = nil THEN nil ELSE link[g[m - 1]]
             h == [i \in 0 .. m |-> IF i = m THEN last ELSE g[i]]
  <2> HIDE DEF last
  <2>3. \A i \in 0 .. m - 1 : h[i] = g[i]
    BY <2>1
  <2>4. ASSUME NEW i \in 0 .. m
        PROVE  h[i] = IF i = 0 THEN first ELSE IF h[i - 1] = nil THEN nil ELSE link[h[i - 1]]
    <3>1. CASE i = 0
      BY <1>4, <2>1, <2>2, <2>3, <3>1 DEF IsWalk
    <3>2. CASE i = m
      <4>1. h[i] = last /\ h[i - 1] = g[m - 1]
        BY <2>1, <2>3, <3>2
      <4>2. QED
        BY <1>4, <3>2, <4>1 DEF last
    <3>3. CASE i # 0 /\ i # m
      <4>1. i \in 0 .. m - 1 /\ i - 1 \in 0 .. m - 1
        BY <2>1, <3>3
      <4>2. h[i] = g[i] /\ h[i - 1] = g[i - 1]
        BY <2>3, <4>1
      <4>3. g[i] = IF g[i - 1] = nil THEN nil ELSE link[g[i - 1]]
        BY <2>2, <3>3, <4>1 DEF IsWalk
      <4>4. QED
        BY <3>3, <4>2, <4>3
    <3>4. QED
      BY <3>1, <3>2, <3>3
  <2>5. h = [i \in 0 .. m |-> h[i]]
    OBVIOUS
  <2> HIDE DEF h
  <2>6. IsWalk(nil, first, link, m, h)
    BY <2>4, <2>5 DEF IsWalk
  <2>7. QED
    BY <1>2, <2>6
<1>5. QED
  BY <1>3, <1>4

\* A walk takes the objects of a free list one by one, and then stays at nil.
LEMMA WalkIsExact ==
    ASSUME NEW Obj, NEW nil, nil \notin Obj, NEW F \in SUBSET Obj, IsFiniteSet(F),
           NEW first, NEW link, NEW rank \in [Obj -> Nat],
           IsFreeList(nil, first, link, F, rank),
           NEW n \in Nat, NEW at, IsWalk(nil, first, link, n, at), Cardinality(F) <= n
    PROVE  /\ at[Cardinality(F)] = nil
           /\ {at[i] : i \in 0 .. Cardinality(F)} = F \cup {nil}
           /\ \A i \in 0 .. n : at[i] = nil <=> Cardinality(F) <= i
<1> DEFINE k == Cardinality(F)
           passed(i) == {at[j] : j \in 0 .. i - 1}
           good(i) == /\ IsFreeList(nil, at[i], link, F \ passed(i), rank)
                      /\ Cardinality(F \ passed(i)) = k - i
           bad == {i \in 0 .. k : ~good(i)}
<1>1. k \in Nat /\ k <= n
  BY FS_CardinalityType
<1> HIDE DEF k
<1>2. /\ at[0] = first
      /\ \A i \in 1 .. n : at[i] = IF at[i - 1] = nil THEN nil ELSE link[at[i - 1]]
  BY DEF IsWalk
<1>3. good(0)
  <2>1. F \ passed(0) = F
    OBVIOUS
  <2>2. QED
    BY <1>1, <1>2, <2>1 DEF k
<1>4. ASSUME NEW i \in 0 .. k - 1, good(i)
      PROVE  at[i] \in F \ passed(i) /\ at[i] # nil /\ good(i + 1)
  <2> DEFINE G0 == F \ passed(i)
  <2>1. IsFiniteSet(G0) /\ Cardinality(G0) = k - i
    BY <1>4, FS_Subset
  <2>2. G0 # {}
    BY <1>1, <2>1, FS_EmptySet
  <2>3. at[i] \in G0 /\ at[i] # nil
    <3> HIDE DEF passed
    <3>1. QED
      BY <1>4, <2>2 DEF IsFreeList
  <2>4. F \ passed(i + 1) = G0 \ {at[i]}
    <3>1. 0 .. (i + 1) - 1 = (0 .. i - 1) \cup {i}
      BY <1>1
    <3>2. QED
      BY <3>1
  <2>5. at[i + 1] = link[at[i]]
    BY <1>1, <1>2, <2>3
  <2>6. Cardinality(G0 \ {at[i]}) = k - (i + 1)
    <3>1. Cardinality(G0 \ {at[i]}) = Cardinality(G0) - 1
      BY <2>1, <2>3, FS_RemoveElement
    <3>2. QED
      BY <1>1, <2>1, <3>1
  <2>7. IsFreeList(nil, link[at[i]], link, G0 \ {at[i]}, rank)
    <3> HIDE DEF passed
    <3>1. QED
      BY <1>4, <2>3, FirstTaken
  <2>8. QED
    BY <2>3, <2>4, <2>5, <2>6, <2>7
<1> HIDE DEF good
<1>5. \A i \in 0 .. k : good(i)
  <2>1. SUFFICES ASSUME bad # {} PROVE FALSE
    OBVIOUS
  <2>0. bad \in SUBSET Nat
    BY <1>1
  <2>2. PICK m \in bad : \A i \in bad : m <= i
    BY <2>0, <2>1, LeastExists
  <2>3. m # 0 /\ m \in 1 .. k
    BY <1>3, <2>2
  <2>4. m - 1 \in 0 .. k - 1 /\ m - 1 \notin bad
    BY <1>1, <2>2, <2>3
  <2>5. good(m - 1) /\ (m - 1) + 1 = m
    BY <1>1, <2>3, <2>4
  <2>6. good((m - 1) + 1)
    BY <1>4, <2>4, <2>5
  <2>7. QED
    BY <2>2, <2>5, <2>6
<1>6. \A i \in 0 .. k - 1 : at[i] \in F /\ at[i] # nil
  <2> HIDE DEF passed
  <2>1. \A i \in 0 .. k - 1 : i \in 0 .. k
    BY <1>1
  <2>2. QED
    BY <1>4, <1>5, <2>1
<1>7. F \ passed(k) = {} /\ at[k] = nil
  <2>1. good(k)
    BY <1>1, <1>5
  <2>2. IsFiniteSet(F \ passed(k)) /\ Cardinality(F \ passed(k)) = 0
    BY <1>1, <2>1, FS_Subset DEF good
  <2>3. F \ passed(k) = {}
    BY <2>2, FS_EmptySet
  <2>4. QED
    BY <2>1, <2>3 DEF good, IsFreeList
<1>8. {at[i] : i \in 0 .. k} = F \cup {nil}
  <2>1. 0 .. k = (0 .. k - 1) \cup {k}
    BY <1>1
  <2>2. QED
    BY <1>6, <1>7, <2>1
<1>9. ASSUME NEW i \in 0 .. n, k <= i PROVE at[i] = nil
  <2> DEFINE wrong == {j \in Nat : k <= j /\ j <= n /\ at[j] # nil}
  <2>1. SUFFICES ASSUME wrong # {} PROVE FALSE
    BY <1>9
  <2>2. PICK m \in wrong : \A j \in wrong : m <= j
    BY <2>1, LeastExists
  <2>3. m # k
    BY <1>7, <2>2
  <2>4. m \in Nat /\ m - 1 \in Nat /\ k <= m - 1 /\ m - 1 <= n /\ m \in 1 .. n
    BY <1>1, <2>2, <2>3
  <2>5. m - 1 \notin wrong
    BY <2>2, <2>4
  <2>6. at[m - 1] = nil
    BY <2>4, <2>5
  <2>7. QED
    BY <1>2, <2>2, <2>4, <2>6
<1>10. \A i \in 0 .. n : at[i] = nil <=> k <= i
  <2> SUFFICES ASSUME NEW i \in 0 .. n, ~(k <= i) PROVE at[i] # nil
    BY <1>9
  <2>1. i \in 0 .. k - 1
    BY <1>1
  <2>2. QED
    BY <1>6, <2>1
<1>11. QED
  BY <1>7, <1>8, <1>10 DEF k

\* The walks of the pools.
LEMMA ObjectsCount ==
    /\ IsFiniteSet(H!Object) /\ Cardinality(H!Object) \in Nat
    /\ IsFiniteSet(H!Slab) /\ Cardinality(H!Slab) = MaxSlabs
<1>1. IsFiniteSet(H!Slab) /\ Cardinality(H!Slab) = MaxSlabs
  <2>1. IsFiniteSet(1 .. MaxSlabs) /\ Cardinality(1 .. MaxSlabs) = MaxSlabs
    BY SlabAssumption, FS_Interval
  <2>2. QED
    BY <2>1 DEF H!Slab
<1>2. IsFiniteSet(0 .. 2 * PageSlab - 1)
  BY SlabAssumption, FS_Interval
<1>3. IsFiniteSet(H!Object)
  BY <1>1, <1>2, FS_Product DEF H!Object
<1>4. QED
  BY <1>1, <1>3, FS_CardinalityType

LEMMA HeapWalk ==
    ASSUME NEW p \in PoolId
    PROVE  IsWalk(H!Null, pool[p].flist, next, H!Cardinality(H!Object), H!FreeFrom(p))
<1> DEFINE n == H!Cardinality(H!Object)
<1>1. n \in Nat
  BY ObjectsCount DEF Cardinality, H!Cardinality
<1> HIDE DEF n
<1>2. PICK at : IsWalk(H!Null, pool[p].flist, next, n, at)
  BY <1>1, WalkExists
<1>3. H!FreeFrom(p) = CHOOSE f : IsWalk(H!Null, pool[p].flist, next, n, f)
  BY DEF IsWalk, H!FreeFrom, n
<1>4. IsWalk(H!Null, pool[p].flist, next, n, H!FreeFrom(p))
  BY <1>2, <1>3
<1>5. QED
  BY <1>4 DEF n

LEMMA FixedWalk == IsWalk(O!Null, fixed_free, fixed_next, N, O!FreeFrom)
<1>1. PICK at : IsWalk(O!Null, fixed_free, fixed_next, N, at)
  BY NAssumption, WalkExists
<1>2. O!FreeFrom = CHOOSE f : IsWalk(O!Null, fixed_free, fixed_next, N, f)
  BY DEF IsWalk, O!FreeFrom
<1>3. QED
  BY <1>1, <1>2

LEMMA HeapWalkIsExact == HeapInv => H!FreeListIsExact
<1> SUFFICES ASSUME HeapInv, NEW p \in PoolId
             PROVE  /\ H!FreeFrom(p)[Cardinality(FreeOf(p))] = H!Null
                    /\ {H!FreeFrom(p)[i] : i \in 0 .. Cardinality(FreeOf(p))}
                          = FreeOf(p) \cup {H!Null}
  BY DEF H!FreeListIsExact, FreeOf, H!Cardinality, Cardinality
<1>1. PICK rank \in [H!Object -> Nat] :
         IsFreeList(H!Null, pool[p].flist, next, FreeOf(p), rank)
  BY DEF HeapInv, ListsAreFree
<1>2. H!Null \notin H!Object /\ FreeOf(p) \in SUBSET H!Object
  BY OwnedIs DEF H!Null, H!Object, H!Slab, HeapInv, FreeOf
<1>3. IsFiniteSet(FreeOf(p)) /\ Cardinality(FreeOf(p)) <= Cardinality(H!Object)
  BY <1>2, ObjectsCount, FS_Subset
<1>4. IsWalk(H!Null, pool[p].flist, next, Cardinality(H!Object), H!FreeFrom(p))
  BY HeapWalk DEF Cardinality, H!Cardinality
<1>5. Cardinality(H!Object) \in Nat
  BY ObjectsCount
<1>6. QED
  BY <1>1, <1>2, <1>3, <1>4, <1>5, WalkIsExact

LEMMA FixedWalkIsExact == FixedInv => O!FreeListIsExact
<1> SUFFICES ASSUME FixedInv PROVE O!FreeListIsExact
  OBVIOUS
<1> DEFINE k == Cardinality(FixedFree)
<1>1. PICK rank \in [O!Object -> Nat] :
         IsFreeList(O!Null, fixed_free, fixed_next, FixedFree, rank)
  BY DEF FixedInv
<1>2. O!Null \notin O!Object /\ FixedFree \in SUBSET O!Object /\ O!Used \in SUBSET O!Object
      /\ O!Used = O!Object \ FixedFree
  BY NAssumption DEF O!Null, O!Object, FixedFree, O!Used
<1>3. IsFiniteSet(O!Object) /\ Cardinality(O!Object) = N
  BY NAssumption, FS_Interval DEF O!Object
<1>4. IsFiniteSet(FixedFree) /\ k \in Nat /\ k <= N
  BY <1>2, <1>3, FS_Subset, FS_CardinalityType
<1>5. Cardinality(O!Used) = N - k
  <2>1. O!Object \cap FixedFree = FixedFree
    BY <1>2
  <2>2. Cardinality(O!Object \ FixedFree) = N - Cardinality(O!Object \cap FixedFree)
    BY <1>3, FS_Difference
  <2>3. QED
    BY <1>2, <2>1, <2>2
<1>6. /\ {O!FreeFrom[i] : i \in 0 .. k} = FixedFree \cup {O!Null}
      /\ \A i \in 0 .. N : O!FreeFrom[i] = O!Null <=> k <= i
  BY <1>1, <1>2, <1>4, NAssumption, FixedWalk, WalkIsExact
<1> HIDE DEF k
<1>7. {O!FreeFrom[i] : i \in 0 .. N} = (O!Object \ O!Used) \cup {O!Null}
  <2>1. \A i \in 0 .. N : O!FreeFrom[i] \in {O!FreeFrom[j] : j \in 0 .. k}
    <3>1. O!FreeFrom[k] = O!Null /\ k \in 0 .. k
      BY <1>4, <1>6
    <3>2. \A i \in 0 .. N : i \in 0 .. k \/ O!FreeFrom[i] = O!Null
      BY <1>4, <1>6
    <3>3. QED
      BY <3>1, <3>2
  <2>2. 0 .. k \subseteq 0 .. N
    BY <1>4, NAssumption
  <2>3. {O!FreeFrom[i] : i \in 0 .. N} = {O!FreeFrom[i] : i \in 0 .. k}
    BY <2>1, <2>2
  <2>4. QED
    BY <1>6, <2>3 DEF FixedFree
<1>8. O!size = Cardinality(O!Used)
  <2>1. {i \in 0 .. N - 1 : O!FreeFrom[i] # O!Null} = 0 .. k - 1
    BY <1>4, <1>6, NAssumption
  <2>2. Cardinality(0 .. k - 1) = k
    BY <1>4, FS_Interval
  <2>3. O!size = N - k
    BY <2>1, <2>2 DEF O!size, O!Cardinality, Cardinality
  <2>4. QED
    BY <1>5, <2>3
<1>9. O!Cardinality(O!Used) = Cardinality(O!Used)
  BY DEF O!Cardinality, Cardinality
<1>10. QED
  BY <1>7, <1>8, <1>9 DEF O!FreeListIsExact

-----------------------------------------------------------------------------
(* The counters of the heap_pools, and that every slab has an owner.       *)

CountsOf(p) ==
    /\ pool[p].capacity = Cardinality(H!Owned(p))
    /\ pool[p].size = Cardinality(used[p])

NoSlabLost == \A s \in heap : \E p \in PoolId : s \in SlabsOf(p)

RetOK == pool_ret \in {<<>>} \cup {<<p>> : p \in PoolId} \cup (PoolId \X H!Object)

HeapCounts ==
    /\ \A p \in PoolId : CountsOf(p)
    /\ NoSlabLost
    /\ RetOK

LEMMA Finite ==
    ASSUME HeapInv, NEW p \in PoolId
    PROVE  IsFiniteSet(H!Owned(p)) /\ IsFiniteSet(used[p])
<1>1. H!Owned(p) \in SUBSET H!Object /\ used[p] \in SUBSET H!Object
  BY OwnedIs DEF HeapInv, HeapTypes
<1>2. QED
  BY <1>1, ObjectsCount, FS_Subset

\* A pool keeps its slabs while its size and its objects in use change.
LEMMA SizeSet ==
    ASSUME HeapInv, HeapCounts, NEW p \in PoolId, NEW x, NEW n, NEW u,
           pool' = [[pool EXCEPT ![p].flist = x] EXCEPT ![p].size = n],
           used' = [used EXCEPT ![p] = u], n = Cardinality(u), UNCHANGED heap,
           \A q \in PoolId : H!Owned(q)' = H!Owned(q), RetOK'
    PROVE  HeapCounts'
<1>1. pool \in [PoolId -> PoolType] /\ used \in [PoolId -> SUBSET H!Object]
  BY DEF HeapInv, HeapTypes
<1>2. /\ pool'[p] = [[pool[p] EXCEPT !.flist = x] EXCEPT !.size = n]
      /\ \A q \in PoolId \ {p} : pool'[q] = pool[q] /\ used'[q] = used[q]
      /\ used'[p] = u
  BY <1>1
<1>3. pool'[p].size = n /\ pool'[p].capacity = pool[p].capacity
      /\ pool'[p].slabs = pool[p].slabs
  BY <1>1, <1>2 DEF PoolType
<1>4. \A q \in PoolId : SlabsOf(q)' = SlabsOf(q)
  <2>1. \A q \in PoolId : pool'[q].slabs = pool[q].slabs
    BY <1>2, <1>3
  <2>2. \A q \in PoolId : SlabsOf(q)' = H!ToSet(pool'[q].slabs)
    BY DEF SlabsOf, H!ToSet
  <2>3. QED
    BY <2>1, <2>2 DEF SlabsOf
<1>5. NoSlabLost'
  BY <1>4 DEF NoSlabLost, HeapCounts
<1>6. ASSUME NEW q \in PoolId PROVE CountsOf(q)'
  <2>1. CASE q = p
    <3>1. pool'[p].capacity = Cardinality(H!Owned(p)')
      BY <1>3 DEF CountsOf, HeapCounts
    <3>2. pool'[p].size = Cardinality(used'[p])
      BY <1>2, <1>3
    <3>3. QED
      BY <2>1, <3>1, <3>2 DEF CountsOf
  <2>2. CASE q # p
    <3>1. CountsOf(q) /\ pool'[q] = pool[q] /\ used'[q] = used[q] /\ H!Owned(q)' = H!Owned(q)
      BY <1>2, <2>2 DEF HeapCounts
    <3>2. QED
      BY <3>1 DEF CountsOf
  <2>3. QED
    BY <2>1, <2>2
<1>7. QED
  BY <1>5, <1>6 DEF HeapCounts

LEMMA HandedCounts ==
    ASSUME HeapInv, HeapCounts, NEW p \in PoolId, NEW q \in PoolId,
           NEW e \in {H!NoPool, H!Defaults},
           pool' = [pool EXCEPT ![p] = pool[q], ![q] = e],
           used' = [used EXCEPT ![p] = used[q], ![q] = {}],
           UNCHANGED <<count, next>>, pool_ret' = <<>>,
           p # q => SlabsOf(p) = {} /\ heap' = heap,
           p = q => heap' = heap \ SlabsOf(q)
    PROVE  HeapCounts'
<1>1. /\ H!Owned(q)' = {}
      /\ p # q => H!Owned(p)' = H!Owned(q) /\ SlabsOf(p)' = SlabsOf(q)
      /\ \A r \in PoolId \ {p, q} : H!Owned(r)' = H!Owned(r) /\ SlabsOf(r)' = SlabsOf(r)
  BY HandedOver
<1>2. pool \in [PoolId -> PoolType] /\ used \in [PoolId -> SUBSET H!Object]
  BY DEF HeapInv, HeapTypes
<1>3. /\ pool'[q] = e /\ used'[q] = {}
      /\ p # q => pool'[p] = pool[q] /\ used'[p] = used[q]
      /\ \A r \in PoolId \ {p, q} : pool'[r] = pool[r] /\ used'[r] = used[r]
  BY <1>2
<1>4. e.capacity = 0 /\ e.size = 0 /\ Cardinality({}) = 0
  BY FS_EmptySet DEF H!NoPool, H!Defaults
<1>5. ASSUME NEW r \in PoolId PROVE CountsOf(r)'
  <2>1. CASE r = q
    BY <1>1, <1>3, <1>4, <2>1 DEF CountsOf
  <2>2. CASE r = p /\ p # q
    BY <1>1, <1>3, <2>2 DEF CountsOf, HeapCounts
  <2>3. CASE r \notin {p, q}
    BY <1>1, <1>3, <2>3 DEF CountsOf, HeapCounts
  <2>4. QED
    BY <2>1, <2>2, <2>3
<1>6. NoSlabLost'
  <2> SUFFICES ASSUME NEW s \in heap' PROVE \E r \in PoolId : s \in SlabsOf(r)'
    BY DEF NoSlabLost
  <2>1. s \in heap
    OBVIOUS
  <2>2. PICK r \in PoolId : s \in SlabsOf(r)
    BY <2>1 DEF HeapCounts, NoSlabLost
  <2>3. CASE p = q
    <3>1. r \notin {p, q}
      BY <2>2, <2>3
    <3>2. QED
      BY <1>1, <2>2, <3>1
  <2>4. CASE p # q
    <3>1. r # p
      BY <2>2, <2>4
    <3>2. CASE r = q
      BY <1>1, <2>2, <2>4, <3>2
    <3>3. CASE r # q
      BY <1>1, <2>2, <3>1, <3>3
    <3>4. QED
      BY <3>2, <3>3
  <2>5. QED
    BY <2>3, <2>4
<1>7. RetOK'
  BY DEF RetOK
<1>8. QED
  BY <1>5, <1>6, <1>7 DEF HeapCounts

LEMMA HeapCountsNext ==
    ASSUME HeapInv, HeapCounts, MovesOnto = 0, [H!Next]_slabs
    PROVE  HeapCounts'
<1>1. pool \in [PoolId -> PoolType] /\ used \in [PoolId -> SUBSET H!Object]
  BY DEF HeapInv, HeapTypes
<1>2. ASSUME UNCHANGED <<pool, count, next, heap, used>>, RetOK' PROVE HeapCounts'
  <2>1. \A p \in PoolId : SlabsOf(p)' = SlabsOf(p) /\ H!Owned(p)' = H!Owned(p)
    BY <1>2 DEF SlabsOf, H!ToSet, H!Owned, H!ObjectsOf
  <2>2. QED
    BY <1>2, <2>1 DEF HeapCounts, CountsOf, NoSlabLost
<1>3. CASE UNCHANGED slabs
  <2>1. RetOK'
    BY <1>3 DEF slabs, HeapCounts, RetOK, H!Object, H!Slab
  <2>2. QED
    BY <1>2, <1>3, <2>1 DEF slabs
<1>4. ASSUME NEW p \in PoolId, H!Construct(p) PROVE HeapCounts'
  <2>1. pool[p] = H!NoPool /\ used[p] = {} /\ SlabsOf(p) = {}
    <3>1. pool[p] = H!NoPool
      BY <1>4 DEF H!Construct, H!Exists
    <3>2. SlabsOf(p) = {}
      BY <3>1, NoPoolIs DEF SlabsOf
    <3>3. QED
      BY <3>1, <3>2, OwnedIs DEF HeapInv
  <2>2. /\ pool' = [pool EXCEPT ![p] = pool[p], ![p] = H!Defaults]
        /\ used' = [used EXCEPT ![p] = used[p], ![p] = {}]
        /\ heap' = heap \ SlabsOf(p)
    BY <1>1, <1>4, <2>1 DEF H!Construct
  <2>3. QED
    BY <1>4, <2>2, HandedCounts DEF H!Construct
<1>5. ASSUME NEW p \in PoolId, H!Destruct(p) PROVE HeapCounts'
  <2>1. /\ pool' = [pool EXCEPT ![p] = pool[p], ![p] = H!NoPool]
        /\ used' = [used EXCEPT ![p] = used[p], ![p] = {}]
        /\ heap' = heap \ SlabsOf(p)
    BY <1>1, <1>5 DEF H!Destruct, SlabsOf
  <2>2. QED
    BY <1>5, <2>1, HandedCounts DEF H!Destruct
<1>6. ASSUME NEW p \in PoolId, NEW q \in PoolId, H!MoveConstruct(p, q) \/ H!MoveAssign(p, q)
      PROVE  HeapCounts'
  <2>1. pool[p].slabs = <<>>
    <3>1. CASE H!MoveConstruct(p, q)
      BY <3>1, NoPoolIs DEF H!MoveConstruct, H!Exists
    <3>2. CASE H!MoveAssign(p, q)
      <4>1. Len(pool[p].slabs) <= 0 /\ pool[p].slabs \in Seq(H!Slab)
        BY <1>1, <3>2 DEF H!MoveAssign, PoolType
      <4>2. QED
        BY <4>1
    <3>3. QED
      BY <1>6, <3>1, <3>2
  <2>2. SlabsOf(p) = {}
    BY <2>1, NoPoolIs DEF SlabsOf
  <2>3. H!Move(p, q)
    BY <1>6 DEF H!MoveConstruct, H!MoveAssign
  <2>4. heap' = heap /\ (p = q => heap' = heap \ SlabsOf(q))
    BY <2>2, <2>3 DEF H!Move
  <2>5. QED
    BY <2>2, <2>3, <2>4, HandedCounts DEF H!Move
<1>7. ASSUME NEW p \in PoolId, H!alloc(p) PROVE HeapCounts'
  <2>1. CASE H!TakeFree(p)
    <3> DEFINE f == pool[p].flist
               u == used[p] \cup {f}
    <3>1. /\ \A q \in PoolId : H!Owned(q)' = H!Owned(q)
          /\ f \in H!Owned(p) /\ f \notin used[p]
      BY <1>7, <2>1, TakeFreeInv DEF H!alloc, FreeOf
    <3>2. pool' = [[pool EXCEPT ![p].flist = next[f]] EXCEPT ![p].size = pool[p].size + 1]
      BY <1>1, <2>1 DEF H!TakeFree, PoolType
    <3>3. used' = [used EXCEPT ![p] = u] /\ UNCHANGED heap /\ pool_ret' = <<p, f>>
      BY <2>1 DEF H!TakeFree
    <3>4. pool[p].size + 1 = Cardinality(u)
      <4>1. pool[p].size = Cardinality(used[p]) /\ IsFiniteSet(used[p])
        BY Finite DEF HeapCounts, CountsOf
      <4>2. Cardinality(u) = Cardinality(used[p]) + 1
        BY <3>1, <4>1, FS_AddElement
      <4>3. QED
        BY <4>1, <4>2
    <3>5. RetOK'
      BY <3>1, <3>3, OwnedIs DEF HeapInv, RetOK, H!Object, H!Slab
    <3> HIDE DEF f, u
    <3>6. QED
      BY <3>1, <3>2, <3>3, <3>4, <3>5, SizeSet
  <2>2. CASE H!TakeFromNewSlab(p)
    <3>1. /\ used[p] = H!Owned(p)
          /\ \A q \in PoolId : SlabsOf(q) \subseteq SlabsOf(q)'
          /\ heap' \ heap \subseteq SlabsOf(p)'
      BY <1>7, <2>2, NewSlabInv DEF H!alloc
    <3>2. PICK new \in SUBSET H!Object, o \in H!Object :
                 /\ o \in new
                 /\ \A q \in PoolId : new \cap H!Owned(q) = {}
                 /\ H!Owned(p)' = H!Owned(p) \cup new
                 /\ \A q \in PoolId \ {p} : H!Owned(q)' = H!Owned(q)
                 /\ used' = [used EXCEPT ![p] = @ \cup {o}]
                 /\ pool_ret' = <<p, o>>
                 /\ IsFiniteSet(new)
                 /\ pool'[p].capacity = pool[p].capacity + Cardinality(new)
                 /\ pool'[p].size = pool[p].size + 1
                 /\ \A q \in PoolId \ {p} : pool'[q] = pool[q]
      BY <1>7, <2>2, NewSlabInv DEF H!alloc
    <3>3. Cardinality(H!Owned(p) \cup new) = Cardinality(H!Owned(p)) + Cardinality(new)
      <4>1. IsFiniteSet(H!Owned(p)) /\ H!Owned(p) \cap new = {} /\ Cardinality({}) = 0
        BY <3>2, Finite, FS_EmptySet
      <4>2. Cardinality(H!Owned(p)) \in Nat /\ Cardinality(new) \in Nat
        BY <3>2, <4>1, FS_CardinalityType
      <4>3. Cardinality(H!Owned(p) \cup new) =
               Cardinality(H!Owned(p)) + Cardinality(new) - Cardinality(H!Owned(p) \cap new)
        BY <3>2, <4>1, FS_Union
      <4>4. Cardinality(H!Owned(p) \cap new) = 0
        BY <4>1
      <4>5. QED
        BY <4>2, <4>3, <4>4
    <3>4. Cardinality(used[p] \cup {o}) = Cardinality(used[p]) + 1
      <4>1. o \notin used[p]
        BY <3>1, <3>2
      <4>2. QED
        BY <4>1, Finite, FS_AddElement
    <3>5. CountsOf(p)'
      <4>1. used'[p] = used[p] \cup {o}
        BY <1>1, <3>2
      <4>2. pool'[p].capacity = Cardinality(H!Owned(p)') /\ pool'[p].size = Cardinality(used'[p])
        BY <3>2, <3>3, <3>4, <4>1 DEF HeapCounts, CountsOf
      <4>3. QED
        BY <4>2 DEF CountsOf
    <3>6. \A q \in PoolId \ {p} : CountsOf(q)'
      <4>1. \A q \in PoolId \ {p} : used'[q] = used[q] /\ CountsOf(q)
        BY <1>1, <3>2 DEF HeapCounts
      <4>2. QED
        BY <3>2, <4>1 DEF CountsOf
    <3>7. NoSlabLost'
      BY <3>1 DEF HeapCounts, NoSlabLost
    <3>8. RetOK'
      BY <3>2 DEF RetOK, H!Object, H!Slab
    <3>9. QED
      BY <3>5, <3>6, <3>7, <3>8 DEF HeapCounts
  <2>3. CASE H!NoMemory(p)
    BY <1>2, <2>3 DEF H!NoMemory, RetOK
  <2>4. QED
    BY <1>7, <2>1, <2>2, <2>3 DEF H!alloc
<1>8. ASSUME NEW p \in PoolId, NEW o \in H!Object, H!dealloc(p, o) PROVE HeapCounts'
  <2> DEFINE u == used[p] \ {o}
  <2>1. \A q \in PoolId : H!Owned(q)' = H!Owned(q)
    BY <1>8, HeapDeallocInv
  <2>2. pool' = [[pool EXCEPT ![p].flist = o] EXCEPT ![p].size = pool[p].size - 1]
    BY <1>1, <1>8 DEF H!dealloc, PoolType
  <2>3. used' = [used EXCEPT ![p] = u] /\ UNCHANGED heap /\ pool_ret' = <<>> /\ o \in used[p]
    BY <1>8 DEF H!dealloc
  <2>4. pool[p].size - 1 = Cardinality(u)
    BY <2>3, Finite, FS_RemoveElement DEF HeapCounts, CountsOf
  <2>5. RetOK'
    BY <2>3 DEF RetOK
  <2> HIDE DEF u
  <2>6. QED
    BY <2>1, <2>2, <2>3, <2>4, <2>5, SizeSet
<1>9. ASSUME NEW p \in PoolId, H!dealloc_all(p) PROVE HeapCounts'
  <2> DEFINE x == IF pool[p].slabs = <<>> THEN H!Null ELSE <<H!Last(pool[p].slabs), 0>>
  <2>1. \A q \in PoolId : H!Owned(q)' = H!Owned(q)
    BY <1>9, HeapDeallocAllInv
  <2>2. pool' = [[pool EXCEPT ![p].flist = x] EXCEPT ![p].size = 0]
    BY <1>1, <1>9 DEF H!dealloc_all, PoolType
  <2>3. used' = [used EXCEPT ![p] = {}] /\ UNCHANGED heap /\ pool_ret' = <<>>
    BY <1>9 DEF H!dealloc_all
  <2>4. 0 = Cardinality({}) /\ RetOK'
    BY <2>3, FS_EmptySet DEF RetOK
  <2> HIDE DEF x
  <2>5. QED
    BY <2>1, <2>2, <2>3, <2>4, SizeSet
<1>10. QED
  BY <1>3, <1>4, <1>5, <1>6, <1>7, <1>8, <1>9 DEF H!Next

\* Where a slab is: at most in one place of one pool.
LEMMA OneOwner == HeapInv /\ HeapCounts => H!SlabsHaveOneOwner
<1> SUFFICES ASSUME HeapInv, HeapCounts, NEW s \in H!Slab
             PROVE  Cardinality({at \in PoolId \X H!Slab :
                        LET mine == pool[at[1]].slabs
                        IN  at[2] \in DOMAIN mine /\ mine[at[2]] = s})
                      = IF s \in heap THEN 1 ELSE 0
  BY DEF H!SlabsHaveOneOwner, H!Cardinality, Cardinality
<1> DEFINE places == {at \in PoolId \X H!Slab :
                        LET mine == pool[at[1]].slabs
                        IN  at[2] \in DOMAIN mine /\ mine[at[2]] = s}
<1>1. \A p \in PoolId : /\ pool[p].slabs \in Seq(H!Slab)
                        /\ DOMAIN pool[p].slabs = 1 .. Len(pool[p].slabs)
                        /\ SlabsOf(p) = {pool[p].slabs[i] : i \in 1 .. Len(pool[p].slabs)}
  BY OwnedIs DEF HeapInv, HeapTypes, PoolType
<1>2. \A at \in places : at = <<at[1], at[2]>> /\ at[1] \in PoolId
                         /\ at[2] \in 1 .. Len(pool[at[1]].slabs)
                         /\ pool[at[1]].slabs[at[2]] = s /\ s \in SlabsOf(at[1])
  BY <1>1
<1>3. CASE s \notin heap
  <2>1. places = {}
    BY <1>2, <1>3 DEF HeapInv, SlabsOwned
  <2>2. QED
    BY <1>3, <2>1, FS_EmptySet
<1>4. CASE s \in heap
  <2>1. PICK p \in PoolId : s \in SlabsOf(p)
    BY <1>4 DEF HeapCounts, NoSlabLost
  <2>2. PICK i \in 1 .. Len(pool[p].slabs) : pool[p].slabs[i] = s
    BY <1>1, <2>1
  <2> DEFINE S == pool[p].slabs
             f == [j \in 1 .. Len(S) |-> S[j]]
  <2>3. i \in H!Slab
    <3>1. f \in Injection(1 .. Len(S), H!Slab)
      BY <1>1 DEF Injection, IsInjective, HeapInv, SlabsOwned
    <3>2. IsFiniteSet(1 .. Len(S)) /\ Cardinality(1 .. Len(S)) <= MaxSlabs
      BY <3>1, ObjectsCount, FS_Injection
    <3>3. Len(S) \in Nat /\ Cardinality(1 .. Len(S)) = Len(S)
      <4>1. Len(S) \in Nat
        BY <1>1
      <4>2. Cardinality(1 .. Len(S)) = IF 1 > Len(S) THEN 0 ELSE Len(S) - 1 + 1
        BY <4>1, FS_Interval
      <4>3. QED
        BY <4>1, <4>2
    <3>4. QED
      BY <3>2, <3>3, SlabAssumption DEF H!Slab
  <2>4. <<p, i>> \in places
    BY <1>1, <2>2, <2>3
  <2>5. ASSUME NEW at \in places PROVE at = <<p, i>>
    <3>1. at[1] = p
      BY <1>2, <2>1 DEF HeapInv, SlabsOwned
    <3>2. at[2] = i
      BY <1>2, <2>2, <3>1 DEF HeapInv, SlabsOwned
    <3>3. QED
      BY <1>2, <3>1, <3>2
  <2>6. places = {<<p, i>>}
    BY <2>4, <2>5
  <2> HIDE DEF places
  <2>7. Cardinality(places) = 1
    BY <2>6, FS_Singleton
  <2>8. QED
    BY <1>4, <2>7 DEF places
<1>5. QED
  BY <1>3, <1>4

LEMMA HeapTypesOK == HeapInv /\ HeapCounts => H!TypeOK /\ H!CountersAgree
<1> SUFFICES ASSUME HeapInv, HeapCounts PROVE H!TypeOK /\ H!CountersAgree
  OBVIOUS
<1>1. H!CountersAgree
  BY DEF HeapCounts, CountsOf, H!CountersAgree, H!Cardinality, Cardinality
<1>2. \A p \in PoolId : pool[p].capacity \in Nat /\ pool[p].size \in Nat
  BY Finite, FS_CardinalityType DEF HeapCounts, CountsOf
<1>3. \A p \in PoolId : /\ pool[p].slabs \in Seq(H!Slab)
                        /\ pool[p].flist \in H!Object \cup {H!Null}
                        /\ pool[p].slab_size \in 0 .. 2 * PageSlab
  BY DEF HeapInv, HeapTypes, PoolType
<1>4. /\ count \in [H!Slab -> 0 .. 2 * PageSlab]
      /\ next \in [H!Object -> H!Object \cup {H!Null}]
      /\ heap \subseteq H!Slab /\ used \in [PoolId -> SUBSET H!Object]
  BY DEF HeapInv, HeapTypes
<1>5. QED
  BY <1>1, <1>2, <1>3, <1>4 DEF H!TypeOK, HeapCounts, RetOK

LEMMA HeapCountsInit == H!Init => HeapCounts
<1> SUFFICES ASSUME H!Init PROVE HeapCounts
  OBVIOUS
<1>1. \A p \in PoolId : H!Owned(p) = {} /\ used[p] = {}
  <2>1. HeapInv /\ \A p \in PoolId : SlabsOf(p) = {}
    BY HeapInit, NoPoolIs DEF H!Init, SlabsOf
  <2>2. QED
    BY <2>1, OwnedIs DEF HeapInv, H!Init
<1>2. \A p \in PoolId : pool[p].capacity = 0 /\ pool[p].size = 0
  BY DEF H!Init, H!NoPool
<1>3. Cardinality({}) = 0
  BY FS_EmptySet
<1>4. \A p \in PoolId : CountsOf(p)
  BY <1>1, <1>2, <1>3 DEF CountsOf
<1>5. QED
  BY <1>4 DEF HeapCounts, NoSlabLost, RetOK, H!Init

\* Only the calls of a pool change it.
LEMMA PoolCalls == [AllocNext]_allocVars => [H!Next]_slabs /\ [O!Next]_fixed
BY DEF AllocNext, allocVars, PodbumpCall, GrowbumpCall, RefbumpCall, PoolCall, pools

-----------------------------------------------------------------------------
\* In a podbump no byte is handed out twice, and no allocation leaves the map.
THEOREM NoByteTwice ==
    ASSUME Size <= IntMax
    PROVE  AllocSpec => []AllocationsAreDisjoint
<1>1. AllocInit => PodbumpInv
  BY PodbumpInit DEF AllocInit
<1>2. PodbumpInv /\ [AllocNext]_allocVars => PodbumpInv'
  BY PodbumpNext DEF AllocNext, PodbumpCall, GrowbumpCall, RefbumpCall, PoolCall, allocVars
<1>3. QED
  BY <1>1, <1>2, PodbumpDisjoint, PTL DEF AllocSpec

\* The reference count of a podbump is exact and an unused map is free from
\* its first byte.
THEOREM RefsAreExact ==
    ASSUME Size <= IntMax
    PROVE  AllocSpec => []RefsCountAllocations
<1>1. AllocInit => PodbumpInv
  BY PodbumpInit DEF AllocInit
<1>2. PodbumpInv /\ [AllocNext]_allocVars => PodbumpInv'
  BY PodbumpNext DEF AllocNext, PodbumpCall, GrowbumpCall, RefbumpCall, PoolCall, allocVars
<1>3. PodbumpInv => RefsCountAllocations
  BY SizeAssumption DEF PodbumpInv, TypeOK, RefsCountAllocations, left
<1>4. QED
  BY <1>1, <1>2, <1>3, PTL DEF AllocSpec

\* What a growbump or a refbump hands out lies in a map that is still there,
\* and no byte is handed out twice, however calls that add maps and frees that
\* give maps back follow each other; a refbump keeps no map that is not in
\* use.
THEOREM MapsAreSafe ==
    ASSUME RequestsFit
    PROVE  AllocSpec => []MapsHoldAllocations
<1>1. AllocInit => ArenasInv
  BY ArenasInit DEF AllocInit
<1>2. ArenasInv /\ [AllocNext]_allocVars => ArenasInv'
  BY ArenasNext
<1>3. QED
  BY <1>1, <1>2, ArenasHold, PTL DEF AllocSpec

\* Both pools keep the promise of Pool, whatever the sizes of their slabs and
\* however the calls of the program follow each other: an object nobody has
\* given back is not handed out again, not even to a constructor that itself
\* takes objects from the pool or after one that threw; nothing is got from the
\* heap, or refused, while an object is free; and pools that are moved,
\* emptied or destroyed keep or give up just what they own.  A heap_pool that
\* has slabs is not assigned to, which would lose them.
THEOREM PoolsKeepPromise ==
    ASSUME MovesOnto = 0
    PROVE  AllocSpec => PoolsImplementPool
<1>1. AllocInit => FixedInv /\ HeapInv
  BY FixedInit, HeapInit DEF AllocInit
<1>2. AllocInit => H!Promise!Init /\ O!Promise!Init
  <2> SUFFICES ASSUME AllocInit PROVE H!Promise!Init /\ O!Promise!Init
    OBVIOUS
  <2>1. \A p \in PoolId : H!Owned(p) = {}
    <3>1. \A p \in PoolId : SlabsOf(p) = {}
      BY NoPoolIs DEF AllocInit, H!Init, SlabsOf
    <3>2. QED
      BY <1>1, <3>1, OwnedIs DEF HeapInv
  <2>2. O!Used = {}
    BY DEF AllocInit, O!Init, O!Used
  <2>3. H!Promise!Init
    BY <2>1 DEF AllocInit, H!Init, H!Promise!Init
  <2>4. O!Promise!Init
    <3>1. O!Null # O!Void /\ fixed_ret = O!Void
      BY NAssumption DEF AllocInit, O!Init, O!Null, O!Void
    <3>2. Ret = <<>>
      BY <3>1 DEF Ret
    <3>3. [q \in {"object_pool"} |-> O!Used] = [q \in {"object_pool"} |-> {}]
      BY <2>2
    <3>4. QED
      BY <3>2, <3>3 DEF O!Promise!Init, Ret
  <2>5. QED
    BY <2>3, <2>4
<1>3. FixedInv /\ [AllocNext]_allocVars => FixedInv' /\ [O!Promise!Next]_(O!Promise!vars)
  BY PoolCalls, FixedStep
<1>4. HeapInv /\ [AllocNext]_allocVars => HeapInv' /\ [H!Promise!Next]_(H!Promise!vars)
  BY PoolCalls, HeapStep
<1>5. QED
  BY <1>1, <1>2, <1>3, <1>4, PTL
     DEF AllocSpec, PoolsImplementPool, H!ImplementsPool, O!ImplementsPool,
         H!Promise!Spec, O!Promise!Spec

\* The free list of a pool runs once through every object nobody holds and
\* through no other, for slabs of any size and however they are linked by
\* dealloc() and dealloc_all(), also after constructors have used the pool or
\* thrown; size() and capacity() agree with it; and every slab that is not
\* freed belongs to one pool, where it is once.
THEOREM FreeListsAreExact ==
    ASSUME MovesOnto = 0
    PROVE  AllocSpec => []PoolsAreExact
<1> DEFINE Inv == FixedInv /\ HeapInv /\ HeapCounts
<1>1. AllocInit => Inv
  BY FixedInit, HeapInit, HeapCountsInit DEF AllocInit
<1>2. Inv /\ [AllocNext]_allocVars => Inv'
  <2> SUFFICES ASSUME Inv, [AllocNext]_allocVars PROVE Inv'
    OBVIOUS
  <2>1. [H!Next]_slabs /\ [O!Next]_fixed
    BY PoolCalls
  <2>2. FixedInv'
    BY <2>1, FixedStep
  <2>3. HeapInv'
    BY <2>1, HeapStep
  <2>4. HeapCounts'
    BY <2>1, HeapCountsNext
  <2>5. QED
    BY <2>2, <2>3, <2>4
<1>3. Inv => PoolsAreExact
  BY HeapWalkIsExact, FixedWalkIsExact, OneOwner, HeapTypesOK DEF PoolsAreExact, FixedInv
<1>4. QED
  BY <1>1, <1>2, <1>3, PTL DEF AllocSpec
==============================================================================
