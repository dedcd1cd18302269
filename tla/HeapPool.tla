------------------------------ MODULE HeapPool -------------------------------
(***************************************************************************)
(* haisu::heap_pool<T> (src/haisu/object_pool.h): a pool that gets its     *)
(* memory from the heap in slabs of growing size, which stay with it until *)
(* its destructor, and that can be moved.  Several pools share the heap.   *)
(***************************************************************************)
EXTENDS Integers, Sequences, SequencesExt, FiniteSetsExt

CONSTANTS
    PoolId,
    MaxSlabs,  \* bound: the heap has memory for so many slabs, and then none
    PageSlab,  \* the greatest number of objects in a slab of at most 4096 bytes
    MovesOnto  \* the program assigns to pools with no more slabs than this

VARIABLES
    pool,   \* pool[p]: the members of pool p, or NoPool where there is none
    count,  \* count[s]: the number of objects in slab s
    next,   \* next[o], which means something only in a free object
    heap,   \* the slabs that malloc() has returned and free() has not freed
    used,   \* history: the objects each pool has handed out
    ret     \* the pool and the object the last alloc() returned, the pool alone
            \* if it returned null; nothing after other calls

vars == <<pool, count, next, heap, used, ret>>

Slab == 1 .. MaxSlabs
Object == Slab \X (0 .. 2 * PageSlab - 1)
Null == <<0, 0>>
NoPool == [slabs |-> << >>, flist |-> Null, slab_size |-> 0, capacity |-> 0,
           size |-> 0]

\* set_defaults()
Defaults == [NoPool EXCEPT !.slab_size = 1]

\* Type invariant.  The first and the last slab of a pool, head_ and tail_,
\* are the ends of the sequence `slabs'.
TypeOK ==
    /\ \A p \in PoolId :
        /\ pool[p].slabs \in Seq(Slab)
        /\ pool[p].flist \in Object \cup {Null}
        /\ pool[p].slab_size \in 0 .. 2 * PageSlab
        /\ pool[p].capacity \in Nat /\ pool[p].size \in Nat
    /\ count \in [Slab -> 0 .. 2 * PageSlab]
    /\ next \in [Object -> Object \cup {Null}]
    /\ heap \subseteq Slab
    /\ used \in [PoolId -> SUBSET Object]
    /\ ret \in {<<>>} \cup {<<p>> : p \in PoolId} \cup (PoolId \X Object)

Exists(p) == pool[p] # NoPool

Init ==
    /\ pool = [p \in PoolId |-> NoPool]
    /\ count = [s \in Slab |-> 0]
    /\ next = [o \in Object |-> Null]
    /\ heap = {}
    /\ used = [p \in PoolId |-> {}]
    /\ ret = <<>>

ObjectsOf(s) == {s} \X (0 .. count[s] - 1)
Owned(p) == UNION {ObjectsOf(s) : s \in ToSet(pool[p].slabs)}

Construct(p) ==
    /\ ~Exists(p)
    /\ pool' = [pool EXCEPT ![p] = Defaults]
    /\ ret' = <<>>
    /\ UNCHANGED <<count, next, heap, used>>

\* remove_free_list_head()
TakeFree(p) ==
    /\ pool[p].flist # Null
    /\ pool' = [pool EXCEPT ![p].flist = next[pool[p].flist], ![p].size = @ + 1]
    /\ used' = [used EXCEPT ![p] = @ \cup {pool[p].flist}]
    /\ ret' = <<p, pool[p].flist>>
    /\ UNCHANGED <<count, next, heap>>

\* increase_next_slab_size()
increase_next_slab_size(n) == IF n > PageSlab THEN n ELSE 2 * n

\* create_free_list(): each object of a slab of n leads to the one after it,
\* and the last to `last'.
Linked(s, n, last) ==
    [o \in {s} \X (0 .. n - 1) |->
        IF o[2] = n - 1 THEN last ELSE <<s, o[2] + 1>>]

Override(f, g) == [x \in DOMAIN f |-> IF x \in DOMAIN g THEN g[x] ELSE f[x]]

\* create_new_slab() and the removal of its first object.
TakeFromNewSlab(p) ==
    /\ pool[p].flist = Null
    /\ heap # Slab
    /\ LET n == pool[p].slab_size
           s == Min(Slab \ heap)
       IN
        /\ heap' = heap \cup {s}
        /\ count' = [count EXCEPT ![s] = n]
        /\ next' = Override(next, Linked(s, n, Null))
        /\ pool' = [pool EXCEPT ![p] =
                [slabs |-> Append(@.slabs, s),
                 flist |-> IF n = 1 THEN Null ELSE <<s, 1>>,
                 slab_size |-> increase_next_slab_size(n),
                 capacity |-> @.capacity + n,
                 size |-> @.size + 1]]
        /\ used' = [used EXCEPT ![p] = @ \cup {<<s, 0>>}]
        /\ ret' = <<p, <<s, 0>>>>

\* malloc() returns null.
NoMemory(p) ==
    /\ pool[p].flist = Null
    /\ ret' = <<p>>
    /\ UNCHANGED <<pool, count, next, heap, used>>

\* alloc() and construct()
alloc(p) ==
    /\ Exists(p)
    /\ \/ TakeFree(p)
       \/ TakeFromNewSlab(p)
       \/ NoMemory(p)

\* dealloc() and destroy()
dealloc(p, o) ==
    /\ o \in used[p]
    /\ next' = [next EXCEPT ![o] = pool[p].flist]
    /\ pool' = [pool EXCEPT ![p].flist = o, ![p].size = @ - 1]
    /\ used' = [used EXCEPT ![p] = @ \ {o}]
    /\ ret' = <<>>
    /\ UNCHANGED <<count, heap>>

\* All the objects of the slabs, linked from the last slab to the first and
\* in order within each.
FreeList(slabs) ==
    [o \in UNION {ObjectsOf(s) : s \in ToSet(slabs)} |->
        LET i == CHOOSE i \in DOMAIN slabs : slabs[i] = o[1]
        IN  Linked(o[1], count[o[1]],
                   IF i = 1 THEN Null ELSE <<slabs[i - 1], 0>>)[o]]

dealloc_all(p) ==
    /\ Exists(p)
    /\ next' = Override(next, FreeList(pool[p].slabs))
    /\ pool' = [pool EXCEPT
            ![p].flist = IF pool[p].slabs = << >> THEN Null
                         ELSE <<Last(pool[p].slabs), 0>>,
            ![p].size = 0]
    /\ used' = [used EXCEPT ![p] = {}]
    /\ ret' = <<>>
    /\ UNCHANGED <<count, heap>>

\* Mutant: the source keeps its members.
Move_copies(p, q) ==
    /\ pool' = [pool EXCEPT ![p] = pool[q]]
    /\ used' = [used EXCEPT ![p] = used[q], ![q] = {}]
    /\ ret' = <<>>
    /\ UNCHANGED <<count, next, heap>>

\* copy_state_from() and then other.set_defaults().
Move(p, q) ==
    /\ pool' = [pool EXCEPT ![p] = pool[q], ![q] = Defaults]
    /\ used' = [used EXCEPT ![p] = used[q], ![q] = {}]
    /\ ret' = <<>>
    /\ UNCHANGED <<count, next, heap>>

MoveConstruct(p, q) ==
    /\ ~Exists(p) /\ Exists(q)
    /\ Move(p, q)

\* p = std::move(q), p and q not necessarily different.
MoveAssign(p, q) ==
    /\ Exists(p) /\ Exists(q)
    /\ Len(pool[p].slabs) <= MovesOnto
    /\ Move(p, q)

\* ~heap_pool()
Destruct(p) ==
    /\ Exists(p)
    /\ heap' = heap \ ToSet(pool[p].slabs)
    /\ pool' = [pool EXCEPT ![p] = NoPool]
    /\ used' = [used EXCEPT ![p] = {}]
    /\ ret' = <<>>
    /\ UNCHANGED <<count, next>>

Next ==
    \E p \in PoolId :
        \/ Construct(p)
        \/ alloc(p)
        \/ \E o \in Object : dealloc(p, o)
        \/ dealloc_all(p)
        \/ \E q \in PoolId : MoveConstruct(p, q) \/ MoveAssign(p, q)
        \/ Destruct(p)

Spec == Init /\ [][Next]_vars

-----------------------------------------------------------------------------
(* Properties                                                              *)

\* Where the free list of p is after i objects.
FreeFrom(p) ==
    LET at[i \in 0 .. Cardinality(Object)] ==
            IF i = 0 THEN pool[p].flist
            ELSE IF at[i - 1] = Null THEN Null ELSE next[at[i - 1]]
    IN  at

\* The free list of each pool runs once through the objects of its slabs that
\* it has not handed out, also after dealloc_all() has rebuilt it.
FreeListIsExact ==
    \A p \in PoolId :
        LET free == Owned(p) \ used[p] IN
        /\ FreeFrom(p)[Cardinality(free)] = Null
        /\ {FreeFrom(p)[i] : i \in 0 .. Cardinality(free)} = free \cup {Null}

\* size() and capacity() are counted along, never recomputed.
CountersAgree ==
    \A p \in PoolId :
        /\ pool[p].capacity = Cardinality(Owned(p))
        /\ pool[p].size = Cardinality(used[p])

\* Every slab that is not freed belongs to a pool, which will free it, and to
\* one only: none is leaked and none is freed twice.
SlabsHaveOneOwner ==
    \A s \in Slab :
        Cardinality({at \in PoolId \X Slab :
                        LET slabs == pool[at[1]].slabs
                        IN  at[2] \in DOMAIN slabs /\ slabs[at[2]] = s})
          = IF s \in heap THEN 1 ELSE 0

Promise == INSTANCE Pool WITH
        Owned0 <- {}, owned <- [p \in PoolId |-> Owned(p)]

\* A pool hands out what nobody holds, asks the heap for more only when
\* everything it has is in use, and keeps what it has when it is moved.
ImplementsPool == Promise!Spec
==============================================================================
