----------------------------- MODULE Allocators ------------------------------
(***************************************************************************)
(* The bump allocators of src/haisu/memory.h and the pools of              *)
(* src/haisu/object_pool.h.  A program uses one of them: a podbump, a      *)
(* growbump or a refbump; an object_pool, or heap_pools.                   *)
(***************************************************************************)
EXTENDS Podbump, Sequences

CONSTANTS
    Block, Overhead,  \* of growbump and refbump; a growbump has no overhead
    BlockRequests,    \* the sizes asked of them
    MaxArenas,        \* bound: maps at the same time
    MaxLive,          \* bound: live allocations at the same time
    FreesAll,         \* whether the program frees the last allocation of a refbump
    PoolId, MaxSlabs, PageSlab, MovesOnto,  \* of the heap_pools
    N                 \* of the object_pool

ASSUME BlockAssumption == Block \in Nat /\ Overhead \in Nat /\ 0 < Overhead /\ Overhead < Block
ASSUME BlockRequestsAssumption == BlockRequests \subseteq Nat \ {0}
ASSUME MaxArenasAssumption == MaxArenas \in Nat \ {0} /\ MaxLive \in Nat
ASSUME FreesAllAssumption == FreesAll \in BOOLEAN
ASSUME SlabAssumption == MaxSlabs \in Nat /\ PageSlab \in Nat \ {0}
ASSUME MovesAssumption == MovesOnto \in Nat
ASSUME NAssumption == N \in Nat \ {0}

VARIABLES
    program,  \* the allocator the program uses
    list, bumps, request, tries, held,              \* growbump and refbump
    pool, count, next, heap, used, pool_ret,        \* the heap_pools
    fixed_next, fixed_free, fixed_state, fixed_ret  \* the object_pool

arenas == <<list, bumps, request, tries, held>>
slabs == <<pool, count, next, heap, used, pool_ret>>
fixed == <<fixed_next, fixed_free, fixed_state, fixed_ret>>
pools == <<slabs, fixed>>
allocVars == <<program, vars, arenas, pools>>

G == INSTANCE Arenas WITH
        Overhead <- 0, Requests <- BlockRequests, bump <- bumps, live <- held
R == INSTANCE Arenas WITH
        Requests <- BlockRequests, bump <- bumps, live <- held

H == INSTANCE HeapPool WITH ret <- pool_ret
O == INSTANCE ObjectPool WITH
        next <- fixed_next, free_ <- fixed_free,
        state <- fixed_state, ret <- fixed_ret

\* A growbump and a refbump begin with one block.
AllocInit ==
    /\ program \in {"podbump", "growbump", "refbump", "heap_pool", "object_pool"}
    /\ Init /\ G!Init /\ H!Init /\ O!Init

PodbumpCall ==
    program = "podbump" /\ Next /\ UNCHANGED <<program, arenas, pools>>

\* free() of a growbump is there for the interface and leaves the memory as it
\* is.
GrowbumpCall ==
    /\ program = "growbump"
    /\ (\E n \in BlockRequests : G!Begin(n)) \/ G!Alloc \/ UNCHANGED arenas
    /\ UNCHANGED <<program, vars, pools>>

RefbumpCall ==
    program = "refbump" /\ R!Next /\ UNCHANGED <<program, vars, pools>>

PoolCall ==
    /\ \/ program = "heap_pool" /\ H!Next /\ UNCHANGED fixed
       \/ program = "object_pool" /\ O!Next /\ UNCHANGED slabs
    /\ UNCHANGED <<program, vars, arenas>>

\* The attempts of an alloc() that has been called.
Attempt ==
    /\ UNCHANGED <<program, vars, pools>>
    /\ \/ program = "growbump" /\ G!Alloc
       \/ program = "refbump" /\ R!Alloc

AllocNext == PodbumpCall \/ GrowbumpCall \/ RefbumpCall \/ PoolCall

\* alloc() waits for nobody.
AllocSpec == AllocInit /\ [][AllocNext]_allocVars /\ WF_allocVars(Attempt)

-----------------------------------------------------------------------------
(* Properties                                                              *)

\* Every allocation of a growbump or refbump lies in a map that is still
\* there, and no byte is handed out twice.  A map of a refbump is there exactly
\* as long as something in it is in use; only its first block, until it is
\* used, and one added by an alloc() that has not returned are there without
\* references.
MapsHoldAllocations ==
    /\ G!TypeOK /\ G!AllocationsAreDisjoint
    /\ program = "refbump" => R!MapsAreReferenced

\* Every alloc() returns: a block that has just been added serves the request
\* it was added for, so that alloc() does not call itself for ever.
AllocReturns == (request # R!Idle) ~> (request = R!Idle)

\* The free list of a pool runs once through every object nobody holds and
\* through no other, also after dealloc_all() has rebuilt it and constructors
\* have used the pool or thrown; size() and capacity() agree with it.  Every
\* slab that is not freed belongs to one heap_pool, which will free it,
\* wherever pools are moved: none is leaked, none freed twice.
PoolsAreExact ==
    /\ H!TypeOK /\ O!TypeOK
    /\ H!FreeListIsExact /\ O!FreeListIsExact
    /\ H!CountersAgree
    /\ H!SlabsHaveOneOwner

\* Both pools hand out no object twice, also to a constructor that itself takes
\* objects from the pool, and give up only when all are in use and the heap has
\* no more; they keep what they have when they are moved.
PoolsImplementPool == H!ImplementsPool /\ O!ImplementsPool
==============================================================================
