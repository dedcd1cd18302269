----------------------------- MODULE ObjectPool ------------------------------
(***************************************************************************)
(* haisu::object_pool<T, N> (src/haisu/object_pool.h): N objects whose     *)
(* free ones are linked into a list through their own memory.              *)
(* heterogeneous_pool<N, Ts...> (src/haisu/heterogeneous_pool.h) is the    *)
(* same algorithm, line by line, over a union of several types.            *)
(*                                                                         *)
(* construct() runs a constructor of the program between taking the object *)
(* and returning it, and that constructor may use the pool, or throw.      *)
(***************************************************************************)
EXTENDS Integers, FiniteSetsExt

CONSTANT N

VARIABLES
    next,   \* pool_[o].next, which means something only in a free object
    free_,  \* the first free object
    state,  \* history: what the program has done with each object
    ret     \* the object the last call returned, Null or Void

vars == <<next, free_, state, ret>>

Object == 0 .. N - 1
Null == -1
Void == -2  \* the last call returned nothing

Used == {o \in Object : state[o] # "free"}

\* Type invariant.  A lost object is one whose constructor has thrown: the
\* program has no pointer to it.
TypeOK ==
    /\ next \in [Object -> Object \cup {Null}]
    /\ free_ \in Object \cup {Null}
    /\ state \in [Object -> {"free", "raw", "building", "built", "lost"}]
    /\ ret \in Object \cup {Null, Void}

\* create_free_list()
Init ==
    /\ next = [o \in Object |-> IF o = N - 1 THEN Null ELSE o + 1]
    /\ free_ = 0
    /\ state = [o \in Object |-> "free"]
    /\ ret = Void

\* Take the first free object, to be used as the caller wants.
Take(use) ==
    /\ free_ # Null
    /\ free_' = next[free_]
    /\ state' = [state EXCEPT ![free_] = use]
    /\ UNCHANGED next

alloc ==
    \/ Take("raw") /\ ret' = free_
    \/ free_ = Null /\ ret' = Null /\ UNCHANGED <<next, free_, state>>

\* Mutant: the list advances only after the constructor has run.
BeginConstruct_late ==
    /\ free_ # Null
    /\ state' = [state EXCEPT ![free_] = "building"]
    /\ ret' = free_
    /\ UNCHANGED <<next, free_>>

\* construct() takes the object before it runs the constructor.
BeginConstruct ==
    \/ Take("building") /\ ret' = free_
    \/ free_ = Null /\ ret' = Null /\ UNCHANGED <<next, free_, state>>

EndConstruct(o) ==
    /\ state[o] = "building"
    /\ state' = [state EXCEPT ![o] = "built"]
    /\ UNCHANGED <<next, free_, ret>>

ConstructorThrows(o) ==
    /\ state[o] = "building"
    /\ state' = [state EXCEPT ![o] = "lost"]
    /\ UNCHANGED <<next, free_, ret>>

\* dealloc(), and destroy(), which calls it after the destructor.
dealloc(o) ==
    /\ state[o] \in {"raw", "built"}
    /\ next' = [next EXCEPT ![o] = free_]
    /\ free_' = o
    /\ state' = [state EXCEPT ![o] = "free"]
    /\ ret' = Void

\* foreach_object(): each object that is not in the free list is put in front
\* of it, in the order of the objects.
FreeUsed ==
    /\ next' = [o \in Object |->
                  IF o \notin Used THEN next[o]
                  ELSE IF o = Min(Used) THEN free_
                  ELSE Max({p \in Used : p < o})]
    /\ free_' = IF Used = {} THEN free_ ELSE Max(Used)
    /\ state' = [o \in Object |-> "free"]
    /\ ret' = Void

\* Nobody is in a constructor.
Quiet == \A o \in Object : state[o] # "building"

dealloc_all == Quiet /\ FreeUsed

\* destroy_all() destroys every object in use, so the program calls it only
\* when each of them has been built.
destroy_all ==
    /\ \A o \in Used : state[o] = "built"
    /\ FreeUsed

Next ==
    \/ alloc
    \/ BeginConstruct
    \/ \E o \in Object : EndConstruct(o) \/ ConstructorThrows(o) \/ dealloc(o)
    \/ dealloc_all
    \/ destroy_all

Spec == Init /\ [][Next]_vars

-----------------------------------------------------------------------------
(* Properties                                                              *)

\* The free list after i steps.
FreeFrom[i \in 0 .. N] ==
    IF i = 0 THEN free_
    ELSE IF FreeFrom[i - 1] = Null THEN Null ELSE next[FreeFrom[i - 1]]

\* size(), which counts the free list.
size == N - Cardinality({i \in 0 .. N - 1 : FreeFrom[i] # Null})

\* The free list runs once through every object nobody holds and through no
\* other, so size() is the number of objects handed out, those lost to a
\* throwing constructor included.
FreeListIsExact ==
    /\ {FreeFrom[i] : i \in 0 .. N} = (Object \ Used) \cup {Null}
    /\ size = Cardinality(Used)

\* The pool as one of the pools of Pool.
Promise == INSTANCE Pool WITH
        PoolId <- {"object_pool"}, Owned0 <- Object,
        owned <- [p \in {"object_pool"} |-> Object],
        used <- [p \in {"object_pool"} |-> Used],
        ret <- CASE ret = Void -> <<>>
                 [] ret = Null -> <<"object_pool">>
                 [] OTHER      -> <<"object_pool", ret>>

\* No object is handed out twice, also to a constructor that itself takes
\* objects from the pool, and the pool gives up only when all are in use.
ImplementsPool == Promise!Spec
==============================================================================
