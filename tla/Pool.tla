-------------------------------- MODULE Pool ---------------------------------
(***************************************************************************)
(* What pools of objects promise: alloc() hands out memory that nobody     *)
(* else holds, and asks for more memory, or gives up, only when everything *)
(* the pool owns is handed out; a pool that is moved takes everything with *)
(* it, and only the destruction of a pool gives memory back.               *)
(***************************************************************************)
CONSTANTS PoolId, Object,
          Owned0  \* what a new pool owns

VARIABLES owned,  \* owned[p]: the objects pool p has memory for
          used,   \* those it has handed out
          ret     \* what the last alloc() returned: pool and object, or
                 \* the pool alone if it gave up; nothing after other calls

vars == <<owned, used, ret>>

Init ==
    /\ owned = [p \in PoolId |-> Owned0]
    /\ used = [p \in PoolId |-> {}]
    /\ ret = <<>>

HandOut(p, o) == used' = [used EXCEPT ![p] = @ \cup {o}] /\ ret' = <<p, o>>

Alloc(p, o) ==
    /\ o \in owned[p] \ used[p]
    /\ HandOut(p, o)
    /\ UNCHANGED owned

GrowAndAlloc(p, o) ==
    LET new == owned'[p] \ owned[p] IN
    /\ used[p] = owned[p]
    /\ new \cap UNION {owned[q] : q \in PoolId} = {} /\ o \in new
    /\ owned' = [owned EXCEPT ![p] = @ \cup new]
    /\ HandOut(p, o)

GiveUp(p) ==
    /\ used[p] = owned[p]
    /\ ret' = <<p>>
    /\ UNCHANGED <<owned, used>>

Dealloc(p, o) ==
    /\ o \in used[p]
    /\ used' = [used EXCEPT ![p] = @ \ {o}]
    /\ ret' = <<>>
    /\ UNCHANGED owned

DeallocAll(p) ==
    /\ used' = [used EXCEPT ![p] = {}]
    /\ ret' = <<>>
    /\ UNCHANGED owned

\* p, which owns nothing, takes over what q owns.
Move(p, q) ==
    /\ owned[p] = {}
    /\ owned' = [owned EXCEPT ![p] = owned[q], ![q] = {}]
    /\ used' = [used EXCEPT ![p] = used[q], ![q] = {}]
    /\ ret' = <<>>

Destruct(p) ==
    /\ owned' = [owned EXCEPT ![p] = {}]
    /\ used' = [used EXCEPT ![p] = {}]
    /\ ret' = <<>>

Next ==
    \E p \in PoolId :
        \/ \E o \in Object : Alloc(p, o) \/ GrowAndAlloc(p, o) \/ Dealloc(p, o)
        \/ GiveUp(p) \/ DeallocAll(p) \/ Destruct(p)
        \/ \E q \in PoolId : Move(p, q)

Spec == Init /\ [][Next]_vars
==============================================================================
