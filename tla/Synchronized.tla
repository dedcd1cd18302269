---------------------------- MODULE Synchronized -----------------------------
(***************************************************************************)
(* haisu::synchronized<T> (src/haisu/concurrency.h): an object whose       *)
(* methods are reached through proxies, each of which holds one lock of a  *)
(* recursive mutex.  A proxy is a temporary of the expression object->f()  *)
(* or a variable, and stays in its thread.                                 *)
(*                                                                         *)
(* A method is a load of the value and a store of what was loaded plus     *)
(* one, so that two of them that overlap lose an update.                   *)
(***************************************************************************)
EXTENDS Integers, FiniteSets

CONSTANTS Thread,
          Obj,       \* the synchronized objects, numbered
          Var,       \* the places a thread has for proxies
          InOrder,   \* discipline: a thread enters objects in their order
          MaxCalls,  \* bound: so many calls of a method of each object
          Null,      \* a proxy that has been moved from
          None       \* neither a proxy nor a thread

ASSUME ThreadAssumption == IsFiniteSet(Thread)
ASSUME ObjAssumption == Obj \subseteq Nat /\ IsFiniteSet(Obj)
ASSUME VarAssumption == IsFiniteSet(Var)
ASSUME InOrderAssumption == InOrder \in BOOLEAN
ASSUME MaxCallsAssumption == MaxCalls \in Nat
ASSUME NoneAssumption ==
    /\ None \notin Thread \cup Obj \cup {Null} \cup (Var \X Nat)
    /\ Null \notin Obj

VARIABLES
    mutex,    \* mutex_ of each object: who owns it, and how often
    base,     \* base_ of each proxy, None where there is no proxy
    waiting,  \* the proxy a thread is constructing, and for which object
    loaded,   \* per thread: the method that is running, and what it has read
    value,    \* t_ of each object
    calls     \* history: how many methods of each object have been called

vars == <<mutex, base, waiting, loaded, value, calls>>

Proxies(t, o) == {v \in Var : base[t][v] = o}
Held(t) == {o \in Obj : Proxies(t, o) # {}}

\* Type invariant: nobody owns a mutex that is locked zero times.
TypeOK ==
    /\ mutex \in [Obj -> [owner : Thread \cup {None}, count : 0 .. Cardinality(Var)]]
    /\ \A o \in Obj : mutex[o].owner = None <=> mutex[o].count = 0
    /\ base \in [Thread -> [Var -> Obj \cup {Null, None}]]
    /\ waiting \in [Thread -> {None} \cup (Var \X Obj)]
    /\ loaded \in [Thread -> {None} \cup (Var \X (0 .. MaxCalls))]
    /\ value \in [Obj -> 0 .. MaxCalls]
    /\ calls \in [Obj -> 0 .. MaxCalls]

Init ==
    /\ mutex = [o \in Obj |-> [owner |-> None, count |-> 0]]
    /\ base = [t \in Thread |-> [v \in Var |-> None]]
    /\ waiting = [t \in Thread |-> None]
    /\ loaded = [t \in Thread |-> None]
    /\ value = [o \in Obj |-> 0]
    /\ calls = [o \in Obj |-> 0]

-----------------------------------------------------------------------------
(* std::recursive_mutex                                                    *)

\* Mutants: whoever comes gets the lock; its owner gets it only once.
CanLock_always(t, o) == TRUE

CanLock_once(t, o) == mutex[o].owner = None

CanLock(t, o) == mutex[o].owner \in {t, None}

unlocked(m) ==
    IF m.count = 1 THEN [owner |-> None, count |-> 0]
                   ELSE [m EXCEPT !.count = @ - 1]

-----------------------------------------------------------------------------
(* proxy                                                                   *)

Idle(t) == waiting[t] = None /\ loaded[t] = None

\* The constructor: base_ is set, then the thread waits for the lock.  The
\* thread enters no object that comes before one it is in, if InOrder.
Enter(t, v, o) ==
    /\ Idle(t)
    /\ base[t][v] = None
    /\ InOrder => o \in Held(t) \/ \A h \in Held(t) : h < o
    /\ waiting' = [waiting EXCEPT ![t] = <<v, o>>]
    /\ UNCHANGED <<mutex, base, loaded, value, calls>>

Locked(t, v, o) ==
    /\ waiting[t] = <<v, o>>
    /\ CanLock(t, o)
    /\ mutex' = [mutex EXCEPT ![o] = [owner |-> t, count |-> @.count + 1]]
    /\ base' = [base EXCEPT ![t][v] = o]
    /\ waiting' = [waiting EXCEPT ![t] = None]
    /\ UNCHANGED <<loaded, value, calls>>

\* The lock a proxy holds, if it holds one, is released.
Release(t, v) ==
    IF base[t][v] \in Obj
    THEN mutex' = [mutex EXCEPT ![base[t][v]] = unlocked(@)]
    ELSE UNCHANGED mutex

\* proxy(proxy&&)
MoveConstruct(t, v, w) ==
    /\ Idle(t)
    /\ base[t][v] = None
    /\ base[t][w] # None
    /\ base' = [base EXCEPT ![t][v] = base[t][w], ![t][w] = Null]
    /\ UNCHANGED <<mutex, waiting, loaded, value, calls>>

\* Mutant: the lock the assigned proxy holds is forgotten.
MoveAssign_leaks(t, v, w) ==
    /\ Idle(t)
    /\ base[t][v] # None
    /\ base[t][w] # None
    /\ base' = [base EXCEPT ![t][v] = base[t][w], ![t][w] = Null]
    /\ UNCHANGED <<mutex, waiting, loaded, value, calls>>

\* operator=(proxy&&): base_ is cleared before rhs.base_ is read, so that a
\* proxy assigned to itself has let go of the object.
MoveAssign(t, v, w) ==
    /\ Idle(t)
    /\ base[t][v] # None
    /\ base[t][w] # None
    /\ Release(t, v)
    /\ base' = IF v = w THEN [base EXCEPT ![t][v] = Null]
               ELSE [base EXCEPT ![t][v] = base[t][w], ![t][w] = Null]
    /\ UNCHANGED <<waiting, loaded, value, calls>>

\* ~proxy()
Destroy(t, v) ==
    /\ Idle(t)
    /\ base[t][v] # None
    /\ Release(t, v)
    /\ base' = [base EXCEPT ![t][v] = None]
    /\ UNCHANGED <<waiting, loaded, value, calls>>

\* operator->(), and the method's two steps.  The assertion base_ != nullptr
\* is the guard: the program uses no proxy it has moved from.
Call(t, v) ==
    /\ Idle(t)
    /\ base[t][v] \in Obj
    /\ calls[base[t][v]] < MaxCalls
    /\ loaded' = [loaded EXCEPT ![t] = <<v, value[base[t][v]]>>]
    /\ calls' = [calls EXCEPT ![base[t][v]] = @ + 1]
    /\ UNCHANGED <<mutex, base, waiting, value>>

Return(t) ==
    /\ loaded[t] # None
    /\ value' = [value EXCEPT ![base[t][loaded[t][1]]] = loaded[t][2] + 1]
    /\ loaded' = [loaded EXCEPT ![t] = None]
    /\ UNCHANGED <<mutex, base, waiting, calls>>

ThreadNext(t) ==
    \/ \E v \in Var, o \in Obj : Enter(t, v, o) \/ Locked(t, v, o)
    \/ \E v, w \in Var : MoveConstruct(t, v, w) \/ MoveAssign(t, v, w)
    \/ \E v \in Var : Destroy(t, v) \/ Call(t, v)
    \/ Return(t)

Next == \E t \in Thread : ThreadNext(t)

Spec == Init /\ [][Next]_vars

-----------------------------------------------------------------------------
(* Properties                                                              *)

\* Whatever is copied, moved and destroyed in whatever order, an object's
\* mutex is locked exactly as often as its thread has proxies of it, and no
\* other thread has one.
LocksAreProxies ==
    /\ TypeOK
    /\ \A o \in Obj, t \in Thread :
          Cardinality(Proxies(t, o)) =
              IF mutex[o].owner = t THEN mutex[o].count ELSE 0

\* No call is lost: once nobody is in the object, its value is the number of
\* calls.
NoLostUpdate ==
    \A o \in Obj :
        (\A t \in Thread : loaded[t] = None) => value[o] = calls[o]

\* t cannot have its lock as long as u has it.
WaitsFor(t, u) ==
    /\ waiting[t] # None
    /\ ~CanLock(t, waiting[t][2])
    /\ mutex[waiting[t][2]].owner = u

\* The threads that enter the objects in one order never wait for each other
\* in a circle; a thread that enters an object it is in already never waits.
NoDeadlock ==
    \A S \in (SUBSET Thread) \ {{}} :
        \E t \in S : \A u \in S : ~WaitsFor(t, u)
==============================================================================
