-------------------------- MODULE SynchronizedProofs --------------------------
(***************************************************************************)
(* For all finite sets of threads, objects and places for proxies: the     *)
(* mutex of an object is locked once for every proxy of the thread that    *)
(* owns it, no call of a method is lost, and threads that enter the        *)
(* objects in one order do not wait for each other in a circle.            *)
(***************************************************************************)
EXTENDS Synchronized, FiniteSetTheorems, TLAPS

-----------------------------------------------------------------------------
(* Sets of proxies.                                                        *)

LEMMA ProxiesFinite ==
    ASSUME NEW t, NEW o
    PROVE  /\ IsFiniteSet(Proxies(t, o))
           /\ Cardinality(Proxies(t, o)) \in 0 .. Cardinality(Var)
           /\ Cardinality(Proxies(t, o)) = 0 <=> Proxies(t, o) = {}
<1>1. Proxies(t, o) \in SUBSET Var
  BY DEF Proxies
<1>2. IsFiniteSet(Proxies(t, o)) /\ Cardinality(Proxies(t, o)) <= Cardinality(Var)
  BY <1>1, VarAssumption, FS_Subset
<1>3. Cardinality(Proxies(t, o)) \in Nat /\ Cardinality(Var) \in Nat
  BY <1>2, VarAssumption, FS_CardinalityType
<1>4. QED
  BY <1>2, <1>3, FS_EmptySet

\* A nonempty finite set of natural numbers has a greatest element: the one
\* that the fewest elements of the set exceed.
LEMMA GreatestExists ==
    ASSUME NEW S \in SUBSET Nat, S # {}, IsFiniteSet(S)
    PROVE  \E n \in S : \A m \in S : m <= n
<1> DEFINE Above(n) == {m \in S : m > n}
<1> DEFINE T == {Cardinality(Above(n)) : n \in S}
<1>1. ASSUME NEW n \in S
      PROVE  IsFiniteSet(Above(n)) /\ Cardinality(Above(n)) \in Nat
  BY FS_Subset, FS_CardinalityType
<1>2. T \subseteq Nat /\ T # {}
  BY <1>1
<1>3. PICK c \in T : \A d \in T : ~(<<d, c>> \in OpToRel(<, Nat))
  <2> HIDE DEF T
  <2>1. QED
    BY <1>2, WFMin, NatLessThanWellFounded
<1>4. \A d \in T : ~(d < c)
  BY <1>2, <1>3 DEF OpToRel
<1>5. PICK n \in S : c = Cardinality(Above(n))
  OBVIOUS
<1>6. ASSUME NEW m \in S, m > n PROVE FALSE
  <2>0. \A x \in S : x \in Nat
    OBVIOUS
  <2>1. \A x \in S : x > m => x > n
    BY <1>6, <2>0
  <2>2. Above(m) \subseteq Above(n)
    BY <2>1
  <2>3. m \in Above(n) /\ m \notin Above(m)
    BY <1>6, <2>0
  <2>4. Cardinality(Above(m)) < Cardinality(Above(n))
    BY <1>1, <2>2, <2>3, FS_Subset
  <2>5. QED
    BY <1>4, <1>5, <2>4
<1>7. QED
  BY <1>6

-----------------------------------------------------------------------------
(* The inductive invariant.                                                *)

\* The type of the variables, without what the counts say of each other.
Types ==
    /\ mutex \in [Obj -> [owner : Thread \cup {None}, count : Nat]]
    /\ base \in [Thread -> [Var -> Obj \cup {Null, None}]]
    /\ waiting \in [Thread -> {None} \cup (Var \X Obj)]
    /\ loaded \in [Thread -> {None} \cup (Var \X Nat)]
    /\ value \in [Obj -> Nat]
    /\ calls \in [Obj -> 0 .. MaxCalls]

\* The mutex of o is locked once for every proxy of its owner, and a thread
\* that does not own it has no proxy of o.
LockCounts(o) ==
    /\ mutex[o].owner = None <=> mutex[o].count = 0
    /\ \A t \in Thread :
          Cardinality(Proxies(t, o)) =
              IF mutex[o].owner = t THEN mutex[o].count ELSE 0

\* A thread that waits constructs a proxy where it has none, and has entered
\* nothing since it chose the object.
WaitingFits(t) ==
    waiting[t] # None =>
        /\ base[t][waiting[t][1]] = None
        /\ InOrder => \/ waiting[t][2] \in Held(t)
                      \/ \A h \in Held(t) : h < waiting[t][2]

InMethod(t, o) == loaded[t] # None /\ base[t][loaded[t][1]] = o

\* A thread that runs a method is in an object, and has read its value.
MethodFits(t) ==
    loaded[t] # None =>
        /\ waiting[t] = None
        /\ base[t][loaded[t][1]] \in Obj
        /\ loaded[t][2] = value[base[t][loaded[t][1]]]

\* The calls that have not stored yet are the one that runs, if one does.
CallsCount(o) ==
    calls[o] = IF \E t \in Thread : InMethod(t, o) THEN value[o] + 1 ELSE value[o]

Inv ==
    /\ Types
    /\ \A o \in Obj : LockCounts(o) /\ CallsCount(o)
    /\ \A t \in Thread : WaitingFits(t) /\ MethodFits(t)

\* Nobody but the owner of its mutex has a proxy of an object.
LEMMA ProxyOwns ==
    ASSUME Inv, NEW t \in Thread, NEW v \in Var, base[t][v] \in Obj
    PROVE  mutex[base[t][v]].owner = t /\ mutex[base[t][v]].count > 0
<1> DEFINE o == base[t][v]
<1>1. v \in Proxies(t, o)
  BY DEF Proxies
<1>2. Cardinality(Proxies(t, o)) # 0
  BY <1>1, ProxiesFinite
<1>3. LockCounts(o) /\ mutex[o].count \in Nat
  BY DEF Inv, Types
<1>4. QED
  BY <1>2, <1>3 DEF LockCounts

\* So two threads never run methods of one object at a time.
LEMMA OneMethod ==
    ASSUME Inv, NEW t \in Thread, NEW u \in Thread, NEW o \in Obj,
           InMethod(t, o), InMethod(u, o)
    PROVE  t = u
<1>1. loaded[t][1] \in Var /\ loaded[u][1] \in Var
  BY DEF InMethod, Inv, Types
<1>2. mutex[o].owner = t /\ mutex[o].owner = u
  BY <1>1, ProxyOwns DEF InMethod
<1>3. QED
  BY <1>2

\* The owner of a mutex is in the object.
LEMMA OwnerHolds ==
    ASSUME Inv, NEW t \in Thread, NEW o \in Obj, mutex[o].owner = t
    PROVE  o \in Held(t)
<1>1. mutex[o].count # 0 /\ Cardinality(Proxies(t, o)) = mutex[o].count
  BY NoneAssumption DEF Inv, LockCounts
<1>2. QED
  BY <1>1, ProxiesFinite DEF Held

-----------------------------------------------------------------------------
(* Every step preserves the invariant.                                     *)

LEMMA InitInv == Init => Inv
<1> SUFFICES ASSUME Init PROVE Inv
  OBVIOUS
<1>1. Types
  BY MaxCallsAssumption DEF Init, Types
<1>2. ASSUME NEW o \in Obj PROVE LockCounts(o)
  <2>1. \A t \in Thread : Proxies(t, o) = {}
    BY NoneAssumption DEF Init, Proxies
  <2>2. QED
    BY <2>1, NoneAssumption, FS_EmptySet DEF Init, LockCounts
<1>3. ASSUME NEW o \in Obj PROVE CallsCount(o)
  BY DEF Init, CallsCount, InMethod
<1>4. ASSUME NEW t \in Thread PROVE WaitingFits(t) /\ MethodFits(t)
  BY DEF Init, WaitingFits, MethodFits
<1>5. QED
  BY <1>1, <1>2, <1>3, <1>4 DEF Inv

LEMMA EnterInv ==
    ASSUME Inv, NEW t \in Thread, NEW v \in Var, NEW o \in Obj, Enter(t, v, o)
    PROVE  Inv'
<1> USE DEF Enter
<1>1. Types'
  BY DEF Inv, Types
<1>2. ASSUME NEW p \in Obj PROVE LockCounts(p)' /\ CallsCount(p)'
  BY <1>2 DEF Inv, LockCounts, CallsCount, Proxies, InMethod
<1>3. ASSUME NEW u \in Thread PROVE WaitingFits(u)'
  BY <1>3 DEF Inv, Types, WaitingFits, Held, Proxies
<1>4. ASSUME NEW u \in Thread PROVE MethodFits(u)'
  BY <1>4 DEF Inv, Types, MethodFits, Idle
<1>5. QED
  BY <1>1, <1>2, <1>3, <1>4 DEF Inv

LEMMA LockedInv ==
    ASSUME Inv, NEW t \in Thread, NEW v \in Var, NEW o \in Obj, Locked(t, v, o)
    PROVE  Inv'
<1> USE DEF Locked, CanLock
<1>1. Types'
  <2>1. mutex' \in [Obj -> [owner : Thread \cup {None}, count : Nat]]
    BY DEF Inv, Types
  <2>2. base' \in [Thread -> [Var -> Obj \cup {Null, None}]]
    BY DEF Inv, Types
  <2>3. QED
    BY <2>1, <2>2 DEF Inv, Types
<1>2. base[t][v] = None /\ loaded[t] = None
  <2>1. <<v, o>> \in Var \X Nat
    BY ObjAssumption
  <2>2. waiting[t] # None
    BY <2>1, NoneAssumption
  <2>3. waiting[t][1] = v
    OBVIOUS
  <2>4. WaitingFits(t) /\ MethodFits(t)
    BY DEF Inv
  <2>5. QED
    BY <2>2, <2>3, <2>4 DEF WaitingFits, MethodFits
<1>3. ASSUME NEW u \in Thread, NEW p \in Obj
      PROVE  Proxies(u, p)' = IF u = t /\ p = o THEN Proxies(t, o) \cup {v}
                              ELSE Proxies(u, p)
  BY <1>2, NoneAssumption DEF Proxies, Inv, Types
<1>4. ASSUME NEW p \in Obj PROVE LockCounts(p)'
  <2>1. LockCounts(p) /\ mutex[p].count \in Nat
    BY DEF Inv, Types
  <2>2. CASE p # o
    BY <1>3, <2>1, <2>2 DEF LockCounts, Inv, Types
  <2>3. CASE p = o
    <3>1. mutex'[o] = [owner |-> t, count |-> mutex[o].count + 1]
      BY DEF Inv, Types
    <3>2. v \notin Proxies(t, o)
      BY <1>2, NoneAssumption DEF Proxies
    <3>3. Cardinality(Proxies(t, o)') = Cardinality(Proxies(t, o)) + 1
      BY <1>3, <3>2, ProxiesFinite, FS_AddElement
    <3>4. Cardinality(Proxies(t, o)) = mutex[o].count
      BY <2>1, <2>3, NoneAssumption DEF LockCounts
    <3>5. \A u \in Thread \ {t} : Cardinality(Proxies(u, o)') = 0
      BY <1>3, <2>1, <2>3, NoneAssumption DEF LockCounts
    <3>6. QED
      BY <2>1, <2>3, <3>1, <3>3, <3>4, <3>5, NoneAssumption DEF LockCounts
  <2>4. QED
    BY <2>2, <2>3
<1>5. ASSUME NEW u \in Thread PROVE MethodFits(u)' /\ WaitingFits(u)'
  <2>1. CASE u = t
    BY <1>2, <2>1 DEF Inv, Types, MethodFits, WaitingFits
  <2>2. CASE u # t
    <3>1. base'[u] = base[u] /\ waiting'[u] = waiting[u] /\ loaded'[u] = loaded[u]
      BY <2>2 DEF Inv, Types
    <3>2. Held(u)' = Held(u)
      BY <1>3, <2>2 DEF Held
    <3>3. QED
      BY <3>1, <3>2 DEF Inv, MethodFits, WaitingFits
  <2>3. QED
    BY <2>1, <2>2
<1>6. ASSUME NEW p \in Obj PROVE CallsCount(p)'
  <2>1. \A u \in Thread : InMethod(u, p)' <=> InMethod(u, p)
    BY <1>2 DEF InMethod, Inv, Types
  <2>2. QED
    BY <2>1 DEF Inv, CallsCount
<1>7. QED
  BY <1>1, <1>4, <1>5, <1>6 DEF Inv

\* A thread that is idle lets go of the proxy in v, or moves the one in w
\* there; either way one proxy is gone, that of the object v had entered.
OneLess(t, v) ==
    /\ base' \in [Thread -> [Var -> Obj \cup {Null, None}]]
    /\ \A u \in Thread \ {t} : base'[u] = base[u]
    /\ \A p \in Obj : Cardinality(Proxies(t, p)') =
          IF base[t][v] = p THEN Cardinality(Proxies(t, p)) - 1
                            ELSE Cardinality(Proxies(t, p))
    /\ \A p \in Obj : p \in Held(t)' => p \in Held(t)

LEMMA DropOne ==
    ASSUME Inv, NEW t \in Thread, NEW v \in Var, NEW x \in {Null, None},
           base' = [base EXCEPT ![t][v] = x]
    PROVE  OneLess(t, v)
<1>1. base' \in [Thread -> [Var -> Obj \cup {Null, None}]]
  BY DEF Inv, Types
<1>2. ASSUME NEW p \in Obj PROVE Proxies(t, p)' = Proxies(t, p) \ {v}
  BY NoneAssumption DEF Proxies, Inv, Types
<1>3. ASSUME NEW p \in Obj
      PROVE Cardinality(Proxies(t, p)') =
              IF base[t][v] = p THEN Cardinality(Proxies(t, p)) - 1
                                ELSE Cardinality(Proxies(t, p))
  <2>1. v \in Proxies(t, p) <=> base[t][v] = p
    BY DEF Proxies
  <2>2. QED
    BY <1>2, <2>1, ProxiesFinite, FS_RemoveElement
<1>4. \A p \in Obj : p \in Held(t)' => p \in Held(t)
  BY <1>2 DEF Held
<1>5. QED
  BY <1>1, <1>3, <1>4 DEF OneLess, Inv, Types

LEMMA MoveOne ==
    ASSUME Inv, NEW t \in Thread, NEW v \in Var, NEW w \in Var, v # w,
           base' = [base EXCEPT ![t][v] = base[t][w], ![t][w] = Null]
    PROVE  OneLess(t, v)
<1>1. base' \in [Thread -> [Var -> Obj \cup {Null, None}]]
  BY DEF Inv, Types
<1>2. ASSUME NEW p \in Obj
      PROVE  Proxies(t, p)' = IF base[t][w] = p THEN (Proxies(t, p) \ {w}) \cup {v}
                              ELSE Proxies(t, p) \ {v}
  BY NoneAssumption DEF Proxies, Inv, Types
<1>3. ASSUME NEW p \in Obj
      PROVE Cardinality(Proxies(t, p)') =
              IF base[t][v] = p THEN Cardinality(Proxies(t, p)) - 1
                                ELSE Cardinality(Proxies(t, p))
  <2>1. /\ v \in Proxies(t, p) <=> base[t][v] = p
        /\ w \in Proxies(t, p) <=> base[t][w] = p
    BY DEF Proxies
  <2>2. /\ IsFiniteSet(Proxies(t, p))
        /\ Cardinality(Proxies(t, p)) \in Nat
    BY ProxiesFinite
  <2>3. CASE base[t][w] = p
    <3>1. IsFiniteSet(Proxies(t, p) \ {w})
      BY <2>2, FS_RemoveElement
    <3>2. Cardinality(Proxies(t, p) \ {w}) = Cardinality(Proxies(t, p)) - 1
      BY <2>1, <2>2, <2>3, FS_RemoveElement
    <3>3. v \in Proxies(t, p) \ {w} <=> base[t][v] = p
      BY <2>1
    <3>4. Cardinality((Proxies(t, p) \ {w}) \cup {v}) =
             IF base[t][v] = p THEN Cardinality(Proxies(t, p) \ {w})
             ELSE Cardinality(Proxies(t, p) \ {w}) + 1
      BY <3>1, <3>3, FS_AddElement
    <3>5. CASE base[t][v] = p
      BY <1>2, <2>2, <2>3, <3>2, <3>4, <3>5
    <3>6. CASE base[t][v] # p
      <4>1. Cardinality((Proxies(t, p) \ {w}) \cup {v}) = Cardinality(Proxies(t, p))
        BY <2>2, <3>2, <3>4, <3>6
      <4>2. QED
        BY <1>2, <2>3, <3>6, <4>1
    <3>7. QED
      BY <3>5, <3>6
  <2>4. CASE base[t][w] # p
    BY <1>2, <2>1, <2>2, <2>4, FS_RemoveElement
  <2>5. QED
    BY <2>3, <2>4
<1>4. ASSUME NEW p \in Obj, p \in Held(t)' PROVE p \in Held(t)
  BY <1>2, <1>4 DEF Held, Proxies
<1>5. QED
  BY <1>1, <1>3, <1>4 DEF OneLess, Inv, Types

\* What the mutexes count after such a step, if the lock is released.
LEMMA ReleaseCounts ==
    ASSUME Inv, NEW t \in Thread, NEW v \in Var, Release(t, v), OneLess(t, v)
    PROVE  /\ mutex' \in [Obj -> [owner : Thread \cup {None}, count : Nat]]
           /\ \A p \in Obj : LockCounts(p)'
<1>1. CASE base[t][v] \notin Obj
  <2>1. mutex' = mutex
    BY <1>1 DEF Release
  <2>2. ASSUME NEW u \in Thread, NEW p \in Obj
        PROVE  Cardinality(Proxies(u, p)') = Cardinality(Proxies(u, p))
    <3>1. CASE u = t
      BY <1>1, <3>1 DEF OneLess
    <3>2. CASE u # t
      <4>1. Proxies(u, p)' = Proxies(u, p)
        BY <3>2 DEF OneLess, Proxies
      <4>2. QED
        BY <4>1
    <3>3. QED
      BY <3>1, <3>2
  <2>3. QED
    BY <2>1, <2>2 DEF LockCounts, Inv, Types
<1>2. CASE base[t][v] \in Obj
  <2> DEFINE o == base[t][v]
  <2>1. mutex[o].owner = t /\ mutex[o].count \in Nat /\ mutex[o].count > 0
    BY <1>2, ProxyOwns DEF Inv, Types
  <2>2. mutex' = [mutex EXCEPT ![o] = unlocked(mutex[o])]
    BY <1>2 DEF Release
  <2>3. mutex[o] \in [owner : Thread \cup {None}, count : Nat]
    BY <1>2 DEF Inv, Types
  <2>4. /\ unlocked(mutex[o]) \in [owner : Thread \cup {None}, count : Nat]
        /\ unlocked(mutex[o]).count = mutex[o].count - 1
        /\ unlocked(mutex[o]).owner = IF mutex[o].count = 1 THEN None ELSE t
    BY <2>1, <2>3 DEF unlocked
  <2>5. mutex' \in [Obj -> [owner : Thread \cup {None}, count : Nat]]
    BY <1>2, <2>2, <2>4 DEF Inv, Types
  <2>6. ASSUME NEW p \in Obj PROVE LockCounts(p)'
    <3>1. LockCounts(p)
      BY DEF Inv
    <3>2. \A u \in Thread \ {t} : Proxies(u, p)' = Proxies(u, p)
      BY DEF OneLess, Proxies
    <3>3. CASE p # o
      <4>1. mutex'[p] = mutex[p]
        BY <2>2, <3>3 DEF Inv, Types
      <4>2. Cardinality(Proxies(t, p)') = Cardinality(Proxies(t, p))
        BY <3>3 DEF OneLess
      <4>3. QED
        BY <3>1, <3>2, <4>1, <4>2 DEF LockCounts
    <3>4. CASE p = o
      <4>1. mutex'[p] = unlocked(mutex[p])
        BY <1>2, <2>2, <3>4 DEF Inv, Types
      <4>2. Cardinality(Proxies(t, p)') = mutex[p].count - 1
        BY <2>1, <3>1, <3>4 DEF OneLess, LockCounts
      <4>3. \A u \in Thread \ {t} : Cardinality(Proxies(u, p)') = 0
        BY <2>1, <3>1, <3>2, <3>4 DEF LockCounts
      <4>4. QED
        BY <2>1, <2>4, <3>4, <4>1, <4>2, <4>3, NoneAssumption DEF LockCounts
    <3>5. QED
      BY <3>3, <3>4
  <2>7. QED
    BY <2>5, <2>6
<1>3. QED
  BY <1>1, <1>2

LEMMA LetGoInv ==
    ASSUME Inv, NEW t \in Thread, NEW v \in Var, Idle(t), OneLess(t, v),
           mutex' \in [Obj -> [owner : Thread \cup {None}, count : Nat]],
           \A p \in Obj : LockCounts(p)',
           UNCHANGED <<waiting, loaded, value, calls>>
    PROVE  Inv'
<1>1. Types'
  BY DEF Inv, Types, OneLess
<1>2. ASSUME NEW u \in Thread PROVE WaitingFits(u)' /\ MethodFits(u)'
  <2>1. CASE u = t
    BY <2>1 DEF Idle, WaitingFits, MethodFits
  <2>2. CASE u # t
    <3>1. base'[u] = base[u]
      BY <2>2 DEF OneLess
    <3>2. Held(u)' = Held(u)
      BY <3>1 DEF Held, Proxies
    <3>3. QED
      BY <3>1, <3>2 DEF Inv, WaitingFits, MethodFits
  <2>3. QED
    BY <2>1, <2>2
<1>3. ASSUME NEW p \in Obj PROVE CallsCount(p)'
  <2>1. \A u \in Thread : InMethod(u, p)' <=> InMethod(u, p)
    BY DEF InMethod, OneLess, Idle
  <2>2. QED
    BY <2>1 DEF Inv, CallsCount
<1>4. QED
  BY <1>1, <1>2, <1>3 DEF Inv

LEMMA MoveConstructInv ==
    ASSUME Inv, NEW t \in Thread, NEW v \in Var, NEW w \in Var,
           MoveConstruct(t, v, w)
    PROVE  Inv'
<1>1. v # w /\ Release(t, v)
  BY NoneAssumption DEF MoveConstruct, Release
<1>2. OneLess(t, v)
  BY <1>1, MoveOne DEF MoveConstruct
<1>3. QED
  BY <1>1, <1>2, ReleaseCounts, LetGoInv DEF MoveConstruct

LEMMA MoveAssignInv ==
    ASSUME Inv, NEW t \in Thread, NEW v \in Var, NEW w \in Var,
           MoveAssign(t, v, w)
    PROVE  Inv'
<1>1. OneLess(t, v)
  BY MoveOne, DropOne DEF MoveAssign
<1>2. QED
  BY <1>1, ReleaseCounts, LetGoInv DEF MoveAssign

LEMMA DestroyInv ==
    ASSUME Inv, NEW t \in Thread, NEW v \in Var, Destroy(t, v)
    PROVE  Inv'
<1>1. OneLess(t, v)
  BY DropOne DEF Destroy
<1>2. QED
  BY <1>1, ReleaseCounts, LetGoInv DEF Destroy

LEMMA CallInv ==
    ASSUME Inv, NEW t \in Thread, NEW v \in Var, Call(t, v)
    PROVE  Inv'
<1> DEFINE o == base[t][v]
<1> USE DEF Call
<1>1. Types'
  <2>1. calls[o] + 1 \in 0 .. MaxCalls /\ <<v, value[o]>> \in Var \X Nat
    BY MaxCallsAssumption DEF Inv, Types
  <2>2. QED
    BY <2>1 DEF Inv, Types
<1>2. \A p \in Obj : LockCounts(p)'
  BY DEF Inv, LockCounts, Proxies
<1>3. loaded'[t] = <<v, value[o]>> /\ <<v, value[o]>> # None
  BY NoneAssumption DEF Inv, Types
<1>4. ASSUME NEW u \in Thread PROVE WaitingFits(u)' /\ MethodFits(u)'
  <2>1. WaitingFits(u)'
    BY DEF Inv, WaitingFits, Held, Proxies
  <2>2. MethodFits(u)'
    BY <1>3 DEF Inv, Types, MethodFits, Idle
  <2>3. QED
    BY <2>1, <2>2
<1>5. ASSUME NEW p \in Obj PROVE CallsCount(p)'
  <2>1. ASSUME NEW u \in Thread
        PROVE  InMethod(u, p)' <=> InMethod(u, p) \/ (u = t /\ p = o)
    BY <1>3, NoneAssumption DEF InMethod, Inv, Types, Idle
  <2>2. CASE p # o
    BY <2>1, <2>2 DEF Inv, Types, CallsCount
  <2>3. CASE p = o
    <3>1. ~ \E u \in Thread : InMethod(u, p)
      <4> SUFFICES ASSUME NEW u \in Thread, InMethod(u, p) PROVE FALSE
        OBVIOUS
      <4>1. loaded[u][1] \in Var /\ u # t
        BY DEF InMethod, Inv, Types, Idle
      <4>2. QED
        BY <2>3, <4>1, ProxyOwns DEF InMethod
    <3>2. InMethod(t, p)'
      BY <2>1, <2>3
    <3>3. calls'[p] = calls[p] + 1
      BY <2>3 DEF Inv, Types
    <3>4. QED
      BY <3>1, <3>2, <3>3 DEF Inv, CallsCount
  <2>4. QED
    BY <2>2, <2>3
<1>6. QED
  BY <1>1, <1>2, <1>4, <1>5 DEF Inv

LEMMA ReturnInv ==
    ASSUME Inv, NEW t \in Thread, Return(t)
    PROVE  Inv'
<1> DEFINE o == base[t][loaded[t][1]]
<1> USE DEF Return
<1>1. loaded[t] \in Var \X Nat /\ o \in Obj /\ loaded[t][2] = value[o] /\ InMethod(t, o)
  BY DEF Inv, Types, MethodFits, InMethod
<1>2. Types'
  BY <1>1 DEF Inv, Types
<1>3. \A p \in Obj : LockCounts(p)'
  BY DEF Inv, LockCounts, Proxies
<1>4. \A u \in Thread : InMethod(u, o) => u = t
  BY <1>1, OneMethod
<1>5. ASSUME NEW u \in Thread PROVE WaitingFits(u)' /\ MethodFits(u)'
  <2>1. WaitingFits(u)'
    BY DEF Inv, WaitingFits, Held, Proxies
  <2>2. MethodFits(u)'
    <3>1. CASE u = t
      BY <3>1 DEF Inv, Types, MethodFits
    <3>2. CASE u # t
      <4>1. loaded'[u] = loaded[u]
        BY <3>2 DEF Inv, Types
      <4>2. base[u][loaded[u][1]] # o \/ loaded[u] = None
        BY <1>4, <3>2 DEF InMethod
      <4>3. QED
        BY <1>1, <4>1, <4>2 DEF Inv, Types, MethodFits
    <3>3. QED
      BY <3>1, <3>2
  <2>3. QED
    BY <2>1, <2>2
<1>6. ASSUME NEW p \in Obj PROVE CallsCount(p)'
  <2>1. ASSUME NEW u \in Thread
        PROVE  InMethod(u, p)' <=> InMethod(u, p) /\ u # t
    BY DEF InMethod, Inv, Types
  <2>2. CASE p # o
    <3>1. ~InMethod(t, p)
      BY <2>2 DEF InMethod
    <3>2. QED
      BY <1>1, <2>1, <2>2, <3>1 DEF Inv, Types, CallsCount
  <2>3. CASE p = o
    <3>1. calls[p] = value[p] + 1
      BY <1>1, <2>3 DEF Inv, CallsCount
    <3>2. value'[p] = value[p] + 1
      BY <1>1, <2>3 DEF Inv, Types
    <3>3. ~ \E u \in Thread : InMethod(u, p)'
      BY <1>4, <2>1, <2>3
    <3>4. QED
      BY <3>1, <3>2, <3>3 DEF CallsCount
  <2>4. QED
    BY <2>2, <2>3
<1>7. QED
  BY <1>2, <1>3, <1>5, <1>6 DEF Inv

LEMMA NextInv == Inv /\ [Next]_vars => Inv'
<1> SUFFICES ASSUME Inv, [Next]_vars PROVE Inv'
  OBVIOUS
<1>1. ASSUME NEW t \in Thread, ThreadNext(t) PROVE Inv'
  BY <1>1, EnterInv, LockedInv, MoveConstructInv, MoveAssignInv, DestroyInv,
     CallInv, ReturnInv DEF ThreadNext
<1>2. CASE UNCHANGED vars
  BY <1>2 DEF vars, Inv, Types, LockCounts, CallsCount, WaitingFits, MethodFits,
              InMethod, Held, Proxies
<1>3. QED
  BY <1>1, <1>2 DEF Next

LEMMA Invariance == Spec => []Inv
BY InitInv, NextInv, PTL DEF Spec

-----------------------------------------------------------------------------
(* What the invariant says.                                                *)

\* Whatever is constructed, moved, assigned (to itself, too) and destroyed in
\* whatever order, the mutex of an object is locked exactly as often as its
\* thread has proxies of it, and no other thread has one.
THEOREM MutexCountsProxies == Spec => []LocksAreProxies
<1>1. Inv => LocksAreProxies
  <2> SUFFICES ASSUME Inv PROVE LocksAreProxies
    OBVIOUS
  <2>1. ASSUME NEW o \in Obj PROVE mutex[o].count \in 0 .. Cardinality(Var)
    <3>1. CASE mutex[o].owner = None
      BY <3>1, VarAssumption, FS_CardinalityType DEF Inv, LockCounts
    <3>2. CASE mutex[o].owner # None
      BY <3>2, ProxiesFinite DEF Inv, Types, LockCounts
    <3>3. QED
      BY <3>1, <3>2
  <2>2. ASSUME NEW o \in Obj PROVE value[o] \in 0 .. MaxCalls
    BY MaxCallsAssumption DEF Inv, Types, CallsCount
  <2>3. ASSUME NEW t \in Thread
        PROVE  loaded[t] \in {None} \cup (Var \X (0 .. MaxCalls))
    BY <2>2 DEF Inv, Types, MethodFits
  <2>4. TypeOK
    <3>1. mutex \in [Obj -> [owner : Thread \cup {None}, count : 0 .. Cardinality(Var)]]
      BY <2>1 DEF Inv, Types
    <3>2. \A o \in Obj : mutex[o].owner = None <=> mutex[o].count = 0
      BY DEF Inv, LockCounts
    <3>3. QED
      BY <2>2, <2>3, <3>1, <3>2 DEF TypeOK, Inv, Types
  <2>5. QED
    BY <2>4 DEF LocksAreProxies, Inv, LockCounts
<1>2. QED
  BY <1>1, Invariance, PTL

\* The methods of an object, each a load and a store, never overlap: when
\* none is running, the object has been changed by every call.
THEOREM NoCallIsLost == Spec => []NoLostUpdate
<1>1. Inv => NoLostUpdate
  BY DEF Inv, NoLostUpdate, CallsCount, InMethod
<1>2. QED
  BY <1>1, Invariance, PTL

\* Among threads that wait, one waits for the greatest object; whoever owns
\* it is in it, so that it can only wait for a greater one, or not at all.
LEMMA InvNoDeadlock ==
    ASSUME InOrder, Inv
    PROVE  NoDeadlock
<1> SUFFICES ASSUME NEW S \in (SUBSET Thread) \ {{}}
             PROVE  \E t \in S : \A u \in S : ~WaitsFor(t, u)
  BY DEF NoDeadlock
<1> SUFFICES ASSUME \A t \in S : \E u \in S : WaitsFor(t, u)
             PROVE  FALSE
  OBVIOUS
<1> DEFINE Wanted == {o \in Obj : \E t \in S : waiting[t][2] = o}
<1>1. \A t \in S : waiting[t] \in Var \X Obj /\ waiting[t][2] \in Wanted
  BY DEF WaitsFor, Inv, Types
<1>2. Wanted \in SUBSET Nat /\ Wanted # {} /\ IsFiniteSet(Wanted)
  <2>1. Wanted \in SUBSET Obj
    OBVIOUS
  <2>2. IsFiniteSet(Wanted)
    BY <2>1, ObjAssumption, FS_Subset
  <2>3. Wanted # {}
    <3>1. PICK t : t \in S
      OBVIOUS
    <3>2. waiting[t][2] \in Wanted
      BY <1>1, <3>1
    <3>3. QED
      BY <3>2
  <2>4. QED
    BY <2>1, <2>2, <2>3, ObjAssumption
<1>3. PICK g \in Wanted : \A o \in Wanted : o <= g
  BY <1>2, GreatestExists
<1>4. PICK t \in S : waiting[t][2] = g
  OBVIOUS
<1>5. PICK u \in S : WaitsFor(t, u)
  OBVIOUS
<1>6. g \in Obj /\ g \in Held(u)
  BY <1>4, <1>5, OwnerHolds DEF WaitsFor
<1>7. PICK w \in S : WaitsFor(u, w)
  OBVIOUS
<1> DEFINE o == waiting[u][2]
<1>8. o \in Obj /\ o <= g
  BY <1>1, <1>3
<1>9. o \in Held(u)
  <2>1. o \in Held(u) \/ \A h \in Held(u) : h < o
    BY <1>7 DEF Inv, WaitingFits, WaitsFor
  <2>2. g \in Nat /\ o \in Nat
    BY <1>6, <1>8, ObjAssumption
  <2>3. ~(g < o)
    BY <1>8, <2>2
  <2>4. QED
    BY <1>6, <2>1, <2>3
<1>10. mutex[o].owner = u
  BY <1>8, <1>9, ProxyOwns DEF Held, Proxies
<1>11. QED
  BY <1>7, <1>10 DEF WaitsFor, CanLock

\* Threads that enter the objects in their order never wait for each other in
\* a circle, however many locks of however many objects each of them holds,
\* because a thread that enters an object it is in already never waits.
THEOREM OrderPreventsDeadlock ==
    ASSUME InOrder
    PROVE  Spec => []NoDeadlock
<1>1. Inv => NoDeadlock
  BY InvNoDeadlock
<1>2. QED
  BY <1>1, Invariance, PTL
==============================================================================
