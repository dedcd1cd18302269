-------------------------- MODULE LinearHashProofs ---------------------------
(***************************************************************************)
(* For every table size, every hash function and any number of threads:    *)
(* as long as no two threads use the same key and nobody calls erase(),    *)
(* the races of find() for free slots never duplicate, hide or lose an     *)
(* entry, and with no more keys than slots find() never runs into the      *)
(* assert(false) at its end.                                               *)
(***************************************************************************)
EXTENDS LinearHash, FiniteSetTheorems, TLAPS

\* The discipline the theorems assume of the callers; tls keeps it as long as
\* nobody calls release().
OwnKeysNoErase ==
    /\ \A t, u \in Thread : t # u => UsedBy[t] \cap UsedBy[u] = {}
    /\ Erasers = {}

-----------------------------------------------------------------------------
(* The probe sequence of a key visits every slot once.                     *)

\* The slot k places after slot 0, for a k that goes round at most once.
Wrap(k) == IF k < N THEN k ELSE k - N

LEMMA SlotOfWraps ==
    ASSUME NEW k \in Key, NEW d \in 0 .. N - 1
    PROVE  /\ Home(k) \in Slots
           /\ SlotOf(k, d) = Wrap(Home(k) + d)
           /\ SlotOf(k, d) \in Slots
<1>1. Home(k) \in 0 .. N - 1
  BY SlotsAssumption, HashAssumption, Z3 DEF Home
<1>2. ASSUME NEW j \in 0 .. 2 * N - 1
      PROVE  j % N = IF j < N THEN j ELSE j - N
  BY SlotsAssumption, Z3
<1>3. Home(k) + d \in 0 .. 2 * N - 1
  BY <1>1, SlotsAssumption
<1>4. QED
  BY <1>1, <1>2, <1>3, SlotsAssumption DEF SlotOf, Wrap, Slots

LEMMA SlotOfInjective ==
    ASSUME NEW k \in Key, NEW d \in 0 .. N - 1, NEW e \in 0 .. N - 1,
           SlotOf(k, d) = SlotOf(k, e)
    PROVE  d = e
BY SlotOfWraps, SlotsAssumption DEF Wrap, Slots

LEMMA SlotOfSurjective ==
    ASSUME NEW k \in Key, NEW s \in Slots
    PROVE  \E d \in 0 .. N - 1 : SlotOf(k, d) = s
<1> DEFINE d == IF s >= Home(k) THEN s - Home(k) ELSE s + N - Home(k)
<1>0. Home(k) \in Slots
  BY SlotOfWraps, SlotsAssumption
<1>1. d \in 0 .. N - 1
  BY <1>0, SlotsAssumption DEF Slots
<1>2. SlotOf(k, d) = Wrap(Home(k) + d)
  BY <1>1, SlotOfWraps
<1>3. Wrap(Home(k) + d) = s
  BY <1>0, SlotsAssumption DEF Slots, Wrap
<1>4. QED
  BY <1>1, <1>2, <1>3

-----------------------------------------------------------------------------
(* The inductive invariant.                                                *)

\* The first n slots of thread t's probe sequence belong to other keys.
Passed(t, n) ==
    \A e \in 0 .. n - 1 : key[SlotOf(arg[t], e)] \notin {Nil, arg[t]}

\* What a thread knows at each point of find().
ThreadOK(t) ==
    /\ arg[t] \in UsedBy[t]
    /\ op[t] = "index"
    /\ pc[t] \notin {"uncount_load", "uncount_store"}
    /\ pc[t] = "load" => probe[t] < N /\ Passed(t, probe[t])
    /\ pc[t] = "cas" => /\ probe[t] > 0
                        /\ slot[t] = SlotOf(arg[t], probe[t] - 1)
                        /\ Passed(t, probe[t] - 1)
                        /\ key[slot[t]] # arg[t]
    /\ pc[t] \in {"count_load", "count_store", "found"} =>
          key[slot[t]] = arg[t]
    /\ pc[t] = "full" => Passed(t, N)

\* The entries agree with the history.
EntriesOK ==
    /\ \A s \in Slots : key[s] = Nil => value[s] = NoValue
    /\ \A s \in Slots : key[s] # Nil => value[s] = last[key[s]]
    /\ \A k \in Key : (\A s \in Slots : key[s] # k) => last[k] = NoValue

Inv ==
    /\ TypeOK
    /\ NoDuplicateKey
    /\ ProbeChain
    /\ EntriesOK
    /\ \A t \in Thread : ThreadOK(t)

LEMMA InitInv == Init => Inv
<1> SUFFICES ASSUME Init PROVE Inv
  OBVIOUS
<1> USE SlotsAssumption, KeysAssumption, ValueAssumption, SizeAssumption
        DEF Init
<1>1. TypeOK
  BY DEF TypeOK, Slots
<1>2. \A k \in Key, d \in 0 .. N - 1 : key[SlotOf(k, d)] = Nil
  BY SlotOfWraps
<1>3. NoDuplicateKey /\ ProbeChain /\ EntriesOK
  BY <1>2 DEF NoDuplicateKey, ProbeChain, EntriesOK
<1>4. \A t \in Thread : ThreadOK(t)
  BY DEF ThreadOK
<1>5. QED
  BY <1>1, <1>3, <1>4 DEF Inv

-----------------------------------------------------------------------------
(* Steps that leave the entries alone.                                     *)

\* A step in which only thread t moves and no entry changes preserves the
\* invariant if it leaves t with what ThreadOK says of its new place.
LEMMA LocalStep ==
    ASSUME Inv, NEW t \in Thread,
           UNCHANGED <<key, value, last>>,
           TypeOK',
           \A u \in Thread \ {t} :
               /\ pc'[u] = pc[u] /\ op'[u] = op[u] /\ arg'[u] = arg[u]
               /\ probe'[u] = probe[u] /\ slot'[u] = slot[u],
           ThreadOK(t)'
    PROVE  Inv'
<1>1. NoDuplicateKey' /\ ProbeChain' /\ EntriesOK'
  BY DEF Inv, NoDuplicateKey, ProbeChain, EntriesOK
<1>2. ASSUME NEW u \in Thread, u # t PROVE ThreadOK(u)'
  <2>1. /\ pc'[u] = pc[u] /\ op'[u] = op[u] /\ arg'[u] = arg[u]
        /\ probe'[u] = probe[u] /\ slot'[u] = slot[u] /\ key' = key
    BY <1>2
  <2>2. ThreadOK(u)
    BY DEF Inv
  <2>3. \A n \in Int : Passed(u, n) => Passed(u, n)'
    BY <2>1 DEF Passed
  <2>4. probe[u] \in Int /\ N \in Int
    BY SlotsAssumption DEF Inv, TypeOK
  <2>5. QED
    BY <2>1, <2>2, <2>3, <2>4 DEF ThreadOK
<1>3. QED
  BY <1>1, <1>2 DEF Inv

LEMMA CallInv ==
    ASSUME OwnKeysNoErase, Inv, NEW t \in Thread, NEW k \in Key,
           NEW o \in {"index", "erase"}, Call(t, o, k)
    PROVE  Inv'
<1> USE KeysAssumption, SlotsAssumption DEF Call, Goto, table
<1>1. o = "index" /\ k \in UsedBy[t]
  BY DEF OwnKeysNoErase
<1>2. TypeOK'
  BY <1>1 DEF Inv, TypeOK
<1>3. ThreadOK(t)'
  BY <1>1 DEF Inv, TypeOK, ThreadOK, Passed
<1>4. QED
  BY <1>2, <1>3, LocalStep DEF Inv, TypeOK

LEMMA LoadInv ==
    ASSUME Inv, NEW t \in Thread,
           LoadFindsKey(t) \/ LoadFindsOther(t) \/ LoadFindsNil(t)
    PROVE  Inv'
<1> USE SlotsAssumption DEF Goto, table, NextSlotOrFull, Load, Next_p
<1>1. /\ pc[t] = "load" /\ Load(t)
      /\ pc' \in [Thread -> {"idle", "load", "cas", "count_load",
            "count_store", "found", "uncount_load", "uncount_store", "full"}]
      /\ \A u \in Thread \ {t} : pc'[u] = pc[u]
  BY DEF LoadFindsKey, LoadFindsOther, LoadFindsNil, Inv, TypeOK
<1>2. /\ arg[t] \in Key /\ probe[t] \in 0 .. N - 1
      /\ Passed(t, probe[t]) /\ op[t] = "index" /\ arg[t] \in UsedBy[t]
  BY <1>1 DEF Inv, TypeOK, ThreadOK
<1>3. /\ Next_p(t) = SlotOf(arg[t], probe[t])
      /\ SlotOf(arg[t], probe[t]) \in Slots
  BY <1>2, SlotOfWraps
<1>4. TypeOK'
  BY <1>1, <1>2, <1>3 DEF Inv, TypeOK
<1>5. /\ slot'[t] = SlotOf(arg[t], probe[t]) /\ probe'[t] = probe[t] + 1
      /\ arg' = arg /\ op' = op /\ key' = key
  BY <1>1 DEF Inv, TypeOK
<1>6. CASE LoadFindsKey(t)
  <2>1. pc'[t] = "found" /\ key'[slot'[t]] = arg'[t]
    BY <1>5, <1>6 DEF LoadFindsKey, Inv, TypeOK
  <2>2. ThreadOK(t)'
    BY <1>2, <1>5, <2>1 DEF ThreadOK
  <2>3. QED
    BY <1>1, <1>4, <2>2, LocalStep DEF Inv, TypeOK
<1>7. CASE LoadFindsOther(t)
  <2>1. /\ key[SlotOf(arg[t], probe[t])] \notin {Nil, arg[t]}
        /\ pc'[t] = IF probe[t] + 1 = N THEN "full" ELSE "load"
    BY <1>7 DEF LoadFindsOther, Inv, TypeOK
  <2>2. \A e \in 0 .. probe[t] : key[SlotOf(arg[t], e)] \notin {Nil, arg[t]}
    BY <1>2, <2>1 DEF Passed
  <2>3. Passed(t, probe[t])'
    BY <1>2, <1>5, <2>2 DEF Passed
  <2>4. ThreadOK(t)'
    BY <1>2, <1>5, <2>1, <2>3 DEF ThreadOK, Passed
  <2>5. QED
    BY <1>1, <1>4, <2>4, LocalStep DEF Inv, TypeOK
<1>8. CASE LoadFindsNil(t)
  <2>1. key[SlotOf(arg[t], probe[t])] # arg[t] /\ pc'[t] = "cas"
    BY <1>8 DEF LoadFindsNil, Inv, TypeOK
  <2>2. ThreadOK(t)'
    BY <1>2, <1>5, <2>1 DEF ThreadOK, Passed
  <2>3. QED
    BY <1>1, <1>4, <2>2, LocalStep DEF Inv, TypeOK
<1>9. QED
  BY <1>6, <1>7, <1>8

LEMMA CasFailsInv ==
    ASSUME Inv, NEW t \in Thread, CasFails(t)
    PROVE  Inv'
<1> USE SlotsAssumption DEF Goto, table, NextSlotOrFull, CasFails
<1>1. TypeOK'
  BY DEF Inv, TypeOK
<1>2. /\ pc[t] = "cas" /\ key[slot[t]] # Nil
      /\ pc'[t] = IF probe[t] = N THEN "full" ELSE "load"
      /\ UNCHANGED <<arg, op, key, probe, slot>>
  BY DEF Inv, TypeOK
<1>3. /\ arg[t] \in UsedBy[t] /\ op[t] = "index"
      /\ probe[t] \in 1 .. N /\ slot[t] = SlotOf(arg[t], probe[t] - 1)
      /\ Passed(t, probe[t] - 1) /\ key[slot[t]] # arg[t]
  BY <1>2 DEF Inv, TypeOK, ThreadOK
<1>4. \A e \in 0 .. probe[t] - 1 : key[SlotOf(arg[t], e)] \notin {Nil, arg[t]}
  BY <1>2, <1>3 DEF Passed
<1>5. Passed(t, probe[t])'
  BY <1>2, <1>4 DEF Passed
<1>6. ThreadOK(t)'
  BY <1>2, <1>3, <1>5 DEF ThreadOK, Passed
<1>7. QED
  BY <1>1, <1>6, LocalStep DEF Inv, TypeOK

LEMMA CountInv ==
    ASSUME Inv, NEW t \in Thread, CountLoad(t) \/ CountStore(t)
    PROVE  Inv'
<1> USE SizeAssumption DEF Goto, table
<1>1. CASE CountLoad(t)
  BY <1>1, LocalStep DEF CountLoad, Inv, TypeOK, ThreadOK
<1>2. CASE CountStore(t)
  <2>1. (reg[t] + 1) % SizeModulus \in 0 .. SizeModulus - 1
    BY DEF Inv, TypeOK
  <2>2. TypeOK'
    BY <1>2, <2>1 DEF CountStore, Inv, TypeOK
  <2>3. QED
    BY <1>2, <2>2, LocalStep DEF CountStore, Inv, TypeOK, ThreadOK
<1>3. QED
  BY <1>1, <1>2

LEMMA ReadInv ==
    ASSUME Inv, NEW t \in Thread, Read(t)
    PROVE  Inv'
<1> USE SlotsAssumption, SizeAssumption DEF Goto, table, Return, Read
<1>1. TypeOK'
  BY DEF Inv, TypeOK, Slots
<1>2. ThreadOK(t)'
  BY DEF Inv, TypeOK, ThreadOK
<1>3. QED
  BY <1>1, <1>2, LocalStep DEF Inv, TypeOK

-----------------------------------------------------------------------------
(* Steps that change the entries.                                          *)

\* A thread that claims a slot has found no entry for its key: before the
\* slot it looked, and after the slot ProbeChain allows none.
LEMMA ClaimedKeyIsNew ==
    ASSUME Inv, NEW t \in Thread, CasClaims(t), NEW s \in Slots
    PROVE  key[s] # arg[t]
<1>1. /\ pc[t] = "cas" /\ key[slot[t]] = Nil
      /\ arg[t] \in Key /\ probe[t] \in 1 .. N
      /\ slot[t] = SlotOf(arg[t], probe[t] - 1)
      /\ Passed(t, probe[t] - 1)
  BY DEF Inv, TypeOK, ThreadOK, CasClaims
<1>2. PICK d \in 0 .. N - 1 : SlotOf(arg[t], d) = s
  BY <1>1, SlotOfSurjective
<1>3. CASE d < probe[t] - 1
  BY <1>1, <1>2, <1>3 DEF Passed
<1>4. CASE d = probe[t] - 1
  BY <1>1, <1>2, <1>4, KeysAssumption
<1>5. CASE d > probe[t] - 1
  <2>1. probe[t] - 1 \in 0 .. d - 1
    BY <1>1, <1>5
  <2>2. QED
    BY <1>1, <1>2, <2>1 DEF Inv, ProbeChain
<1>6. QED
  BY <1>1, <1>3, <1>4, <1>5, SlotsAssumption

LEMMA CasClaimsInv ==
    ASSUME OwnKeysNoErase, Inv, NEW t \in Thread, CasClaims(t)
    PROVE  Inv'
<1> USE SlotsAssumption, KeysAssumption
<1>1. /\ pc[t] = "cas" /\ key[slot[t]] = Nil
      /\ arg[t] \in Key /\ arg[t] \in UsedBy[t] /\ op[t] = "index"
      /\ probe[t] \in 1 .. N /\ slot[t] \in Slots
      /\ slot[t] = SlotOf(arg[t], probe[t] - 1)
      /\ Passed(t, probe[t] - 1)
  BY DEF Inv, TypeOK, ThreadOK, CasClaims
<1>2. \A s \in Slots : key[s] # arg[t]
  BY ClaimedKeyIsNew
<1>3. /\ UNCHANGED <<value, size, op, arg, probe, slot, pending, reg, last>>
      /\ pc' = [pc EXCEPT ![t] = "count_load"]
      /\ \A s \in Slots : key'[s] = IF s = slot[t] THEN arg[t] ELSE key[s]
  BY <1>1 DEF CasClaims, Goto, Inv, TypeOK
<1>4. TypeOK'
  BY <1>1 DEF CasClaims, Goto, Inv, TypeOK
<1>5. NoDuplicateKey'
  BY <1>2, <1>3 DEF Inv, NoDuplicateKey
<1>6. ProbeChain'
  <2> SUFFICES ASSUME NEW k \in Key, NEW d \in 0 .. N - 1,
                      key'[SlotOf(k, d)] = k, NEW e \in 0 .. d - 1
               PROVE  key'[SlotOf(k, e)] # Nil
    BY DEF ProbeChain
  <2>1. SlotOf(k, d) \in Slots /\ SlotOf(k, e) \in Slots
    BY SlotOfWraps
  <2>2. CASE SlotOf(k, d) = slot[t]
    <3>1. k = arg[t]
      BY <1>3, <2>1, <2>2
    <3>2. d = probe[t] - 1
      BY <1>1, <2>2, <3>1, SlotOfInjective
    <3>3. QED
      BY <1>1, <1>3, <2>1, <3>1, <3>2 DEF Passed
  <2>3. CASE SlotOf(k, d) # slot[t]
    <3>1. key[SlotOf(k, d)] = k
      BY <1>3, <2>1, <2>3
    <3>2. key[SlotOf(k, e)] # Nil
      BY <3>1 DEF Inv, ProbeChain
    <3>3. QED
      BY <1>1, <1>3, <2>1, <3>2
  <2>4. QED
    BY <2>2, <2>3
<1>7. EntriesOK'
  <2>1. value[slot[t]] = NoValue /\ last[arg[t]] = NoValue
    BY <1>1, <1>2 DEF Inv, EntriesOK
  <2>2. \A s \in Slots : key'[s] = Nil => value'[s] = NoValue
    BY <1>1, <1>3 DEF Inv, EntriesOK
  <2>3. \A s \in Slots : key'[s] # Nil => value'[s] = last'[key'[s]]
    BY <1>1, <1>3, <2>1 DEF Inv, EntriesOK
  <2>4. \A k \in Key : (\A s \in Slots : key'[s] # k) => last'[k] = NoValue
    BY <1>1, <1>2, <1>3 DEF Inv, EntriesOK
  <2>5. QED
    BY <2>2, <2>3, <2>4 DEF EntriesOK
<1>8. ASSUME NEW u \in Thread PROVE ThreadOK(u)'
  <2>1. CASE u = t
    <3>1. pc'[u] = "count_load" /\ key'[slot'[u]] = arg'[u]
      BY <1>1, <1>3, <2>1 DEF Inv, TypeOK
    <3>2. QED
      BY <1>1, <1>3, <2>1, <3>1 DEF ThreadOK
  <2>2. CASE u # t
    <3>1. /\ pc'[u] = pc[u] /\ op'[u] = op[u] /\ arg'[u] = arg[u]
          /\ probe'[u] = probe[u] /\ slot'[u] = slot[u]
      BY <1>3, <2>2
    <3>2. /\ ThreadOK(u) /\ arg[u] \in Key /\ slot[u] \in Slots
          /\ probe[u] \in 0 .. N
      BY DEF Inv, TypeOK
    <3>3. arg[u] # arg[t]
      BY <1>1, <2>2, <3>2 DEF ThreadOK, OwnKeysNoErase
    <3>4. \A n \in 0 .. N : Passed(u, n) => Passed(u, n)'
      <4> SUFFICES ASSUME NEW n \in 0 .. N, Passed(u, n),
                          NEW e \in 0 .. n - 1
                   PROVE  key'[SlotOf(arg[u], e)] \notin {Nil, arg[u]}
        BY <3>1 DEF Passed
      <4>1. SlotOf(arg[u], e) \in Slots
        BY <3>2, SlotOfWraps
      <4>2. QED
        BY <1>1, <1>3, <3>3, <4>1 DEF Passed
    <3>5. key[slot[u]] # arg[u] => key'[slot[u]] # arg[u]
      BY <1>3, <3>2, <3>3
    <3>6. key[slot[u]] = arg[u] => key'[slot[u]] = arg[u]
      BY <1>1, <1>3, <3>2
    <3>7. QED
      BY <3>1, <3>2, <3>4, <3>5, <3>6 DEF ThreadOK
  <2>3. QED
    BY <2>1, <2>2
<1>9. QED
  BY <1>4, <1>5, <1>6, <1>7, <1>8 DEF Inv

LEMMA AssignInv ==
    ASSUME Inv, NEW t \in Thread, NEW v \in Value, Assign(t, v)
    PROVE  Inv'
<1> USE SlotsAssumption, KeysAssumption
<1>1. /\ pc[t] = "found" /\ key[slot[t]] = arg[t]
      /\ arg[t] \in Key /\ slot[t] \in Slots
  BY DEF Inv, TypeOK, ThreadOK, Assign
<1>2. /\ key' = key /\ arg' = arg
      /\ \A s \in Slots : value'[s] = IF s = slot[t] THEN v ELSE value[s]
      /\ \A k \in Key : last'[k] = IF k = arg[t] THEN v ELSE last[k]
  BY <1>1 DEF Assign, Inv, TypeOK
<1>3. TypeOK'
  BY <1>1, SizeAssumption DEF Assign, Return, Goto, Inv, TypeOK, Slots
<1>4. NoDuplicateKey' /\ ProbeChain'
  BY <1>2 DEF Inv, NoDuplicateKey, ProbeChain
<1>5. EntriesOK'
  <2>1. \A s \in Slots : key[s] = arg[t] => s = slot[t]
    BY <1>1 DEF Inv, NoDuplicateKey
  <2>2. \A s \in Slots : key[s] # Nil => key[s] \in Key
    BY DEF Inv, TypeOK
  <2>3. \A s \in Slots : key'[s] = Nil => value'[s] = NoValue
    BY <1>1, <1>2 DEF Inv, EntriesOK
  <2>4. \A s \in Slots : key'[s] # Nil => value'[s] = last'[key'[s]]
    BY <1>1, <1>2, <2>1, <2>2 DEF Inv, EntriesOK
  <2>5. \A k \in Key : (\A s \in Slots : key'[s] # k) => last'[k] = NoValue
    BY <1>1, <1>2 DEF Inv, EntriesOK
  <2>6. QED
    BY <2>3, <2>4, <2>5 DEF EntriesOK
<1>6. ASSUME NEW u \in Thread PROVE ThreadOK(u)'
  <2>1. CASE u = t
    <3>1. pc'[u] = "idle" /\ op'[u] = "index" /\ arg'[u] \in UsedBy[u]
      BY <1>2, <2>1 DEF Assign, Return, Goto, Inv, TypeOK, ThreadOK
    <3>2. QED
      BY <3>1 DEF ThreadOK
  <2>2. CASE u # t
    <3>1. /\ pc'[u] = pc[u] /\ op'[u] = op[u] /\ arg'[u] = arg[u]
          /\ probe'[u] = probe[u] /\ slot'[u] = slot[u]
      BY <2>2 DEF Assign, Return, Goto, Inv, TypeOK
    <3>2. ThreadOK(u) /\ probe[u] \in 0 .. N
      BY DEF Inv, TypeOK
    <3>3. \A n \in 0 .. N : Passed(u, n) => Passed(u, n)'
      BY <1>2, <3>1 DEF Passed
    <3>4. QED
      BY <1>2, <3>1, <3>2, <3>3 DEF ThreadOK
  <2>3. QED
    BY <2>1, <2>2
<1>7. QED
  BY <1>3, <1>4, <1>5, <1>6 DEF Inv

LEMMA ClearInv ==
    ASSUME Inv, Clear
    PROVE  Inv'
<1> USE SlotsAssumption, KeysAssumption, ValueAssumption, SizeAssumption
        DEF Clear, local, Quiet
<1>1. TypeOK'
  BY DEF Inv, TypeOK
<1>2. \A k \in Key, d \in 0 .. N - 1 : key'[SlotOf(k, d)] = Nil
  BY SlotOfWraps
<1>3. NoDuplicateKey' /\ ProbeChain' /\ EntriesOK'
  BY <1>2 DEF NoDuplicateKey, ProbeChain, EntriesOK
<1>4. \A t \in Thread : ThreadOK(t)'
  BY DEF Inv, ThreadOK
<1>5. QED
  BY <1>1, <1>3, <1>4 DEF Inv

LEMMA NextInv ==
    ASSUME OwnKeysNoErase, Inv, [Next]_hashVars
    PROVE  Inv'
<1>1. ASSUME NEW t \in Thread, NEW k \in Key,
             Call(t, "index", k) \/ Call(t, "erase", k)
      PROVE  Inv'
  BY <1>1, CallInv
<1>2. ASSUME NEW t \in Thread, Find(t) PROVE Inv'
  BY <1>2, LoadInv, CasClaimsInv, CasFailsInv, CountInv DEF Find
<1>3. ASSUME NEW t \in Thread, Erase(t) PROVE FALSE
  BY <1>3
     DEF Erase, EraseValue, EraseKey, UncountLoad, UncountStore, Inv, ThreadOK
<1>4. ASSUME NEW t \in Thread, Read(t) PROVE Inv'
  BY <1>4, ReadInv
<1>5. ASSUME NEW t \in Thread, NEW v \in Value, Assign(t, v) PROVE Inv'
  BY <1>5, AssignInv
<1>6. CASE Clear
  BY <1>6, ClearInv
<1>7. CASE UNCHANGED hashVars
  <2>1. TypeOK'
    BY <1>7 DEF hashVars, Inv, TypeOK
  <2>2. NoDuplicateKey' /\ ProbeChain' /\ EntriesOK'
    BY <1>7 DEF hashVars, Inv, NoDuplicateKey, ProbeChain, EntriesOK
  <2>3. \A t \in Thread : ThreadOK(t)'
    BY <1>7 DEF hashVars, Inv, ThreadOK, Passed
  <2>4. QED
    BY <2>1, <2>2, <2>3 DEF Inv
<1>8. QED
  BY <1>1, <1>2, <1>3, <1>4, <1>5, <1>6, <1>7 DEF Next, Proceed

-----------------------------------------------------------------------------
(* What the invariant says to the callers.                                 *)

LEMMA InvFindsValues == Inv => FindsInsertedValue /\ ReferenceIsCurrent
<1> SUFFICES ASSUME Inv PROVE FindsInsertedValue /\ ReferenceIsCurrent
  OBVIOUS
<1>1. ReferenceIsCurrent
  <2> SUFFICES ASSUME NEW t \in Thread,
                      pc[t] \in {"count_load", "count_store", "found"}
               PROVE  /\ key[slot[t]] = arg[t]
                      /\ value[slot[t]] = last[arg[t]]
    BY DEF ReferenceIsCurrent
  <2>1. key[slot[t]] = arg[t] /\ arg[t] \in Key /\ slot[t] \in Slots
    BY DEF Inv, TypeOK, ThreadOK
  <2>2. QED
    BY <2>1, KeysAssumption DEF Inv, EntriesOK
<1>2. ASSUME NEW k \in Key, NEW d \in 0 .. N - 1, key[SlotOf(k, d)] = k
      PROVE  FoundAt(k, d) /\ value[SlotOf(k, d)] = last[k]
  <2>1. SlotOf(k, d) \in Slots
    BY SlotOfWraps
  <2>2. value[SlotOf(k, d)] = last[k]
    BY <1>2, <2>1, KeysAssumption DEF Inv, EntriesOK
  <2>3. ASSUME NEW e \in 0 .. d - 1 PROVE key[SlotOf(k, e)] \notin {k, Nil}
    <3>1. e \in 0 .. N - 1 /\ e # d
      BY SlotsAssumption
    <3>2. SlotOf(k, e) \in Slots /\ SlotOf(k, e) # SlotOf(k, d)
      BY <3>1, SlotOfWraps, SlotOfInjective
    <3>3. key[SlotOf(k, e)] # k
      BY <1>2, <2>1, <3>2, KeysAssumption DEF Inv, NoDuplicateKey
    <3>4. key[SlotOf(k, e)] # Nil
      BY <1>2 DEF Inv, ProbeChain
    <3>5. QED
      BY <3>3, <3>4
  <2>4. QED
    BY <1>2, <2>2, <2>3 DEF FoundAt
<1>3. FindsInsertedValue
  <2> SUFFICES ASSUME NEW k \in Key,
                      \A d \in 0 .. N - 1 : key[SlotOf(k, d)] # k
               PROVE  /\ \A d \in 0 .. N - 1 : ~FoundAt(k, d)
                      /\ last[k] = NoValue
    BY <1>2 DEF FindsInsertedValue
  <2>1. \A s \in Slots : key[s] # k
    BY SlotOfSurjective
  <2>2. QED
    BY <2>1 DEF FoundAt, Inv, EntriesOK
<1>4. QED
  BY <1>1, <1>3

\* A search that has passed all the slots has seen N keys, all different and
\* none of them its own.
LEMMA InvNeverFull ==
    ASSUME IsFiniteSet(Key), Inv
    PROVE  NeverFull
<1> SUFFICES ASSUME NEW t \in Thread, pc[t] = "full", Cardinality(Key) <= N
             PROVE  FALSE
  BY DEF NeverFull
<1> USE SlotsAssumption, KeysAssumption
<1>1. arg[t] \in Key /\ Passed(t, N)
  BY DEF Inv, TypeOK, ThreadOK
<1>2. \A s \in Slots : key[s] \in Key \ {arg[t]}
  <2> SUFFICES ASSUME NEW s \in Slots PROVE key[s] \notin {Nil, arg[t]}
    BY DEF Inv, TypeOK
  <2>1. PICK d \in 0 .. N - 1 : SlotOf(arg[t], d) = s
    BY <1>1, SlotOfSurjective
  <2>2. QED
    BY <1>1, <2>1 DEF Passed
<1>3. Cardinality(Slots) = N /\ IsFiniteSet(Slots)
  BY FS_Interval DEF Slots
<1>4. /\ IsFiniteSet(Key \ {arg[t]})
      /\ Cardinality(Key \ {arg[t]}) < Cardinality(Slots)
  <2>1. /\ IsFiniteSet(Key \ {arg[t]})
        /\ Cardinality(Key \ {arg[t]}) = Cardinality(Key) - 1
    BY <1>1, FS_RemoveElement
  <2>2. Cardinality(Key) \in Nat
    BY FS_CardinalityType
  <2>3. QED
    BY <1>3, <2>1, <2>2
<1>5. key \in [Slots -> Key \ {arg[t]}]
  BY <1>2 DEF Inv, TypeOK
<1>6. PICK r, s \in Slots : r # s /\ key[r] = key[s]
  BY <1>3, <1>4, <1>5, FS_PigeonHole
<1>7. QED
  BY <1>2, <1>6 DEF Inv, NoDuplicateKey

\* Whoever wins a race for a slot, a key never gets a second entry and never
\* ends up behind a nil, where find() would not look for it.
THEOREM TableStaysConsistent ==
    ASSUME OwnKeysNoErase
    PROVE  Spec => [](TypeOK /\ NoDuplicateKey /\ ProbeChain)
<1>1. Inv /\ [Next]_hashVars => Inv'
  BY NextInv
<1>2. Inv => TypeOK /\ NoDuplicateKey /\ ProbeChain
  BY DEF Inv
<1>3. QED
  BY InitInv, <1>1, <1>2, PTL DEF Spec

\* operator[] finds, and the reference it returned shows, the value last
\* stored under the key.
THEOREM ValuesAreFound ==
    ASSUME OwnKeysNoErase
    PROVE  Spec => [](FindsInsertedValue /\ ReferenceIsCurrent)
<1>1. Inv /\ [Next]_hashVars => Inv'
  BY NextInv
<1>2. QED
  BY InitInv, <1>1, InvFindsValues, PTL DEF Spec

\* With no more keys than slots no thread reaches the assert(false) at the
\* end of find(), although a thread that loses a race skips the slot.
THEOREM FindNeverFull ==
    ASSUME OwnKeysNoErase, IsFiniteSet(Key)
    PROVE  Spec => []NeverFull
<1>1. Inv /\ [Next]_hashVars => Inv'
  BY NextInv
<1>2. Inv => NeverFull
  BY InvNeverFull
<1>3. QED
  BY InitInv, <1>1, <1>2, PTL DEF Spec
==============================================================================
