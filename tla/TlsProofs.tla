------------------------------ MODULE TlsProofs ------------------------------
(***************************************************************************)
(* haisu::tls keeps its promise to any number of threads, whatever their   *)
(* ids hash to, as long as no thread calls release() and a thread whose id *)
(* may be given out again has emptied its slot before it ends.  The proof  *)
(* is that every step of tls is a step of linear_hash, whose invariant     *)
(* then says what the reference from operator[] refers to.                 *)
(***************************************************************************)
EXTENDS Tls, LinearHashProofs

\* What the theorem assumes of the program that uses tls.
NoRelease == Erasers = {} /\ Endings # "any"

LEMMA OwnIds == Erasers = {} => OwnKeysNoErase
BY TidAssumption DEF OwnKeysNoErase

\* Nobody is in release(), a get() under way has not answered yet, and a
\* thread with a reused id that has put
\* nothing yet finds nothing: its predecessor left the slot empty.
TlsInv ==
    /\ TlsTypeOK
    /\ \A t \in Thread : call[t] \in {"none", "get", "reset"}
    /\ \A t \in Thread : call[t] = "get" => got[t] = NoAnswer
    /\ \A t \in Thread : newborn[t] => last[t] = Null

\* tls only ever takes the steps of linear_hash.
LEMMA TlsStepsAreHashSteps ==
    ASSUME TlsTypeOK, [TlsNext]_vars
    PROVE  [Next]_hashVars
<1> USE TidAssumption
<1>1. ASSUME NEW t \in Thread, TlsProceed(t) PROVE [Next]_hashVars
  <2>1. CASE Search(t)
    BY <2>1 DEF Search, Next, Proceed
  <2>2. CASE EndGet(t) \/ ReadReleased(t)
    BY <2>2 DEF EndGet, ReadReleased, Next, Proceed
  <2>3. CASE DeletePrevious(t)
    BY <2>3 DEF DeletePrevious
  <2>4. CASE EndReset(t)
    BY <2>4 DEF EndReset, Next, Proceed, TlsTypeOK
  <2>5. CASE BeginErase(t)
    BY <2>5 DEF BeginErase, Next
  <2>6. CASE EraseSteps(t)
    BY <2>6 DEF EraseSteps, Next, Proceed, Erase
  <2>7. CASE EndRelease(t)
    BY <2>7 DEF EndRelease, Next, Proceed, Erase
  <2>8. QED
    BY <1>1, <2>1, <2>2, <2>3, <2>4, <2>5, <2>6, <2>7 DEF TlsProceed
<1>2. ASSUME NEW t \in Thread, BeginGet(t) \/ BeginRelease(t)
      PROVE  [Next]_hashVars
  BY <1>2 DEF BeginGet, BeginRelease, Next
<1>3. ASSUME NEW t \in Thread, NEW p \in Value, BeginReset(t, p)
      PROVE  [Next]_hashVars
  BY <1>3 DEF BeginReset, Next
<1>4. ASSUME NEW t \in Thread, Restart(t) PROVE [Next]_hashVars
  BY <1>4 DEF Restart
<1>5. CASE ClearAll
  BY <1>5 DEF ClearAll, Next
<1>6. CASE UNCHANGED vars
  BY <1>6 DEF vars
<1>7. QED
  BY <1>1, <1>2, <1>3, <1>4, <1>5, <1>6 DEF TlsNext

LEMMA InitTlsInv == TlsInit => TlsInv
BY ValueAssumption, TidAssumption DEF TlsInit, Init, TlsInv, TlsTypeOK, Null

\* One step of tls: it preserves the invariant, and it is a step, or a
\* stutter, of the promise.
LEMMA TlsStep ==
    ASSUME NoRelease, Inv, TlsInv, [TlsNext]_vars
    PROVE  TlsInv' /\ [Promise!Next]_(Promise!vars)
<1> USE TidAssumption, ValueAssumption DEF Null
<1> DEFINE Goal == TlsInv' /\ [Promise!Next]_(Promise!vars)
<1>1. /\ call \in [Thread -> {"none", "get", "reset", "release", "erase"}]
      /\ newPtr \in [Thread -> Value] /\ got \in [Thread -> Value \cup {NoAnswer}]
      /\ deleted \in [Thread -> BOOLEAN] /\ newborn \in [Thread -> BOOLEAN]
      /\ heap \subseteq Address /\ last \in [Thread -> Value]
  BY DEF TlsInv, TlsTypeOK, Inv, TypeOK
<1>2. /\ \A t \in Thread : call[t] \in {"none", "get", "reset"}
      /\ \A t \in Thread : call[t] = "get" => got[t] = NoAnswer
      /\ \A t \in Thread : newborn[t] => last[t] = Null
  BY DEF TlsInv
<1>3. \A t \in Thread : Cell[t] = last[t]
  BY <1>1, <1>2 DEF Cell
\* A step that leaves last, got, newborn and call alone is a stutter of the
\* promise.
<1>4. ASSUME UNCHANGED <<last, got, newborn, call>>, TlsTypeOK'
      PROVE  Goal
  <2>1. TlsInv'
    BY <1>2, <1>4 DEF TlsInv
  <2>2. UNCHANGED Promise!vars
    BY <1>4 DEF Promise!vars, Cell
  <2>3. QED
    BY <2>1, <2>2
<1>5. ASSUME NEW t \in Thread, BeginGet(t) PROVE Goal
  <2>1. TlsInv'
    BY <1>1, <1>2, <1>5 DEF BeginGet, Call, Begin, Enter, TlsInv, TlsTypeOK
  <2>2. Promise!Ask(t)
    BY <1>5 DEF BeginGet, Call, Begin, Promise!Ask, Cell
  <2>3. QED
    BY <2>1, <2>2 DEF Promise!Next
<1>6. ASSUME NEW t \in Thread, NEW p \in Value, BeginReset(t, p) PROVE Goal
  <2>1. TlsInv'
    BY <1>1, <1>2, <1>6
       DEF BeginReset, Call, Begin, Enter, TlsInv, TlsTypeOK, Address
  <2>2. Promise!Ask(t)
    BY <1>6 DEF BeginReset, Call, Begin, Promise!Ask, Cell
  <2>3. QED
    BY <2>1, <2>2 DEF Promise!Next
<1>7. ASSUME NEW t \in Thread, BeginRelease(t) PROVE FALSE
  BY <1>7 DEF BeginRelease, NoRelease
<1>8. ASSUME NEW t \in Thread, Search(t) PROVE Goal
  <2>1. UNCHANGED last
    BY <1>8 DEF Search, Find, LoadFindsKey, LoadFindsOther, LoadFindsNil, Load,
                CasClaims, CasFails, CountLoad, CountStore
  <2>2. QED
    BY <1>1, <1>2, <1>4, <1>8, <2>1 DEF Search, tlsVars, TlsTypeOK
<1>9. ASSUME NEW t \in Thread, EndGet(t) PROVE Goal
  <2>1. /\ pc[t] = "found" /\ op[t] = "index" /\ arg[t] = t
        /\ UNCHANGED <<last, newborn, heap, newPtr, deleted>>
    BY <1>9 DEF EndGet, Read, Inv, ThreadOK
  <2>2. value[slot[t]] = Cell[t]
    BY <1>3, <2>1, InvFindsValues DEF ReferenceIsCurrent
  <2>3. Cell[t] \in Value
    BY <1>1, <1>3
  <2>4. TlsInv'
    BY <1>1, <1>2, <1>9, <2>1, <2>2, <2>3 DEF EndGet, Enter, TlsInv, TlsTypeOK
  <2>5. Promise!Get(t)
    BY <1>2, <1>9, <2>1, <2>2 DEF EndGet, Promise!Get, Cell
  <2>6. QED
    BY <2>4, <2>5 DEF Promise!Next
<1>10. ASSUME NEW t \in Thread, DeletePrevious(t) PROVE Goal
  BY <1>1, <1>2, <1>4, <1>10 DEF DeletePrevious, hashVars, TlsTypeOK
<1>11. ASSUME NEW t \in Thread, EndReset(t) PROVE Goal
  <2>1. arg[t] = t /\ newPtr[t] \in Value
    BY <1>1 DEF Inv, ThreadOK
  <2>2. /\ last' = [last EXCEPT ![t] = newPtr[t]]
        /\ newborn' = [newborn EXCEPT ![t] = FALSE]
        /\ got' = got /\ heap' = heap
    BY <1>11, <2>1 DEF EndReset, Assign
  <2>3. TlsInv'
    BY <1>1, <1>2, <1>11, <2>1, <2>2 DEF EndReset, Enter, TlsInv, TlsTypeOK
  <2>4. Cell' = [Cell EXCEPT ![t] = newPtr[t]]
    BY <1>1, <2>2 DEF Cell
  <2>5. Promise!Put(t, newPtr[t])
    BY <2>2, <2>4 DEF Promise!Put
  <2>6. QED
    BY <2>1, <2>3, <2>5 DEF Promise!Next
<1>12. ASSUME NEW t \in Thread,
              ReadReleased(t) \/ BeginErase(t) \/ EraseSteps(t) \/ EndRelease(t)
       PROVE  FALSE
  BY <1>2, <1>12
     DEF ReadReleased, BeginErase, EraseSteps, EndRelease, EraseValue, EraseKey,
         UncountLoad, UncountStore, Inv, ThreadOK
<1>13. ASSUME NEW t \in Thread, Restart(t) PROVE Goal
  <2>1. last[t] = Null
    BY <1>13, EndingsAssumption DEF Restart, NoRelease
  <2>2. TlsInv'
    BY <1>1, <1>2, <1>13, <2>1 DEF Restart, hashVars, TlsInv, TlsTypeOK
  <2>3. Cell' = [Cell EXCEPT ![t] = Null]
    BY <1>1, <1>13 DEF Restart, hashVars, Cell
  <2>4. Promise!Restart(t)
    BY <1>13, <2>3 DEF Restart, Promise!Restart
  <2>5. QED
    BY <2>2, <2>4 DEF Promise!Next
<1>14. CASE ClearAll
  <2>1. \A t \in Thread : last'[t] = Null
    BY <1>14 DEF ClearAll, Clear
  <2>2. TlsInv'
    BY <1>1, <1>2, <1>14, <2>1 DEF ClearAll, TlsInv, TlsTypeOK
  <2>3. Promise!Clear
    BY <1>14, <2>1 DEF ClearAll, Promise!Clear, Cell
  <2>4. QED
    BY <2>2, <2>3 DEF Promise!Next
<1>15. CASE UNCHANGED vars
  BY <1>1, <1>2, <1>4, <1>15 DEF vars, hashVars, tlsVars, TlsTypeOK
<1>16. QED
  BY <1>5, <1>6, <1>7, <1>8, <1>9, <1>10, <1>11, <1>12, <1>13, <1>14, <1>15
     DEF TlsNext, TlsProceed

\* get() returns what this thread put there last, and null to a thread that
\* has put nothing, under every interleaving of the threads' searches.
THEOREM TlsImplementsThreadLocal ==
    ASSUME NoRelease
    PROVE  TlsSpec => ImplementsThreadLocal
<1>1. TlsInit => Inv /\ TlsInv /\ Promise!Init
  <2>1. TlsInit => Promise!Init
    BY TidAssumption, ValueAssumption
       DEF TlsInit, Init, Promise!Init, Cell, Null
  <2>2. QED
    BY <2>1, InitInv, InitTlsInv DEF TlsInit
<1>2. Inv /\ TlsInv /\ [TlsNext]_vars => Inv' /\ TlsInv'
  BY OwnIds, TlsStepsAreHashSteps, NextInv, TlsStep DEF NoRelease, TlsInv
<1>3. Inv /\ TlsInv /\ [TlsNext]_vars => [Promise!Next]_(Promise!vars)
  BY TlsStep
<1>4. QED
  BY <1>1, <1>2, <1>3, PTL DEF TlsSpec, ImplementsThreadLocal, Promise!Spec

-----------------------------------------------------------------------------
(* The objects.  Each live one has exactly one owner: a slot that is not   *)
(* between the `delete prev' and the `prev = t' of a reset(), or a reset() *)
(* that has not stored it yet.  This needs nothing of how threads end.     *)

Held(s, p) == value[s] = p /\ ~BeingReset(s)

SlotsOwn ==
    \A s \in Slots, p \in Address : Held(s, p) =>
        /\ p \in heap
        /\ \A r \in Slots : Held(r, p) => r = s

CallsOwn ==
    \A t \in Thread : newPtr[t] # Null =>
        /\ newPtr[t] \in heap
        /\ \A u \in Thread : newPtr[u] = newPtr[t] => u = t
        /\ \A s \in Slots : ~Held(s, newPtr[t])

AllOwned ==
    \A p \in heap :
        (\E s \in Slots : Held(s, p)) \/ (\E t \in Thread : newPtr[t] = p)

OnlyResetsDelete ==
    \A t \in Thread :
        /\ call[t] \in {"none", "get", "reset"}
        /\ deleted[t] => call[t] = "reset" /\ pc[t] = "found"
        /\ call[t] # "reset" => newPtr[t] = Null

OwnerInv == TlsTypeOK /\ OnlyResetsDelete /\ SlotsOwn /\ CallsOwn /\ AllOwned

LEMMA InitOwnerInv == TlsInit => OwnerInv
BY ValueAssumption, TidAssumption
   DEF TlsInit, Init, OwnerInv, TlsTypeOK, OnlyResetsDelete, SlotsOwn, CallsOwn, AllOwned,
       Held, Address, Null

\* Two threads never have the same slot, for its key is the id of its owner.
LEMMA SlotsAreApart ==
    ASSUME Inv, NEW t \in Thread, NEW u \in Thread, t # u,
           pc[t] = "found", pc[u] = "found"
    PROVE  slot[t] # slot[u]
<1>1. /\ arg[t] \in UsedBy[t] /\ key[slot[t]] = arg[t]
      /\ arg[u] \in UsedBy[u] /\ key[slot[u]] = arg[u]
  BY DEF Inv, ThreadOK
<1>2. arg[t] = t /\ arg[u] = u
  BY <1>1, TidAssumption
<1>3. QED
  BY <1>1, <1>2

\* A step that changes no pointer and moves no thread away from a slot whose
\* object it has deleted leaves the owners alone.
LEMMA OwnersStay ==
    ASSUME OwnerInv, UNCHANGED <<value, heap, newPtr, deleted>>,
           \A t \in Thread : deleted[t] => slot'[t] = slot[t]
    PROVE  SlotsOwn' /\ CallsOwn' /\ AllOwned'
<1>1. \A s \in Slots : BeingReset(s)' <=> BeingReset(s)
  BY DEF BeingReset
<1>2. \A s \in Slots : \A p : Held(s, p)' <=> Held(s, p)
  BY <1>1 DEF Held
<1>3. SlotsOwn'
  BY <1>2 DEF OwnerInv, SlotsOwn
<1>4. CallsOwn'
  <2> SUFFICES ASSUME NEW t \in Thread, newPtr[t] # Null
               PROVE  /\ newPtr[t] \in heap
                      /\ \A u \in Thread : newPtr[u] = newPtr[t] => u = t
                      /\ \A s \in Slots : ~Held(s, newPtr[t])'
    BY DEF CallsOwn
  <2>1. QED
    BY <1>2 DEF OwnerInv, CallsOwn
<1>5. AllOwned'
  BY <1>2 DEF OwnerInv, AllOwned
<1>6. QED
  BY <1>3, <1>4, <1>5

\* reset(new T): the call owns the new object.
LEMMA BeginResetOwns ==
    ASSUME OwnerInv, NEW t \in Thread, NEW p \in Value, BeginReset(t, p)
    PROVE  OwnerInv'
<1>1. /\ call[t] = "none" /\ p \notin heap
      /\ heap' = heap \cup ({p} \ {Null})
      /\ newPtr' = [newPtr EXCEPT ![t] = p]
      /\ call' = [call EXCEPT ![t] = "reset"]
      /\ got' = [got EXCEPT ![t] = NoAnswer]
      /\ pc' = [pc EXCEPT ![t] = "load"]
      /\ UNCHANGED <<value, slot, deleted, newborn>>
  BY DEF BeginReset, Call, Begin, Enter, Goto, table
<1>2. TlsTypeOK'
  BY <1>1 DEF OwnerInv, TlsTypeOK, Address
<1>3. OnlyResetsDelete'
  BY <1>1 DEF OwnerInv, TlsTypeOK, OnlyResetsDelete
<1>4. \A s \in Slots : \A q : Held(s, q)' <=> Held(s, q)
  BY <1>1 DEF Held, BeingReset
<1>5. SlotsOwn'
  BY <1>1, <1>4 DEF OwnerInv, SlotsOwn
<1>6. newPtr[t] = Null /\ newPtr'[t] = p /\ \A u \in Thread \ {t} : newPtr'[u] = newPtr[u]
  BY <1>1 DEF OwnerInv, TlsTypeOK, OnlyResetsDelete
<1>7. CallsOwn'
  <2> SUFFICES ASSUME NEW u \in Thread, newPtr'[u] # Null
               PROVE  /\ newPtr'[u] \in heap'
                      /\ \A v \in Thread : newPtr'[v] = newPtr'[u] => v = u
                      /\ \A s \in Slots : ~Held(s, newPtr[u])'
    BY DEF CallsOwn
  <2>1. CASE u = t
    <3>1. p \in Address
      BY <1>6, <2>1 DEF Address
    <3>2. \A s \in Slots : ~Held(s, p)
      BY <1>1, <3>1 DEF OwnerInv, SlotsOwn
    <3>3. \A v \in Thread : newPtr[v] # p
      BY <1>1, <1>6, <2>1 DEF OwnerInv, CallsOwn
    <3>4. QED
      BY <1>1, <1>4, <1>6, <2>1, <3>2, <3>3 DEF Held
  <2>2. CASE u # t
    BY <1>1, <1>4, <1>6, <2>2 DEF OwnerInv, CallsOwn, Held
  <2>3. QED
    BY <2>1, <2>2
<1>8. AllOwned'
  <2> SUFFICES ASSUME NEW q \in heap'
               PROVE  (\E s \in Slots : Held(s, q)') \/ (\E u \in Thread : newPtr'[u] = q)
    BY DEF AllOwned
  <2>1. CASE q = p
    BY <1>6, <2>1
  <2>2. CASE q # p
    <3>1. q \in heap /\ q # Null
      BY <1>1, <2>2 DEF OwnerInv, TlsTypeOK, Address
    <3>2. QED
      BY <1>4, <1>6, <3>1 DEF OwnerInv, AllOwned
  <2>3. QED
    BY <2>1, <2>2
<1>9. QED
  BY <1>2, <1>3, <1>5, <1>7, <1>8 DEF OwnerInv

\* delete prev: the slot owned the object, and nothing else did.
LEMMA DeletePreviousOwns ==
    ASSUME Inv, OwnerInv, NEW t \in Thread, DeletePrevious(t)
    PROVE  OwnerInv'
<1> DEFINE p == value[slot[t]]
<1>1. /\ call[t] = "reset" /\ pc[t] = "found" /\ ~deleted[t]
      /\ heap' = heap \ {p}
      /\ deleted' = [deleted EXCEPT ![t] = TRUE]
      /\ UNCHANGED <<value, slot, pc, call, newPtr, got, newborn>>
  BY DEF DeletePrevious, hashVars
<1>2. slot[t] \in Slots
  BY DEF Inv, TypeOK
<1>3. TlsTypeOK'
  BY <1>1 DEF OwnerInv, TlsTypeOK
<1>4. OnlyResetsDelete'
  BY <1>1 DEF OwnerInv, TlsTypeOK, OnlyResetsDelete
<1>5. ~BeingReset(slot[t])
  BY <1>1, SlotsAreApart DEF BeingReset, OwnerInv, OnlyResetsDelete
<1>6. Held(slot[t], p)
  BY <1>5 DEF Held
<1>7. \A s \in Slots : BeingReset(s)' <=> (BeingReset(s) \/ s = slot[t])
  BY <1>1 DEF BeingReset, OwnerInv, TlsTypeOK
<1>8. \A s \in Slots : \A q : Held(s, q)' <=> Held(s, q) /\ s # slot[t]
  BY <1>1, <1>7 DEF Held
<1> HIDE DEF p
<1>9. p \in Address => \A s \in Slots : Held(s, p) => s = slot[t]
  BY <1>2, <1>6 DEF OwnerInv, SlotsOwn
<1>10. \A u \in Thread : newPtr[u] # Null => newPtr[u] # p
  BY <1>2, <1>6 DEF OwnerInv, CallsOwn
<1>11. SlotsOwn'
  <2> SUFFICES ASSUME NEW s \in Slots, NEW q \in Address, Held(s, q)'
               PROVE  q \in heap' /\ \A r \in Slots : Held(r, q)' => r = s
    BY DEF SlotsOwn
  <2>1. Held(s, q) /\ s # slot[t]
    BY <1>8
  <2>2. q # p
    BY <1>9, <2>1
  <2>3. QED
    BY <1>1, <1>8, <2>1, <2>2 DEF OwnerInv, SlotsOwn
<1>12. CallsOwn'
  <2> SUFFICES ASSUME NEW u \in Thread, newPtr[u] # Null
               PROVE  /\ newPtr[u] \in heap'
                      /\ \A v \in Thread : newPtr[v] = newPtr[u] => v = u
                      /\ \A s \in Slots : ~Held(s, newPtr[u])'
    BY <1>1 DEF CallsOwn
  <2>1. QED
    BY <1>1, <1>8, <1>10 DEF OwnerInv, CallsOwn
<1>13. AllOwned'
  <2> SUFFICES ASSUME NEW q \in heap'
               PROVE  (\E s \in Slots : Held(s, q)') \/ (\E u \in Thread : newPtr[u] = q)
    BY <1>1 DEF AllOwned
  <2>1. q \in heap /\ q # p
    BY <1>1
  <2>2. ~Held(slot[t], q)
    BY <2>1 DEF Held, p
  <2>3. QED
    BY <1>8, <2>1, <2>2 DEF OwnerInv, AllOwned
<1>14. QED
  BY <1>3, <1>4, <1>11, <1>12, <1>13 DEF OwnerInv

\* prev = t: the object passes from the call to its slot.
LEMMA EndResetOwns ==
    ASSUME Inv, OwnerInv, NEW t \in Thread, EndReset(t)
    PROVE  OwnerInv'
<1> DEFINE p == newPtr[t]
           s0 == slot[t]
<1>1. /\ call[t] = "reset" /\ deleted[t] /\ pc[t] = "found"
      /\ value' = [value EXCEPT ![s0] = p]
      /\ slot' = [slot EXCEPT ![t] = 0]
      /\ pc' = [pc EXCEPT ![t] = "idle"]
      /\ deleted' = [deleted EXCEPT ![t] = FALSE]
      /\ newPtr' = [newPtr EXCEPT ![t] = Null]
      /\ newborn' = [newborn EXCEPT ![t] = FALSE]
      /\ call' = [call EXCEPT ![t] = "none"]
      /\ UNCHANGED <<heap, got>>
  BY DEF EndReset, Assign, Return, Goto, Enter
<1>2. /\ s0 \in Slots /\ p \in Value
      /\ value \in [Slots -> Value] /\ slot \in [Thread -> Slots]
      /\ pc \in [Thread -> {"idle", "load", "cas", "count_load", "count_store",
                            "found", "uncount_load", "uncount_store", "full"}]
  BY DEF Inv, TypeOK, OwnerInv, TlsTypeOK
<1>3. /\ newPtr \in [Thread -> Value] /\ deleted \in [Thread -> BOOLEAN]
      /\ call \in [Thread -> {"none", "get", "reset", "release", "erase"}]
  BY DEF OwnerInv, TlsTypeOK
<1>4. TlsTypeOK'
  BY <1>1, ValueAssumption DEF OwnerInv, TlsTypeOK, Null
<1>5. OnlyResetsDelete'
  BY <1>1, <1>2, <1>3 DEF OwnerInv, OnlyResetsDelete
<1>6. \A u \in Thread \ {t} : deleted[u] => slot[u] # s0
  BY <1>1, SlotsAreApart DEF OwnerInv, OnlyResetsDelete
<1>7. \A u \in Thread \ {t} : deleted'[u] = deleted[u] /\ slot'[u] = slot[u]
                            /\ newPtr'[u] = newPtr[u]
  BY <1>1, <1>2, <1>3
<1>8. ~deleted'[t] /\ newPtr'[t] = Null
  BY <1>1, <1>3
<1>9. \A s \in Slots : BeingReset(s)' <=> BeingReset(s) /\ s # s0
  <2> SUFFICES ASSUME NEW s \in Slots
               PROVE  BeingReset(s)' <=> BeingReset(s) /\ s # s0
    OBVIOUS
  <2>1. BeingReset(s)' <=> \E u \in Thread \ {t} : deleted[u] /\ slot[u] = s
    BY <1>7, <1>8 DEF BeingReset
  <2>2. BeingReset(s) <=> s = s0 \/ \E u \in Thread \ {t} : deleted[u] /\ slot[u] = s
    BY <1>1 DEF BeingReset
  <2>3. QED
    BY <1>6, <2>1, <2>2
<1>10. BeingReset(s0)
  BY <1>1 DEF BeingReset
<1>11. value'[s0] = p /\ \A s \in Slots \ {s0} : value'[s] = value[s]
  BY <1>1, <1>2
<1> HIDE DEF p, s0
<1>12. \A s \in Slots : \A q :
         Held(s, q)' <=> (s = s0 /\ q = p) \/ (s # s0 /\ Held(s, q))
  BY <1>9, <1>11 DEF Held
<1>13. \A q : ~Held(s0, q)
  BY <1>10 DEF Held
<1>14. p # Null => p \in heap /\ \A s \in Slots : ~Held(s, p)
  BY DEF OwnerInv, CallsOwn, p
<1>15. \A u \in Thread \ {t} : newPtr[u] # Null => newPtr[u] # p
  BY DEF OwnerInv, CallsOwn, p
<1>16. SlotsOwn'
  <2> SUFFICES ASSUME NEW s \in Slots, NEW q \in Address, Held(s, q)'
               PROVE  q \in heap /\ \A r \in Slots : Held(r, q)' => r = s
    BY <1>1 DEF SlotsOwn
  <2>1. CASE s = s0 /\ q = p
    BY <1>12, <1>14, <2>1 DEF Address
  <2>2. CASE s # s0 /\ Held(s, q)
    <3>1. q # p
      BY <1>14, <2>2 DEF Address
    <3>2. QED
      BY <1>12, <2>2, <3>1 DEF OwnerInv, SlotsOwn
  <2>3. QED
    BY <1>12, <2>1, <2>2
<1>17. CallsOwn'
  <2> SUFFICES ASSUME NEW u \in Thread, newPtr'[u] # Null
               PROVE  /\ newPtr'[u] \in heap
                      /\ \A v \in Thread : newPtr'[v] = newPtr'[u] => v = u
                      /\ \A s \in Slots : ~Held(s, newPtr[u])'
    BY <1>1 DEF CallsOwn
  <2>1. u # t /\ newPtr'[u] = newPtr[u]
    BY <1>7, <1>8
  <2>2. /\ newPtr[u] \in heap
        /\ \A v \in Thread : newPtr[v] = newPtr[u] => v = u
        /\ \A s \in Slots : ~Held(s, newPtr[u])
    BY <2>1 DEF OwnerInv, CallsOwn
  <2>3. \A v \in Thread : newPtr'[v] = newPtr'[u] => v = u
    BY <1>7, <1>8, <2>1, <2>2
  <2>4. \A s \in Slots : ~Held(s, newPtr[u])'
    BY <1>12, <1>15, <2>1, <2>2 DEF Held
  <2>5. QED
    BY <2>1, <2>2, <2>3, <2>4
<1>18. AllOwned'
  <2> SUFFICES ASSUME NEW q \in heap
               PROVE  (\E s \in Slots : Held(s, q)') \/ (\E u \in Thread : newPtr'[u] = q)
    BY <1>1 DEF AllOwned
  <2>1. CASE q = p
    BY <1>2, <1>12, <2>1 DEF s0
  <2>2. CASE q # p
    <3>1. CASE \E s \in Slots : Held(s, q)
      BY <1>12, <1>13, <3>1
    <3>2. CASE \E u \in Thread : newPtr[u] = q
      BY <1>7, <2>2, <3>2 DEF p
    <3>3. QED
      BY <3>1, <3>2 DEF OwnerInv, AllOwned
  <2>3. QED
    BY <2>1, <2>2
<1>19. QED
  BY <1>4, <1>5, <1>16, <1>17, <1>18 DEF OwnerInv

\* clear(): no call is under way, so every object is in a slot.
LEMMA ClearAllOwns ==
    ASSUME Inv, OwnerInv, ClearAll
    PROVE  OwnerInv'
<1>1. /\ \A t \in Thread : call[t] = "none"
      /\ heap' = heap \ {value[s] : s \in Occupied}
      /\ value' = [s \in Slots |-> NoValue]
      /\ UNCHANGED <<slot, pc, call, newPtr, deleted, got, newborn>>
  BY DEF ClearAll, Clear, local
<1>2. \A t \in Thread : newPtr[t] = Null
  BY <1>1 DEF OwnerInv, OnlyResetsDelete
<1>3. heap' = {}
  <2> SUFFICES ASSUME NEW p \in heap PROVE p \in {value[s] : s \in Occupied}
    BY <1>1
  <2>1. p # Null
    BY DEF OwnerInv, TlsTypeOK, Address
  <2>2. PICK s \in Slots : value[s] = p
    BY <1>2, <2>1 DEF OwnerInv, AllOwned, Held
  <2>3. s \in Occupied
    BY <2>1, <2>2 DEF Occupied, Inv, EntriesOK, Null
  <2>4. QED
    BY <2>2, <2>3
<1>4. TlsTypeOK'
  BY <1>1, <1>3 DEF OwnerInv, TlsTypeOK
<1>5. OnlyResetsDelete'
  BY <1>1 DEF OwnerInv, OnlyResetsDelete
<1>6. SlotsOwn' /\ AllOwned'
  BY <1>1, <1>3 DEF SlotsOwn, AllOwned, Held, Address, Null
<1>7. CallsOwn'
  BY <1>1, <1>2 DEF CallsOwn
<1>8. QED
  BY <1>4, <1>5, <1>6, <1>7 DEF OwnerInv

LEMMA OwnerStep ==
    ASSUME Erasers = {}, Inv, OwnerInv, [TlsNext]_vars
    PROVE  OwnerInv'
<1> USE TidAssumption, ValueAssumption DEF Null
<1>1. /\ heap \subseteq Address
      /\ call \in [Thread -> {"none", "get", "reset", "release", "erase"}]
      /\ newPtr \in [Thread -> Value] /\ deleted \in [Thread -> BOOLEAN]
      /\ got \in [Thread -> Value \cup {NoAnswer}] /\ newborn \in [Thread -> BOOLEAN]
      /\ slot \in [Thread -> Slots] /\ value \in [Slots -> Value]
      /\ pc \in [Thread -> {"idle", "load", "cas", "count_load", "count_store",
                            "found", "uncount_load", "uncount_store", "full"}]
  BY DEF OwnerInv, TlsTypeOK, Inv, TypeOK
<1>2. \A t \in Thread :
        /\ call[t] \in {"none", "get", "reset"}
        /\ deleted[t] => call[t] = "reset" /\ pc[t] = "found"
        /\ call[t] # "reset" => newPtr[t] = Null
  BY DEF OwnerInv, OnlyResetsDelete
<1>3. ASSUME NEW t \in Thread, BeginGet(t) PROVE OwnerInv'
  <2>1. TlsTypeOK' /\ OnlyResetsDelete'
    BY <1>1, <1>2, <1>3
       DEF BeginGet, Call, Begin, Enter, Goto, TlsTypeOK, OnlyResetsDelete
  <2>2. QED
    BY <1>3, <2>1, OwnersStay DEF BeginGet, Call, table, OwnerInv
<1>4. ASSUME NEW t \in Thread, Search(t) PROVE OwnerInv'
  <2>1. /\ pc[t] # "found" /\ value' = value
        /\ \E label : pc' = [pc EXCEPT ![t] = label]
        /\ slot' = slot \/ slot' = [slot EXCEPT ![t] = Next_p(t)]
    BY <1>4 DEF Search, Find, LoadFindsKey, LoadFindsOther, LoadFindsNil, Load, table, Goto,
                NextSlotOrFull, CasClaims, CasFails, CountLoad, CountStore
  <2>2. UNCHANGED <<heap, call, newPtr, deleted, got, newborn>>
    BY <1>4 DEF Search, tlsVars
  <2>3. ~deleted[t]
    BY <1>2, <2>1
  <2>4. TlsTypeOK' /\ OnlyResetsDelete'
    BY <1>1, <1>2, <2>1, <2>2, <2>3 DEF TlsTypeOK, OnlyResetsDelete
  <2>5. \A u \in Thread : deleted[u] => slot'[u] = slot[u]
    BY <1>1, <2>1, <2>3
  <2>6. QED
    BY <2>1, <2>2, <2>4, <2>5, OwnersStay DEF OwnerInv
<1>5. ASSUME NEW t \in Thread, EndGet(t) PROVE OwnerInv'
  <2>1. /\ call[t] = "get" /\ value' = value
        /\ pc' = [pc EXCEPT ![t] = "idle"] /\ slot' = [slot EXCEPT ![t] = 0]
        /\ got' = [got EXCEPT ![t] = value[slot[t]]]
        /\ call' = [call EXCEPT ![t] = "none"]
        /\ UNCHANGED <<heap, newPtr, deleted, newborn>>
    BY <1>5 DEF EndGet, Read, Return, Goto, Enter, table
  <2>2. ~deleted[t] /\ value[slot[t]] \in Value
    BY <1>1, <1>2, <2>1
  <2>3. TlsTypeOK' /\ OnlyResetsDelete'
    BY <1>1, <1>2, <2>1, <2>2 DEF TlsTypeOK, OnlyResetsDelete
  <2>4. \A u \in Thread : deleted[u] => slot'[u] = slot[u]
    BY <1>1, <2>1, <2>2
  <2>5. QED
    BY <2>1, <2>3, <2>4, OwnersStay DEF OwnerInv
<1>6. ASSUME NEW t \in Thread,
             \/ BeginRelease(t) \/ ReadReleased(t) \/ BeginErase(t)
             \/ EraseSteps(t) \/ EndRelease(t)
      PROVE  FALSE
  BY <1>2, <1>6
     DEF BeginRelease, ReadReleased, BeginErase, EraseSteps, EndRelease, EraseValue,
         EraseKey, UncountLoad, UncountStore, Inv, ThreadOK
<1>7. ASSUME NEW t \in Thread, Restart(t) PROVE OwnerInv'
  <2>1. /\ got' = [got EXCEPT ![t] = NoAnswer] /\ newborn' = [newborn EXCEPT ![t] = TRUE]
        /\ UNCHANGED <<pc, slot, value, heap, call, newPtr, deleted>>
    BY <1>7 DEF Restart, hashVars
  <2>2. TlsTypeOK' /\ OnlyResetsDelete'
    BY <1>1, <1>2, <2>1 DEF TlsTypeOK, OnlyResetsDelete
  <2>3. QED
    BY <2>1, <2>2, OwnersStay DEF OwnerInv
<1>8. CASE UNCHANGED vars
  <2>1. UNCHANGED <<pc, slot, value, heap, call, newPtr, deleted, got, newborn>>
    BY <1>8 DEF vars, hashVars, tlsVars
  <2>2. TlsTypeOK' /\ OnlyResetsDelete'
    BY <1>1, <1>2, <2>1 DEF TlsTypeOK, OnlyResetsDelete
  <2>3. QED
    BY <2>1, <2>2, OwnersStay DEF OwnerInv
<1>9. QED
  BY <1>3, <1>4, <1>5, <1>6, <1>7, <1>8, BeginResetOwns, DeletePreviousOwns,
     EndResetOwns, ClearAllOwns DEF TlsNext, TlsProceed

\* The owners of the invariant are those the property allows.
LEMMA OwnersAreThose ==
    ASSUME Inv, OwnerInv
    PROVE  ObjectsHaveOneOwner
<1>1. value \in [Slots -> Value] /\ heap \subseteq Address
  BY DEF Inv, TypeOK, OwnerInv, TlsTypeOK
<1>2. SoleOwner
  <2> SUFFICES ASSUME NEW s \in Slots, ~BeingReset(s), value[s] # Null
               PROVE  /\ value[s] \in heap
                      /\ \A r \in Slots \ {s} : value[r] = value[s] => BeingReset(r)
    BY DEF SoleOwner
  <2>1. value[s] \in Address /\ Held(s, value[s])
    BY <1>1 DEF Held, Address
  <2>2. QED
    BY <2>1 DEF OwnerInv, SlotsOwn, Held
<1>3. NoLeak
  <2> SUFFICES ASSUME NEW p \in heap
               PROVE  \/ \E s \in Occupied : value[s] = p
                      \/ \E t \in Thread : call[t] = "reset" /\ newPtr[t] = p
    BY DEF NoLeak
  <2>1. p # Null
    BY <1>1 DEF Address
  <2>2. CASE \E s \in Slots : Held(s, p)
    BY <2>1, <2>2 DEF Held, Occupied, Inv, EntriesOK, Null
  <2>3. CASE \E t \in Thread : newPtr[t] = p
    BY <2>1, <2>3 DEF OwnerInv, OnlyResetsDelete
  <2>4. QED
    BY <2>2, <2>3 DEF OwnerInv, AllOwned
<1>4. QED
  BY <1>2, <1>3 DEF ObjectsHaveOneOwner

\* However the searches and resets of the threads interleave, and however
\* threads end, no object is deleted twice, none is deleted while another
\* thread's slot still points to it, and none is lost.
THEOREM TlsOwnsObjects ==
    ASSUME Erasers = {}
    PROVE  TlsSpec => []ObjectsHaveOneOwner
<1>1. TlsInit => Inv /\ OwnerInv
  BY InitInv, InitOwnerInv DEF TlsInit
<1>2. Inv /\ OwnerInv /\ [TlsNext]_vars => Inv' /\ OwnerInv'
  BY OwnIds, TlsStepsAreHashSteps, NextInv, OwnerStep DEF OwnerInv
<1>3. Inv /\ OwnerInv => ObjectsHaveOneOwner
  BY OwnersAreThose
<1>4. QED
  BY <1>1, <1>2, <1>3, PTL DEF TlsSpec
==============================================================================
