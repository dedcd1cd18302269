----------------------------- MODULE LinearHash ------------------------------
(***************************************************************************)
(* haisu::mono::linear_hash (src/haisu/tls.h): a fixed table of N slots    *)
(* that several threads search and claim without a lock.  Every atomic     *)
(* access of the source is an action here, so that TLC interleaves the     *)
(* threads at the points where they can really interleave.                 *)
(*                                                                         *)
(* The table serves callers that obey a discipline the class leaves to     *)
(* them.  UsedBy says which keys a thread uses, Erasers which threads ever *)
(* call erase(); the configurations give the disciplines under which the   *)
(* table is correct and the ones under which it is not.                    *)
(***************************************************************************)
EXTENDS Integers, FiniteSets

CONSTANTS
    Thread,
    Key,
    UsedBy,       \* UsedBy[t]: the keys thread t passes to the table
    Erasers,      \* the threads that call erase()
    N,            \* number of slots
    Hash,         \* Hash[k]: std::hash<Key> of k
    Nil,          \* the key of an unused slot
    Value,
    NoValue,      \* Value()
    SizeModulus   \* _size is a size_t: its arithmetic is modulo 2^64

ASSUME SlotsAssumption == N \in Nat \ {0}
ASSUME HashAssumption == Hash \in [Key -> Nat]
ASSUME KeysAssumption == UsedBy \in [Thread -> SUBSET Key] /\ Nil \notin Key
ASSUME ErasersAssumption == Erasers \subseteq Thread
ASSUME ValueAssumption == NoValue \in Value
ASSUME SizeAssumption == SizeModulus \in Nat /\ SizeModulus > N

VARIABLES
    key,     \* _data[s].key
    value,   \* _data[s].value
    size,    \* _size
    pc,      \* where each thread is
    op,      \* the operation it is in
    arg,     \* the key it passed
    probe,   \* how many slots its find() has loaded
    slot,    \* the slot it loaded last: p in find(), erase() and the caller
    pending, \* the stores of erase() that are not yet visible
    reg,     \* _size as the thread loaded it
    last     \* history: what was last stored under each key

table == <<key, value, size>>
local == <<pc, op, arg, probe, slot, pending, reg>>
hashVars == <<key, value, size, pc, op, arg, probe, slot, pending, reg, last>>

Slots == 0 .. N - 1

\* The slot find(k) looks at after d others.  The loop of find() ends when i
\* is back at `hash', that is when d = N.
Home(k) == Hash[k] % N
SlotOf(k, d) == (Home(k) + d) % N

\* Type invariant.
TypeOK ==
    /\ key \in [Slots -> Key \cup {Nil}]
    /\ value \in [Slots -> Value]
    /\ size \in 0 .. SizeModulus - 1
    /\ pc \in [Thread -> {"idle", "load", "cas", "count_load", "count_store",
                          "found", "uncount_load", "uncount_store", "full"}]
    /\ op \in [Thread -> {"index", "erase"}]
    /\ arg \in [Thread -> Key]
    /\ probe \in [Thread -> 0 .. N]
    /\ slot \in [Thread -> Slots]
    /\ pending \in [Thread -> SUBSET {"store_value", "store_key"}]
    /\ reg \in [Thread -> 0 .. SizeModulus - 1]
    /\ last \in [Key -> Value]

Init ==
    /\ key = [s \in Slots |-> Nil]
    /\ value = [s \in Slots |-> NoValue]
    /\ size = 0
    /\ pc = [t \in Thread |-> "idle"]
    /\ op = [t \in Thread |-> "index"]
    /\ arg \in [Thread -> Key] /\ \A t \in Thread : arg[t] \in UsedBy[t]
    /\ probe = [t \in Thread |-> 0]
    /\ slot = [t \in Thread |-> 0]
    /\ pending = [t \in Thread |-> {}]
    /\ reg = [t \in Thread |-> 0]
    /\ last = [k \in Key |-> NoValue]

Goto(t, label) == pc' = [pc EXCEPT ![t] = label]

\* The call returns and its local variables are gone.
Return(t) ==
    /\ Goto(t, "idle")
    /\ op' = [op EXCEPT ![t] = "index"]
    /\ probe' = [probe EXCEPT ![t] = 0]
    /\ slot' = [slot EXCEPT ![t] = 0]
    /\ reg' = [reg EXCEPT ![t] = 0]

-----------------------------------------------------------------------------
(* find()                                                                  *)

\* operator[], insert() and erase() begin with find(key).
Call(t, o, k) ==
    /\ pc[t] = "idle"
    /\ k \in UsedBy[t]
    /\ o = "erase" => t \in Erasers
    /\ op' = [op EXCEPT ![t] = o]
    /\ arg' = [arg EXCEPT ![t] = k]
    /\ probe' = [probe EXCEPT ![t] = 0]
    /\ pending' = [pending EXCEPT ![t] =
                     IF o = "erase" THEN {"store_value", "store_key"} ELSE {}]
    /\ Goto(t, "load")
    /\ UNCHANGED <<table, slot, reg, last>>

\* The slot thread t loads next.
Next_p(t) == SlotOf(arg[t], probe[t])

Load(t) ==
    /\ pc[t] = "load"
    /\ slot' = [slot EXCEPT ![t] = Next_p(t)]
    /\ probe' = [probe EXCEPT ![t] = @ + 1]
    /\ UNCHANGED <<table, op, arg, pending, reg, last>>

\* while (i != hash), else assert(false).
NextSlotOrFull(t, probed) ==
    Goto(t, IF probed = N THEN "full" ELSE "load")

LoadFindsKey(t) ==
    /\ Load(t)
    /\ key[Next_p(t)] = arg[t]
    /\ Goto(t, "found")

\* Mutant: an entry of the caller's own key may be passed over.
LoadFindsOther_own(t) ==
    /\ Load(t)
    /\ key[Next_p(t)] # Nil
    /\ NextSlotOrFull(t, probe[t] + 1)

\* Mutant: i advances twice past a slot that is taken.
LoadFindsOther_twice(t) ==
    /\ pc[t] = "load"
    /\ key[Next_p(t)] \notin {Nil, arg[t]}
    /\ slot' = [slot EXCEPT ![t] = Next_p(t)]
    /\ probe' = [probe EXCEPT ![t] = @ + 2]
    /\ Goto(t, IF probe[t] + 2 >= N THEN "full" ELSE "load")
    /\ UNCHANGED <<table, op, arg, pending, reg, last>>

LoadFindsOther(t) ==
    /\ Load(t)
    /\ key[Next_p(t)] \notin {Nil, arg[t]}
    /\ NextSlotOrFull(t, probe[t] + 1)

\* The load is relaxed: it may still see the nil that another thread has
\* already replaced.
LoadFindsNil(t) ==
    /\ Load(t)
    /\ key[Next_p(t)] # arg[t]
    /\ Goto(t, "cas")

\* Mutant: a plain store in the place of the compare-and-swap.
CasClaims_stores(t) ==
    /\ pc[t] = "cas"
    /\ key' = [key EXCEPT ![slot[t]] = arg[t]]
    /\ Goto(t, "count_load")
    /\ UNCHANGED <<value, size, op, arg, probe, slot, pending, reg, last>>

CasClaims(t) ==
    /\ pc[t] = "cas"
    /\ key[slot[t]] = Nil
    /\ key' = [key EXCEPT ![slot[t]] = arg[t]]
    /\ Goto(t, "count_load")
    /\ UNCHANGED <<value, size, op, arg, probe, slot, pending, reg, last>>

\* Mutant: the compare-and-swap is retried on the same slot.
CasFails_retries(t) ==
    /\ pc[t] = "cas"
    /\ key[slot[t]] # Nil
    /\ UNCHANGED hashVars

\* The slot went to somebody else: on to the next one, without a look at the
\* key that is there now.
CasFails(t) ==
    /\ pc[t] = "cas"
    /\ key[slot[t]] # Nil
    /\ NextSlotOrFull(t, probe[t])
    /\ UNCHANGED <<table, op, arg, probe, slot, pending, reg, last>>

\* ++_size, which is not atomic.
CountLoad(t) ==
    /\ pc[t] = "count_load"
    /\ reg' = [reg EXCEPT ![t] = size]
    /\ Goto(t, "count_store")
    /\ UNCHANGED <<table, op, arg, probe, slot, pending, last>>

CountStore(t) ==
    /\ pc[t] = "count_store"
    /\ size' = (reg[t] + 1) % SizeModulus
    /\ Goto(t, "found")
    /\ UNCHANGED <<key, value, op, arg, probe, slot, pending, reg, last>>

Find(t) ==
    \/ LoadFindsKey(t)
    \/ LoadFindsOther(t)
    \/ LoadFindsNil(t)
    \/ CasClaims(t)
    \/ CasFails(t)
    \/ CountLoad(t)
    \/ CountStore(t)

-----------------------------------------------------------------------------
(* What the caller does with the reference it got.                         *)

\* insert(), and an assignment through operator[].
Assign(t, v) ==
    /\ pc[t] = "found" /\ op[t] = "index"
    /\ value' = [value EXCEPT ![slot[t]] = v]
    /\ last' = [last EXCEPT ![arg[t]] = v]
    /\ Return(t)
    /\ UNCHANGED <<key, size, arg, pending>>

\* The caller only reads through the reference.
Read(t) ==
    /\ pc[t] = "found" /\ op[t] = "index"
    /\ Return(t)
    /\ UNCHANGED <<table, arg, pending, last>>

-----------------------------------------------------------------------------
(* erase()                                                                 *)

\* Mutant: erase() leaves the value behind.
EraseValue_keeps_value(t) ==
    /\ pc[t] = "found" /\ op[t] = "erase" /\ "store_value" \in pending[t]
    /\ pending' = [pending EXCEPT ![t] = @ \ {"store_value"}]
    /\ last' = [last EXCEPT ![arg[t]] = NoValue]
    /\ UNCHANGED <<table, pc, op, arg, probe, slot, reg>>

\* p->value = Value() and the relaxed store of the nil key: nothing orders
\* the two for another thread.
EraseValue(t) ==
    /\ pc[t] = "found" /\ op[t] = "erase" /\ "store_value" \in pending[t]
    /\ value' = [value EXCEPT ![slot[t]] = NoValue]
    /\ pending' = [pending EXCEPT ![t] = @ \ {"store_value"}]
    /\ last' = [last EXCEPT ![arg[t]] = NoValue]
    /\ UNCHANGED <<key, size, pc, op, arg, probe, slot, reg>>

EraseKey(t) ==
    /\ pc[t] = "found" /\ op[t] = "erase" /\ "store_key" \in pending[t]
    /\ key' = [key EXCEPT ![slot[t]] = Nil]
    /\ pending' = [pending EXCEPT ![t] = @ \ {"store_key"}]
    /\ last' = [last EXCEPT ![arg[t]] = NoValue]
    /\ UNCHANGED <<value, size, pc, op, arg, probe, slot, reg>>

\* --_size.
UncountLoad(t) ==
    /\ pc[t] = "found" /\ op[t] = "erase" /\ pending[t] = {}
    /\ reg' = [reg EXCEPT ![t] = size]
    /\ Goto(t, "uncount_store")
    /\ UNCHANGED <<table, op, arg, probe, slot, pending, last>>

UncountStore(t) ==
    /\ pc[t] = "uncount_store"
    /\ size' = (reg[t] - 1) % SizeModulus
    /\ Return(t)
    /\ UNCHANGED <<key, value, arg, pending, last>>

Erase(t) ==
    EraseValue(t) \/ EraseKey(t) \/ UncountLoad(t) \/ UncountStore(t)

Occupied == {s \in Slots : key[s] # Nil}

\* clear() is documented as not thread-safe: no other call is under way.
Quiet == \A t \in Thread : pc[t] = "idle"

Clear ==
    /\ Quiet
    /\ key' = [s \in Slots |-> Nil]
    /\ value' = [s \in Slots |-> NoValue]
    /\ size' = 0
    /\ last' = [k \in Key |-> NoValue]
    /\ UNCHANGED local

-----------------------------------------------------------------------------
\* What a thread does once it has made a call; nothing in it waits for
\* another thread, so a thread the scheduler runs keeps going.
Proceed(t) == Find(t) \/ Erase(t) \/ Read(t) \/ \E v \in Value : Assign(t, v)

Next ==
    \/ \E t \in Thread :
        \/ \E k \in Key : Call(t, "index", k) \/ Call(t, "erase", k)
        \/ Proceed(t)
    \/ Clear

Spec == Init /\ [][Next]_hashVars

FairSpec == Spec /\ \A t \in Thread : WF_hashVars(Proceed(t))

-----------------------------------------------------------------------------
(* Properties                                                              *)

\* No key is in two slots.  Two find() calls that race for one slot must not
\* both end up with an entry for the same key: the second would be a value
\* that later searches never reach.
NoDuplicateKey ==
    \A r, s \in Slots : key[r] = key[s] /\ key[r] # Nil => r = s

\* Linear probing: no nil between the home slot of a key and the slot it is
\* in, or find() stops at the nil and claims it.
ProbeChain ==
    \A k \in Key, d \in 0 .. N - 1 :
        key[SlotOf(k, d)] = k =>
            \A e \in 0 .. d - 1 : key[SlotOf(k, e)] # Nil

\* The slot a search for k by a single thread would return now.
FoundAt(k, d) ==
    /\ key[SlotOf(k, d)] = k
    /\ \A e \in 0 .. d - 1 : key[SlotOf(k, e)] \notin {k, Nil}

\* operator[](k) finds what was last stored under k, however the searches
\* and claims of other keys interleaved with it.
FindsInsertedValue ==
    \A k \in Key :
        \/ \E d \in 0 .. N - 1 :
                FoundAt(k, d) /\ value[SlotOf(k, d)] = last[k]
        \/ /\ \A d \in 0 .. N - 1 : ~FoundAt(k, d)
           /\ last[k] = NoValue

\* The reference operator[] has returned is to the entry of the caller's key
\* and shows its current value, from the claim of the slot to the use.
ReferenceIsCurrent ==
    \A t \in Thread :
        /\ pc[t] \in {"count_load", "count_store"} => key[slot[t]] = arg[t]
        /\ pc[t] = "found" /\ op[t] = "index" =>
              /\ key[slot[t]] = arg[t]
              /\ value[slot[t]] = last[arg[t]]

\* With no more keys than slots no find() runs into the assert(false) at its
\* end, although a search that loses a race skips a slot.
NeverFull ==
    Cardinality(Key) <= N => \A t \in Thread : pc[t] # "full"

\* Every call returns, whatever races it loses on the way.
CallsReturn == \A t \in Thread : (pc[t] # "idle") ~> (pc[t] = "idle")
==============================================================================
