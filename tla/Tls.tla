--------------------------------- MODULE Tls ---------------------------------
(***************************************************************************)
(* haisu::tls (src/haisu/tls.h): thread-local pointers in a linear_hash    *)
(* whose keys are the ids of the threads.  get(), reset(), release() and   *)
(* clear() are built from the steps of LinearHash; the module adds the     *)
(* heap the pointers point to and what each call does around the search.   *)
(*                                                                         *)
(* A thread that releases takes the object over and destroys it.           *)
(***************************************************************************)
EXTENDS LinearHash

CONSTANTS
    Endings,  \* which threads end and have their id given out again: "none",
              \* those that have "emptied" their slot, or "any"
    Careful,  \* release() is called only where its slot is off the way of the
              \* other threads' searches
    NoAnswer  \* the call has not read a pointer yet

ASSUME TidAssumption == Key = Thread /\ UsedBy = [t \in Thread |-> {t}]
ASSUME EndingsAssumption == Endings \in {"none", "emptied", "any"}
ASSUME CarefulAssumption == Careful \in BOOLEAN
ASSUME NoAnswerAssumption == NoAnswer \notin Value

\* The pointers: Value is the addresses and the null pointer.
Null == NoValue
Address == Value \ {Null}

VARIABLES
    heap,     \* the addresses of live objects
    call,     \* the member function each thread is in
    newPtr,   \* the argument of reset()
    deleted,  \* reset() has deleted the previous object
    got,      \* what the thread's last get() or release() has read
    newborn   \* history: the thread has a reused id and has put nothing yet

tlsVars == <<heap, call, newPtr, deleted, got, newborn>>
vars == <<hashVars, tlsVars>>

\* Type invariant of the variables this module adds.
TlsTypeOK ==
    /\ heap \subseteq Address
    /\ call \in [Thread -> {"none", "get", "reset", "release", "erase"}]
    /\ newPtr \in [Thread -> Value]
    /\ deleted \in [Thread -> BOOLEAN]
    /\ got \in [Thread -> Value \cup {NoAnswer}]
    /\ newborn \in [Thread -> BOOLEAN]

TlsInit ==
    /\ Init
    /\ heap = {}
    /\ call = [t \in Thread |-> "none"]
    /\ newPtr = [t \in Thread |-> Null]
    /\ deleted = [t \in Thread |-> FALSE]
    /\ got = [t \in Thread |-> NoAnswer]
    /\ newborn = [t \in Thread |-> FALSE]

Enter(t, f) == call' = [call EXCEPT ![t] = f]

Begin(t, f) ==
    /\ Enter(t, f)
    /\ got' = [got EXCEPT ![t] = NoAnswer]

\* get(), operator* and operator->.
BeginGet(t) ==
    /\ call[t] = "none"
    /\ Call(t, "index", t)
    /\ Begin(t, "get")
    /\ UNCHANGED <<heap, newPtr, deleted, newborn>>

EndGet(t) ==
    /\ call[t] = "get"
    /\ Read(t)
    /\ got' = [got EXCEPT ![t] = value[slot[t]]]
    /\ Enter(t, "none")
    /\ UNCHANGED <<heap, newPtr, deleted, newborn>>

\* reset(new T) and reset().
BeginReset(t, p) ==
    /\ call[t] = "none"
    /\ p \notin heap
    /\ heap' = heap \cup ({p} \ {Null})
    /\ newPtr' = [newPtr EXCEPT ![t] = p]
    /\ Call(t, "index", t)
    /\ Begin(t, "reset")
    /\ UNCHANGED <<deleted, newborn>>

\* delete prev
DeletePrevious(t) ==
    /\ call[t] = "reset" /\ pc[t] = "found" /\ ~deleted[t]
    /\ heap' = heap \ {value[slot[t]]}
    /\ deleted' = [deleted EXCEPT ![t] = TRUE]
    /\ UNCHANGED <<hashVars, call, newPtr, got, newborn>>

\* prev = t
EndReset(t) ==
    /\ call[t] = "reset" /\ deleted[t]
    /\ Assign(t, newPtr[t])
    /\ deleted' = [deleted EXCEPT ![t] = FALSE]
    /\ newPtr' = [newPtr EXCEPT ![t] = Null]
    /\ newborn' = [newborn EXCEPT ![t] = FALSE]
    /\ Enter(t, "none")
    /\ UNCHANGED <<heap, got>>

\* Every other thread has an entry already, and finds it before it comes to
\* the slot of t.  The class does not ask for this.
OffTheWay(t) ==
    \E s \in Slots :
        /\ key[s] = t
        /\ \A u \in Thread \ {t} : \E d \in 0 .. N - 1 :
              key[SlotOf(u, d)] = u /\ \A e \in 0 .. d : SlotOf(u, e) # s

\* release() searches for its slot twice: to read the pointer, then to erase
\* the key.
BeginRelease(t) ==
    /\ call[t] = "none"
    /\ t \in Erasers
    /\ Careful => OffTheWay(t)
    /\ Call(t, "index", t)
    /\ Begin(t, "release")
    /\ UNCHANGED <<heap, newPtr, deleted, newborn>>

ReadReleased(t) ==
    /\ call[t] = "release"
    /\ Read(t)
    /\ got' = [got EXCEPT ![t] = value[slot[t]]]
    /\ Enter(t, "erase")
    /\ UNCHANGED <<heap, newPtr, deleted, newborn>>

BeginErase(t) ==
    /\ call[t] = "erase"
    /\ Call(t, "erase", t)
    /\ UNCHANGED tlsVars

\* The stores and the count of erase(); after the last of them the caller
\* has the object and destroys it.
EraseSteps(t) ==
    /\ EraseValue(t) \/ EraseKey(t) \/ UncountLoad(t)
    /\ UNCHANGED tlsVars

EndRelease(t) ==
    /\ UncountStore(t)
    /\ heap' = heap \ {got[t]}
    /\ Enter(t, "none")
    /\ UNCHANGED <<newPtr, deleted, got, newborn>>

Search(t) == Find(t) /\ UNCHANGED tlsVars

\* Mutant: clear() empties the table without deleting the objects.
ClearAll_leaks ==
    /\ \A t \in Thread : call[t] = "none"
    /\ Clear
    /\ UNCHANGED tlsVars

\* clear() deletes what foreach() shows it; not thread-safe.
ClearAll ==
    /\ \A t \in Thread : call[t] = "none"
    /\ heap' = heap \ {value[s] : s \in Occupied}
    /\ Clear
    /\ UNCHANGED <<call, newPtr, deleted, got, newborn>>

\* The thread ends and its id goes to a new thread.
Restart(t) ==
    /\ Endings # "none"
    /\ Endings = "emptied" => last[t] = Null
    /\ call[t] = "none"
    /\ newborn' = [newborn EXCEPT ![t] = TRUE]
    /\ got' = [got EXCEPT ![t] = NoAnswer]
    /\ UNCHANGED <<hashVars, heap, call, newPtr, deleted>>

TlsProceed(t) ==
    \/ Search(t)
    \/ EndGet(t)
    \/ DeletePrevious(t)
    \/ EndReset(t)
    \/ ReadReleased(t)
    \/ BeginErase(t)
    \/ EraseSteps(t)
    \/ EndRelease(t)

TlsNext ==
    \/ \E t \in Thread :
        \/ BeginGet(t)
        \/ \E p \in Value : BeginReset(t, p)
        \/ BeginRelease(t)
        \/ TlsProceed(t)
        \/ Restart(t)
    \/ ClearAll

TlsSpec == TlsInit /\ [][TlsNext]_vars

-----------------------------------------------------------------------------
(* Properties                                                              *)

Cell == [t \in Thread |-> IF newborn[t] THEN Null ELSE last[t]]

Promise == INSTANCE ThreadLocal WITH Pointer <- Value, cell <- Cell

\* A thread that gets its pointer sees what it put itself: the same promise
\* as a state predicate, at the moment operator[] has returned to get().
GetReturnsOwn ==
    \A t \in Thread :
        call[t] = "get" /\ pc[t] = "found" => value[slot[t]] = Cell[t]

\* get() returns what this very thread last put with reset(), and null to a
\* thread that has put nothing: no step of another thread shows through.
ImplementsThreadLocal == Promise!Spec

\* The moment between `delete prev' and `prev = t' of the slot's owner.
BeingReset(s) == \E t \in Thread : deleted[t] /\ slot[t] = s

\* Every pointer in the table, but for that moment, is to a live object, and
\* no two slots hold the same one: reset() and clear() never delete an
\* object twice, and never one that another thread still uses.
SoleOwner ==
    \A s \in Slots :
        ~BeingReset(s) /\ value[s] # Null =>
            /\ value[s] \in heap
            /\ \A r \in Slots \ {s} : value[r] = value[s] => BeingReset(r)

\* Every live object is in a slot that clear() will visit, or on its way
\* into one, or on its way to the caller of release().
NoLeak ==
    \A p \in heap :
        \/ \E s \in Occupied : value[s] = p
        \/ \E t \in Thread : call[t] = "reset" /\ newPtr[t] = p
        \/ \E t \in Thread : call[t] = "erase" /\ got[t] = p

\* Through every interleaving the objects that the program has handed over are
\* each in one place, from which they will be deleted or returned, once.
ObjectsHaveOneOwner == SoleOwner /\ NoLeak

-----------------------------------------------------------------------------
(* Values for the model checker: ids that collide modulo N.                *)

OwnId == [t \in Thread |-> {t}]
CollidingIds == [t \in Thread |-> 5]
==============================================================================
