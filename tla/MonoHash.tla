------------------------------ MODULE MonoHash -------------------------------
(***************************************************************************)
(* haisu::mono::hash<Key, Val, N, Hash, do_throw> (src/haisu/mono_hash.h): *)
(* a hash table in an array, with linear probing.  The key 0 is an empty   *)
(* slot.  erase() empties a slot and moves nothing, so that the keys that  *)
(* were pushed past the slot are no longer found: Erase says which keys    *)
(* the program erases.                                                     *)
(***************************************************************************)
EXTENDS Integers, FiniteSetsExt

CONSTANTS N,
          Key,    \* the keys, without 0
          Val,
          Hash,   \* Hash[k]: hash_type()(k)
          Erases, \* the keys that are erased
          Full,   \* the messages signal_error() is called with
          Duplicate,
          NoKey,
          Void    \* no answer

ASSUME NAssumption == N \in Nat \ {0}
ASSUME KeyAssumption == Key \subseteq Int \ {0}
ASSUME HashAssumption == Hash \in [Key -> Nat]
ASSUME ErasesAssumption == Erases \subseteq Key

VARIABLES
    first,   \* table_[i].first
    second,  \* table_[i].second
    answer   \* what the last call returned, or its error

vars == <<first, second, answer>>

Slot == 0 .. N - 1
None == -1  \* no slot

\* The values are what std::pair makes of them.
Init ==
    /\ first = [s \in Slot |-> 0]
    /\ second \in [Slot -> Val]
    /\ answer = Void

-----------------------------------------------------------------------------
(* The search                                                              *)

get_possible_index(k) == Hash[k] % N

\* Mutant: the search does not go on at the beginning of the table.
Visited_to_end(k, i) == Min({get_possible_index(k) + i, N - 1})

\* The slots in the order they are looked at: to the end of the table, and
\* then from its beginning.
Visited(k, i) == (get_possible_index(k) + i) % N

Ends(k, s) == first[s] \in {k, 0}

\* The slot where the search for k ends: its own, or the first empty one; None
\* in a full table without k.
Search(k) ==
    LET found == {i \in Slot : Ends(k, Visited(k, i))}
    IN  IF found = {} THEN None ELSE Visited(k, Min(found))

Found(k) == Search(k) # None /\ first[Search(k)] = k

-----------------------------------------------------------------------------
(* The operations                                                          *)

\* at(), which makes an entry of the key if there is none; the value of the
\* slot stays as it is.
at(k) ==
    IF Search(k) = None
    THEN answer' = Full /\ UNCHANGED <<first, second>>
    ELSE /\ first' = [first EXCEPT ![Search(k)] = k]
         /\ answer' = second[Search(k)]
         /\ UNCHANGED second

\* Assignment through the reference at() returned.
set(k, v) ==
    IF Search(k) = None
    THEN answer' = Full /\ UNCHANGED <<first, second>>
    ELSE /\ first' = [first EXCEPT ![Search(k)] = k]
         /\ second' = [second EXCEPT ![Search(k)] = v]
         /\ answer' = v

insert(k, v) ==
    \/ /\ Search(k) = None
       /\ answer' = Full
       /\ UNCHANGED <<first, second>>
    \/ /\ Found(k)
       /\ answer' = Duplicate
       /\ UNCHANGED <<first, second>>
    \/ /\ Search(k) # None /\ ~Found(k)
       /\ first' = [first EXCEPT ![Search(k)] = k]
       /\ second' = [second EXCEPT ![Search(k)] = v]
       /\ answer' = v

\* at() const makes no entry.
at_const(k) ==
    /\ answer' = CASE Search(k) = None -> Full
                   [] Found(k) -> second[Search(k)]
                   [] OTHER -> NoKey
    /\ UNCHANGED <<first, second>>

contains(k) ==
    /\ answer' = Found(k)
    /\ UNCHANGED <<first, second>>

erase(k) ==
    /\ k \in Erases
    /\ first' = IF Found(k) THEN [first EXCEPT ![Search(k)] = 0] ELSE first
    /\ answer' = Void
    /\ UNCHANGED second

clear ==
    /\ first' = [s \in Slot |-> 0]
    /\ answer' = Void
    /\ UNCHANGED second

Next ==
    \/ \E k \in Key :
          \/ at(k) \/ at_const(k) \/ contains(k) \/ erase(k)
          \/ \E v \in Val : set(k, v) \/ insert(k, v)
    \/ clear

Spec == Init /\ [][Next]_vars

-----------------------------------------------------------------------------
(* Properties                                                              *)

Stored == {s \in Slot : first[s] # 0}
SlotOf(k) == CHOOSE s \in Slot : first[s] = k

\* Wherever the hash function puts the keys, the table is a map of N of them.
D == INSTANCE Dictionary WITH
        Size <- N,
        map <- [k \in {first[s] : s \in Stored} |-> second[SlotOf(k)]]

ImplementsDictionary == D!Spec
==============================================================================
