----------------------------- MODULE Dictionary ------------------------------
(***************************************************************************)
(* What mono::hash promises: a map of at most Size keys.  A key that is    *)
(* used for the first time has a value nobody has promised anything about. *)
(***************************************************************************)
EXTENDS Integers, FiniteSets

CONSTANTS Key, Val, Size,
          Full, Duplicate, NoKey,  \* the errors
          Void                     \* no answer

VARIABLES map,    \* map[k]: the value of k, for the keys it has
          answer  \* what the last call returned, or that it threw

vars == <<map, answer>>

HasRoom == Cardinality(DOMAIN map) < Size

Put(k, v) == [q \in DOMAIN map \cup {k} |-> IF q = k THEN v ELSE map[q]]

Init == map = [k \in {} |-> Void] /\ answer = Void

\* operator[], read and written.
Get(k) ==
    \/ /\ k \in DOMAIN map
       /\ answer' = map[k]
       /\ UNCHANGED map
    \/ /\ k \notin DOMAIN map /\ HasRoom
       /\ answer' \in Val
       /\ map' = Put(k, answer')

Set(k, v) ==
    /\ k \in DOMAIN map \/ HasRoom
    /\ map' = Put(k, v)
    /\ answer' = v

\* The value, or the reason why there is none.
GetConst(k) ==
    /\ answer' = CASE k \in DOMAIN map -> map[k]
                   [] k \notin DOMAIN map /\ HasRoom -> NoKey
                   [] OTHER -> Full
    /\ UNCHANGED map

Insert(k, v) ==
    /\ k \notin DOMAIN map /\ HasRoom
    /\ map' = Put(k, v)
    /\ answer' = v

InsertAgain(k) ==
    /\ k \in DOMAIN map
    /\ answer' = Duplicate
    /\ UNCHANGED map

\* A new key, and no room for it.
Refuse(k) ==
    /\ k \notin DOMAIN map /\ ~HasRoom
    /\ answer' = Full
    /\ UNCHANGED map

Contains(k) == answer' = (k \in DOMAIN map) /\ UNCHANGED map

Erase(k) ==
    /\ map' = [q \in DOMAIN map \ {k} |-> map[q]]
    /\ answer' = Void

Clear == map' = [k \in {} |-> Void] /\ answer' = Void

Next ==
    \/ \E k \in Key :
          \/ Get(k) \/ GetConst(k) \/ Contains(k) \/ Erase(k)
          \/ InsertAgain(k) \/ Refuse(k)
          \/ \E v \in Val : Set(k, v) \/ Insert(k, v)
    \/ Clear

Spec == Init /\ [][Next]_vars
==============================================================================
