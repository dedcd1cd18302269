----------------------------- MODULE ThreadLocal -----------------------------
(***************************************************************************)
(* What haisu::tls promises: every thread has a cell of its own, empty     *)
(* when the thread starts, and get() returns what this thread put there,   *)
(* whatever the other threads do meanwhile.                                *)
(***************************************************************************)
CONSTANTS Thread,
          Pointer,
          Null,     \* one of the pointers
          NoAnswer  \* not one of them

VARIABLES cell,  \* cell[t]: what thread t last put in its cell
          got    \* got[t]: what its current or last call got out of it

vars == <<cell, got>>

Init ==
    /\ cell = [t \in Thread |-> Null]
    /\ got = [t \in Thread |-> NoAnswer]

\* A call begins, and later answers.
Ask(t) ==
    /\ got' = [got EXCEPT ![t] = NoAnswer]
    /\ UNCHANGED cell

Get(t) ==
    /\ got[t] = NoAnswer
    /\ got' = [got EXCEPT ![t] = cell[t]]
    /\ UNCHANGED cell

Put(t, p) ==
    /\ cell' = [cell EXCEPT ![t] = p]
    /\ UNCHANGED got

\* The thread ends and the operating system gives its id to a new one.
Restart(t) ==
    /\ cell' = [cell EXCEPT ![t] = Null]
    /\ got' = [got EXCEPT ![t] = NoAnswer]

Clear ==
    /\ cell' = [t \in Thread |-> Null]
    /\ UNCHANGED got

Next ==
    \/ \E t \in Thread :
        Ask(t) \/ Get(t) \/ Restart(t) \/ \E p \in Pointer : Put(t, p)
    \/ Clear

Spec == Init /\ [][Next]_vars
==============================================================================
