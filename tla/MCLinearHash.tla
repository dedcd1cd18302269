---------------------------- MODULE MCLinearHash -----------------------------
(* Keys and threads for the instances of LinearHash that TLC checks. *)
EXTENDS LinearHash, TLC

CONSTANTS t1, t2, t3, k1, k2, k3

\* Every thread has a key of its own.
OwnKeys == t1 :> {k1} @@ t2 :> {k2} @@ t3 :> {k3}

\* k1 and k3 race for the last slot, and the loser goes on at the first one;
\* k2, the key that is erased, is on nobody's way.
Wrapping == [k \in Key |-> IF k = k2 THEN 1 ELSE 5]
==============================================================================
