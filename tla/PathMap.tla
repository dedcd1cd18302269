------------------------------- MODULE PathMap -------------------------------
(***************************************************************************)
(* What metric2::trie promises: values by paths, every prefix of a path    *)
(* among them, and a position that moves down and up along the paths.      *)
(* Every operation refers to one value, which the program reads or changes *)
(* with a function f.  All paths begin with the same key.                  *)
(***************************************************************************)
EXTENDS Integers, Sequences

CONSTANTS Key, Func,
          Path  \* the paths the program spells out

VARIABLES map,       \* map[p]: the value of the path p
          position,  \* a path, or <<>>
          asked,     \* the path of the last call, if it had one
          answer     \* the value it referred to, or whether has() found one, 0 or 1

vars == <<map, position, asked, answer>>

Prefixes(p) == {SubSeq(p, 1, n) : n \in 1 .. Len(p)}

\* The paths of p are there, with a value of 0 if they are new.
Grown(p) == [q \in DOMAIN map \cup Prefixes(p) |-> IF q \in DOMAIN map THEN map[q] ELSE 0]

\* f changes the value of p in m.
Refer(m, p, f) ==
    /\ map' = [m EXCEPT ![p] = f[@]]
    /\ answer' = f[m[p]]

OneRoot(p) == \A q \in DOMAIN map : Head(q) = Head(p)

Init ==
    /\ map = <<>>
    /\ position = <<>>
    /\ asked = <<>> /\ answer = 0

Down(k, f) ==
    /\ asked' = <<>> /\ position' = Append(position, k)
    /\ OneRoot(position')
    /\ Refer(Grown(position'), position', f)

Up(f) ==
    /\ asked' = <<>> /\ position # <<>>
    /\ position' = SubSeq(position, 1, Len(position) - 1)
    /\ Refer(map, position, f)

Get(f) ==
    /\ asked' = <<>> /\ position # <<>>
    /\ Refer(map, position, f)
    /\ UNCHANGED position

At(p, f) ==
    /\ asked' = p /\ p \in DOMAIN map
    /\ Refer(map, p, f)
    /\ UNCHANGED position

Has(p) ==
    /\ asked' = p /\ answer' = IF p \in DOMAIN map THEN 1 ELSE 0
    /\ UNCHANGED <<map, position>>

Create(p, f) ==
    /\ asked' = p /\ map = <<>>
    /\ Refer(Grown(p), p, f)
    /\ UNCHANGED position

Next ==
    \/ \E f \in Func :
          \/ Up(f) \/ Get(f)
          \/ \E k \in Key : Down(k, f)
          \/ \E p \in Path : At(p, f) \/ Create(p, f)
    \/ \E p \in Path : Has(p)

Spec == Init /\ [][Next]_vars
==============================================================================
