-------------------------------- MODULE Tree ---------------------------------
(***************************************************************************)
(* haisu::tree (src/haisu/tree.h): every node has a value and owns, in a   *)
(* std::map, the nodes of its leaves.  A path of keys leads from the root  *)
(* to a node, and the non-const operator[] makes the nodes it misses on    *)
(* the way.  Two trees are modelled, because one may be moved into the     *)
(* other.                                                                  *)
(*                                                                         *)
(* A call with one key does what a call with a path of that key does.  The *)
(* constructor does not initialise the value: a node made on the way to    *)
(* another one has the value Junk until the program assigns to it.  The    *)
(* program does not erase the empty path, for which the code would erase a *)
(* key it has never set.                                                   *)
(***************************************************************************)
EXTENDS Integers, Sequences, SequencesExt, FiniteSetsExt, Functions

CONSTANTS TKey,     \* key_type; its order is that of numbers
          TVal,     \* value_type
          Default,  \* value_type()
          Junk,     \* a value nobody has written
          MaxDepth, MaxNodes  \* bounds: keys of a path, nodes of both trees

VARIABLES
    val,    \* _val of every node
    leaves, \* _leaves of every node: key -> node
    paths   \* history: what each tree should hold, path -> value

vars == <<val, leaves, paths>>

Root == {1, 2}              \* the trees of the program
Node == 1 .. MaxNodes + 2   \* and the nodes they own
Path == SeqOf(TKey, MaxDepth)

NoLeaves == [k \in {} |-> 0]

\* The nodes below the nodes of a set, each under one name only: its owner's.
LeavesOf(S) == UNION {Range(leaves[n]) : n \in S}
Below(n) ==
    LET level[i \in 0 .. MaxNodes] ==
            IF i = 0 THEN {n} ELSE LeavesOf(level[i - 1])
    IN  UNION {level[i] : i \in 1 .. MaxNodes}

Free == Node \ (Root \cup Below(1) \cup Below(2))

Init ==
    /\ val = [n \in Node |-> Junk]
    /\ leaves = [n \in Node |-> NoLeaves]
    /\ paths = [t \in Root |-> (<<>> :> Junk)]

-----------------------------------------------------------------------------
(* Walks                                                                   *)

\* find(): the node at the end of the path, or 0.
find(t, p) ==
    LET node[i \in 0 .. Len(p)] ==
            IF i = 0 THEN t
            ELSE IF node[i - 1] = 0 THEN 0
            ELSE IF p[i] \in DOMAIN leaves[node[i - 1]]
                 THEN leaves[node[i - 1]][p[i]]
            ELSE 0
    IN  node[Len(p)]

\* foreach(): the nodes below a node, in the order it visits them, each with
\* its path.
foreach(t) ==
    LET visit[n \in Node, d \in 0 .. MaxNodes] ==
            IF d = 0 THEN <<>>
            ELSE FlattenSeq([i \in 1 .. Cardinality(DOMAIN leaves[n]) |->
                     LET k == SetToSortSeq(DOMAIN leaves[n], <)[i]
                         l == leaves[n][k]
                     IN  <<<<<<k>>, l>>>> \o
                         [j \in DOMAIN visit[l, d - 1] |->
                             <<<<k>> \o visit[l, d - 1][j][1],
                               visit[l, d - 1][j][2]>>]])
    IN  visit[t, MaxNodes]

\* size()
size(t) == Len(foreach(t))

-----------------------------------------------------------------------------
(* The operations                                                          *)

\* child(): one key further, with a new node if there is none.
child(h, k) ==
    LET new == Min(Free \ h.made)
    IN  IF k \in DOMAIN h.leaves[h.at] THEN [h EXCEPT !.at = h.leaves[h.at][k]]
        ELSE [at |-> new, made |-> h.made \cup {new},
              leaves |-> [h.leaves EXCEPT ![h.at] = @ @@ (k :> new)]]

\* operator[], which returns the value for the program to assign to it, or
\* to read it: then the program assigns nothing.
HasRoom(t, p) == Cardinality(Prefixes(p) \ DOMAIN paths[t]) <= Cardinality(Free)
Reached(t, p) ==
    FoldLeft(child, [at |-> t, made |-> {}, leaves |-> leaves], p)
WithPath(t, p) ==
    [q \in DOMAIN paths[t] \cup Prefixes(p) |->
        IF q \in DOMAIN paths[t] THEN paths[t][q] ELSE Junk]

assign(t, p, v) ==
    /\ HasRoom(t, p)
    /\ LET h == Reached(t, p)
       IN  leaves' = h.leaves /\ val' = [val EXCEPT ![h.at] = v]
    /\ paths' = [paths EXCEPT ![t] = [WithPath(t, p) EXCEPT ![p] = v]]

read(t, p) ==
    /\ HasRoom(t, p)
    /\ leaves' = Reached(t, p).leaves
    /\ paths' = [paths EXCEPT ![t] = WithPath(t, p)]
    /\ UNCHANGED val

\* The nodes of a set are destroyed: what their memory holds is forgotten.
Destroyed(f, S, none) == [n \in Node |-> IF n \in S THEN none ELSE f[n]]

Erased(n, k) ==
    LET gone == {leaves[n][k]} \cup Below(leaves[n][k])
    IN  /\ val' = Destroyed(val, gone, Junk)
        /\ leaves' = [Destroyed(leaves, gone, NoLeaves) EXCEPT ![n] =
                          Restrict(@, DOMAIN @ \ {k})]

\* Mutant: erase() stays at the root, as if parent were never advanced.
erase_from_root(t, p) ==
    /\ IF find(t, p) = 0 \/ Last(p) \notin DOMAIN leaves[t]
       THEN UNCHANGED <<val, leaves>> ELSE Erased(t, Last(p))
    /\ paths' = [paths EXCEPT ![t] =
           Restrict(@, {q \in DOMAIN @ : ~IsPrefix(p, q)})]

\* erase(): parent ends one node behind child.
erase(t, p) ==
    /\ IF find(t, p) = 0 THEN UNCHANGED <<val, leaves>>
       ELSE Erased(find(t, Front(p)), Last(p))
    /\ paths' = [paths EXCEPT ![t] =
           Restrict(@, {q \in DOMAIN @ : ~IsPrefix(p, q)})]

clear(t) ==
    /\ leaves' = [Destroyed(leaves, Below(t), NoLeaves) EXCEPT ![t] = NoLeaves]
    /\ val' = [Destroyed(val, Below(t), Junk) EXCEPT ![t] = Default]
    /\ paths' = [paths EXCEPT ![t] = (<<>> :> Default)]

\* The tree is destroyed and another one constructed.
renew(t) ==
    /\ leaves' = [Destroyed(leaves, Below(t), NoLeaves) EXCEPT ![t] = NoLeaves]
    /\ val' = [Destroyed(val, Below(t), Junk) EXCEPT ![t] = Junk]
    /\ paths' = [paths EXCEPT ![t] = (<<>> :> Junk)]

\* operator= (tree&&) of two trees; the move constructor is the same on a new
\* tree.  The value that was moved from stays, for a type like int.
move(t, u) ==
    /\ t # u
    /\ val' = [Destroyed(val, Below(t), Junk) EXCEPT ![t] = val[u]]
    /\ leaves' = [Destroyed(leaves, Below(t), NoLeaves) EXCEPT
                      ![t] = leaves[u], ![u] = NoLeaves]
    /\ paths' = [paths EXCEPT ![t] = paths[u], ![u] = (<<>> :> paths[u][<<>>])]

Next ==
    \/ \E t \in Root, p \in Path :
          \/ \E v \in TVal : assign(t, p, v)
          \/ read(t, p)
          \/ p # <<>> /\ erase(t, p)
    \/ \E t \in Root : clear(t) \/ renew(t)
    \/ \E t, u \in Root : move(t, u)

Spec == Init /\ [][Next]_vars

-----------------------------------------------------------------------------
(* Properties                                                              *)

\* The paths of a set in the order of a walk: a path comes before those it
\* leads to, and the walk takes the keys in their order.
Before(p, q) ==
    \/ IsStrictPrefix(p, q)
    \/ \E i \in DOMAIN p \cap DOMAIN q :
          p[i] < q[i] /\ SubSeq(p, 1, i - 1) = SubSeq(q, 1, i - 1)
Walk(S) == SetToSortSeq(S, Before)

\* Through all insertions, erasures and moves each tree holds the paths it
\* should and no other: every one leads to its value and to a node of its
\* own, and foreach() visits each once, in order.
TreeIsPaths ==
    /\ \A t \in Root :
          /\ \A p \in Path :
                IF p \in DOMAIN paths[t]
                THEN find(t, p) # 0 /\ val[find(t, p)] = paths[t][p]
                ELSE find(t, p) = 0
          /\ LET visited == foreach(t)
             IN  [i \in DOMAIN visited |-> visited[i][1]] =
                    Walk(DOMAIN paths[t] \ {<<>>})
    /\ Cardinality(UNION {{find(t, p) : p \in DOMAIN paths[t]} : t \in Root}) =
          Cardinality(DOMAIN paths[1]) + Cardinality(DOMAIN paths[2])
=============================================================================
