----------------------------- MODULE MetricTrie ------------------------------
(***************************************************************************)
(* haisu::metric2::trie<K, V> (src/haisu/metric2.h): nodes that point to   *)
(* their parent, their first child and their next sibling, and a cursor.   *)
(*                                                                         *)
(* The operations return a reference to a value; f is what the program     *)
(* does with it.  The program does what the assertions ask of it: it does  *)
(* not go up from nowhere, at() has a path that is there, all paths begin  *)
(* with the same key, and create() is for an empty trie.                   *)
(***************************************************************************)
EXTENDS Integers, Sequences, SequencesExt

CONSTANTS Key,
          Func,     \* functions of values
          Path,     \* the paths given to at(), has() and create()
          MaxNodes  \* bound: no more nodes than this

VARIABLES
    nodes,   \* the nodes, in the order the pool constructed them
    root,
    cursor,
    asked,   \* history: the path of the last call, if it had one
    answer   \* the value it referred to, or what has() returned, 0 or 1

trie == <<nodes, root, cursor>>
vars == <<nodes, root, cursor, asked, answer>>

null == 0
Node == DOMAIN nodes

\* Type invariant.
TypeOK ==
    /\ Len(nodes) <= MaxNodes
    /\ root \in Node \cup {null} /\ cursor \in Node \cup {null}
    /\ \A n \in Node :
          /\ {nodes[n].parent, nodes[n].child, nodes[n].sibling} \subseteq Node \cup {null}
          /\ nodes[n].key \in Key
          /\ nodes[n].value \in UNION {DOMAIN f : f \in Func}

Init ==
    /\ nodes = <<>>
    /\ root = null
    /\ cursor = null
    /\ asked = <<>> /\ answer = 0

-----------------------------------------------------------------------------
(* The nodes s of a trie                                                   *)

new_node(k, parent) ==
    [parent |-> parent, child |-> null, sibling |-> null, key |-> k, value |-> 0]

\* The child of p with the key k, or the last one, after which it belongs.
guess_child(s, p, k) ==
    LET guess[c \in DOMAIN s] ==
            IF s[c].key = k \/ s[c].sibling = null THEN c ELSE guess[s[c].sibling]
    IN  guess[s[p].child]

\* null if there is none.
find_child(s, p, k) ==
    IF s[p].child # null /\ s[guess_child(s, p, k)].key = k
    THEN guess_child(s, p, k)
    ELSE null

\* Mutant: the node that is found becomes the parent of its new sibling.
add_child_below(s, p, k) ==
    IF find_child(s, p, k) # null THEN s
    ELSE IF s[p].child = null
         THEN Append([s EXCEPT ![p].child = Len(s) + 1], new_node(k, p))
         ELSE Append([s EXCEPT ![guess_child(s, p, k)].sibling = Len(s) + 1],
                     new_node(k, guess_child(s, p, k)))

\* p has a child with the key k.
add_child(s, p, k) ==
    IF find_child(s, p, k) # null THEN s
    ELSE IF s[p].child = null
         THEN Append([s EXCEPT ![p].child = Len(s) + 1], new_node(k, p))
         ELSE Append([s EXCEPT ![guess_child(s, p, k)].sibling = Len(s) + 1],
                     new_node(k, s[guess_child(s, p, k)].parent))

\* Mutant: the key of the root is not looked at.
get_child_of_root(p, k) ==
    IF p # null THEN find_child(nodes, p, k) ELSE root

get_child(p, k) ==
    IF p # null THEN find_child(nodes, p, k)
    ELSE IF root # null /\ nodes[root].key = k THEN root ELSE null

\* The node of a path, or null if a part of it is missing.
NodeOf(path) ==
    LET walk[i \in 0 .. Len(path)] ==
            IF i = 0 THEN null
            ELSE IF i > 1 /\ walk[i - 1] = null THEN null
                 ELSE get_child(walk[i - 1], path[i])
    IN  walk[Len(path)]

\* The nodes of an empty trie with one path.
Chain(path) ==
    [i \in DOMAIN path |->
        [new_node(path[i], i - 1) EXCEPT !.child = IF i < Len(path) THEN i + 1 ELSE null]]

-----------------------------------------------------------------------------
(* The operations                                                          *)

\* The program changes the value of n, which a path or the cursor led to.
Refer(s, n, f, path) ==
    /\ nodes' = [s EXCEPT ![n].value = f[@]]
    /\ asked' = path /\ answer' = f[s[n].value]

\* The assertion of down(): there is one key at the top.
MayGoDown(k) == cursor = null /\ root # null => nodes[root].key = k

HasRoom == Len(nodes) < MaxNodes

up(f) ==
    /\ cursor # null
    /\ Refer(nodes, cursor, f, <<>>)
    /\ cursor' = nodes[cursor].parent
    /\ UNCHANGED root

down(k, f) ==
    /\ MayGoDown(k)
    /\ \/ /\ cursor # null
          /\ LET s == add_child(nodes, cursor, k)
                 n == find_child(s, cursor, k)
             IN  /\ s # nodes => HasRoom
                 /\ Refer(s, n, f, <<>>)
                 /\ cursor' = n
          /\ UNCHANGED root
       \/ /\ cursor = null /\ root # null
          /\ Refer(nodes, root, f, <<>>)
          /\ cursor' = root
          /\ UNCHANGED root
       \/ /\ cursor = null /\ root = null
          /\ HasRoom
          /\ Refer(<<new_node(k, null)>>, 1, f, <<>>)
          /\ root' = 1 /\ cursor' = 1

get(f) == cursor # null /\ Refer(nodes, cursor, f, <<>>) /\ UNCHANGED <<root, cursor>>

at(path, f) ==
    /\ NodeOf(path) # null
    /\ Refer(nodes, NodeOf(path), f, path)
    /\ UNCHANGED <<root, cursor>>

has(path) ==
    /\ asked' = path /\ answer' = IF NodeOf(path) # null THEN 1 ELSE 0
    /\ UNCHANGED trie

\* create() leaves the cursor where it is.
create(path, f) ==
    /\ root = null
    /\ Len(path) <= MaxNodes
    /\ Refer(Chain(path), Len(path), f, path)
    /\ root' = 1
    /\ UNCHANGED cursor

Next ==
    \/ \E f \in Func :
          \/ up(f) \/ get(f)
          \/ \E k \in Key : down(k, f)
          \/ \E p \in Path : at(p, f) \/ create(p, f)
    \/ \E p \in Path : has(p)

Spec == Init /\ [][Next]_vars

-----------------------------------------------------------------------------
(* Properties                                                              *)

\* The keys from the root to the node n, by the parents.
PathTo(n) ==
    LET path[i \in Node \cup {null}] ==
            IF i = null THEN <<>> ELSE Append(path[nodes[i].parent], nodes[i].key)
    IN  path[n]

\* foreach(): the nodes in the order they are visited, after their children
\* and their later siblings.
Visited ==
    LET after[n \in Node \cup {null}] ==
            IF n = null THEN <<>>
            ELSE after[nodes[n].child] \o after[nodes[n].sibling] \o <<n>>
    IN  after[root]

\* The two ways through the trie agree: going up from a node by its parents
\* and down again by children and siblings leads to the same node, and
\* foreach() visits every node once.  The trie never loses a node, and never
\* has two for a path.
UpAndDownAgree ==
    /\ TypeOK
    /\ \A n \in Node : NodeOf(PathTo(n)) = n
    /\ Len(Visited) = Len(nodes) /\ ToSet(Visited) = Node

\* The trie is a map of paths, and the cursor a path in it.
ValuesByPath == [p \in {PathTo(n) : n \in Node} |-> nodes[NodeOf(p)].value]
Position == PathTo(cursor)

M == INSTANCE PathMap WITH map <- ValuesByPath, position <- Position

ImplementsPathMap == M!Spec
==============================================================================
