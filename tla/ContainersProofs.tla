-------------------------- MODULE ContainersProofs ---------------------------
(***************************************************************************)
(* For any number of anys and resources, a small_any gives the object it   *)
(* should and loses and destroys none twice; for any hash function and     *)
(* size, mono::hash is a map; for any capacities, items and words, a       *)
(* mono::overflow_stack keeps what it has room for and compares as its     *)
(* items do, and every stack of flags has the last flag at its top; and    *)
(* for any characters and size, a mono::string holds and searches its      *)
(* text.                                                                   *)
(***************************************************************************)
EXTENDS Containers, SequenceTheorems, FunctionTheorems, FiniteSetTheorems,
        WellFoundedInduction, TLAPS

-----------------------------------------------------------------------------
(* small_any: the functions an any holds are those of the object alive in  *)
(* it, and the counts of the resources are those of the anys.              *)

Obj == Resource \cup {Null, Number, NoObject}
Owners(f, r) == {a \in Any : f[a] = r}

\* The numbers c count the owners that anys with the objects f are.
Counts(c, f) ==
    \A r \in Resource :
        IsFiniteSet(Owners(f, r)) /\ c[r] = Cardinality(Owners(f, r))

\* The anys with the objects f hold the functions of their types.
Typed(v, f) == v = [a \in Any |-> A!TypeOf(f[a])]

AnyInv ==
    /\ a_held \in [Any -> Obj]
    /\ a_object = a_held
    /\ Typed(a_vtable, a_held)
    /\ a_wild = FALSE
    /\ a_count \in [Resource -> Int]
    /\ Counts(a_count, a_held)

LEMMA AnyInit == ContainersInit => AnyInv
<1> SUFFICES ASSUME ContainersInit PROVE AnyInv
  OBVIOUS
<1>1. /\ a_vtable = [a \in Any |-> "void"] /\ a_object = [a \in Any |-> NoObject]
      /\ a_count = [r \in Resource |-> 0] /\ a_held = [a \in Any |-> NoObject]
      /\ a_wild = FALSE
  BY DEF ContainersInit, A!Init
<1>2. ASSUME NEW r \in Resource
      PROVE  IsFiniteSet(Owners(a_held, r)) /\ a_count[r] = Cardinality(Owners(a_held, r))
  <2>1. Owners(a_held, r) = {}
    BY <1>1, ObjectAssumption DEF Owners
  <2>2. QED
    BY <1>1, <2>1, FS_EmptySet
<1>3. Typed(a_vtable, a_held)
  BY <1>1 DEF Typed, A!TypeOf
<1>4. a_held \in [Any -> Obj] /\ a_count \in [Resource -> Int]
  BY <1>1 DEF Obj
<1>5. QED
  BY <1>1, <1>2, <1>3, <1>4 DEF AnyInv, Counts

\* A new object in one any: its owners are counted, and those of the object
\* that was there.
LEMMA Recount ==
    ASSUME NEW c \in [Resource -> Int], NEW f \in [Any -> Obj], Counts(c, f),
           NEW a \in Any, NEW o \in Obj
    PROVE  LET d == A!Counted(A!Counted(c, f[a], -1), o, 1)
           IN  d \in [Resource -> Int] /\ Counts(d, [f EXCEPT ![a] = o])
<1> DEFINE b == A!Counted(c, f[a], -1)
           d == A!Counted(b, o, 1)
           g == [f EXCEPT ![a] = o]
<1>1. /\ b \in [Resource -> Int]
      /\ \A r \in Resource : b[r] = IF f[a] = r THEN c[r] - 1 ELSE c[r]
  BY DEF A!Counted
<1> HIDE DEF b
<1>2. /\ d \in [Resource -> Int]
      /\ \A r \in Resource : d[r] = IF o = r THEN b[r] + 1 ELSE b[r]
  BY <1>1 DEF A!Counted
<1>3. ASSUME NEW r \in Resource
      PROVE  IsFiniteSet(Owners(g, r)) /\ d[r] = Cardinality(Owners(g, r))
  <2>1. /\ IsFiniteSet(Owners(f, r)) /\ c[r] = Cardinality(Owners(f, r))
        /\ a \in Owners(f, r) <=> f[a] = r
    BY DEF Counts, Owners
  <2>2. /\ IsFiniteSet(Owners(f, r) \ {a}) /\ a \notin Owners(f, r) \ {a}
        /\ b[r] = Cardinality(Owners(f, r) \ {a})
    BY <1>1, <2>1, FS_RemoveElement, FS_CardinalityType
  <2>3. Owners(g, r) = IF o = r THEN (Owners(f, r) \ {a}) \cup {a}
                       ELSE Owners(f, r) \ {a}
    BY DEF Owners
  <2>4. /\ IsFiniteSet((Owners(f, r) \ {a}) \cup {a})
        /\ Cardinality((Owners(f, r) \ {a}) \cup {a}) = Cardinality(Owners(f, r) \ {a}) + 1
    BY <2>2, FS_AddElement
  <2>5. CASE o = r
    BY <1>2, <2>2, <2>3, <2>4, <2>5
  <2>6. CASE o # r
    BY <1>2, <2>2, <2>3, <2>6
  <2>7. QED
    BY <2>5, <2>6
<1>4. d \in [Resource -> Int] /\ Counts(d, g)
  BY <1>2, <1>3 DEF Counts
<1>5. QED
  BY <1>4 DEF b

\* The step that leaves an any with the object o, whatever it had.
LEMMA AnyPut ==
    ASSUME AnyInv, NEW a \in Any, NEW o \in Obj,
           a_object' = [a_object EXCEPT ![a] = o],
           a_held' = [a_held EXCEPT ![a] = o],
           a_vtable' = [a_vtable EXCEPT ![a] = A!TypeOf(o)],
           a_count' = A!Counted(A!Counted(a_count, a_held[a], -1), o, 1),
           a_wild' = a_wild
    PROVE  AnyInv'
<1>1. /\ a_held \in [Any -> Obj] /\ a_object = a_held
      /\ Typed(a_vtable, a_held)
      /\ a_count \in [Resource -> Int] /\ Counts(a_count, a_held)
  BY DEF AnyInv
<1>2. a_count' \in [Resource -> Int] /\ Counts(a_count', a_held')
  BY <1>1, Recount
<1>3. a_held' \in [Any -> Obj] /\ a_object' = a_held'
  BY <1>1
<1>4. Typed(a_vtable', a_held')
  BY <1>1 DEF Typed
<1>5. Counts(a_count, a_held)' /\ Typed(a_vtable, a_held)'
  BY <1>2, <1>4 DEF Counts, Owners, Typed, A!TypeOf
<1>6. QED
  BY <1>2, <1>3, <1>5 DEF AnyInv

\* The step that exchanges the objects of two anys.
LEMMA AnyPutTwo ==
    ASSUME AnyInv, NEW a \in Any, NEW b \in Any, a # b, NEW o \in Obj, NEW p \in Obj,
           a_object' = [a_object EXCEPT ![a] = o, ![b] = p],
           a_held' = [a_held EXCEPT ![a] = o, ![b] = p],
           a_vtable' = [a_vtable EXCEPT ![a] = A!TypeOf(o), ![b] = A!TypeOf(p)],
           a_count' = A!Counted(A!Counted(A!Counted(A!Counted(a_count,
                          a_held[a], -1), o, 1), a_held[b], -1), p, 1),
           a_wild' = a_wild
    PROVE  AnyInv'
<1> DEFINE c == A!Counted(A!Counted(a_count, a_held[a], -1), o, 1)
           f == [a_held EXCEPT ![a] = o]
<1>1. /\ a_held \in [Any -> Obj] /\ a_object = a_held
      /\ Typed(a_vtable, a_held)
      /\ a_count \in [Resource -> Int] /\ Counts(a_count, a_held)
  BY DEF AnyInv
<1>2. c \in [Resource -> Int] /\ Counts(c, f)
  BY <1>1, Recount
<1>3. f \in [Any -> Obj] /\ f[b] = a_held[b] /\ a_held' = [f EXCEPT ![b] = p]
  BY <1>1
<1>4. a_count' = A!Counted(A!Counted(c, f[b], -1), p, 1)
  BY <1>3
<1> HIDE DEF c, f
<1>5. a_count' \in [Resource -> Int] /\ Counts(a_count', a_held')
  <2>1. /\ A!Counted(A!Counted(c, f[b], -1), p, 1) \in [Resource -> Int]
        /\ Counts(A!Counted(A!Counted(c, f[b], -1), p, 1), [f EXCEPT ![b] = p])
    BY <1>2, <1>3, Recount
  <2>2. QED
    BY <1>3, <1>4, <2>1
<1>6. a_held' \in [Any -> Obj] /\ a_object' = a_held'
  BY <1>1
<1>7. Typed(a_vtable', a_held')
  BY <1>1 DEF Typed
<1>8. Counts(a_count, a_held)' /\ Typed(a_vtable, a_held)'
  BY <1>5, <1>7 DEF Counts, Owners, Typed, A!TypeOf
<1>9. QED
  BY <1>5, <1>6, <1>8 DEF AnyInv

LEMMA Types ==
    ASSUME NEW o \in Obj
    PROVE  /\ A!TypeOf(o) \in {"void", "number", "shared"}
           /\ o \in Resource => A!TypeOf(o) = "shared"
           /\ A!TypeOf(o) = "void" <=> o = NoObject
           /\ A!TypeOf(NoObject) = "void"
           /\ A!MovedFrom(o) \in Obj \ Resource
           /\ A!TypeOf(A!MovedFrom(o)) = A!TypeOf(o)
BY ObjectAssumption DEF Obj, A!TypeOf, A!MovedFrom

LEMMA Uncounted ==
    ASSUME NEW c, NEW o, o \notin Resource, NEW d
    PROVE  A!Counted(c, o, d) = c
BY DEF A!Counted

\* What the functions of a vtable leave in the memory.
Mem(g, c) == [object |-> g, count |-> c, wild |-> a_wild]

LEMMA MemIs ==
    ASSUME NEW g, NEW c
    PROVE  /\ Mem(g, c).object = g /\ Mem(g, c).count = c /\ Mem(g, c).wild = a_wild
           /\ A!Becomes(Mem(g, c)) <=> a_object' = g /\ a_count' = c /\ a_wild' = a_wild
BY DEF Mem, A!Becomes

LEMMA MemoryIs == A!Memory = Mem(a_object, a_count)
BY DEF A!Memory, Mem

-----------------------------------------------------------------------------
(* The functions of a vtable do what they should to the object they are    *)
(* for.                                                                    *)

\* The memory and the counts when the object of a is gone.
Gone(a) == [a_object EXCEPT ![a] = NoObject]
CountGone(a) == A!Counted(a_count, a_object[a], -1)

LEMMA Destroyed ==
    ASSUME AnyInv, NEW a \in Any, NEW type,
           type = a_vtable[a] \/ (type # "shared" /\ a_object[a] \notin Resource)
    PROVE  A!destroy(A!Memory, type, a) = Mem(Gone(a), CountGone(a))
<1>1. /\ a_object[a] \in Obj /\ a_vtable[a] = A!TypeOf(a_object[a])
  BY DEF AnyInv, Typed
<1>2. CASE type = "shared"
  <2>1. (a_wild \/ A!TypeOf(a_object[a]) # "shared") = a_wild
    BY <1>1, <1>2 DEF AnyInv
  <2>2. A!destroy(A!Memory, type, a) =
           [object |-> Gone(a), count |-> CountGone(a),
            wild |-> a_wild \/ A!TypeOf(a_object[a]) # "shared"]
    BY <1>2 DEF A!destroy, A!Memory, Gone, CountGone
  <2>3. QED
    BY <2>1, <2>2 DEF Mem
<1>3. CASE type # "shared"
  <2>1. a_object[a] \notin Resource
    BY <1>1, <1>3, Types
  <2>2. CountGone(a) = a_count
    BY <2>1, Uncounted DEF CountGone
  <2>3. A!destroy(A!Memory, type, a) = [A!Memory EXCEPT !.object[a] = NoObject]
    BY <1>3 DEF A!destroy
  <2>4. [Mem(a_object, a_count) EXCEPT !.object[a] = NoObject] =
           Mem([a_object EXCEPT ![a] = NoObject], a_count)
    BY DEF Mem
  <2>5. QED
    BY <2>2, <2>3, <2>4, MemoryIs DEF Gone
<1>4. QED
  BY <1>2, <1>3

LEMMA Copied ==
    ASSUME AnyInv, NEW a \in Any, NEW b \in Any, a # b, NEW c
    PROVE  A!copy(Mem(Gone(a), c), a_vtable[b], b, a) =
              Mem([a_object EXCEPT ![a] = a_object[b]], A!Counted(c, a_object[b], 1))
<1> DEFINE m == Mem(Gone(a), c)
<1>1. /\ a_object \in [Any -> Obj] /\ a_object[b] \in Obj
      /\ a_vtable[b] = A!TypeOf(a_object[b])
  BY DEF AnyInv, Typed
<1>2. m.object = Gone(a) /\ m.object[b] = a_object[b] /\ m.count = c /\ m.wild = a_wild
  <2>1. Gone(a)[b] = a_object[b]
    BY <1>1 DEF Gone
  <2>2. QED
    BY <2>1, MemIs
<1>3. [Gone(a) EXCEPT ![a] = a_object[b]] = [a_object EXCEPT ![a] = a_object[b]]
  BY <1>1 DEF Gone
<1>4. CASE a_vtable[b] = "void"
  <2>1. a_object[b] = NoObject
    BY <1>1, <1>4, Types
  <2>2. A!Counted(c, a_object[b], 1) = c
    BY <2>1, Uncounted, ObjectAssumption
  <2>3. QED
    BY <1>4, <2>1, <2>2 DEF A!copy, Gone
<1>5. CASE a_vtable[b] # "void"
  <2> HIDE DEF m
  <2>1. A!copy(m, a_vtable[b], b, a) =
           [object |-> [m.object EXCEPT ![a] = m.object[b]],
            count |-> A!Counted(m.count, m.object[b], 1),
            wild |-> m.wild \/ A!TypeOf(m.object[b]) # a_vtable[b]]
    BY <1>5 DEF A!copy
  <2>2. (m.wild \/ A!TypeOf(m.object[b]) # a_vtable[b]) = a_wild
    <3>1. A!TypeOf(m.object[b]) = a_vtable[b] /\ m.wild = FALSE /\ a_wild = FALSE
      BY <1>1, <1>2 DEF AnyInv
    <3>2. QED
      BY <3>1
  <2>3. QED
    BY <1>2, <1>3, <2>1, <2>2 DEF m, Mem
<1>6. QED
  BY <1>4, <1>5

LEMMA Moved ==
    ASSUME AnyInv, NEW a \in Any, NEW b \in Any, a # b, NEW c
    PROVE  A!move(Mem(Gone(a), c), a_vtable[b], b, a) =
              Mem([a_object EXCEPT ![a] = a_object[b], ![b] = A!MovedFrom(a_object[b])],
                  c)
<1> DEFINE m == Mem(Gone(a), c)
           f == [a_object EXCEPT ![a] = a_object[b], ![b] = A!MovedFrom(a_object[b])]
<1>1. /\ a_object \in [Any -> Obj] /\ a_object[b] \in Obj
      /\ a_vtable[b] = A!TypeOf(a_object[b])
  BY DEF AnyInv, Typed
<1>2. m.object = Gone(a) /\ m.object[b] = a_object[b] /\ m.count = c /\ m.wild = a_wild
  <2>1. Gone(a)[b] = a_object[b]
    BY <1>1 DEF Gone
  <2>2. QED
    BY <2>1, MemIs
<1>3. CASE a_vtable[b] = "void"
  <2>1. a_object[b] = NoObject /\ A!MovedFrom(a_object[b]) = NoObject
    BY <1>1, <1>3, Types, ObjectAssumption DEF A!MovedFrom
  <2>2. f = Gone(a)
    BY <1>1, <2>1 DEF Gone
  <2>3. A!move(m, a_vtable[b], b, a) = m
    BY <1>3 DEF A!move
  <2>4. QED
    BY <2>2, <2>3
<1>4. CASE a_vtable[b] # "void"
  <2>1. [m.object EXCEPT ![b] = A!MovedFrom(@), ![a] = m.object[b]] = f
    BY <1>1, <1>2 DEF Gone
  <2>2. (m.wild \/ A!TypeOf(m.object[b]) # a_vtable[b]) = a_wild
    <3>1. A!TypeOf(m.object[b]) = a_vtable[b] /\ m.wild = FALSE /\ a_wild = FALSE
      BY <1>1, <1>2 DEF AnyInv
    <3>2. QED
      BY <3>1
  <2> HIDE DEF m
  <2>3. A!move(m, a_vtable[b], b, a) =
           [object |-> [m.object EXCEPT ![b] = A!MovedFrom(@), ![a] = m.object[b]],
            count |-> m.count,
            wild |-> m.wild \/ A!TypeOf(m.object[b]) # a_vtable[b]]
    BY <1>4 DEF A!move
  <2>4. QED
    BY <1>2, <2>1, <2>2, <2>3 DEF m, Mem
<1>5. QED
  BY <1>3, <1>4

-----------------------------------------------------------------------------
(* The operations of small_any preserve the invariant.                     *)

LEMMA ResetInv ==
    ASSUME AnyInv, NEW a \in Any, NEW o \in Resource \cup {Null, Number}, A!reset(a, o)
    PROVE  AnyInv'
<1> DEFINE m == Mem(Gone(a), CountGone(a))
           d == A!Counted(CountGone(a), o, 1)
<1>1. A!destroy(A!Memory, a_vtable[a], a) = m /\ m.count = CountGone(a)
  BY Destroyed, MemIs
<1>2. A!Becomes([m EXCEPT !.object[a] = o, !.count = A!Counted(@, o, 1)])
  BY <1>1 DEF A!reset
<1>3. A!Becomes([m EXCEPT !.object[a] = o, !.count = d])
  BY <1>1, <1>2
<1>4. A!Becomes(Mem([Gone(a) EXCEPT ![a] = o], d))
  <2> DEFINE g == [Gone(a) EXCEPT ![a] = o]
  <2>1. [m EXCEPT !.object[a] = o, !.count = d] =
           [[m EXCEPT !.object[a] = o] EXCEPT !.count = d]
    OBVIOUS
  <2>2. [m EXCEPT !.object[a] = o] = Mem(g, CountGone(a))
    BY DEF Mem
  <2>3. [Mem(g, CountGone(a)) EXCEPT !.count = d] = Mem(g, d)
    BY DEF Mem
  <2> HIDE DEF m, g
  <2>4. A!Becomes(Mem(g, d))
    BY <1>3, <2>1, <2>2, <2>3
  <2>5. QED
    BY <2>4 DEF g
<1>5. a_object' = [Gone(a) EXCEPT ![a] = o] /\ a_count' = d /\ a_wild' = a_wild
  BY <1>4, MemIs
<1>6. a_object = a_held /\ a_object \in [Any -> Obj] /\ o \in Obj
  BY DEF AnyInv, Obj
<1>7. a_object' = [a_object EXCEPT ![a] = o]
  BY <1>5, <1>6 DEF Gone
<1>8. QED
  BY <1>5, <1>6, <1>7, AnyPut DEF A!reset, CountGone

LEMMA ClearInv ==
    ASSUME AnyInv, NEW a \in Any, A!clear(a)
    PROVE  AnyInv'
<1>1. A!Becomes(Mem(Gone(a), CountGone(a)))
  BY Destroyed DEF A!clear
<1>2. a_object' = Gone(a) /\ a_count' = CountGone(a) /\ a_wild' = a_wild
  BY <1>1, MemIs
<1>3. a_object = a_held /\ NoObject \in Obj /\ A!TypeOf(NoObject) = "void"
  BY DEF AnyInv, Obj, A!TypeOf
<1>4. A!Counted(CountGone(a), NoObject, 1) = CountGone(a)
  BY Uncounted, ObjectAssumption
<1>5. QED
  BY <1>2, <1>3, <1>4, AnyPut DEF A!clear, Gone, CountGone

\* The copies, by construction and by assignment.
LEMMA CopyInv ==
    ASSUME AnyInv, NEW a \in Any, NEW b \in Any,
           A!construct_copy(a, b) \/ A!assign_copy(a, b)
    PROVE  AnyInv'
<1> DEFINE c == A!Counted(CountGone(a), a_object[b], 1)
<1>1. /\ a # b
      /\ a_vtable' = [a_vtable EXCEPT ![a] = a_vtable[b]]
      /\ a_held' = [a_held EXCEPT ![a] = a_held[b]]
  BY DEF A!construct_copy, A!assign_copy, A!CopyAssignable
<1>2. A!Becomes(A!copy(Mem(Gone(a), CountGone(a)), a_vtable[b], b, a))
  <2>1. CASE A!construct_copy(a, b)
    BY <2>1, Destroyed DEF A!construct_copy
  <2>2. CASE A!assign_copy(a, b)
    <3>1. a_vtable[b] = a_vtable[a] \/ (a_vtable[b] # "shared" /\ a_object[a] \notin Resource)
      BY <2>2 DEF A!assign_copy, A!CopyAssignable
    <3>2. QED
      BY <2>2, <3>1, Destroyed DEF A!assign_copy
  <2>3. QED
    BY <2>1, <2>2
<1>3. A!Becomes(Mem([a_object EXCEPT ![a] = a_object[b]], c))
  BY <1>1, <1>2, Copied
<1>4. a_object' = [a_object EXCEPT ![a] = a_object[b]] /\ a_count' = c /\ a_wild' = a_wild
  BY <1>3, MemIs
<1>5. a_object = a_held /\ a_held[b] \in Obj /\ a_vtable[b] = A!TypeOf(a_held[b])
  BY DEF AnyInv, Typed
<1>6. QED
  BY <1>1, <1>4, <1>5, AnyPut DEF CountGone

\* A counted owner that is not there any more is as if it had not been.
LEMMA CountedTwice ==
    ASSUME NEW c \in [Resource -> Int], NEW o
    PROVE  /\ A!Counted(A!Counted(c, o, 1), o, -1) = c
           /\ A!Counted(A!Counted(c, o, -1), o, 1) = c
<1>1. CASE o \in Resource
  <2>1. c[o] + 1 + -1 = c[o] /\ c[o] + -1 + 1 = c[o]
    BY <1>1
  <2>2. /\ [[c EXCEPT ![o] = @ + 1] EXCEPT ![o] = @ + -1] = [c EXCEPT ![o] = c[o] + 1 + -1]
        /\ [[c EXCEPT ![o] = @ + -1] EXCEPT ![o] = @ + 1] = [c EXCEPT ![o] = c[o] + -1 + 1]
    BY <1>1
  <2>3. QED
    BY <1>1, <2>1, <2>2 DEF A!Counted
<1>2. CASE o \notin Resource
  BY <1>2 DEF A!Counted
<1>3. QED
  BY <1>1, <1>2

LEMMA CountGoneType ==
    ASSUME AnyInv, NEW a \in Any
    PROVE  CountGone(a) \in [Resource -> Int]
BY DEF AnyInv, CountGone, A!Counted

\* The moves, by construction and by assignment.
LEMMA MoveInv ==
    ASSUME AnyInv, NEW a \in Any, NEW b \in Any,
           A!construct_move(a, b) \/ A!assign_move(a, b)
    PROVE  AnyInv'
<1> DEFINE c == CountGone(a)
           o == a_object[b]
           p == A!MovedFrom(a_object[b])
<1>1. a # b /\ A!Becomes(A!move(Mem(Gone(a), c), a_vtable[b], b, a))
  <2>1. CASE A!construct_move(a, b)
    BY <2>1, Destroyed DEF A!construct_move
  <2>2. CASE A!assign_move(a, b)
    <3>1. /\ a # b /\ a_object[a] \notin Resource
          /\ A!Becomes(A!move([A!Memory EXCEPT !.object[a] = NoObject], a_vtable[b], b, a))
      BY <2>2 DEF A!assign_move, A!MoveAssignable
    <3>2. c = a_count
      BY <3>1, Uncounted DEF CountGone
    <3>3. [Mem(a_object, a_count) EXCEPT !.object[a] = NoObject] =
             Mem([a_object EXCEPT ![a] = NoObject], a_count)
      BY DEF Mem
    <3>4. QED
      BY <3>1, <3>2, <3>3, MemoryIs DEF Gone
  <2>3. QED
    BY <2>1, <2>2
<1>2. /\ a_vtable' = [a_vtable EXCEPT ![a] = a_vtable[b]]
      /\ a_held' = [a_held EXCEPT ![a] = a_held[b], ![b] = A!MovedFrom(a_held[b])]
  BY DEF A!construct_move, A!assign_move
<1>3. A!Becomes(Mem([a_object EXCEPT ![a] = o, ![b] = p], c))
  BY <1>1, Moved
<1>4. a_object' = [a_object EXCEPT ![a] = o, ![b] = p] /\ a_count' = c /\ a_wild' = a_wild
  BY <1>3, MemIs
<1>5. /\ a_object = a_held
      /\ a_vtable = [x \in Any |-> A!TypeOf(a_object[x])]
      /\ a_object \in [Any -> Obj]
  BY DEF AnyInv, Typed
<1>6. o \in Obj /\ p \in Obj \ Resource /\ A!TypeOf(p) = A!TypeOf(o)
  BY <1>5, Types
<1>7. a_vtable' = [a_vtable EXCEPT ![a] = A!TypeOf(o), ![b] = A!TypeOf(p)]
  <2>1. a_vtable[b] = A!TypeOf(o)
    BY <1>5
  <2>2. [a_vtable EXCEPT ![a] = A!TypeOf(o), ![b] = A!TypeOf(o)] =
           [a_vtable EXCEPT ![a] = A!TypeOf(o)]
    BY <1>1, <1>5
  <2>3. QED
    BY <1>2, <1>6, <2>1, <2>2
<1>8. A!Counted(A!Counted(A!Counted(c, o, 1), o, -1), p, 1) = c
  BY <1>6, CountedTwice, CountGoneType, Uncounted
<1> HIDE DEF o, p
<1>9. QED
  BY <1>1, <1>2, <1>4, <1>5, <1>6, <1>7, <1>8, AnyPutTwo DEF o, p, CountGone

LEMMA SwapInv ==
    ASSUME AnyInv, NEW a \in Any, NEW b \in Any, A!swap(a, b)
    PROVE  AnyInv'
<1> DEFINE o == a_object[b]
           p == a_object[a]
           m2 == A!move([[A!Memory EXCEPT !.object[b] = A!MovedFrom(o)]
                            EXCEPT !.object[b] = NoObject], a_vtable[a], a, b)
<1>1. /\ a # b
      /\ A!Becomes([m2 EXCEPT !.object[a] = o])
      /\ a_vtable' = [a_vtable EXCEPT ![a] = a_vtable[b], ![b] = a_vtable[a]]
      /\ a_held' = [a_held EXCEPT ![a] = a_held[b], ![b] = a_held[a]]
  BY DEF A!swap, A!Memory
<1>2. /\ a_object = a_held
      /\ a_vtable = [x \in Any |-> A!TypeOf(a_object[x])]
      /\ a_object \in [Any -> Obj] /\ a_count \in [Resource -> Int]
  BY DEF AnyInv, Typed
<1>3. [[A!Memory EXCEPT !.object[b] = A!MovedFrom(o)] EXCEPT !.object[b] = NoObject]
         = Mem(Gone(b), a_count)
  <2>1. [Mem(a_object, a_count) EXCEPT !.object[b] = A!MovedFrom(o)] =
           Mem([a_object EXCEPT ![b] = A!MovedFrom(o)], a_count)
    BY DEF Mem
  <2>2. [Mem([a_object EXCEPT ![b] = A!MovedFrom(o)], a_count) EXCEPT !.object[b] = NoObject]
           = Mem([[a_object EXCEPT ![b] = A!MovedFrom(o)] EXCEPT ![b] = NoObject], a_count)
    BY DEF Mem
  <2>3. [[a_object EXCEPT ![b] = A!MovedFrom(o)] EXCEPT ![b] = NoObject] = Gone(b)
    BY <1>2 DEF Gone
  <2>4. QED
    BY <2>1, <2>2, <2>3, MemoryIs
<1> DEFINE f == [a_object EXCEPT ![b] = p, ![a] = A!MovedFrom(p)]
<1>4. m2 = Mem(f, a_count)
  BY <1>1, <1>3, Moved
<1> HIDE DEF m2
<1>5. [m2 EXCEPT !.object[a] = o] = Mem([f EXCEPT ![a] = o], a_count)
  BY <1>4 DEF Mem
<1>6. [f EXCEPT ![a] = o] = [a_object EXCEPT ![a] = o, ![b] = p]
  BY <1>1, <1>2
<1>7. /\ a_object' = [a_object EXCEPT ![a] = o, ![b] = p]
      /\ a_count' = a_count /\ a_wild' = a_wild
  BY <1>1, <1>5, <1>6, MemIs
<1>8. a_vtable' = [a_vtable EXCEPT ![a] = A!TypeOf(o), ![b] = A!TypeOf(p)]
  BY <1>1, <1>2
<1>9. A!Counted(A!Counted(A!Counted(A!Counted(a_count, p, -1), o, 1), o, -1), p, 1) = a_count
  <2>1. A!Counted(a_count, p, -1) \in [Resource -> Int]
    BY <1>2 DEF A!Counted
  <2>2. QED
    BY <1>2, <2>1, CountedTwice
<1>10. o \in Obj /\ p \in Obj
  BY <1>2
<1> HIDE DEF o, p
<1>11. QED
  BY <1>1, <1>2, <1>7, <1>8, <1>9, <1>10, AnyPutTwo DEF o, p

LEMMA AnyStep ==
    ASSUME AnyInv, [ContainersNext]_containersVars
    PROVE  AnyInv'
<1>1. CASE UNCHANGED any
  BY <1>1 DEF any, AnyInv, Typed, Counts, Owners, A!TypeOf
<1>2. CASE A!Next
  BY <1>2, ResetInv, ClearInv, CopyInv, MoveInv, SwapInv DEF A!Next
<1>3. QED
  BY <1>1, <1>2 DEF ContainersNext, containersVars

\* However anys are copied, moved, assigned and swapped, each gives the
\* object it should and under its type only; every resource counts as owners
\* the anys that hold it, so that it is destroyed when the last one lets it
\* go and not before.
THEOREM AnyGivesItsObject == ContainersSpec => []AnyOwnsObject
<1>1. ASSUME AnyInv PROVE AnyOwnsObject
  <2>1. /\ a_object = a_held /\ a_wild = FALSE
        /\ \A a \in Any : a_held[a] \in Obj /\ a_vtable[a] = A!TypeOf(a_held[a])
    BY <1>1 DEF AnyInv, Typed
  <2>2. ASSUME NEW a \in Any, NEW type \in {"number", "shared"}
        PROVE  A!cast(a, type) = IF A!TypeOf(a_held[a]) = type THEN a_held[a] ELSE NoObject
    BY <2>1 DEF A!cast
  <2>3. ASSUME NEW r \in Resource
        PROVE  a_count[r] = A!Cardinality({a \in Any : a_held[a] = r})
    <3>1. a_count[r] = Cardinality({a \in Any : a_held[a] = r})
      BY <1>1 DEF AnyInv, Counts, Owners
    <3>2. QED
      BY <3>1 DEF Cardinality, A!Cardinality
  <2>4. QED
    BY <2>1, <2>2, <2>3 DEF AnyOwnsObject, A!AnyOwnsObject
<1>2. QED
  BY AnyInit, AnyStep, <1>1, PTL DEF ContainersSpec

-----------------------------------------------------------------------------
(* mono::hash: the probe sequence of a key visits every slot once, and a   *)
(* search ends at its first slot that is empty or the key's.               *)

\* The slot i places after slot 0, for an i that goes round at most once.
Wrap(i) == IF i < N THEN i ELSE i - N

LEMMA VisitedWraps ==
    ASSUME NEW k \in Key, NEW i \in Slot
    PROVE  /\ get_possible_index(k) \in Slot
           /\ Visited(k, i) = Wrap(get_possible_index(k) + i)
           /\ Visited(k, i) \in Slot
<1>1. get_possible_index(k) \in 0 .. N - 1
  BY NAssumption, HashAssumption, Z3 DEF get_possible_index
<1>2. ASSUME NEW j \in 0 .. 2 * N - 1
      PROVE  j % N = IF j < N THEN j ELSE j - N
  BY NAssumption, Z3
<1>3. get_possible_index(k) + i \in 0 .. 2 * N - 1
  BY <1>1, NAssumption DEF Slot
<1>4. QED
  BY <1>1, <1>2, <1>3, NAssumption DEF Visited, Wrap, Slot

LEMMA VisitedOnce ==
    ASSUME NEW k \in Key, NEW i \in Slot, NEW j \in Slot, Visited(k, i) = Visited(k, j)
    PROVE  i = j
BY VisitedWraps, NAssumption DEF Wrap, Slot

LEMMA AllVisited ==
    ASSUME NEW k \in Key, NEW s \in Slot
    PROVE  \E i \in Slot : Visited(k, i) = s
<1> DEFINE h == get_possible_index(k)
           i == IF s >= h THEN s - h ELSE s + N - h
<1>1. h \in Slot
  BY VisitedWraps, NAssumption DEF Slot
<1>2. i \in Slot
  BY <1>1, NAssumption DEF Slot
<1>3. Wrap(h + i) = s
  BY <1>1, NAssumption DEF Slot, Wrap
<1>4. QED
  BY <1>2, <1>3, VisitedWraps

\* A set of slots has a least one.
LEMMA MinIs ==
    ASSUME NEW P \in SUBSET Slot, P # {}
    PROVE  Min(P) \in P /\ \A y \in P : Min(P) <= y
<1> DEFINE Below(x) == 0 .. x
           B == {Below(x) : x \in P}
<1>1. B \subseteq FiniteSubsetsOf(Slot) /\ B # {}
  <2>1. ASSUME NEW x \in P PROVE IsFiniteSet(Below(x)) /\ Below(x) \subseteq Slot
    BY FS_Interval, NAssumption DEF Slot
  <2>2. QED
    BY <2>1 DEF FiniteSubsetsOf
<1>2. PICK t \in B : \A u \in B : ~ (<<u, t>> \in StrictSubsetOrdering(Slot))
  BY <1>1, WFMin, FS_StrictSubsetOrderingWellFounded
<1>3. PICK x \in P : t = Below(x)
  OBVIOUS
<1>4. ASSUME NEW y \in P PROVE x <= y
  <2> SUFFICES ASSUME y < x PROVE FALSE
    BY NAssumption DEF Slot
  <2>1. Below(y) \in SUBSET Slot /\ Below(x) \in SUBSET Slot
    BY NAssumption DEF Slot
  <2>2. Below(y) \subseteq Below(x) /\ Below(y) # Below(x)
    BY NAssumption DEF Slot
  <2>3. <<Below(y), Below(x)>> \in StrictSubsetOrdering(Slot)
    BY <2>1, <2>2 DEF StrictSubsetOrdering
  <2>4. QED
    BY <1>2, <1>3, <2>3
<1>5. QED
  BY <1>4 DEF Min

\* The search for k passes the first i slots.
Passes(k, i) == \A j \in 0 .. i - 1 : first[Visited(k, j)] \notin {k, 0}

LEMMA SearchIs ==
    ASSUME NEW k \in Key
    PROVE  \/ /\ Search(k) = None
              /\ \A s \in Slot : first[s] \notin {k, 0}
           \/ /\ Search(k) \in Slot
              /\ first[Search(k)] \in {k, 0}
              /\ \E i \in Slot : Search(k) = Visited(k, i) /\ Passes(k, i)
<1> DEFINE hits == {i \in Slot : Ends(k, Visited(k, i))}
           i == Min(hits)
<1>1. CASE hits = {}
  <2>1. Search(k) = None
    BY <1>1 DEF Search
  <2>2. \A s \in Slot : first[s] \notin {k, 0}
    BY <1>1, AllVisited DEF Ends
  <2>3. QED
    BY <2>1, <2>2
<1>2. CASE hits # {}
  <2>1. Search(k) = Visited(k, i)
    BY <1>2 DEF Search
  <2>2. i \in hits /\ \A j \in hits : i <= j
    BY <1>2, MinIs
  <2>3. Passes(k, i)
    BY <2>2, NAssumption DEF Passes, Ends, Slot
  <2>4. QED
    BY <2>1, <2>2, <2>3, VisitedWraps DEF Ends
<1>3. QED
  BY <1>1, <1>2

-----------------------------------------------------------------------------
(* As long as nobody erases a key, none is twice in the table and no empty *)
(* slot is before one that a search passes.                                *)

NoDuplicates == \A r, s \in Slot : first[r] = first[s] /\ first[r] # 0 => r = s
ChainsHold ==
    \A k \in Key : \A i \in Slot :
        first[Visited(k, i)] = k => \A j \in 0 .. i - 1 : first[Visited(k, j)] # 0

HashInv ==
    /\ first \in [Slot -> Key \cup {0}]
    /\ second \in [Slot -> Val]
    /\ NoDuplicates
    /\ ChainsHold

\* The keys of the map that the table is, and the map.
Keys == {first[s] : s \in Stored}
Map == [k \in Keys |-> second[SlotOf(k)]]

LEMMA SlotIs ==
    ASSUME NoDuplicates, NEW s \in Slot, first[s] # 0
    PROVE  SlotOf(first[s]) = s
BY DEF NoDuplicates, SlotOf

LEMMA SearchFinds ==
    ASSUME HashInv, NEW k \in Key
    PROVE  /\ k \in Keys <=> Found(k)
           /\ Found(k) => SlotOf(k) = Search(k) /\ Map[k] = second[Search(k)]
<1>0. k # 0 /\ None \notin Slot
  BY KeyAssumption, NAssumption DEF None, Slot
<1>1. ASSUME k \in Keys PROVE Found(k)
  <2>1. PICK s \in Slot : first[s] = k
    BY <1>1 DEF Keys, Stored
  <2>2. PICK e \in Slot : s = Visited(k, e)
    BY AllVisited
  <2>3. PICK i \in Slot : /\ Search(k) = Visited(k, i) /\ Passes(k, i)
                          /\ Search(k) \in Slot /\ first[Search(k)] \in {k, 0}
    BY <2>1, SearchIs
  <2>4. i <= e
    BY <2>1, <2>2, <2>3, NAssumption DEF Passes, Slot
  <2>5. i = e \/ first[Search(k)] # 0
    BY <2>1, <2>2, <2>3, <2>4, NAssumption DEF HashInv, ChainsHold, Slot
  <2>6. QED
    BY <1>0, <2>1, <2>2, <2>3, <2>5 DEF Found
<1>2. ASSUME Found(k)
      PROVE  k \in Keys /\ SlotOf(k) = Search(k) /\ Map[k] = second[Search(k)]
  <2>1. Search(k) \in Slot /\ first[Search(k)] = k
    BY <1>2, SearchIs DEF Found
  <2>2. k \in Keys
    BY <1>0, <2>1 DEF Keys, Stored
  <2>3. SlotOf(k) = Search(k)
    BY <1>0, <2>1, SlotIs DEF HashInv
  <2>4. QED
    BY <2>2, <2>3 DEF Map
<1>3. QED
  BY <1>1, <1>2

\* There is room for a new key as long as a slot is empty.
LEMMA Room ==
    ASSUME HashInv
    PROVE  D!HasRoom <=> \E s \in Slot : first[s] = 0
<1>1. IsFiniteSet(Slot) /\ Cardinality(Slot) = N
  BY FS_Interval, NAssumption DEF Slot
<1>2. /\ IsFiniteSet(Stored) /\ Cardinality(Stored) <= N
      /\ Cardinality(Stored) = N => Stored = Slot
      /\ Cardinality(Stored) \in Nat
  BY <1>1, FS_Subset, FS_CardinalityType DEF Stored
<1>3. ExistsBijection(Stored, Keys)
  <2> DEFINE f == [s \in Stored |-> first[s]]
  <2>1. f \in [Stored -> Keys]
    BY DEF Keys
  <2>2. f \in Injection(Stored, Keys)
    BY <2>1 DEF Injection, IsInjective, HashInv, NoDuplicates, Stored
  <2>3. f \in Surjection(Stored, Keys)
    BY <2>1 DEF Surjection, Keys
  <2>4. QED
    BY <2>2, <2>3 DEF ExistsBijection, Bijection
<1>4. Cardinality(Keys) = Cardinality(Stored)
  BY <1>2, <1>3, FS_Bijection
<1>5. D!HasRoom <=> Cardinality(Keys) < N
  <2>1. D!HasRoom <=> D!Cardinality(DOMAIN Map) < N
    BY DEF D!HasRoom, Map, Keys
  <2>2. DOMAIN Map = Keys
    BY DEF Map
  <2>3. D!Cardinality(Keys) = Cardinality(Keys)
    BY DEF D!Cardinality, Cardinality
  <2>4. QED
    BY <2>1, <2>2, <2>3
<1>6. Cardinality(Keys) < N <=> Stored # Slot
  BY <1>1, <1>2, <1>4, NAssumption
<1>7. QED
  BY <1>5, <1>6 DEF Stored

-----------------------------------------------------------------------------
(* The steps of the table are those of the map.                            *)

\* The map with the value v for k.
With(k, v) == [q \in Keys \cup {k} |-> IF q = k THEN v ELSE Map[q]]

LEMMA MapOps ==
    ASSUME NEW k, NEW v
    PROVE  /\ D!Get(k) <=> \/ k \in Keys /\ answer' = Map[k] /\ Map' = Map
                           \/ /\ k \notin Keys /\ D!HasRoom
                              /\ answer' \in Val /\ Map' = With(k, answer')
           /\ D!Set(k, v) <=> /\ k \in Keys \/ D!HasRoom
                              /\ Map' = With(k, v) /\ answer' = v
           /\ D!Insert(k, v) <=> /\ k \notin Keys /\ D!HasRoom
                                 /\ Map' = With(k, v) /\ answer' = v
           /\ D!InsertAgain(k) <=> k \in Keys /\ answer' = Duplicate /\ Map' = Map
           /\ D!Refuse(k) <=> /\ k \notin Keys /\ ~D!HasRoom
                              /\ answer' = Full /\ Map' = Map
           /\ D!Contains(k) <=> answer' = (k \in Keys) /\ Map' = Map
           /\ D!GetConst(k) <=> /\ answer' = CASE k \in Keys -> Map[k]
                                               [] k \notin Keys /\ D!HasRoom -> NoKey
                                               [] OTHER -> Full
                                /\ Map' = Map
           /\ D!Clear <=> Map' = [q \in {} |-> Void] /\ answer' = Void
<1>1. DOMAIN Map = Keys
  BY DEF Map
<1>2. \A w : D!Put(k, w) = With(k, w)
  BY <1>1 DEF D!Put, With, Map, Keys
<1>3. /\ D!Get(k) <=> \/ k \in DOMAIN Map /\ answer' = Map[k] /\ Map' = Map
                      \/ /\ k \notin DOMAIN Map /\ D!HasRoom
                         /\ answer' \in Val /\ Map' = D!Put(k, answer')
      /\ D!Set(k, v) <=> /\ k \in DOMAIN Map \/ D!HasRoom
                         /\ Map' = D!Put(k, v) /\ answer' = v
      /\ D!Insert(k, v) <=> /\ k \notin DOMAIN Map /\ D!HasRoom
                            /\ Map' = D!Put(k, v) /\ answer' = v
  BY DEF D!Get, D!Set, D!Insert, Map, Keys
<1>4. /\ D!InsertAgain(k) <=> k \in DOMAIN Map /\ answer' = Duplicate /\ Map' = Map
      /\ D!Refuse(k) <=> /\ k \notin DOMAIN Map /\ ~D!HasRoom
                         /\ answer' = Full /\ Map' = Map
      /\ D!Clear <=> Map' = [q \in {} |-> Void] /\ answer' = Void
  BY DEF D!InsertAgain, D!Refuse, D!Clear, Map, Keys
<1>5. D!Contains(k) <=> answer' = (k \in DOMAIN Map) /\ Map' = Map
  BY DEF D!Contains, Map, Keys
<1>6. D!GetConst(k) <=> /\ answer' = CASE k \in DOMAIN Map -> Map[k]
                                        [] k \notin DOMAIN Map /\ D!HasRoom -> NoKey
                                        [] OTHER -> Full
                       /\ Map' = Map
  BY DEF D!GetConst, Map, Keys
<1>7. QED
  BY <1>1, <1>2, <1>3, <1>4, <1>5, <1>6

LEMMA MapStays ==
    ASSUME UNCHANGED <<first, second>>
    PROVE  Map' = Map
BY DEF Map, Keys, Stored, SlotOf, Slot

\* An entry for k where its search ended: the table is still one, and the map
\* has the value for k.
LEMMA PutEntry ==
    ASSUME HashInv, NEW k \in Key, NEW v \in Val, Search(k) # None,
           first' = [first EXCEPT ![Search(k)] = k],
           second' = [second EXCEPT ![Search(k)] = v]
    PROVE  HashInv' /\ Map' = With(k, v)
<1>0. k # 0
  BY KeyAssumption
<1>1. PICK i \in Slot : /\ Search(k) \in Slot /\ first[Search(k)] \in {k, 0}
                        /\ Search(k) = Visited(k, i) /\ Passes(k, i)
  BY SearchIs
<1>2. Found(k) \/ (first[Search(k)] = 0 /\ k \notin Keys)
  BY <1>0, <1>1, SearchFinds DEF Found
<1>3. \A s \in Slot : s # Search(k) => first[s] # k
  <2> SUFFICES ASSUME NEW s \in Slot, first[s] = k, s # Search(k) PROVE FALSE
    OBVIOUS
  <2>1. k \in Keys
    BY <1>0 DEF Keys, Stored
  <2>2. first[Search(k)] = k
    BY <2>1, SearchFinds DEF Found
  <2>3. QED
    BY <1>0, <1>1, <2>2 DEF HashInv, NoDuplicates
<1>4. first' \in [Slot -> Key \cup {0}] /\ second' \in [Slot -> Val]
  BY <1>1 DEF HashInv
<1>5. \A s \in Slot : first'[s] = IF s = Search(k) THEN k ELSE first[s]
  BY <1>1 DEF HashInv
<1>6. NoDuplicates'
  BY <1>0, <1>1, <1>3, <1>5 DEF HashInv, NoDuplicates, Slot
<1>7. ASSUME NEW q \in Key, NEW e \in Slot, first'[Visited(q, e)] = q,
             NEW j \in 0 .. e - 1
      PROVE  first'[Visited(q, j)] # 0
  <2>1. j \in Slot /\ Visited(q, j) \in Slot /\ Visited(q, e) \in Slot
    BY VisitedWraps, NAssumption DEF Slot
  <2>2. CASE q = k
    <3>1. Visited(q, e) = Search(k)
      BY <1>3, <1>5, <1>7, <2>1, <2>2
    <3>2. e = i
      BY <1>1, <2>2, <3>1, VisitedOnce
    <3>3. QED
      BY <1>0, <1>1, <1>5, <2>1, <2>2, <3>2 DEF Passes
  <2>3. CASE q # k
    <3>1. first[Visited(q, e)] = q
      BY <1>5, <1>7, <2>1, <2>3
    <3>2. first[Visited(q, j)] # 0
      BY <3>1 DEF HashInv, ChainsHold
    <3>3. QED
      BY <1>0, <1>5, <2>1, <3>2
  <2>4. QED
    BY <2>2, <2>3
<1>8. ChainsHold'
  BY <1>7 DEF ChainsHold, Visited, get_possible_index, Slot
<1>9. HashInv'
  BY <1>4, <1>6, <1>8 DEF HashInv, Slot
<1>10. Keys' = Keys \cup {k}
  <2>1. Keys' = {first'[s] : s \in {t \in Slot : first'[t] # 0}}
    BY DEF Keys, Stored, Slot
  <2>2. Keys = {first[s] : s \in {t \in Slot : first[t] # 0}}
    BY DEF Keys, Stored
  <2>3. k \in Keys'
    BY <1>0, <1>1, <1>5, <2>1
  <2>4. ASSUME NEW q \in Keys PROVE q \in Keys'
    <3>1. PICK s \in Slot : first[s] = q /\ q # 0
      BY <2>2
    <3>2. CASE s = Search(k)
      BY <1>1, <2>3, <3>1, <3>2
    <3>3. CASE s # Search(k)
      BY <1>5, <2>1, <3>1, <3>3
    <3>4. QED
      BY <3>2, <3>3
  <2>5. ASSUME NEW q \in Keys', q # k PROVE q \in Keys
    BY <1>5, <2>1, <2>2, <2>5
  <2>6. QED
    BY <2>3, <2>4, <2>5
<1>11. ASSUME NEW q \in Keys'
       PROVE  second'[SlotOf(q)'] = IF q = k THEN v ELSE Map[q]
  <2>1. SlotOf(q)' = CHOOSE s \in Slot : first'[s] = q
    BY DEF SlotOf, Slot
  <2>2. PICK s \in Slot : first'[s] = q /\ q # 0
    BY DEF Keys, Stored, Slot
  <2>3. SlotOf(q)' = s
    <3>1. \A t \in Slot : first'[t] = q => t = s
      BY <1>6, <2>2 DEF NoDuplicates, Slot
    <3>2. QED
      BY <2>1, <2>2, <3>1
  <2>4. CASE q = k
    <3>1. s = Search(k)
      BY <1>3, <1>5, <2>2, <2>4
    <3>2. QED
      BY <1>1, <2>3, <2>4, <3>1 DEF HashInv
  <2>5. CASE q # k
    <3>1. s # Search(k) /\ first[s] = q
      BY <1>5, <2>2, <2>5
    <3>2. q \in Keys /\ SlotOf(q) = s
      BY <2>2, <3>1, SlotIs DEF HashInv, Keys, Stored
    <3>3. Map[q] = second[s]
      BY <3>2 DEF Map
    <3>4. second'[s] = second[s]
      BY <1>1, <3>1 DEF HashInv
    <3>5. QED
      BY <2>3, <2>5, <3>3, <3>4
  <2>6. QED
    BY <2>4, <2>5
<1>12. Map' = With(k, v)
  <2>1. Map' = [q \in Keys' |-> second'[SlotOf(q)']]
    BY DEF Map
  <2>2. QED
    BY <1>10, <1>11, <2>1 DEF With
<1>13. QED
  BY <1>9, <1>12

LEMMA HashInit == ContainersInit => HashInv
<1> SUFFICES ASSUME ContainersInit PROVE HashInv
  OBVIOUS
<1>1. first = [s \in Slot |-> 0] /\ second \in [Slot -> Val]
  BY DEF ContainersInit, Init
<1>2. \A k \in Key : \A i \in Slot : Visited(k, i) \in Slot /\ k # 0
  BY VisitedWraps, KeyAssumption
<1>3. NoDuplicates /\ ChainsHold
  BY <1>1, <1>2 DEF NoDuplicates, ChainsHold
<1>4. QED
  BY <1>1, <1>3 DEF HashInv

LEMMA InvStays ==
    ASSUME HashInv, UNCHANGED <<first, second>>
    PROVE  HashInv'
BY DEF HashInv, NoDuplicates, ChainsHold, Visited, get_possible_index, Slot

\* A search that finds no slot finds neither the key nor room for it; one that
\* ends at a slot that is not the key's finds room.
LEMMA SearchTells ==
    ASSUME HashInv, NEW k \in Key
    PROVE  /\ Search(k) = None => k \notin Keys /\ ~D!HasRoom
           /\ Search(k) # None /\ ~Found(k) => k \notin Keys /\ D!HasRoom
           /\ Search(k) # None => Search(k) \in Slot /\ second[Search(k)] \in Val
           /\ Found(k) => first[Search(k)] = k /\ first \in [Slot -> Key \cup {0}]
<1>1. Search(k) = None => \A s \in Slot : first[s] \notin {k, 0}
  <2>1. None \notin Slot
    BY NAssumption DEF None, Slot
  <2>2. QED
    BY <2>1, SearchIs
<1>2. Search(k) # None => Search(k) \in Slot /\ first[Search(k)] \in {k, 0}
  BY SearchIs
<1>3. QED
  BY <1>1, <1>2, SearchFinds, Room DEF Found, HashInv

\* The two functions that make an entry: at() with the value that is there,
\* and the assignment through its reference.
LEMMA AtMaps ==
    ASSUME HashInv, NEW k \in Key, at(k)
    PROVE  HashInv' /\ (D!Get(k) \/ D!Refuse(k))
<1>1. CASE Search(k) = None
  BY <1>1, SearchTells, MapStays, InvStays, MapOps DEF at
<1>2. CASE Search(k) # None
  <2> DEFINE v == second[Search(k)]
  <2>1. /\ first' = [first EXCEPT ![Search(k)] = k] /\ second' = second /\ answer' = v
        /\ v \in Val
    BY <1>2, SearchTells DEF at
  <2>2. second' = [second EXCEPT ![Search(k)] = v]
    BY <2>1 DEF HashInv
  <2>3. HashInv' /\ Map' = With(k, v)
    BY <1>2, <2>1, <2>2, PutEntry
  <2>4. CASE Found(k)
    <3>1. first' = first
      BY <2>1, <2>4, SearchTells
    <3>2. k \in Keys /\ Map[k] = v /\ Map' = Map
      BY <2>1, <2>4, <3>1, SearchFinds, MapStays
    <3>3. QED
      BY <2>1, <2>3, <3>2, MapOps
  <2>5. CASE ~Found(k)
    BY <1>2, <2>1, <2>3, <2>5, SearchTells, MapOps
  <2>6. QED
    BY <2>4, <2>5
<1>3. QED
  BY <1>1, <1>2

LEMMA SetMaps ==
    ASSUME HashInv, NEW k \in Key, NEW v \in Val, set(k, v)
    PROVE  HashInv' /\ (D!Set(k, v) \/ D!Refuse(k))
<1>1. CASE Search(k) = None
  BY <1>1, SearchTells, MapStays, InvStays, MapOps DEF set
<1>2. CASE Search(k) # None
  <2>1. HashInv' /\ Map' = With(k, v) /\ answer' = v
    BY <1>2, PutEntry DEF set
  <2>2. k \in Keys \/ D!HasRoom
    BY <1>2, SearchTells, SearchFinds
  <2>3. QED
    BY <2>1, <2>2, MapOps
<1>3. QED
  BY <1>1, <1>2

LEMMA InsertMaps ==
    ASSUME HashInv, NEW k \in Key, NEW v \in Val, insert(k, v)
    PROVE  HashInv' /\ (D!Insert(k, v) \/ D!InsertAgain(k) \/ D!Refuse(k))
<1>1. CASE Search(k) = None /\ answer' = Full /\ UNCHANGED <<first, second>>
  BY <1>1, SearchTells, MapStays, InvStays, MapOps
<1>2. CASE Found(k) /\ answer' = Duplicate /\ UNCHANGED <<first, second>>
  BY <1>2, SearchFinds, MapStays, InvStays, MapOps
<1>3. CASE /\ Search(k) # None /\ ~Found(k)
           /\ first' = [first EXCEPT ![Search(k)] = k]
           /\ second' = [second EXCEPT ![Search(k)] = v]
           /\ answer' = v
  BY <1>3, PutEntry, SearchTells, MapOps
<1>4. QED
  BY <1>1, <1>2, <1>3 DEF insert

LEMMA ReadMaps ==
    ASSUME HashInv, NEW k \in Key, at_const(k) \/ contains(k)
    PROVE  HashInv' /\ (D!GetConst(k) \/ D!Contains(k))
<1>1. UNCHANGED <<first, second>>
  BY DEF at_const, contains
<1>2. HashInv' /\ Map' = Map
  BY <1>1, MapStays, InvStays
<1>3. CASE contains(k)
  <2>1. answer' = Found(k)
    BY <1>3 DEF contains
  <2>2. Found(k) = (k \in Keys)
    BY SearchFinds DEF Found
  <2>3. answer' = (k \in Keys)
    BY <2>1, <2>2, Zenon
  <2>4. QED
    BY <1>2, <2>3, MapOps
<1>4. CASE at_const(k)
  <2>1. CASE Search(k) = None
    <3>1. answer' = Full
      BY <1>4, <2>1 DEF at_const, Found
    <3>2. k \notin Keys /\ ~D!HasRoom
      BY <2>1, SearchTells
    <3>3. D!GetConst(k)
      BY <1>2, <3>1, <3>2, MapOps
    <3>4. QED
      BY <1>2, <3>3
  <2>2. CASE Found(k)
    BY <1>2, <1>4, <2>2, SearchFinds, MapOps DEF at_const, Found
  <2>3. CASE Search(k) # None /\ ~Found(k)
    BY <1>2, <1>4, <2>3, SearchTells, MapOps DEF at_const
  <2>4. QED
    BY <1>2, <2>1, <2>2, <2>3
<1>5. QED
  BY <1>3, <1>4, <1>2

LEMMA ClearMaps ==
    ASSUME HashInv, clear
    PROVE  HashInv' /\ D!Clear
<1>1. first' = [s \in Slot |-> 0] /\ second' = second /\ answer' = Void
  BY DEF clear
<1>2. \A k \in Key : \A i \in Slot : Visited(k, i) \in Slot /\ k # 0
  BY VisitedWraps, KeyAssumption
<1>3. NoDuplicates' /\ ChainsHold'
  BY <1>1, <1>2 DEF NoDuplicates, ChainsHold, Visited, get_possible_index, Slot
<1>4. HashInv'
  BY <1>1, <1>3 DEF HashInv, Slot
<1>5. Keys' = {}
  BY <1>1 DEF Keys, Stored, Slot
<1>6. Map' = [q \in {} |-> Void]
  BY <1>5 DEF Map
<1>7. QED
  BY <1>1, <1>4, <1>6, MapOps

LEMMA HashStep ==
    ASSUME Erases = {}, HashInv, [ContainersNext]_containersVars
    PROVE  HashInv' /\ [D!Next]_(D!vars)
<1>1. CASE UNCHANGED vars
  <2>1. HashInv' /\ Map' = Map /\ answer' = answer
    BY <1>1, MapStays, InvStays DEF vars
  <2>2. UNCHANGED D!vars
    BY <2>1 DEF D!vars, Map, Keys
  <2>3. QED
    BY <2>1, <2>2
<1>2. ASSUME Next PROVE HashInv' /\ D!Next
  <2>1. CASE clear
    BY <2>1, ClearMaps DEF D!Next
  <2>2. ASSUME NEW k \in Key,
               \/ at(k) \/ at_const(k) \/ contains(k)
               \/ \E v \in Val : set(k, v) \/ insert(k, v)
        PROVE  HashInv' /\ D!Next
    BY <2>2, AtMaps, SetMaps, InsertMaps, ReadMaps DEF D!Next
  <2>3. \A k \in Key : ~erase(k)
    BY DEF erase
  <2>4. QED
    BY <1>2, <2>1, <2>2, <2>3 DEF Next
<1>3. QED
  BY <1>1, <1>2 DEF ContainersNext, containersVars

\* As long as the program erases no key, the table is a map of N keys: it
\* finds each that was put into it, with the value it has, wherever the hash
\* function puts them, refuses a new one only when it has N others, and tells
\* an entry that is there already from one for which there is no room.
THEOREM HashImplementsDictionary ==
    ASSUME Erases = {}
    PROVE  ContainersSpec => ImplementsDictionary
<1>1. ContainersInit => D!Init
  <2> SUFFICES ASSUME ContainersInit PROVE D!Init
    OBVIOUS
  <2>1. first = [s \in Slot |-> 0] /\ answer = Void
    BY DEF ContainersInit, Init
  <2>2. Map = [q \in {} |-> Void]
    <3>1. Keys = {}
      BY <2>1 DEF Keys, Stored
    <3>2. QED
      BY <3>1 DEF Map
  <2>3. QED
    BY <2>1, <2>2 DEF D!Init, Map, Keys
<1>2. HashInv /\ [ContainersNext]_containersVars => HashInv' /\ [D!Next]_(D!vars)
  BY HashStep
<1>3. QED
  BY HashInit, <1>1, <1>2, PTL DEF ContainersSpec, ImplementsDictionary, D!Spec

-----------------------------------------------------------------------------
(* Least elements.                                                         *)

\* A set of numbers that is not empty has a least one.
LEMMA LeastExists ==
    ASSUME NEW P \in SUBSET Nat, P # {}
    PROVE  \E n \in P : \A m \in P : n <= m
<1>1. PICK c \in P : \A d \in P : ~(<<d, c>> \in OpToRel(<, Nat))
  BY WFMin, NatLessThanWellFounded
<1>2. \A d \in P : ~(d < c)
  BY <1>1 DEF OpToRel
<1>3. QED
  BY <1>2

-----------------------------------------------------------------------------
(* mono::overflow_stack.  What a stack is follows from what was pushed.    *)

\* The cells, the size and the overflow of a stack of capacity k on which p
\* was pushed.
CellsOf(p, k) == [i \in 0 .. k - 1 |-> IF i < Len(p) THEN p[i + 1] ELSE 0]
SizeOf(p, k) == IF Len(p) < k THEN Len(p) ELSE k
OverOf(p, k) == Len(p) - SizeOf(p, k)
StackOf(p, k) == [c |-> CellsOf(p, k), n |-> SizeOf(p, k), o |-> OverOf(p, k)]

StackInv ==
    /\ o_pushed \in [Stack -> Seq(Item)]
    /\ \A s \in Stack : Len(o_pushed[s]) <= MaxItems
    /\ o_cells = [s \in Stack |-> CellsOf(o_pushed[s], Capacity[s])]
    /\ o_size = [s \in Stack |-> SizeOf(o_pushed[s], Capacity[s])]
    /\ o_overflow = [s \in Stack |-> OverOf(o_pushed[s], Capacity[s])]

LEMMA StackInit == ContainersInit => StackInv
<1> SUFFICES ASSUME ContainersInit PROVE StackInv
  OBVIOUS
<1>1. /\ o_cells = [s \in Stack |-> [i \in 0 .. Capacity[s] - 1 |-> 0]]
      /\ o_size = [s \in Stack |-> 0] /\ o_overflow = [s \in Stack |-> 0]
      /\ o_pushed = [s \in Stack |-> <<>>]
  BY DEF ContainersInit, O!Init, O!Zeroes
<1>2. <<>> \in Seq(Item) /\ Len(<<>>) = 0
  OBVIOUS
<1>3. ASSUME NEW s \in Stack
      PROVE  /\ CellsOf(<<>>, Capacity[s]) = [i \in 0 .. Capacity[s] - 1 |-> 0]
             /\ SizeOf(<<>>, Capacity[s]) = 0 /\ OverOf(<<>>, Capacity[s]) = 0
  <2>1. Capacity[s] \in Nat \ {0}
    BY CapacityAssumption
  <2>2. \A i \in 0 .. Capacity[s] - 1 : ~(i < 0)
    OBVIOUS
  <2>3. QED
    BY <1>2, <2>1, <2>2 DEF CellsOf, SizeOf, OverOf
<1>4. QED
  BY <1>1, <1>2, <1>3, SizeAssumption DEF StackInv

\* One item more is one cell more, as long as there is one.
LEMMA OneCell ==
    ASSUME NEW p, NEW q, NEW k \in Nat, NEW t, Len(p) \in Nat, Len(q) = Len(p) + 1,
           \A i \in 1 .. Len(p) : q[i] = p[i], q[Len(p) + 1] = t, Len(p) < k
    PROVE  [CellsOf(p, k) EXCEPT ![Len(p)] = t] = CellsOf(q, k)
<1> DEFINE c == [CellsOf(p, k) EXCEPT ![Len(p)] = t]
<1>1. c = [i \in 0 .. k - 1 |-> c[i]]
  BY DEF CellsOf
<1>2. ASSUME NEW i \in 0 .. k - 1 PROVE c[i] = CellsOf(q, k)[i]
  <2>1. CASE i = Len(p)
    BY <2>1 DEF CellsOf
  <2>2. CASE i < Len(p)
    <3>1. i + 1 \in 1 .. Len(p)
      BY <2>2
    <3>2. QED
      BY <2>2, <3>1 DEF CellsOf
  <2>3. CASE i > Len(p)
    BY <2>3 DEF CellsOf
  <2>4. QED
    BY <2>1, <2>2, <2>3
<1> HIDE DEF c
<1>3. CellsOf(q, k) = [i \in 0 .. k - 1 |-> CellsOf(q, k)[i]]
  BY DEF CellsOf
<1>4. QED
  BY <1>1, <1>2, <1>3 DEF c

\* One item less is one cell less, which pop() sets to zero.
LEMMA OneCellLess ==
    ASSUME NEW p, NEW q, NEW k \in Nat, Len(p) \in Nat \ {0}, Len(q) = Len(p) - 1,
           \A i \in 1 .. Len(p) - 1 : q[i] = p[i], Len(p) <= k
    PROVE  [CellsOf(p, k) EXCEPT ![Len(p) - 1] = 0] = CellsOf(q, k)
<1> DEFINE c == [CellsOf(p, k) EXCEPT ![Len(p) - 1] = 0]
<1>1. c = [i \in 0 .. k - 1 |-> c[i]]
  BY DEF CellsOf
<1>2. ASSUME NEW i \in 0 .. k - 1 PROVE c[i] = CellsOf(q, k)[i]
  <2>1. CASE i = Len(p) - 1
    BY <2>1 DEF CellsOf
  <2>2. CASE i < Len(p) - 1
    <3>1. i + 1 \in 1 .. Len(p) - 1
      BY <2>2
    <3>2. QED
      BY <2>2, <3>1 DEF CellsOf
  <2>3. CASE i > Len(p) - 1
    BY <2>3 DEF CellsOf
  <2>4. QED
    BY <2>1, <2>2, <2>3
<1> HIDE DEF c
<1>3. CellsOf(q, k) = [i \in 0 .. k - 1 |-> CellsOf(q, k)[i]]
  BY DEF CellsOf
<1>4. QED
  BY <1>1, <1>2, <1>3 DEF c

\* The last cell in use, i, is emptied.
DropCell(st, i) == [st EXCEPT !.c[i] = 0, !.n = @ - 1]

LEMMA CellDropped ==
    ASSUME NEW st, NEW i, st = [c |-> st.c, n |-> st.n, o |-> st.o]
    PROVE  DropCell(st, i) = [c |-> [st.c EXCEPT ![i] = 0], n |-> st.n - 1, o |-> st.o]
<1> DEFINE c == st.c
           n == st.n
           o == st.o
           r == [c |-> c, n |-> n, o |-> o]
           s == [r EXCEPT !.c[i] = 0]
<1>1. st = r
  OBVIOUS
<1> HIDE DEF c, n, o
<1>2. s = [c |-> [c EXCEPT ![i] = 0], n |-> n, o |-> o]
  OBVIOUS
<1>3. DropCell(r, i) = [s EXCEPT !.n = @ - 1]
  BY DEF DropCell
<1>4. [[c |-> [c EXCEPT ![i] = 0], n |-> n, o |-> o] EXCEPT !.n = @ - 1] =
        [c |-> [c EXCEPT ![i] = 0], n |-> n - 1, o |-> o]
  OBVIOUS
<1> HIDE DEF s
<1>5. DropCell(r, i) = [c |-> [c EXCEPT ![i] = 0], n |-> n - 1, o |-> o]
  BY <1>2, <1>3, <1>4
<1> HIDE DEF r
<1>6. DropCell(st, i) = [c |-> [c EXCEPT ![i] = 0], n |-> n - 1, o |-> o]
  BY <1>1, <1>5
<1>7. QED
  BY <1>6 DEF c, n, o

\* A push on the stack of p makes it the stack of p and the item.
LEMMA PushedOn ==
    ASSUME NEW p \in Seq(Item), NEW k \in Nat \ {0}, NEW t \in Item,
           Len(p) + 1 <= MaxItems
    PROVE  O!Push(StackOf(p, k), t) = StackOf(Append(p, t), k)
<1> DEFINE q == Append(p, t)
<1>1. /\ Len(q) = Len(p) + 1 /\ Len(p) \in Nat
      /\ \A i \in 1 .. Len(p) : q[i] = p[i]
      /\ q[Len(p) + 1] = t
  BY AppendProperties
<1> HIDE DEF q
<1>2. StackOf(p, k).n \in DOMAIN StackOf(p, k).c <=> Len(p) < k
  BY <1>1 DEF StackOf, SizeOf, CellsOf
<1>3. CASE Len(p) < k
  <2>1. O!Push(StackOf(p, k), t) =
          [c |-> [CellsOf(p, k) EXCEPT ![Len(p)] = t], n |-> Len(p) + 1, o |-> OverOf(p, k)]
    BY <1>2, <1>3 DEF O!Push, StackOf, SizeOf
  <2>2. [CellsOf(p, k) EXCEPT ![Len(p)] = t] = CellsOf(q, k)
    BY <1>1, <1>3, OneCell
  <2>3. SizeOf(q, k) = Len(p) + 1 /\ OverOf(q, k) = 0 /\ OverOf(p, k) = 0
    BY <1>1, <1>3 DEF SizeOf, OverOf
  <2>4. QED
    BY <2>1, <2>2, <2>3 DEF StackOf, q
<1>4. CASE ~(Len(p) < k)
  <2>1. O!Push(StackOf(p, k), t) =
          [c |-> CellsOf(p, k), n |-> k, o |-> (OverOf(p, k) + 1) % SizeMod]
    BY <1>2, <1>4 DEF O!Push, StackOf, SizeOf
  <2>2. CellsOf(p, k) = CellsOf(q, k)
    BY <1>1, <1>4 DEF CellsOf
  <2>3. SizeOf(q, k) = k /\ OverOf(q, k) = OverOf(p, k) + 1
        /\ OverOf(p, k) + 1 \in 0 .. SizeMod - 1
    <3>1. SizeOf(q, k) = k /\ SizeOf(p, k) = k
      BY <1>1, <1>4 DEF SizeOf
    <3>2. OverOf(q, k) = Len(p) + 1 - k /\ OverOf(p, k) = Len(p) - k
      BY <1>1, <3>1 DEF OverOf
    <3>3. Len(p) + 1 - k \in 0 .. SizeMod - 1
      BY <1>1, <1>4, SizeAssumption
    <3>4. QED
      BY <1>1, <3>1, <3>2, <3>3
  <2>4. (OverOf(p, k) + 1) % SizeMod = OverOf(p, k) + 1
    BY <2>3, SizeAssumption
  <2>5. QED
    BY <2>1, <2>2, <2>3, <2>4 DEF StackOf, q
<1>5. QED
  BY <1>3, <1>4

\* What a state function of the model reads is the stack of what was pushed.
LEMMA StateIs ==
    ASSUME StackInv, NEW s \in Stack
    PROVE  /\ O!State(s) = StackOf(o_pushed[s], Capacity[s])
           /\ o_pushed[s] \in Seq(Item) /\ Len(o_pushed[s]) \in Nat
           /\ Len(o_pushed[s]) <= MaxItems /\ Capacity[s] \in Nat \ {0}
BY CapacityAssumption DEF StackInv, O!State, StackOf

\* A stack that becomes the one of q, when q is what was pushed on it, keeps
\* the invariant.
LEMMA StackBecomes ==
    ASSUME StackInv, NEW s \in Stack, NEW q \in Seq(Item), Len(q) <= MaxItems,
           O!Becomes(s, StackOf(q, Capacity[s])),
           o_pushed' = [o_pushed EXCEPT ![s] = q]
    PROVE  StackInv'
<1>1. /\ o_cells' = [o_cells EXCEPT ![s] = CellsOf(q, Capacity[s])]
      /\ o_size' = [o_size EXCEPT ![s] = SizeOf(q, Capacity[s])]
      /\ o_overflow' = [o_overflow EXCEPT ![s] = OverOf(q, Capacity[s])]
  BY DEF O!Becomes, StackOf
<1>2. o_pushed' \in [Stack -> Seq(Item)]
      /\ \A r \in Stack : o_pushed'[r] = IF r = s THEN q ELSE o_pushed[r]
  BY DEF StackInv
<1>3. o_cells' = [r \in Stack |-> CellsOf(o_pushed'[r], Capacity[r])]
  BY <1>1, <1>2 DEF StackInv
<1>4. o_size' = [r \in Stack |-> SizeOf(o_pushed'[r], Capacity[r])]
  BY <1>1, <1>2 DEF StackInv
<1>5. o_overflow' = [r \in Stack |-> OverOf(o_pushed'[r], Capacity[r])]
  BY <1>1, <1>2 DEF StackInv
<1>6. \A r \in Stack : Len(o_pushed'[r]) <= MaxItems
  BY <1>2 DEF StackInv
<1>7. QED
  BY <1>2, <1>3, <1>4, <1>5, <1>6 DEF StackInv

\* The operations of mono::overflow_stack keep it.
LEMMA StackPush ==
    ASSUME StackInv, NEW s \in Stack, NEW t \in Item, O!push(s, t)
    PROVE  StackInv'
<1> DEFINE p == o_pushed[s]
<1>1. O!State(s) = StackOf(p, Capacity[s]) /\ p \in Seq(Item) /\ Len(p) \in Nat
      /\ Capacity[s] \in Nat \ {0}
  BY StateIs
<1>2. Len(p) < MaxItems /\ O!Becomes(s, O!Push(O!State(s), t))
      /\ o_pushed' = [o_pushed EXCEPT ![s] = Append(p, t)]
  BY DEF O!push, StackInv
<1> HIDE DEF p
<1>3. Len(p) + 1 <= MaxItems
  BY <1>1, <1>2, SizeAssumption
<1>4. O!Becomes(s, StackOf(Append(p, t), Capacity[s]))
  BY <1>1, <1>2, <1>3, PushedOn
<1>5. Append(p, t) \in Seq(Item) /\ Len(Append(p, t)) <= MaxItems
  BY <1>1, <1>3, AppendProperties
<1>6. QED
  BY <1>2, <1>4, <1>5, StackBecomes

LEMMA StackPop ==
    ASSUME StackInv, NEW s \in Stack, O!pop(s)
    PROVE  StackInv'
<1> DEFINE p == o_pushed[s]
           k == Capacity[s]
           q == O!Front(p)
<1>1. O!State(s) = StackOf(p, k) /\ p \in Seq(Item) /\ Len(p) \in Nat
      /\ k \in Nat \ {0} /\ Len(p) <= MaxItems
  BY StateIs
<1>2. o_size[s] = SizeOf(p, k) /\ o_overflow[s] = OverOf(p, k)
  BY DEF StackInv
<1>3. Len(p) > 0
  BY <1>1, <1>2 DEF O!pop, SizeOf, OverOf
<1>4. /\ q \in Seq(Item) /\ Len(q) = Len(p) - 1
      /\ \A i \in 1 .. Len(p) - 1 : q[i] = p[i]
  BY <1>1, <1>3, SubSeqProperties DEF O!Front
<1>5. o_pushed' = [o_pushed EXCEPT ![s] = q]
  BY DEF O!pop, StackInv
<1>6. O!Becomes(s, StackOf(q, k))
  <2> HIDE DEF p, k, q
  <2>1. CASE Len(p) > k
    <3>1. OverOf(p, k) > 0
      BY <1>1, <2>1 DEF OverOf, SizeOf
    <3>2. O!Becomes(s, [StackOf(p, k) EXCEPT !.o = @ - 1])
      BY <1>1, <1>2, <3>1 DEF O!pop
    <3>3. [StackOf(p, k) EXCEPT !.o = @ - 1] =
            [c |-> CellsOf(p, k), n |-> SizeOf(p, k), o |-> OverOf(p, k) - 1]
      BY DEF StackOf
    <3>4. CellsOf(p, k) = CellsOf(q, k)
      BY <1>1, <1>4, <2>1 DEF CellsOf
    <3>5. SizeOf(p, k) = SizeOf(q, k) /\ OverOf(q, k) = OverOf(p, k) - 1
      BY <1>1, <1>4, <2>1 DEF SizeOf, OverOf
    <3>6. QED
      BY <3>2, <3>3, <3>4, <3>5 DEF StackOf
  <2>2. CASE Len(p) <= k
    <3>1. OverOf(p, k) = 0 /\ SizeOf(p, k) = Len(p)
      BY <1>1, <2>2 DEF OverOf, SizeOf
    <3>2. O!Becomes(s, DropCell(StackOf(p, k), Len(p) - 1))
      BY <1>1, <1>2, <3>1 DEF O!pop, DropCell
    <3>3. DropCell(StackOf(p, k), Len(p) - 1) =
            [c |-> [CellsOf(p, k) EXCEPT ![Len(p) - 1] = 0], n |-> Len(p) - 1, o |-> 0]
      <4> DEFINE st == StackOf(p, k)
      <4>1. /\ st = [c |-> st.c, n |-> st.n, o |-> st.o]
            /\ st.c = CellsOf(p, k) /\ st.n = Len(p) /\ st.o = 0
        BY <3>1 DEF StackOf
      <4> HIDE DEF st
      <4>2. DropCell(st, Len(p) - 1) =
              [c |-> [st.c EXCEPT ![Len(p) - 1] = 0], n |-> st.n - 1, o |-> st.o]
        BY <4>1, CellDropped
      <4>3. QED
        BY <4>1, <4>2 DEF st
    <3>4. [CellsOf(p, k) EXCEPT ![Len(p) - 1] = 0] = CellsOf(q, k)
      BY <1>1, <1>3, <1>4, <2>2, OneCellLess
    <3>5. SizeOf(q, k) = Len(p) - 1 /\ OverOf(q, k) = 0
      BY <1>1, <1>4, <2>2 DEF SizeOf, OverOf
    <3>6. QED
      BY <3>2, <3>3, <3>4, <3>5 DEF StackOf
  <2>3. QED
    BY <1>1, <2>1, <2>2
<1>7. Len(q) <= MaxItems
  BY <1>1, <1>4, SizeAssumption
<1>8. QED
  BY <1>4, <1>5, <1>6, <1>7, StackBecomes

LEMMA StackCopy ==
    ASSUME StackInv, NEW s \in Stack, NEW r \in Stack, O!copy(s, r)
    PROVE  StackInv'
<1>1. /\ Capacity[s] = Capacity[r] /\ O!Becomes(s, O!State(r))
      /\ o_pushed' = [o_pushed EXCEPT ![s] = o_pushed[r]]
  BY DEF O!copy
<1>2. QED
  BY <1>1, StateIs, StackBecomes

\* The states a stack goes through while the m items of d are pushed on it.
Pushes(st, m, one, d) ==
    st = [n \in 0 .. m |-> IF n = 0 THEN one ELSE O!Push(st[n - 1], d[n - 1])]

\* There is one such sequence of states.
LEMMA PushesMeans ==
    ASSUME NEW m \in Nat, NEW one, NEW d, NEW f, NEW g, Pushes(f, m, one, d),
           g = [n \in 0 .. m |-> g[n]], g[0] = one,
           \A n \in 1 .. m : g[n] = O!Push(g[n - 1], d[n - 1])
    PROVE  f = g
<1> DEFINE bad == {n \in 0 .. m : f[n] # g[n]}
<1>1. /\ f = [n \in 0 .. m |-> f[n]] /\ f[0] = one
      /\ \A n \in 1 .. m : f[n] = O!Push(f[n - 1], d[n - 1])
  BY DEF Pushes
<1>2. CASE bad = {}
  BY <1>1, <1>2
<1>3. CASE bad # {}
  <2>1. bad \in SUBSET Nat
    OBVIOUS
  <2>2. PICK n \in bad : \A k \in bad : n <= k
    BY <1>3, <2>1, LeastExists
  <2>3. n \in 1 .. m /\ n - 1 \in 0 .. m
    BY <1>1, <2>2
  <2>4. n - 1 \notin bad
    BY <2>2, <2>3
  <2>5. f[n - 1] = g[n - 1]
    BY <2>3, <2>4
  <2>6. QED
    BY <1>1, <2>2, <2>3, <2>5
<1>4. QED
  BY <1>2, <1>3

\* A size_type keeps a number that it has room for.
LEMMA ModSmall ==
    ASSUME NEW x \in 0 .. SizeMod - 1
    PROVE  x % SizeMod = x
BY SizeAssumption

\* To append to the second part is to append to the whole.
LEMMA AppendAfter ==
    ASSUME NEW B, NEW s \in Seq(B), NEW t \in Seq(B), NEW e \in B
    PROVE  Append(s \o t, e) = s \o (t \o <<e>>)
<1>1. <<e>> \in Seq(B) /\ s \o t \in Seq(B)
  BY ConcatProperties
<1>2. Append(s \o t, e) = (s \o t) \o <<e>>
  BY <1>1, AppendIsConcat
<1>3. QED
  BY <1>1, <1>2, ConcatAssociative

\* The cells d begin with the first m items of q.
Starts(d, m, q) == \A i \in 0 .. m - 1 : d[i] = q[i + 1]

\* A stack of q is appended to one of p: its items are pushed one after the other.
LEMMA PushesAre ==
    ASSUME NEW p \in Seq(Item), NEW q \in Seq(Item), NEW k \in Nat \ {0},
           NEW m \in 0 .. Len(q), Len(p) + Len(q) <= MaxItems, NEW d,
           Starts(d, m, q),
           NEW f, f = [n \in 0 .. m |-> StackOf(p \o SubSeq(q, 1, n), k)]
    PROVE  Pushes(f, m, StackOf(p, k), d)
<1>1. f[0] = StackOf(p, k)
  <2>1. SubSeq(q, 1, 0) = <<>>
    BY SubSeqEmpty
  <2>2. p \o <<>> = p
    BY ConcatEmptySeq
  <2>3. 0 \in 0 .. m
    BY LenProperties
  <2>4. QED
    BY <2>1, <2>2, <2>3
<1>2. ASSUME NEW n \in 1 .. m PROVE f[n] = O!Push(f[n - 1], d[n - 1])
  <2> DEFINE t == SubSeq(q, 1, n - 1)
             u == SubSeq(q, 1, n)
  <2>1. n \in 1 .. Len(q) /\ Len(q) \in Nat /\ n - 1 \in 0 .. m
    BY LenProperties
  <2>2. t \in Seq(Item) /\ Len(t) = n - 1 /\ u \in Seq(Item) /\ Len(u) = n
        /\ (\A i \in 1 .. n - 1 : t[i] = q[i]) /\ (\A i \in 1 .. n : u[i] = q[i])
    <3>1. \A i \in 1 .. n - 1 : q[i] \in Item
      BY <2>1, ElementOfSeq
    <3>2. \A i \in 1 .. n : q[i] \in Item
      BY <2>1, ElementOfSeq
    <3>3. n \in Int /\ n - 1 \in Int /\ 1 \in Int
      BY <2>1
    <3>4. t \in Seq(Item) /\ Len(t) = n - 1 /\ \A i \in 1 .. n - 1 : t[i] = q[i]
      BY <2>1, <3>1, <3>3, SubSeqProperties
    <3>5. u \in Seq(Item) /\ Len(u) = n /\ \A i \in 1 .. n : u[i] = q[i]
      BY <2>1, <3>2, <3>3, SubSeqProperties
    <3>6. QED
      BY <3>4, <3>5
  <2>3. q[n] \in Item /\ d[n - 1] = q[n]
    <3>1. n - 1 \in 0 .. m - 1
      BY <2>1
    <3>2. d[n - 1] = q[(n - 1) + 1]
      BY <3>1 DEF Starts
    <3>3. QED
      BY <2>1, <3>2, ElementOfSeq
  <2> HIDE DEF t, u
  <2>4. p \o t \in Seq(Item) /\ Len(p \o t) = Len(p) + (n - 1) /\ Len(p) \in Nat
    <3>1. p \o t \in Seq(Item) /\ Len(p \o t) = Len(p) + Len(t)
      BY <2>2, ConcatProperties
    <3>2. Len(p) \in Nat
      BY LenProperties
    <3>3. QED
      BY <2>2, <3>1, <3>2
  <2>5. Append(p \o t, q[n]) = p \o u
    <3>1. u = t \o <<q[n]>>
      <4>1. 1 \in 1 .. Len(q) /\ n \in 1 .. Len(q)
        BY <2>1
      <4>2. QED
        BY <4>1, SubSeqRecursiveSecond DEF t, u
    <3>2. t \in Seq(Item) /\ q[n] \in Item
      BY <2>2, <2>3
    <3>3. Append(p \o t, q[n]) = p \o (t \o <<q[n]>>)
      BY <3>2, AppendAfter
    <3>4. QED
      BY <3>1, <3>3
  <2>6. Len(p \o t) + 1 <= MaxItems
    BY <2>1, <2>4, SizeAssumption
  <2>7. O!Push(StackOf(p \o t, k), q[n]) = StackOf(p \o u, k)
    BY <2>3, <2>4, <2>5, <2>6, PushedOn
  <2>8. f[n - 1] = StackOf(p \o t, k) /\ f[n] = StackOf(p \o u, k)
    BY <2>1 DEF t, u
  <2>9. QED
    BY <2>3, <2>7, <2>8
<1>3. f = [n \in 0 .. m |-> f[n]]
  OBVIOUS
<1>4. ASSUME NEW n \in 0 .. m
      PROVE  f[n] = IF n = 0 THEN StackOf(p, k) ELSE O!Push(f[n - 1], d[n - 1])
  <2>1. CASE n = 0
    BY <1>1, <2>1
  <2>2. CASE n # 0
    <3>1. n \in 1 .. m
      BY <2>2
    <3>2. QED
      BY <1>2, <2>2, <3>1
  <2>3. QED
    BY <2>1, <2>2
<1>5. f = [n \in 0 .. m |-> IF n = 0 THEN StackOf(p, k) ELSE O!Push(f[n - 1], d[n - 1])]
  BY ONLY <1>3, <1>4
<1>6. QED
  BY <1>5 DEF Pushes

\* So there are such states.
LEMMA PushesExist ==
    ASSUME NEW p \in Seq(Item), NEW q \in Seq(Item), NEW k \in Nat \ {0},
           NEW m \in 0 .. Len(q), Len(p) + Len(q) <= MaxItems, NEW d,
           Starts(d, m, q)
    PROVE  \E e : Pushes(e, m, StackOf(p, k), d)
BY PushesAre

\* After m pushes, the stack is that of p and the first m items of q.
LEMMA AllPushed ==
    ASSUME NEW p \in Seq(Item), NEW q \in Seq(Item), NEW k \in Nat \ {0},
           NEW m \in 0 .. Len(q), Len(p) + Len(q) <= MaxItems, NEW d,
           Starts(d, m, q),
           NEW st, Pushes(st, m, StackOf(p, k), d)
    PROVE  st[m] = StackOf(p \o SubSeq(q, 1, m), k)
<1> DEFINE f == [n \in 0 .. m |-> StackOf(p \o SubSeq(q, 1, n), k)]
<1>1. Pushes(f, m, StackOf(p, k), d)
  BY PushesAre
<1>2. m \in Nat /\ f = [n \in 0 .. m |-> f[n]] /\ f[m] = StackOf(p \o SubSeq(q, 1, m), k)
  BY LenProperties
<1> HIDE DEF f
<1>3. f[0] = StackOf(p, k) /\ \A n \in 1 .. m : f[n] = O!Push(f[n - 1], d[n - 1])
  BY <1>1, <1>2 DEF Pushes
<1>4. st = f
  BY <1>2, <1>3, PushesMeans
<1>5. QED
  BY <1>2, <1>4

\* A stack of t, with an overflow of e more, is one of v.
SameStack(t, k, e, v) ==
    /\ CellsOf(t, k) = CellsOf(v, k) /\ SizeOf(t, k) = SizeOf(v, k)
    /\ (OverOf(t, k) + e) % SizeMod = OverOf(v, k)

MayAppend(p, k, q, j) == OverOf(q, j) > 0 => SizeOf(p, k) + SizeOf(q, j) >= k

\* What append() adds to the overflow are the items of q that were not pushed:
\* if q overflowed, the stack was full before.
LEMMA OverAppended ==
    ASSUME NEW p \in Seq(Item), NEW q \in Seq(Item), NEW k \in Nat \ {0},
           NEW j \in Nat \ {0}, Len(p) + Len(q) <= MaxItems,
           MayAppend(p, k, q, j), NEW e, e = OverOf(q, j),
           NEW m, m = SizeOf(q, j), NEW t, t = p \o SubSeq(q, 1, m),
           NEW v, v = p \o q
    PROVE  SameStack(t, k, e, v)
<1> DEFINE u == SubSeq(q, 1, m)
           a == Len(p)
           b == Len(q)
<1>1. a \in Nat /\ b \in Nat /\ m \in 0 .. b
  BY LenProperties DEF SizeOf
<1>2. u \in Seq(Item) /\ Len(u) = m /\ \A i \in 1 .. m : u[i] = q[i]
  <2>1. \A i \in 1 .. m : q[i] \in Item
    BY <1>1, ElementOfSeq
  <2>2. m \in Int /\ 1 \in Int
    BY <1>1
  <2>3. QED
    BY <1>1, <2>1, <2>2, SubSeqProperties
<1>3. Len(t) = a + m /\ \A i \in 1 .. a + m : t[i] = IF i <= a THEN p[i] ELSE u[i - a]
  BY <1>2, ConcatProperties
<1>4. Len(v) = a + b
      /\ \A i \in 1 .. a + b : v[i] = IF i <= a THEN p[i] ELSE q[i - a]
  BY ConcatProperties
<1>5. m = b \/ a + m >= k
  BY <1>1 DEF SizeOf, OverOf, MayAppend
<1>6. OverOf(q, j) = b - m
  BY DEF OverOf
<1>7. a + b <= MaxItems
  OBVIOUS
<1> HIDE DEF u, a, b
<1>8. CellsOf(t, k) = CellsOf(v, k)
  <2>1. ASSUME NEW i \in 0 .. k - 1 PROVE CellsOf(t, k)[i] = CellsOf(v, k)[i]
    <3>1. i < Len(t) <=> i < Len(v)
      <4>1. Len(t) = a + m /\ Len(v) = a + b
        BY <1>3, <1>4
      <4>2. i < a + m <=> i < a + b
        BY <1>1, <1>5
      <4>3. QED
        BY <4>1, <4>2
    <3>2. ASSUME i < Len(t) PROVE t[i + 1] = v[i + 1]
      <4>1. i + 1 \in 1 .. a + m /\ i + 1 \in 1 .. a + b
        BY <1>1, <1>3, <3>2
      <4>2. CASE i + 1 <= a
        BY <1>3, <1>4, <4>1, <4>2
      <4>3. CASE ~(i + 1 <= a)
        <5>1. (i + 1) - a \in 1 .. m
          BY <1>1, <4>1, <4>3
        <5>2. QED
          BY <1>2, <1>3, <1>4, <4>1, <4>3, <5>1
      <4>4. QED
        BY <4>2, <4>3
    <3>3. QED
      BY <3>1, <3>2 DEF CellsOf
  <2>2. QED
    BY <2>1 DEF CellsOf
<1>9. Len(t) = a + m /\ Len(v) = a + b
  BY <1>3, <1>4
<1>10. SizeOf(t, k) = IF a + m < k THEN a + m ELSE k
  BY <1>9 DEF SizeOf
<1>11. SizeOf(v, k) = IF a + b < k THEN a + b ELSE k
  BY <1>9 DEF SizeOf
<1>12. SizeOf(t, k) = SizeOf(v, k) /\ SizeOf(v, k) \in 0 .. a + b
  BY ONLY <1>1, <1>5, <1>10, <1>11, k \in Nat \ {0}
<1>13. OverOf(t, k) + OverOf(q, j) = OverOf(v, k)
  <2>1. /\ OverOf(t, k) = (a + m) - SizeOf(v, k)
        /\ OverOf(v, k) = (a + b) - SizeOf(v, k)
    BY <1>12, <1>9 DEF OverOf
  <2>2. QED
    BY <1>1, <1>12, <1>6, <2>1
<1>14. OverOf(v, k) \in 0 .. SizeMod - 1
  <2>1. OverOf(v, k) = (a + b) - SizeOf(v, k)
    BY <1>9 DEF OverOf
  <2>2. QED
    BY <1>1, <1>12, <1>7, <2>1, SizeAssumption
<1>15. OverOf(v, k) % SizeMod = OverOf(v, k)
  BY <1>14, ModSmall
<1>16. QED
  BY <1>8, <1>12, <1>13, <1>15 DEF SameStack

LEMMA StackAppend ==
    ASSUME StackInv, NEW s \in Stack, NEW r \in Stack, O!append(s, r)
    PROVE  StackInv'
<1> DEFINE p == o_pushed[s]
           q == o_pushed[r]
           k == Capacity[s]
           j == Capacity[r]
           d == o_cells[r]
           m == o_size[r]
           st == CHOOSE e : Pushes(e, m, O!State(s), d)
<1>1. /\ O!State(s) = StackOf(p, k) /\ p \in Seq(Item) /\ q \in Seq(Item)
      /\ k \in Nat \ {0} /\ j \in Nat \ {0} /\ Len(p) \in Nat /\ Len(q) \in Nat
  BY StateIs
<1>2. /\ m = SizeOf(q, j) /\ o_overflow[r] = OverOf(q, j) /\ o_size[s] = SizeOf(p, k)
      /\ d = CellsOf(q, j)
  BY DEF StackInv
<1>3. /\ Len(p) + Len(q) <= MaxItems
      /\ MayAppend(p, k, q, j)
      /\ o_pushed' = [o_pushed EXCEPT ![s] = @ \o q]
  BY <1>2 DEF O!append, O!Appendable, MayAppend
<1>4. O!Becomes(s, [st[m] EXCEPT !.o = (@ + o_overflow[r]) % SizeMod])
  BY DEF O!append, Pushes
<1>5. o_pushed' = [o_pushed EXCEPT ![s] = p \o q]
  BY <1>3 DEF StackInv
<1> HIDE DEF p, q, k, j, d
<1>6. m \in 0 .. Len(q) /\ Starts(d, m, q)
  <2>1. m \in 0 .. Len(q) /\ m <= j
    BY <1>1, <1>2 DEF SizeOf
  <2>2. ASSUME NEW i \in 0 .. m - 1 PROVE d[i] = q[i + 1]
    <3>1. i \in 0 .. j - 1 /\ i < Len(q)
      BY <1>1, <2>1
    <3>2. QED
      BY <1>2, <3>1 DEF CellsOf
  <2>3. QED
    BY <2>1, <2>2 DEF Starts
<1> HIDE DEF m
<1>7. \E e : Pushes(e, m, StackOf(p, k), d)
  BY <1>1, <1>3, <1>6, PushesExist
<1>8. Pushes(st, m, StackOf(p, k), d)
  BY <1>1, <1>7
<1> HIDE DEF st
<1>9. st[m] = StackOf(p \o SubSeq(q, 1, m), k)
  BY <1>1, <1>3, <1>6, <1>8, AllPushed
<1> DEFINE t == p \o SubSeq(q, 1, m)
<1>10. t \in Seq(Item)
  <2>1. \A i \in 1 .. m : q[i] \in Item
    BY <1>1, <1>6, ElementOfSeq
  <2>2. m \in Int /\ 1 \in Int
    BY <1>6
  <2>3. SubSeq(q, 1, m) \in Seq(Item)
    BY <2>1, <2>2, SubSeqProperties
  <2>4. QED
    BY <1>1, <2>3, ConcatProperties
<1>11. [st[m] EXCEPT !.o = (@ + o_overflow[r]) % SizeMod] = StackOf(p \o q, k)
  <2>1. o_overflow[r] = OverOf(q, j) /\ st[m] = StackOf(t, k) /\ m = SizeOf(q, j)
    BY <1>2, <1>9
  <2>2. SameStack(t, k, o_overflow[r], p \o q)
    BY <1>1, <1>3, <2>1, OverAppended
  <2> HIDE DEF t
  <2>3. QED
    BY <2>1, <2>2 DEF StackOf, SameStack
<1>12. p \o q \in Seq(Item) /\ Len(p \o q) <= MaxItems
  BY <1>1, <1>3, ConcatProperties
<1>13. O!Becomes(s, StackOf(p \o q, k))
  BY <1>4, <1>11
<1>14. QED
  BY <1>5, <1>12, <1>13, StackBecomes DEF k

\* Every step of the containers keeps the invariant of the stacks.
LEMMA StackStep == StackInv /\ [ContainersNext]_containersVars => StackInv'
<1> SUFFICES ASSUME StackInv, [ContainersNext]_containersVars PROVE StackInv'
  OBVIOUS
<1>1. CASE UNCHANGED stack
  BY <1>1 DEF stack, StackInv
<1>2. CASE O!Next
  BY <1>2, StackPush, StackPop, StackAppend, StackCopy DEF O!Next
<1>3. QED
  BY <1>1, <1>2 DEF ContainersNext, containersVars

\* What was pushed on a stack of capacity k is there as far as it has cells.
KeptOf(p, k) == SubSeq(p, 1, SizeOf(p, k))

LEMMA KeptIs ==
    ASSUME NEW p \in Seq(Item), NEW k \in Nat \ {0}
    PROVE  /\ KeptOf(p, k) \in Seq(Item) /\ Len(KeptOf(p, k)) = SizeOf(p, k)
           /\ \A i \in 1 .. SizeOf(p, k) : KeptOf(p, k)[i] = p[i]
           /\ SizeOf(p, k) \in 0 .. k /\ SizeOf(p, k) \in 0 .. Len(p)
<1>1. Len(p) \in Nat
  BY LenProperties
<1>2. SizeOf(p, k) \in 0 .. k /\ SizeOf(p, k) \in 0 .. Len(p)
  BY <1>1 DEF SizeOf
<1>3. \A i \in 1 .. SizeOf(p, k) : p[i] \in Item
  BY <1>1, <1>2, ElementOfSeq
<1>4. 1 \in Int /\ SizeOf(p, k) \in Int
  BY <1>2
<1>5. QED
  BY <1>2, <1>3, <1>4, SubSeqProperties DEF KeptOf

\* The least of two numbers.
LEMMA MinOfTwo ==
    ASSUME NEW k \in Nat, NEW n \in Nat
    PROVE  O!Min({k, n}) = IF n < k THEN n ELSE k
<1> DEFINE m == IF n < k THEN n ELSE k
<1>1. m \in {k, n} /\ \A y \in {k, n} : m <= y
  OBVIOUS
<1>2. \A x \in {k, n} : (\A y \in {k, n} : x <= y) => x = m
  OBVIOUS
<1>3. QED
  BY <1>1, <1>2 DEF O!Min

\* The parts of a stack, as far as comparisons read them.
LEMMA StackReads ==
    ASSUME StackInv, NEW s \in Stack
    PROVE  /\ o_pushed[s] \in Seq(Item) /\ Len(o_pushed[s]) \in Nat
           /\ Capacity[s] \in Nat \ {0} /\ Len(o_pushed[s]) <= MaxItems
           /\ o_size[s] = SizeOf(o_pushed[s], Capacity[s])
           /\ o_overflow[s] = OverOf(o_pushed[s], Capacity[s])
           /\ o_cells[s] = CellsOf(o_pushed[s], Capacity[s])
           /\ O!Kept(s) = KeptOf(o_pushed[s], Capacity[s])
<1>1. Capacity[s] \in Nat \ {0} /\ o_pushed[s] \in Seq(Item) /\ Len(o_pushed[s]) \in Nat
  BY CapacityAssumption DEF StackInv
<1>2. O!Kept(s) = KeptOf(o_pushed[s], Capacity[s])
  BY <1>1, MinOfTwo DEF O!Kept, KeptOf, SizeOf
<1>3. QED
  BY <1>1, <1>2 DEF StackInv

\* The stacks have the items pushed first and count all of them.
LEMMA StackPrefix == StackInv => O!StackIsPrefix
<1> SUFFICES ASSUME StackInv, NEW s \in Stack
             PROVE  /\ [i \in 1 .. o_size[s] |-> o_cells[s][i - 1]] = O!Kept(s)
                    /\ O!full_size(s) = Len(o_pushed[s])
  BY DEF O!StackIsPrefix
<1> DEFINE p == o_pushed[s]
           k == Capacity[s]
           n == o_size[s]
           x == O!Kept(s)
           c == o_cells[s]
<1>1. /\ p \in Seq(Item) /\ Len(p) \in Nat /\ k \in Nat \ {0} /\ Len(p) <= MaxItems
      /\ n = SizeOf(p, k) /\ o_overflow[s] = OverOf(p, k) /\ c = CellsOf(p, k)
      /\ x = KeptOf(p, k)
  BY StackReads
<1>2. O!full_size(s) = (n + o_overflow[s]) % SizeMod
  BY DEF O!full_size
<1> HIDE DEF p, k, n, x, c
<1>3. /\ x \in Seq(Item) /\ Len(x) = n /\ \A i \in 1 .. n : x[i] = p[i]
      /\ n \in 0 .. k /\ n \in 0 .. Len(p)
  BY <1>1, KeptIs
<1>4. ASSUME NEW i \in 1 .. n PROVE c[i - 1] = x[i]
  <2>1. i - 1 \in 0 .. k - 1 /\ i - 1 < Len(p) /\ (i - 1) + 1 = i
    BY <1>1, <1>3
  <2>2. QED
    BY <1>1, <1>3, <2>1 DEF CellsOf
<1>5. x = [i \in 1 .. n |-> x[i]]
  BY <1>3, SeqDef
<1>6. [i \in 1 .. n |-> c[i - 1]] = x
  BY <1>4, <1>5
<1>7. n + o_overflow[s] = Len(p) /\ Len(p) \in 0 .. SizeMod - 1
  BY <1>1, <1>3, SizeAssumption DEF OverOf
<1>8. QED
  BY <1>2, <1>6, <1>7, ModSmall DEF p, n, x, c

-----------------------------------------------------------------------------
(* Comparisons of stacks read all their cells, those in use and the zeroes *)
(* after them.                                                             *)

\* The cells in use hold items and the others zero.
LEMMA CellsHold ==
    ASSUME StackInv, NEW s \in Stack
    PROVE  /\ \A i \in 0 .. o_size[s] - 1 :
                 o_cells[s][i] \in Item /\ o_cells[s][i] = O!Kept(s)[i + 1]
           /\ \A i \in o_size[s] .. Capacity[s] - 1 : o_cells[s][i] = 0
           /\ o_size[s] \in 0 .. Capacity[s] /\ Capacity[s] \in Nat \ {0}
           /\ DOMAIN o_cells[s] = 0 .. Capacity[s] - 1
           /\ O!Kept(s) \in Seq(Item) /\ Len(O!Kept(s)) = o_size[s]
<1> DEFINE p == o_pushed[s]
           k == Capacity[s]
           n == o_size[s]
           x == O!Kept(s)
           c == o_cells[s]
<1>1. /\ p \in Seq(Item) /\ Len(p) \in Nat /\ k \in Nat \ {0}
      /\ n = SizeOf(p, k) /\ c = CellsOf(p, k) /\ x = KeptOf(p, k)
  BY StackReads
<1> HIDE DEF p, k, n, x, c
<1>2. /\ x \in Seq(Item) /\ Len(x) = n /\ \A i \in 1 .. n : x[i] = p[i]
      /\ n \in 0 .. k /\ n \in 0 .. Len(p)
  BY <1>1, KeptIs
<1>3. n < k => n = Len(p)
  BY <1>1 DEF SizeOf
<1>4. ASSUME NEW i \in 0 .. n - 1 PROVE c[i] \in Item /\ c[i] = x[i + 1]
  <2>1. i \in 0 .. k - 1 /\ i < Len(p) /\ i + 1 \in 1 .. n /\ i + 1 \in 1 .. Len(p)
    BY <1>1, <1>2
  <2>2. c[i] = p[i + 1] /\ p[i + 1] = x[i + 1]
    BY <1>1, <1>2, <2>1 DEF CellsOf
  <2>3. p[i + 1] \in Item
    BY <1>1, <2>1, ElementOfSeq
  <2>4. QED
    BY <2>2, <2>3
<1>5. ASSUME NEW i \in n .. k - 1 PROVE c[i] = 0
  <2>1. i \in 0 .. k - 1 /\ ~(i < Len(p))
    BY <1>1, <1>2, <1>3
  <2>2. QED
    BY <1>1, <2>1 DEF CellsOf
<1>6. DOMAIN c = 0 .. k - 1
  BY <1>1 DEF CellsOf
<1>7. QED
  BY <1>1, <1>2, <1>4, <1>5, <1>6 DEF k, n, x, c

\* All cells of s are those of o.
CellsAgree(s, o) == \A i \in 0 .. Capacity[s] - 1 : o_cells[s][i] = o_cells[o][i]

\* Equal cells and sizes are equal items.
LEMMA EqualMeans ==
    ASSUME StackInv, NEW s \in Stack, NEW o \in Stack, Capacity[s] <= Capacity[o]
    PROVE  CellsAgree(s, o) /\ o_size[s] = o_size[o] <=> O!Kept(s) = O!Kept(o)
<1> DEFINE k == Capacity[s]
           j == Capacity[o]
           n == o_size[s]
           m == o_size[o]
           x == O!Kept(s)
           y == O!Kept(o)
           c == o_cells[s]
           d == o_cells[o]
<1>1. /\ \A i \in 0 .. n - 1 : c[i] = x[i + 1]
      /\ \A i \in n .. k - 1 : c[i] = 0
      /\ n \in 0 .. k /\ k \in Nat \ {0}
      /\ x \in Seq(Item) /\ Len(x) = n
  BY CellsHold
<1>2. /\ \A i \in 0 .. m - 1 : d[i] = y[i + 1]
      /\ \A i \in m .. j - 1 : d[i] = 0
      /\ m \in 0 .. j /\ j \in Nat \ {0}
      /\ y \in Seq(Item) /\ Len(y) = m
  BY CellsHold
<1>3. k <= j
  OBVIOUS
<1> HIDE DEF k, j, n, m, x, y, c, d
<1>4. ASSUME \A i \in 0 .. k - 1 : c[i] = d[i], n = m PROVE x = y
  <2>1. ASSUME NEW i \in 1 .. n PROVE x[i] = y[i]
    <3>1. i - 1 \in 0 .. n - 1 /\ i - 1 \in 0 .. k - 1 /\ (i - 1) + 1 = i
      BY <1>1
    <3>2. QED
      BY <1>1, <1>2, <1>4, <3>1
  <2>2. QED
    BY <1>1, <1>2, <1>4, <2>1, SeqEqual
<1>5. ASSUME x = y PROVE (\A i \in 0 .. k - 1 : c[i] = d[i]) /\ n = m
  <2>1. n = m
    BY <1>1, <1>2, <1>5
  <2>2. ASSUME NEW i \in 0 .. k - 1 PROVE c[i] = d[i]
    <3>1. CASE i < n
      BY <1>1, <1>2, <1>5, <2>1, <3>1
    <3>2. CASE ~(i < n)
      <4>1. i \in n .. k - 1 /\ i \in m .. j - 1
        BY <1>3, <1>1, <1>2, <2>1, <3>2
      <4>2. QED
        BY <1>1, <1>2, <4>1
    <3>3. QED
      BY <3>1, <3>2
  <2>3. QED
    BY <2>1, <2>2
<1>6. QED
  BY <1>4, <1>5 DEF CellsAgree, k, n, m, x, y, c, d

\* Stacks whose cells agree are of one size, since no item is zero.
LEMMA AgreeingSize ==
    ASSUME StackInv, NEW s \in Stack, NEW o \in Stack, Capacity[s] = Capacity[o],
           CellsAgree(s, o)
    PROVE  o_size[s] = o_size[o]
<1> DEFINE k == Capacity[s]
           n == o_size[s]
           m == o_size[o]
           c == o_cells[s]
           d == o_cells[o]
<1>1. /\ \A i \in 0 .. n - 1 : c[i] \in Item
      /\ \A i \in n .. k - 1 : c[i] = 0
      /\ n \in 0 .. k /\ k \in Nat \ {0}
  BY CellsHold
<1>2. /\ \A i \in 0 .. m - 1 : d[i] \in Item
      /\ \A i \in m .. k - 1 : d[i] = 0
      /\ m \in 0 .. k
  BY CellsHold
<1>3. \A i \in 0 .. k - 1 : c[i] = d[i]
  BY DEF CellsAgree
<1>4. 0 \notin Item
  BY ItemAssumption
<1> HIDE DEF k, n, m, c, d
<1>5. ~(n < m)
  <2> SUFFICES ASSUME n < m PROVE FALSE
    OBVIOUS
  <2>1. n \in 0 .. m - 1 /\ n \in n .. k - 1 /\ n \in 0 .. k - 1
    BY <1>1, <1>2
  <2>2. QED
    BY <1>1, <1>2, <1>3, <1>4, <2>1
<1>6. ~(m < n)
  <2> SUFFICES ASSUME m < n PROVE FALSE
    OBVIOUS
  <2>1. m \in 0 .. n - 1 /\ m \in m .. k - 1 /\ m \in 0 .. k - 1
    BY <1>1, <1>2
  <2>2. QED
    BY <1>1, <1>2, <1>3, <1>4, <2>1
<1>7. QED
  BY <1>1, <1>2, <1>5, <1>6 DEF n, m

LEMMA ItemsAreNumbers ==
    ASSUME NEW x, x \in Item \/ x = 0
    PROVE  x \in Nat
<1>1. CASE x \in Item
  <2>1. x \in 1 .. 255
    BY <1>1, ItemAssumption
  <2>2. QED
    BY <2>1
<1>2. CASE x = 0
  BY <1>2
<1>3. QED
  BY <1>1, <1>2

\* c is smaller than d at the first cell where they differ.
Below(c, d, k) ==
    \E i \in 0 .. k - 1 : c[i] < d[i] /\ \A j \in 0 .. i - 1 : c[j] = d[j]

LEMMA OneIsBelow ==
    ASSUME NEW k \in Nat, NEW c, NEW d, \A i \in 0 .. k - 1 : c[i] \in Nat /\ d[i] \in Nat
    PROVE  /\ (\A i \in 0 .. k - 1 : c[i] = d[i]) \/ Below(c, d, k) \/ Below(d, c, k)
           /\ Below(c, d, k) => ~Below(d, c, k)
           /\ (\A i \in 0 .. k - 1 : c[i] = d[i]) => ~Below(c, d, k) /\ ~Below(d, c, k)
<1>1. ASSUME ~\A i \in 0 .. k - 1 : c[i] = d[i]
      PROVE  Below(c, d, k) \/ Below(d, c, k)
  <2> DEFINE bad == {i \in 0 .. k - 1 : c[i] # d[i]}
  <2>1. bad \in SUBSET Nat /\ bad # {}
    BY <1>1
  <2>2. PICK i \in bad : \A j \in bad : i <= j
    BY <2>1, LeastExists
  <2>3. i \in 0 .. k - 1 /\ c[i] # d[i]
    BY <2>2
  <2>4. ASSUME NEW j \in 0 .. i - 1 PROVE c[j] = d[j]
    <3>1. j \in 0 .. k - 1 /\ ~(i <= j)
      BY <2>3
    <3>2. j \notin bad
      BY <2>2, <3>1
    <3>3. QED
      BY <3>1, <3>2
  <2>5. c[i] < d[i] \/ d[i] < c[i]
    BY <2>3
  <2>6. QED
    BY <2>3, <2>4, <2>5 DEF Below
<1>2. ASSUME Below(c, d, k), Below(d, c, k) PROVE FALSE
  <2>1. PICK i \in 0 .. k - 1 : c[i] < d[i] /\ \A j \in 0 .. i - 1 : c[j] = d[j]
    BY <1>2 DEF Below
  <2>2. PICK l \in 0 .. k - 1 : d[l] < c[l] /\ \A j \in 0 .. l - 1 : d[j] = c[j]
    BY <1>2 DEF Below
  <2>3. i \in 0 .. l - 1 \/ l \in 0 .. i - 1 \/ i = l
    OBVIOUS
  <2>4. c[i] \in Nat /\ d[i] \in Nat /\ c[l] \in Nat /\ d[l] \in Nat
    BY <2>1, <2>2
  <2>5. QED
    BY <2>1, <2>2, <2>3, <2>4
<1>3. ASSUME \A i \in 0 .. k - 1 : c[i] = d[i] PROVE ~Below(c, d, k) /\ ~Below(d, c, k)
  BY <1>3 DEF Below
<1>4. QED
  BY <1>1, <1>2, <1>3

LEMMA OneOfThree ==
    ASSUME NEW x \in BOOLEAN, NEW y \in BOOLEAN, NEW z \in BOOLEAN,
           x \/ y \/ z, ~(x /\ y), ~(x /\ z), ~(y /\ z)
    PROVE  Cardinality({r \in 1 .. 3 : <<x, y, z>>[r]}) = 1
<1> DEFINE f == <<x, y, z>>
           t == {r \in 1 .. 3 : f[r]}
<1>1. f[1] = x /\ f[2] = y /\ f[3] = z
  OBVIOUS
<1> HIDE DEF f
<1>2. CASE x
  <2>1. x = TRUE /\ y = FALSE /\ z = FALSE
    BY <1>2
  <2>2. f[1] = TRUE /\ f[2] = FALSE /\ f[3] = FALSE
    BY <1>1, <2>1
  <2>3. t = {1}
    BY <2>2
  <2>4. QED
    BY <2>3, FS_Singleton DEF f
<1>3. CASE y
  <2>1. x = FALSE /\ y = TRUE /\ z = FALSE
    BY <1>3
  <2>2. f[1] = FALSE /\ f[2] = TRUE /\ f[3] = FALSE
    BY <1>1, <2>1
  <2>3. t = {2}
    BY <2>2
  <2>4. QED
    BY <2>3, FS_Singleton DEF f
<1>4. CASE z
  <2>1. x = FALSE /\ y = FALSE /\ z = TRUE
    BY <1>4
  <2>2. f[1] = FALSE /\ f[2] = FALSE /\ f[3] = TRUE
    BY <1>1, <2>1
  <2>3. t = {3}
    BY <2>2
  <2>4. QED
    BY <2>3, FS_Singleton DEF f
<1>5. QED
  BY <1>2, <1>3, <1>4

LEMMA StacksOrdered == StackInv => O!StacksAreOrdered
<1> SUFFICES ASSUME StackInv, NEW s \in Stack, NEW o \in Stack
             PROVE  /\ Capacity[s] <= Capacity[o] =>
                          O!equal(s, o) = (O!Kept(s) = O!Kept(o))
                    /\ Capacity[s] = Capacity[o] =>
                          O!Cardinality({r \in 1 .. 3 :
                              <<O!less(s, o), O!equal(s, o), O!less(o, s)>>[r]}) = 1
  BY DEF O!StacksAreOrdered
<1>1. O!equal(s, o) <=> CellsAgree(s, o) /\ o_size[s] = o_size[o]
  BY CellsHold DEF O!equal, CellsAgree
<1>2. ASSUME Capacity[s] <= Capacity[o]
      PROVE  O!equal(s, o) <=> O!Kept(s) = O!Kept(o)
  BY <1>1, <1>2, EqualMeans
<1>3. O!equal(s, o) \in BOOLEAN /\ O!less(s, o) \in BOOLEAN /\ O!less(o, s) \in BOOLEAN
  BY DEF O!equal, O!less
<1>4. ASSUME Capacity[s] = Capacity[o]
      PROVE  O!Cardinality({r \in 1 .. 3 :
                 <<O!less(s, o), O!equal(s, o), O!less(o, s)>>[r]}) = 1
  <2> DEFINE k == Capacity[s]
  <2>1. /\ DOMAIN o_cells[s] = 0 .. k - 1 /\ DOMAIN o_cells[o] = 0 .. k - 1
        /\ k \in Nat /\ \A i \in 0 .. k - 1 : o_cells[s][i] \in Nat /\ o_cells[o][i] \in Nat
    <3>1. ASSUME NEW r \in {s, o}, NEW i \in 0 .. k - 1 PROVE o_cells[r][i] \in Nat
      <4>1. /\ \A j \in 0 .. o_size[r] - 1 : o_cells[r][j] \in Item
            /\ \A j \in o_size[r] .. k - 1 : o_cells[r][j] = 0
            /\ o_size[r] \in 0 .. k
        BY <1>4, CellsHold
      <4>2. i \in 0 .. o_size[r] - 1 \/ i \in o_size[r] .. k - 1
        BY <4>1
      <4>3. o_cells[r][i] \in Item \/ o_cells[r][i] = 0
        BY <4>1, <4>2
      <4>4. QED
        BY <4>3, ItemsAreNumbers
    <3>2. QED
      BY <1>4, <3>1, CellsHold
  <2>2. /\ O!less(s, o) <=> Below(o_cells[s], o_cells[o], k)
        /\ O!less(o, s) <=> Below(o_cells[o], o_cells[s], k)
    BY <2>1 DEF O!less, Below
  <2>3. O!equal(s, o) <=> \A i \in 0 .. k - 1 : o_cells[s][i] = o_cells[o][i]
    BY <1>1, <1>4, AgreeingSize DEF CellsAgree
  <2> DEFINE x == O!less(s, o)
             y == O!equal(s, o)
             z == O!less(o, s)
  <2>4. (x \/ y \/ z) /\ ~(x /\ y) /\ ~(x /\ z) /\ ~(y /\ z)
    BY <2>1, <2>2, <2>3, OneIsBelow
  <2>5. x \in BOOLEAN /\ y \in BOOLEAN /\ z \in BOOLEAN
    BY <1>3
  <2> HIDE DEF x, y, z
  <2>6. Cardinality({r \in 1 .. 3 : <<x, y, z>>[r]}) = 1
    BY <2>4, <2>5, OneOfThree
  <2>7. QED
    BY <2>6 DEF x, y, z, Cardinality, O!Cardinality
<1>5. QED
  BY <1>2, <1>3, <1>4

-----------------------------------------------------------------------------
(* The stacks of flags of the parser.                                      *)

\* A flag more, and one less.
LEMMA FlagAdded ==
    ASSUME NEW g \in Seq(BOOLEAN), NEW x \in BOOLEAN
    PROVE  /\ Append(g, x) \in Seq(BOOLEAN) /\ Len(Append(g, x)) = Len(g) + 1
           /\ \A i \in 1 .. Len(g) : Append(g, x)[i] = g[i]
           /\ Append(g, x)[Len(g) + 1] = x
           /\ Len(g) \in Nat
BY AppendProperties, LenProperties

LEMMA FlagTaken ==
    ASSUME NEW g \in Seq(BOOLEAN), g # <<>>
    PROVE  /\ F!Front(g) \in Seq(BOOLEAN) /\ Len(F!Front(g)) = Len(g) - 1
           /\ \A i \in 1 .. Len(g) - 1 : F!Front(g)[i] = g[i]
           /\ Len(g) \in Nat \ {0}
<1>1. Len(g) \in Nat \ {0}
  BY EmptySeq, LenProperties
<1>2. \A i \in 1 .. Len(g) - 1 : g[i] \in BOOLEAN
  BY <1>1, ElementOfSeq
<1>3. 1 \in Int /\ Len(g) - 1 \in Int
  BY <1>1
<1>4. /\ SubSeq(g, 1, Len(g) - 1) \in Seq(BOOLEAN)
      /\ Len(SubSeq(g, 1, Len(g) - 1)) =
            IF 1 <= Len(g) - 1 THEN (Len(g) - 1) - 1 + 1 ELSE 0
      /\ \A i \in 1 .. (Len(g) - 1) - 1 + 1 :
            SubSeq(g, 1, Len(g) - 1)[i] = g[1 + i - 1]
  BY <1>2, <1>3, SubSeqProperties
<1>5. F!Front(g) = SubSeq(g, 1, Len(g) - 1)
  BY DEF F!Front
<1>6. \A i \in 1 .. Len(g) - 1 : F!Front(g)[i] = g[i]
  BY <1>1, <1>4, <1>5
<1>7. Len(F!Front(g)) = Len(g) - 1
  <2>1. PICK n \in Nat \ {0} : n = Len(g)
    BY <1>1
  <2>2. Len(F!Front(g)) = IF 1 <= n - 1 THEN (n - 1) - 1 + 1 ELSE 0
    BY <1>4, <1>5, <2>1
  <2>3. Len(F!Front(g)) = n - 1
    BY ONLY <2>2, n \in Nat \ {0}
  <2>4. QED
    BY <2>1, <2>3
<1>8. QED
  BY <1>1, <1>4, <1>5, <1>6, <1>7

\* bitstack<63>: bit i + 1 is flag i.
Bits63(s, g) ==
    /\ s = [bits |-> s.bits, mask |-> s.mask]
    /\ s.mask = Len(g) + 1 /\ s.mask <= WordBits
    /\ \A i \in 1 .. Len(g) : g[i] = TRUE <=> i + 1 \in s.bits

\* The operations of bitstack<63> keep it.
LEMMA Bits63Push ==
    ASSUME NEW g \in Seq(BOOLEAN), NEW x \in BOOLEAN, NEW s, Bits63(s, g),
           Len(g) < WordBits - 1, NEW h, h = Append(g, x)
    PROVE  Bits63(F!bits63_push(s, x), h)
<1>1. /\ Len(h) = Len(g) + 1 /\ \A i \in 1 .. Len(g) : h[i] = g[i]
      /\ h[Len(g) + 1] = x /\ Len(g) \in Nat
  BY FlagAdded
<1>2. s.mask = Len(g) + 1 /\ \A i \in 1 .. Len(g) : g[i] = TRUE <=> i + 1 \in s.bits
  BY DEF Bits63
<1>3. F!ShiftedLeft(s.mask) = Len(g) + 2
  BY <1>1, <1>2, WordsAssumption DEF F!ShiftedLeft
<1> DEFINE t == F!bits63_push(s, x)
<1>4. /\ t = [mask |-> t.mask, bits |-> t.bits] /\ t.mask = Len(g) + 2
      /\ t.bits = IF x THEN s.bits \cup {Len(g) + 2} ELSE s.bits \ {Len(g) + 2}
  BY <1>3 DEF F!bits63_push
<1>5. t = [bits |-> t.bits, mask |-> t.mask]
  BY <1>4
<1> HIDE DEF t
<1>6. ASSUME NEW i \in 1 .. Len(h) PROVE h[i] = TRUE <=> i + 1 \in t.bits
  <2>1. CASE i = Len(g) + 1
    BY <1>1, <1>4, <2>1
  <2>2. CASE i # Len(g) + 1
    <3>1. i \in 1 .. Len(g) /\ i + 1 # Len(g) + 2
      BY <1>1, <2>2
    <3>2. i + 1 \in t.bits <=> i + 1 \in s.bits
      BY <1>4, <3>1
    <3>3. QED
      BY <1>1, <1>2, <3>1, <3>2
  <2>3. QED
    BY <2>1, <2>2
<1>7. QED
  BY <1>1, <1>4, <1>5, <1>6, WordsAssumption DEF Bits63, t

LEMMA Bits63Pop ==
    ASSUME NEW g \in Seq(BOOLEAN), NEW s, Bits63(s, g), g # <<>>,
           NEW h, h = F!Front(g)
    PROVE  Bits63(F!bits63_pop(s), h)
<1>1. /\ Len(h) = Len(g) - 1 /\ \A i \in 1 .. Len(g) - 1 : h[i] = g[i]
      /\ Len(g) \in Nat \ {0}
  BY FlagTaken
<1>2. F!bits63_pop(s) = [bits |-> s.bits, mask |-> s.mask - 1]
  BY DEF F!bits63_pop, Bits63
<1>3. QED
  BY <1>1, <1>2, WordsAssumption DEF Bits63

\* Places are in the order of words and bits.
LEMMA PlacesAreOrdered ==
    ASSUME NEW p \in Int, NEW q \in Int, NEW b \in 1 .. WordBits, NEW c \in 1 .. WordBits,
           p * WordBits + b <= q * WordBits + c
    PROVE  p < q \/ (p = q /\ b <= c)
<1> DEFINE w == WordBits
           d == p - q
<1>1. w \in Nat /\ w > 1
  BY WordsAssumption
<1>2. p * w = q * w + d * w
  <2>1. p = q + d
    OBVIOUS
  <2>2. QED
    BY <1>1, <2>1, Z3
<1>3. CASE d >= 1
  <2>1. d * w >= w
    BY <1>1, <1>3, Z3
  <2>2. p * w \in Int /\ q * w \in Int /\ d * w \in Int
    BY <1>1
  <2> HIDE DEF w, d
  <2>3. p * w + b <= q * w + c
    BY DEF w
  <2>4. b \in 1 .. w /\ c \in 1 .. w
    BY DEF w
  <2>5. QED
    BY <1>1, <1>2, <2>1, <2>2, <2>3, <2>4
<1>4. CASE d = 0
  <2>1. p = q
    BY <1>4
  <2>2. q * w \in Int
    BY <1>1
  <2>3. QED
    BY <2>1, <2>2
<1>5. CASE d < 0
  BY <1>5
<1>6. QED
  BY <1>3, <1>4, <1>5

\* bitstack<N>: flag p * WordBits + b is bit b of word p, which may be set
\* although the flag is FALSE, unless it is the first one of the word.
Bit(s, g, p, b) ==
    p * WordBits + b <= Len(g) =>
        /\ g[p * WordBits + b] = TRUE => b \in s.bits[p]
        /\ b = 1 /\ 1 \in s.bits[p] => g[p * WordBits + b] = TRUE

Bits(s, g) ==
    /\ s = [bits |-> s.bits, mask |-> s.mask, pos |-> s.pos]
    /\ s.bits = [p \in 0 .. Words - 1 |-> s.bits[p]]
    /\ s.pos \in -1 .. Words - 1
    /\ Len(g) = 0 => s.pos = -1 /\ s.mask \in {0, WordBits}
    /\ Len(g) > 0 => /\ s.pos >= 0 /\ s.mask \in 1 .. WordBits
                     /\ Len(g) = s.pos * WordBits + s.mask
    /\ \A p \in 0 .. Words - 1, b \in 1 .. WordBits : Bit(s, g, p, b)

\* The words t have a bit more than the words s, for the flag x.
BitAdded(s, t, x) ==
    /\ t = [bits |-> t.bits, mask |-> t.mask, pos |-> t.pos]
    /\ t.bits = [p \in 0 .. Words - 1 |-> t.bits[p]]
    /\ t.pos \in 0 .. Words - 1 /\ t.mask \in 1 .. WordBits
    /\ \A p \in 0 .. Words - 1 : p # t.pos => t.bits[p] = s.bits[p]
    /\ IF t.mask = 1 THEN t.bits[t.pos] = IF x THEN {1} ELSE {}
       ELSE t.pos = s.pos /\ t.bits[t.pos] = s.bits[t.pos] \cup (IF x THEN {t.mask} ELSE {})

\* A bit more is a flag more: no other place is in the same word and bit.
LEMMA BitsGrow ==
    ASSUME NEW g \in Seq(BOOLEAN), NEW x \in BOOLEAN, NEW h, h = Append(g, x),
           NEW s, Bits(s, g), NEW t, BitAdded(s, t, x),
           Len(h) = t.pos * WordBits + t.mask
    PROVE  Bits(t, h)
<1>1. /\ Len(h) = Len(g) + 1 /\ \A i \in 1 .. Len(g) : h[i] = g[i]
      /\ h[Len(g) + 1] = x /\ Len(g) \in Nat
  BY FlagAdded
<1>2. ASSUME NEW p \in 0 .. Words - 1, NEW b \in 1 .. WordBits,
             NEW n \in Int, n = p * WordBits + b, n <= Len(h)
      PROVE  /\ h[n] = TRUE => b \in t.bits[p]
             /\ b = 1 /\ 1 \in t.bits[p] => h[n] = TRUE
  <2>1. t.pos \in Int /\ t.mask \in 1 .. WordBits /\ p \in Int
    BY WordsAssumption DEF BitAdded
  <2>2. CASE n = Len(h)
    <3>1. p < t.pos \/ (p = t.pos /\ b <= t.mask)
      BY <1>2, <2>1, <2>2, PlacesAreOrdered
    <3>2. t.pos < p \/ (t.pos = p /\ t.mask <= b)
      BY <1>2, <2>1, <2>2, PlacesAreOrdered
    <3>3. p = t.pos /\ b = t.mask
      BY <2>1, <3>1, <3>2
    <3>4. h[n] = x
      BY <1>1, <2>2
    <3>5. QED
      BY <3>3, <3>4 DEF BitAdded
  <2>3. CASE n < Len(h)
    <3>1. p \in Nat /\ p * WordBits \in Nat /\ WordBits \in Nat
      BY WordsAssumption
    <3>2. n \in 1 .. Len(g)
      <4>1. n >= 1
        BY <1>2, <3>1
      <4>2. QED
        BY <1>1, <2>3, <4>1
    <3>3. h[n] = g[n]
      BY <1>1, <3>2
    <3>4. Bit(s, g, p, b)
      BY DEF Bits
    <3>5. /\ g[n] = TRUE => b \in s.bits[p]
          /\ b = 1 /\ 1 \in s.bits[p] => g[n] = TRUE
      BY <1>1, <1>2, <3>2, <3>4 DEF Bit
    <3>6. p < t.pos \/ (p = t.pos /\ b <= t.mask)
      BY <1>2, <2>1, <2>3, <1>1, PlacesAreOrdered
    <3>7. p = t.pos => t.mask # 1
      <4>1. ASSUME p = t.pos, t.mask = 1 PROVE FALSE
        <5>1. b = 1
          BY <2>1, <3>6, <4>1, <3>1
        <5>2. n = Len(h)
          BY <1>2, <4>1, <5>1
        <5>3. QED
          BY <1>1, <2>3, <5>2
      <4>2. QED
        BY <4>1
    <3>8. CASE p # t.pos
      BY <3>3, <3>5, <3>8 DEF BitAdded
    <3>9. CASE p = t.pos
      <4>1. t.bits[p] = s.bits[p] \cup (IF x THEN {t.mask} ELSE {}) /\ t.mask # 1
        BY <3>7, <3>9 DEF BitAdded
      <4>2. QED
        BY <3>3, <3>5, <4>1
    <3>10. QED
      BY <3>8, <3>9
  <2>4. n = Len(h) \/ n < Len(h)
    <3>1. Len(h) \in Int /\ n \in Int /\ n <= Len(h)
      BY <1>1, <1>2
    <3>2. QED
      BY ONLY <3>1
  <2>5. QED
    BY <2>2, <2>3, <2>4
<1>3. ASSUME NEW p \in 0 .. Words - 1, NEW b \in 1 .. WordBits PROVE Bit(t, h, p, b)
  <2>1. p * WordBits + b \in Int
    BY WordsAssumption
  <2>2. QED
    BY <1>2, <2>1 DEF Bit
<1>4. /\ t = [bits |-> t.bits, mask |-> t.mask, pos |-> t.pos]
      /\ t.bits = [p \in 0 .. Words - 1 |-> t.bits[p]]
      /\ t.pos \in 0 .. Words - 1 /\ t.mask \in 1 .. WordBits
  BY DEF BitAdded
<1>5. Len(h) > 0 /\ t.pos >= 0 /\ t.pos \in -1 .. Words - 1
  BY <1>1, <1>4, WordsAssumption
<1>6. QED
  BY <1>3, <1>4, <1>5 DEF Bits

\* Flag f is pushed on words of which a new one may have been begun.
Written(t, f) == IF f THEN [t EXCEPT !.bits[t.pos] = @ \cup {t.mask}] ELSE t

\* The record it makes.
LEMMA WrittenIs ==
    ASSUME NEW t, t = [bits |-> t.bits, mask |-> t.mask, pos |-> t.pos]
    PROVE  Written(t, TRUE) =
             [bits |-> [t.bits EXCEPT ![t.pos] = @ \cup {t.mask}],
              mask |-> t.mask, pos |-> t.pos]
<1> DEFINE w == t.bits
           m == t.mask
           p == t.pos
           r == [bits |-> w, mask |-> m, pos |-> p]
<1>1. t = r
  OBVIOUS
<1> HIDE DEF w, m, p
<1>2. Written(r, TRUE) = [bits |-> [w EXCEPT ![p] = @ \cup {m}], mask |-> m, pos |-> p]
  BY DEF Written
<1> HIDE DEF r
<1>3. Written(t, TRUE) = [bits |-> [w EXCEPT ![p] = @ \cup {m}], mask |-> m, pos |-> p]
  BY <1>1, <1>2
<1>4. QED
  BY <1>3 DEF w, m, p

\* The word a push writes to.
Begun(s) ==
    LET m == F!ShiftedLeft(s.mask)
    IN  IF m = 0 THEN [mask |-> 1, pos |-> s.pos + 1,
                       bits |-> [s.bits EXCEPT ![s.pos + 1] = {}]]
        ELSE [s EXCEPT !.mask = m]

\* The operations of bitstack<N> keep it.
LEMMA BitsPush ==
    ASSUME NEW g \in Seq(BOOLEAN), NEW x \in BOOLEAN, NEW s, Bits(s, g),
           Len(g) < Words * WordBits, NEW h, h = Append(g, x)
    PROVE  Bits(F!bits_push(s, x), h)
<1>1. Len(h) = Len(g) + 1 /\ Len(g) \in Nat
  BY FlagAdded
<1>2. /\ s = [bits |-> s.bits, mask |-> s.mask, pos |-> s.pos]
      /\ s.bits = [p \in 0 .. Words - 1 |-> s.bits[p]]
      /\ s.pos \in -1 .. Words - 1 /\ s.mask \in 0 .. WordBits
  BY <1>1, WordsAssumption DEF Bits
<1>3. F!bits_push(s, x) = Written(Begun(s), x)
  BY DEF F!bits_push, Written, Begun
<1> DEFINE t == Begun(s)
           u == Written(t, x)
<1>4. CASE s.mask \in 1 .. WordBits - 1
  <2>1. F!ShiftedLeft(s.mask) = s.mask + 1 /\ s.mask + 1 # 0
    BY <1>4, WordsAssumption DEF F!ShiftedLeft
  <2>2. t = [bits |-> s.bits, mask |-> s.mask + 1, pos |-> s.pos]
    BY <1>2, <2>1 DEF Begun
  <2>3. Len(g) > 0
    BY <1>1, <1>4, WordsAssumption DEF Bits
  <2>4. s.pos >= 0 /\ Len(g) = s.pos * WordBits + s.mask
    BY <2>3 DEF Bits
  <2>5. s.pos \in 0 .. Words - 1 /\ s.mask + 1 \in 2 .. WordBits
    BY <1>2, <1>4, <2>4, WordsAssumption
  <2>6. t = [bits |-> t.bits, mask |-> t.mask, pos |-> t.pos]
        /\ t.bits = s.bits /\ t.mask = s.mask + 1 /\ t.pos = s.pos
    BY <2>2
  <2> HIDE DEF t
  <2>7. x => u = [bits |-> [t.bits EXCEPT ![t.pos] = @ \cup {t.mask}],
                  mask |-> t.mask, pos |-> t.pos]
    BY <2>6, WrittenIs
  <2>8. BitAdded(s, u, x)
    <3>1. CASE x
      <4>1. u = [bits |-> [s.bits EXCEPT ![s.pos] = @ \cup {s.mask + 1}],
                 mask |-> s.mask + 1, pos |-> s.pos]
        BY <2>6, <2>7, <3>1
      <4> HIDE DEF u
      <4>2. u.bits = [p \in 0 .. Words - 1 |->
                        IF p = s.pos THEN s.bits[p] \cup {s.mask + 1} ELSE s.bits[p]]
        BY <1>2, <4>1
      <4>3. u.mask = s.mask + 1 /\ u.pos = s.pos
            /\ u = [bits |-> u.bits, mask |-> u.mask, pos |-> u.pos]
        BY <4>1
      <4>4. u.mask \in 1 .. WordBits /\ u.mask # 1
        BY <2>5, <4>3, WordsAssumption
      <4>5. QED
        BY <2>5, <3>1, <4>2, <4>3, <4>4 DEF BitAdded
    <3>2. CASE ~x
      <4>1. u = t
        BY <3>2 DEF Written
      <4> HIDE DEF u
      <4>2. u.mask = s.mask + 1 /\ u.pos = s.pos /\ u.bits = s.bits
            /\ u = [bits |-> u.bits, mask |-> u.mask, pos |-> u.pos]
        BY <2>2, <4>1
      <4>3. u.mask \in 1 .. WordBits /\ u.mask # 1
        BY <2>5, <4>2, WordsAssumption
      <4>4. QED
        BY <1>2, <2>5, <3>2, <4>2, <4>3 DEF BitAdded
    <3>3. QED
      BY <3>1, <3>2
  <2>9. u.pos = s.pos /\ u.mask = s.mask + 1
    <3>1. CASE x
      <4> HIDE DEF u
      <4>1. QED
        BY <2>6, <2>7, <3>1
    <3>2. CASE ~x
      BY <2>6, <3>2 DEF Written
    <3>3. QED
      BY <3>1, <3>2
  <2> HIDE DEF u
  <2>10. Len(h) = u.pos * WordBits + u.mask
    <3>1. s.pos * WordBits \in Int
      BY <2>5, WordsAssumption
    <3>2. QED
      BY <1>1, <1>2, <2>4, <2>9, <3>1
  <2>11. Bits(u, h)
    BY <2>8, <2>10, BitsGrow
  <2>12. QED
    BY <1>3, <2>11 DEF u, t
<1>5. CASE s.mask \notin 1 .. WordBits - 1
  <2>1. F!ShiftedLeft(s.mask) = 0
    BY <1>5 DEF F!ShiftedLeft
  <2>2. t = [mask |-> 1, pos |-> s.pos + 1, bits |-> [s.bits EXCEPT ![s.pos + 1] = {}]]
    BY <2>1 DEF Begun
  <2>3. (s.pos + 1) * WordBits + 1 = Len(g) + 1
    <3>1. CASE Len(g) = 0
      <4>1. s.pos = -1
        BY <3>1 DEF Bits
      <4>2. (s.pos + 1) * WordBits = 0
        BY <4>1, WordsAssumption
      <4>3. QED
        BY <3>1, <4>2
    <3>2. CASE Len(g) > 0
      <4>1. Len(g) = s.pos * WordBits + s.mask /\ s.mask = WordBits
        BY <1>2, <1>5, <3>2, WordsAssumption DEF Bits
      <4>2. (s.pos + 1) * WordBits = s.pos * WordBits + WordBits
        BY <1>2, WordsAssumption
      <4>3. QED
        BY <4>1, <4>2
    <3>3. QED
      BY <1>1, <3>1, <3>2
  <2>4. s.pos + 1 \in 0 .. Words - 1
    <3>1. Words * WordBits = (Words - 1) * WordBits + WordBits
          /\ Words * WordBits \in Int /\ (s.pos + 1) * WordBits \in Int
      BY <1>2, WordsAssumption
    <3>2. (s.pos + 1) * WordBits + 1 <= (Words - 1) * WordBits + WordBits
      BY <1>1, <2>3, <3>1
    <3>3. /\ s.pos + 1 \in Int /\ Words - 1 \in Int
          /\ 1 \in 1 .. WordBits /\ WordBits \in 1 .. WordBits
      BY <1>2, WordsAssumption
    <3>4. s.pos + 1 < Words - 1 \/ s.pos + 1 = Words - 1
      BY <3>2, <3>3, PlacesAreOrdered
    <3>5. QED
      BY <1>2, <3>3, <3>4
  <2>5. t.bits = [p \in 0 .. Words - 1 |-> IF p = s.pos + 1 THEN {} ELSE s.bits[p]]
    <3>1. t.bits = [s.bits EXCEPT ![s.pos + 1] = {}]
      BY <2>2
    <3> HIDE DEF t
    <3>2. QED
      BY <1>2, <3>1
  <2>6. t.mask = 1 /\ t.pos = s.pos + 1
        /\ t = [bits |-> t.bits, mask |-> t.mask, pos |-> t.pos]
    BY <2>2
  <2> HIDE DEF t
  <2>7. x => u = [bits |-> [t.bits EXCEPT ![t.pos] = @ \cup {t.mask}],
                  mask |-> t.mask, pos |-> t.pos]
    BY <2>6, WrittenIs
  <2>8. BitAdded(s, u, x)
    <3>1. CASE x
      <4>1. u = [bits |-> [t.bits EXCEPT ![t.pos] = @ \cup {t.mask}],
                 mask |-> t.mask, pos |-> t.pos]
        BY <2>7, <3>1
      <4> HIDE DEF u
      <4>2. u.bits = [p \in 0 .. Words - 1 |-> IF p = s.pos + 1 THEN {1} ELSE s.bits[p]]
        BY <2>4, <2>5, <2>6, <4>1
      <4>3. u.mask = 1 /\ u.pos = s.pos + 1
            /\ u = [bits |-> u.bits, mask |-> u.mask, pos |-> u.pos]
        BY <2>6, <4>1
      <4>4. QED
        BY <2>4, <3>1, <4>2, <4>3, WordsAssumption DEF BitAdded
    <3>2. CASE ~x
      <4>1. u = t
        BY <3>2 DEF Written
      <4> HIDE DEF u
      <4>2. QED
        BY <2>4, <2>5, <2>6, <3>2, <4>1, WordsAssumption DEF BitAdded
    <3>3. QED
      BY <3>1, <3>2
  <2>9. u.pos = s.pos + 1 /\ u.mask = 1
    <3>1. CASE x
      <4> HIDE DEF u
      <4>1. QED
        BY <2>6, <2>7, <3>1
    <3>2. CASE ~x
      BY <2>6, <3>2 DEF Written
    <3>3. QED
      BY <3>1, <3>2
  <2> HIDE DEF u
  <2>10. Len(h) = u.pos * WordBits + u.mask
    BY <1>1, <2>3, <2>9
  <2>11. Bits(u, h)
    BY <2>8, <2>10, BitsGrow
  <2>12. QED
    BY <1>3, <2>11 DEF u, t
<1>6. QED
  BY <1>4, <1>5

LEMMA BitsPop ==
    ASSUME NEW g \in Seq(BOOLEAN), NEW s, Bits(s, g), g # <<>>,
           NEW h, h = F!Front(g)
    PROVE  Bits(F!bits_pop(s), h)
<1>1. /\ Len(h) = Len(g) - 1 /\ \A i \in 1 .. Len(g) - 1 : h[i] = g[i]
      /\ Len(g) \in Nat \ {0}
  BY FlagTaken
<1>2. /\ s = [bits |-> s.bits, mask |-> s.mask, pos |-> s.pos]
      /\ s.bits = [p \in 0 .. Words - 1 |-> s.bits[p]]
      /\ s.pos \in 0 .. Words - 1 /\ s.mask \in 1 .. WordBits
      /\ Len(g) = s.pos * WordBits + s.mask
  BY <1>1, WordsAssumption DEF Bits
<1> DEFINE t == F!bits_pop(s)
<1>3. t = [bits |-> s.bits, mask |-> IF s.mask = 1 THEN WordBits ELSE s.mask - 1,
           pos |-> IF s.mask = 1 THEN s.pos - 1 ELSE s.pos]
  BY <1>2 DEF F!bits_pop
<1>4. t = [bits |-> t.bits, mask |-> t.mask, pos |-> t.pos] /\ t.bits = s.bits
      /\ t.mask = (IF s.mask = 1 THEN WordBits ELSE s.mask - 1)
      /\ t.pos = IF s.mask = 1 THEN s.pos - 1 ELSE s.pos
  BY <1>3
<1> HIDE DEF t
<1>5. ASSUME NEW p \in 0 .. Words - 1, NEW b \in 1 .. WordBits PROVE Bit(t, h, p, b)
  <2> DEFINE n == p * WordBits + b
  <2>1. Bit(s, g, p, b)
    BY DEF Bits
  <2>2. n \in Nat \ {0}
    <3>1. p * WordBits \in Nat /\ b \in Nat \ {0}
      BY WordsAssumption
    <3>2. QED
      BY <3>1
  <2>3. n <= Len(h) => n <= Len(g) /\ h[n] = g[n]
    BY <1>1, <2>2
  <2>4. QED
    BY <1>4, <2>1, <2>3 DEF Bit
<1>6. s.pos * WordBits = (s.pos - 1) * WordBits + WordBits
      /\ s.pos * WordBits \in Nat
  BY <1>2, WordsAssumption
<1>7. t.pos \in -1 .. Words - 1 /\ t.mask \in 1 .. WordBits
  BY <1>2, <1>4, WordsAssumption
<1>8. ASSUME Len(h) = 0 PROVE t.pos = -1 /\ t.mask = WordBits
  <2>1. s.pos * WordBits + s.mask = 1
    BY <1>1, <1>2, <1>8
  <2>2. s.mask = 1 /\ s.pos * WordBits = 0
    <3>1. s.mask >= 1 /\ s.mask \in Int /\ s.pos * WordBits \in Nat
      BY <1>2, <1>6, WordsAssumption
    <3>2. QED
      BY ONLY <2>1, <3>1
  <2>3. s.pos = 0
    BY <1>2, <2>2, WordsAssumption
  <2>4. QED
    BY <1>4, <2>2, <2>3
<1>9. ASSUME Len(h) > 0 PROVE t.pos >= 0 /\ Len(h) = t.pos * WordBits + t.mask
  <2>1. CASE s.mask = 1
    <3>1. s.pos # 0
      <4>1. ASSUME s.pos = 0 PROVE FALSE
        <5>1. s.pos * WordBits = 0
          BY <4>1, WordsAssumption
        <5>2. QED
          BY <1>1, <1>2, <1>9, <2>1, <5>1
      <4>2. QED
        BY <4>1
    <3>2. Len(h) = s.pos * WordBits
      BY <1>1, <1>2, <1>6, <2>1
    <3>3. QED
      BY <1>2, <1>4, <1>6, <2>1, <3>1, <3>2
  <2>2. CASE s.mask # 1
    <3>1. t.pos = s.pos /\ t.mask = s.mask - 1
      BY <1>4, <2>2
    <3>2. QED
      BY <1>1, <1>2, <1>6, <3>1
  <2>3. QED
    BY <2>1, <2>2
<1>10. Len(h) = 0 \/ Len(h) > 0
  BY <1>1
<1>11. QED
  BY <1>2, <1>4, <1>5, <1>7, <1>8, <1>9 DEF Bits, t

-----------------------------------------------------------------------------
(* nibblestack                                                             *)

\* nibblestack: flags 2 * i + 1 and 2 * i + 2 are the nibbles of byte i.
NibbleOf(i, m) == IF m = F!Low THEN 2 * i + 1 ELSE 2 * i + 2
Nibble(s, g, i, m) ==
    NibbleOf(i, m) <= Len(g) => s.bytes[i][m] = g[NibbleOf(i, m)]

Nibbles(s, g) ==
    /\ s = [bytes |-> s.bytes, mask |-> s.mask, size |-> s.size]
    /\ s.mask \in {F!Low, F!High} /\ s.size \in 0 .. 255
    /\ Len(g) = (IF s.mask = F!High THEN 2 * s.size ELSE 2 * s.size - 1)
    /\ Len(g) <= Words * WordBits
    /\ s.bytes = [i \in 0 .. Words * WordBits |-> s.bytes[i]]
    /\ \A i \in 0 .. Words * WordBits :
          s.bytes[i] = [m \in {F!Low, F!High} |-> s.bytes[i][m]]
    /\ \A i \in 0 .. Words * WordBits, m \in {F!Low, F!High} : Nibble(s, g, i, m)

\* The flags that there is room for.
LEMMA RoomIs == Words * WordBits \in Nat /\ Words * WordBits < 510
BY WordsAssumption

\* With size z and mask k, a stack of nibbles has l flags; its next size, and
\* the one before.
NibblesAre(z, k, l) ==
    /\ z \in 0 .. 255 /\ k \in {15, 240} /\ l \in Nat
    /\ l = IF k = 240 THEN 2 * z ELSE 2 * z - 1
NextSize(z, k) == (z + (IF k = 240 THEN 1 ELSE 256)) % 256
LastSize(z, k) == (z - (IF k = 15 THEN 1 ELSE 256)) % 256
Flip(k) == IF k = 240 THEN 15 ELSE 240

NibbleMore(z, k, l) ==
    /\ NextSize(z, k) \in 1 .. 255 /\ NextSize(z, k) - 1 \in 0 .. Words * WordBits
    /\ NibblesAre(NextSize(z, k), Flip(k), l + 1)

\* A flag more: the size counts as an 8-bit number.
LEMMA NibblesMore ==
    ASSUME NEW z, NEW k, NEW l, NibblesAre(z, k, l), l < Words * WordBits
    PROVE  NibbleMore(z, k, l)
<1> DEFINE w == Words * WordBits
           n == NextSize(z, k)
<1>1. /\ z \in 0 .. 255 /\ k \in {15, 240} /\ l \in Nat
      /\ l = (IF k = 240 THEN 2 * z ELSE 2 * z - 1)
      /\ w \in Nat /\ w < 510 /\ l < w
      /\ n = (z + (IF k = 240 THEN 1 ELSE 256)) % 256
  BY RoomIs DEF NibblesAre, NextSize
<1> HIDE DEF w, n
<1>2. CASE k = 240
  <2>1. z + 1 \in 1 .. 255 /\ z \in 0 .. w
    BY <1>1, <1>2
  <2>2. n = z + 1
    BY <1>1, <1>2, <2>1
  <2>3. n \in 1 .. 255 /\ n - 1 \in 0 .. w /\ l + 1 = 2 * n - 1 /\ l + 1 \in Nat
    BY <1>1, <1>2, <2>1, <2>2
  <2>4. QED
    BY <1>2, <2>3 DEF NibbleMore, NibblesAre, Flip, n, w
<1>3. CASE k = 15
  <2>1. z \in 1 .. 255 /\ z - 1 \in 0 .. w
    BY <1>1, <1>3
  <2>2. (z + 256) % 256 = z
    BY <2>1
  <2>3. n = z
    BY <1>1, <1>3, <2>2
  <2>4. n \in 1 .. 255 /\ n - 1 \in 0 .. w /\ l + 1 = 2 * n /\ l + 1 \in Nat
    BY <1>1, <1>3, <2>1, <2>3
  <2>5. QED
    BY <1>3, <2>4 DEF NibbleMore, NibblesAre, Flip, n, w
<1>4. QED
  BY <1>1, <1>2, <1>3

\* A flag less: 256 less is the same size.
LEMMA NibblesLess ==
    ASSUME NEW z, NEW k, NEW l, NibblesAre(z, k, l), l # 0
    PROVE  NibblesAre(LastSize(z, k), Flip(k), l - 1)
<1> DEFINE n == LastSize(z, k)
<1>1. /\ z \in 1 .. 255 /\ k \in {15, 240} /\ l \in Nat \ {0}
      /\ l = (IF k = 240 THEN 2 * z ELSE 2 * z - 1)
      /\ n = (z - (IF k = 15 THEN 1 ELSE 256)) % 256
  BY DEF NibblesAre, LastSize
<1> HIDE DEF n
<1>2. CASE k = 240
  <2>1. (z - 256) % 256 = z
    BY <1>1
  <2>2. n = z
    BY <1>1, <1>2, <2>1
  <2>3. n \in 0 .. 255 /\ l - 1 = 2 * n - 1 /\ l - 1 \in Nat
    BY <1>1, <1>2, <2>2
  <2>4. QED
    BY <1>2, <2>3 DEF NibblesAre, Flip, n
<1>3. CASE k = 15
  <2>1. (z - 1) % 256 = z - 1
    BY <1>1
  <2>2. n = z - 1
    BY <1>1, <1>3, <2>1
  <2>3. n \in 0 .. 255 /\ l - 1 = 2 * n /\ l - 1 \in Nat
    BY <1>1, <1>3, <2>2
  <2>4. QED
    BY <1>3, <2>3 DEF NibblesAre, Flip, n
<1>4. QED
  BY <1>1, <1>2, <1>3

\* A nibble has one place.
LEMMA OneNibble ==
    ASSUME NEW i \in Nat, NEW k \in {F!Low, F!High}, NEW j \in Nat, NEW m \in {F!Low, F!High},
           NibbleOf(i, k) = NibbleOf(j, m)
    PROVE  i = j /\ k = m
BY DEF NibbleOf, F!Low, F!High

\* Places are counted from 1.
LEMMA NibbleIs ==
    ASSUME NEW i \in Nat, NEW k \in {F!Low, F!High}
    PROVE  NibbleOf(i, k) \in Nat \ {0}
BY DEF NibbleOf

\* The operations of nibblestack keep it.
LEMMA NibblesPush ==
    ASSUME NEW g \in Seq(BOOLEAN), NEW x \in BOOLEAN, NEW s, Nibbles(s, g),
           Len(g) < Words * WordBits, NEW h, h = Append(g, x)
    PROVE  Nibbles(F!nibbles_push(s, x), h)
<1> DEFINE w == Words * WordBits
           t == F!nibbles_push(s, x)
           n == NextSize(s.size, s.mask)
           m == Flip(s.mask)
<1>1. /\ Len(h) = Len(g) + 1 /\ \A i \in 1 .. Len(g) : h[i] = g[i]
      /\ h[Len(g) + 1] = x /\ Len(g) \in Nat
  BY FlagAdded
<1>2. NibblesAre(s.size, s.mask, Len(g)) /\ s.mask \in {15, 240}
  BY <1>1 DEF Nibbles, F!Low, F!High, NibblesAre
<1>3. NibbleMore(s.size, s.mask, Len(g))
  BY <1>2, NibblesMore
<1>4. t = [mask |-> m, size |-> n, bytes |-> [s.bytes EXCEPT ![n - 1][m] = x]]
  BY <1>2 DEF F!nibbles_push, F!Other, F!Low, F!High, NextSize, Flip
<1>5. /\ n \in 1 .. 255 /\ n - 1 \in 0 .. w
      /\ NibblesAre(n, m, Len(h))
  BY <1>1, <1>3 DEF NibbleMore
<1> HIDE DEF n, m, w, t
<1>6. m \in {15, 240} /\ Len(h) = IF m = 240 THEN 2 * n ELSE 2 * n - 1
  BY <1>5 DEF NibblesAre
<1>7. NibbleOf(n - 1, m) = Len(h)
  BY <1>5, <1>6 DEF NibbleOf, F!Low
<1>8. m \in {F!Low, F!High} /\ n - 1 \in 0 .. w
  BY <1>5, <1>6 DEF F!Low, F!High
<1>9. s.bytes = [i \in 0 .. w |-> s.bytes[i]]
      /\ \A i \in 0 .. w : s.bytes[i] = [k \in {F!Low, F!High} |-> s.bytes[i][k]]
  BY DEF Nibbles, w
<1>10. t = [bytes |-> t.bytes, mask |-> t.mask, size |-> t.size]
       /\ t.mask = m /\ t.size = n /\ t.bytes = [s.bytes EXCEPT ![n - 1][m] = x]
  BY <1>4
<1> HIDE DEF t
<1>11. t.bytes = [i \in 0 .. w |-> IF i = n - 1 THEN [s.bytes[i] EXCEPT ![m] = x]
                                   ELSE s.bytes[i]]
  BY <1>8, <1>9, <1>10
<1>12. ASSUME NEW i \in 0 .. w
       PROVE  t.bytes[i] = [k \in {F!Low, F!High} |->
                              IF i = n - 1 /\ k = m THEN x ELSE s.bytes[i][k]]
  <2>1. CASE i = n - 1
    <3>1. t.bytes[i] = [s.bytes[i] EXCEPT ![m] = x]
      BY <1>11, <2>1
    <3>2. QED
      BY <1>8, <1>9, <2>1, <3>1
  <2>2. CASE i # n - 1
    BY <1>9, <1>11, <2>2
  <2>3. QED
    BY <2>1, <2>2
<1>13. ASSUME NEW i \in 0 .. w, NEW k \in {F!Low, F!High} PROVE Nibble(t, h, i, k)
  <2>1. Nibble(s, g, i, k) /\ i \in Nat
    BY DEF Nibbles, w
  <2>2. t.bytes[i][k] = IF i = n - 1 /\ k = m THEN x ELSE s.bytes[i][k]
    BY <1>12
  <2>3. CASE i = n - 1 /\ k = m
    BY <1>1, <1>7, <2>2, <2>3 DEF Nibble
  <2>4. CASE ~(i = n - 1 /\ k = m)
    <3>1. NibbleOf(i, k) # Len(h) /\ NibbleOf(i, k) \in Nat \ {0}
      <4>1. n - 1 \in Nat
        BY <1>5
      <4>2. QED
        BY <1>7, <1>8, <2>1, <2>4, <4>1, OneNibble, NibbleIs
    <3>2. ASSUME NibbleOf(i, k) <= Len(h)
          PROVE  NibbleOf(i, k) <= Len(g) /\ h[NibbleOf(i, k)] = g[NibbleOf(i, k)]
      <4>1. NibbleOf(i, k) \in 1 .. Len(g)
        BY <1>1, <3>1, <3>2
      <4>2. QED
        BY <1>1, <4>1
    <3>3. QED
      BY <2>1, <2>2, <2>4, <3>2 DEF Nibble
  <2>5. QED
    BY <2>3, <2>4
<1>14. /\ t.bytes = [i \in 0 .. w |-> t.bytes[i]]
       /\ \A i \in 0 .. w : t.bytes[i] = [k \in {F!Low, F!High} |-> t.bytes[i][k]]
  <2>1. t.bytes = [i \in 0 .. w |-> t.bytes[i]]
    BY <1>11
  <2>2. ASSUME NEW i \in 0 .. w
        PROVE  t.bytes[i] = [k \in {F!Low, F!High} |-> t.bytes[i][k]]
    BY <1>12
  <2>3. QED
    BY <2>1, <2>2
<1>15. t.mask \in {F!Low, F!High} /\ t.size \in 0 .. 255
       /\ Len(h) = (IF t.mask = F!High THEN 2 * t.size ELSE 2 * t.size - 1)
  BY <1>5, <1>6, <1>8, <1>10 DEF F!High
<1>16. Len(h) <= Words * WordBits
  BY <1>1, RoomIs
<1>17. QED
  BY <1>16, <1>10, <1>13, <1>14, <1>15 DEF Nibbles, w, t

LEMMA NibblesPop ==
    ASSUME NEW g \in Seq(BOOLEAN), NEW s, Nibbles(s, g), g # <<>>,
           NEW h, h = F!Front(g)
    PROVE  Nibbles(F!nibbles_pop(s), h)
<1> DEFINE t == F!nibbles_pop(s)
           n == LastSize(s.size, s.mask)
           m == Flip(s.mask)
<1>1. /\ Len(h) = Len(g) - 1 /\ \A i \in 1 .. Len(g) - 1 : h[i] = g[i]
      /\ Len(g) \in Nat \ {0}
  BY FlagTaken
<1>2. /\ s = [bytes |-> s.bytes, mask |-> s.mask, size |-> s.size]
      /\ NibblesAre(s.size, s.mask, Len(g)) /\ s.mask \in {15, 240}
  BY <1>1 DEF Nibbles, F!Low, F!High, NibblesAre
<1>3. t = [bytes |-> s.bytes, mask |-> m, size |-> n]
  <2> DEFINE a == s.bytes
             b == s.mask
             c == s.size
             e == IF b = F!Low THEN 1 ELSE 256
             r == [bytes |-> a, mask |-> b, size |-> c]
             u == [r EXCEPT !.size = (@ - (IF r.mask = F!Low THEN 1 ELSE 256)) % 256]
  <2>1. s = r
    BY <1>2
  <2>2. b \in {15, 240}
    BY <1>2
  <2> HIDE DEF a, b, c, n, m
  <2>3. F!nibbles_pop(r) = [bytes |-> a, mask |-> F!Other(b), size |-> (c - e) % 256]
    <3>1. F!nibbles_pop(r) = [u EXCEPT !.mask = F!Other(@)]
      BY DEF F!nibbles_pop
    <3>2. r.mask = b
      OBVIOUS
    <3>3. u = [bytes |-> a, mask |-> b, size |-> (c - e) % 256]
      BY <3>2
    <3> HIDE DEF u, e
    <3>4. [[bytes |-> a, mask |-> b, size |-> (c - e) % 256] EXCEPT !.mask = F!Other(@)] =
            [bytes |-> a, mask |-> F!Other(b), size |-> (c - e) % 256]
      OBVIOUS
    <3>5. QED
      BY <3>1, <3>3, <3>4
  <2>4. F!Other(b) = Flip(b) /\ (c - e) % 256 = LastSize(c, b)
    BY <2>2 DEF F!Other, F!Low, F!High, Flip, LastSize
  <2> HIDE DEF r, e
  <2>5. t = [bytes |-> a, mask |-> Flip(b), size |-> LastSize(c, b)]
    BY <2>1, <2>3, <2>4
  <2>6. QED
    BY <2>5 DEF a, b, c, n, m
<1>4. NibblesAre(n, m, Len(h))
  <2>1. Len(g) # 0
    BY <1>1
  <2>2. NibblesAre(n, m, Len(g) - 1)
    BY <1>2, <2>1, NibblesLess
  <2>3. QED
    BY <1>1, <2>2
<1> HIDE DEF n, m
<1>5. n \in 0 .. 255 /\ m \in {15, 240} /\ Len(h) = IF m = 240 THEN 2 * n ELSE 2 * n - 1
  BY <1>4 DEF NibblesAre
<1>6. t = [bytes |-> t.bytes, mask |-> t.mask, size |-> t.size]
      /\ t.mask = m /\ t.size = n /\ t.bytes = s.bytes
  BY <1>3
<1> HIDE DEF t
<1>7. ASSUME NEW i \in 0 .. Words * WordBits, NEW k \in {F!Low, F!High}
      PROVE  Nibble(t, h, i, k)
  <2>1. Nibble(s, g, i, k) /\ i \in Nat
    BY RoomIs DEF Nibbles
  <2>2. ASSUME NibbleOf(i, k) <= Len(h)
        PROVE  NibbleOf(i, k) <= Len(g) /\ h[NibbleOf(i, k)] = g[NibbleOf(i, k)]
    <3>1. NibbleOf(i, k) \in Nat \ {0}
      BY <2>1 DEF NibbleOf
    <3>2. NibbleOf(i, k) \in 1 .. Len(g) - 1
      BY <1>1, <2>2, <3>1
    <3>3. QED
      BY <1>1, <3>2
  <2>3. QED
    BY <1>6, <2>1, <2>2 DEF Nibble
<1>8. t.mask \in {F!Low, F!High} /\ t.size \in 0 .. 255
      /\ Len(h) = (IF t.mask = F!High THEN 2 * t.size ELSE 2 * t.size - 1)
  BY <1>5, <1>6 DEF F!Low, F!High
<1>9. /\ t.bytes = [i \in 0 .. Words * WordBits |-> t.bytes[i]]
      /\ \A i \in 0 .. Words * WordBits :
            t.bytes[i] = [k \in {F!Low, F!High} |-> t.bytes[i][k]]
  BY <1>6 DEF Nibbles
<1>10. Len(h) <= Words * WordBits
  <2>1. Len(g) <= Words * WordBits
    BY DEF Nibbles
  <2>2. QED
    BY <1>1, <2>1, RoomIs
<1>11. QED
  BY <1>10, <1>6, <1>7, <1>8, <1>9 DEF Nibbles, t

-----------------------------------------------------------------------------
(* compressed_objstack                                                     *)

\* compressed_objstack: run j, of those up to z, begins after b[j] flags, and
\* the last one ends after n of them.
Begins(b, z, n) ==
    /\ b[0] = 0 /\ b[z + 1] = n
    /\ \A j \in 0 .. z + 1 : b[j] \in Nat /\ j <= b[j]
    /\ \A i, j \in 0 .. z + 1 : i <= j => b[i] <= b[j]

\* Run j is r and has the flags it should, from flag a + 1 to flag e.
RunIs(r, g, a, e) ==
    /\ r = [array |-> r.array, length |-> r.length]
    /\ r.array \in BOOLEAN /\ r.length \in Nat \ {0} /\ e = a + r.length
    /\ \A i \in a + 1 .. e : g[i] = r.array

RunsAre(s, g, b) ==
    /\ Begins(b, s.size, Len(g))
    /\ \A j \in 0 .. s.size : RunIs(s.run[j], g, b[j], b[j + 1])

RunsHold(s, g) ==
    /\ s = [run |-> s.run, size |-> s.size]
    /\ s.size \in Int /\ s.size >= -1
    /\ s.run = [i \in 0 .. Words * WordBits |-> s.run[i]]
    /\ Len(g) <= Words * WordBits

Runs(s, g) == RunsHold(s, g) /\ \E b : RunsAre(s, g, b)

\* One run ends the stack: the others are as they were.
LEMMA RunsEnd ==
    ASSUME NEW g \in Seq(BOOLEAN), NEW h \in Seq(BOOLEAN), NEW s, NEW t, NEW b,
           RunsHold(s, g), RunsAre(s, g, b), RunsHold(t, h),
           t.size \in 0 .. s.size + 1,
           \A j \in 0 .. t.size - 1 : t.run[j] = s.run[j],
           \A i \in 1 .. b[t.size] : h[i] = g[i],
           RunIs(t.run[t.size], h, b[t.size], Len(h))
    PROVE  \E c : RunsAre(t, h, c)
<1> DEFINE z == t.size
           c == [j \in 0 .. z + 1 |-> IF j <= z THEN b[j] ELSE Len(h)]
<1>1. z \in Nat /\ s.size \in Int /\ z <= s.size + 1 /\ Len(h) \in Nat
  BY DEF RunsHold
<1>2. /\ b[0] = 0
      /\ \A j \in 0 .. s.size + 1 : b[j] \in Nat /\ j <= b[j]
      /\ \A i, j \in 0 .. s.size + 1 : i <= j => b[i] <= b[j]
  BY DEF RunsAre, Begins
<1>3. b[z] \in Nat /\ z <= b[z] /\ b[z] < Len(h)
  <2>1. b[z] \in Nat /\ z <= b[z]
    BY <1>1, <1>2
  <2>2. PICK l \in Nat \ {0} : Len(h) = b[z] + l
    BY DEF RunIs
  <2>3. QED
    BY <2>1, <2>2
<1> HIDE DEF z
<1>4. c[0] = 0 /\ c[z + 1] = Len(h) /\ \A j \in 0 .. z : c[j] = b[j]
  BY <1>1, <1>2
<1> HIDE DEF c
<1>5. Begins(c, z, Len(h))
  <2>1. ASSUME NEW j \in 0 .. z + 1 PROVE c[j] \in Nat /\ j <= c[j]
    <3>1. CASE j = z + 1
      BY <1>1, <1>3, <1>4, <3>1
    <3>2. CASE j \in 0 .. z
      BY <1>1, <1>2, <1>4, <3>2
    <3>3. QED
      BY <1>1, <3>1, <3>2
  <2>2. ASSUME NEW i \in 0 .. z + 1, NEW j \in 0 .. z + 1, i <= j PROVE c[i] <= c[j]
    <3>1. CASE j = z + 1
      <4>1. CASE i = z + 1
        BY <1>1, <1>4, <3>1, <4>1
      <4>2. CASE i \in 0 .. z
        <5>1. i \in 0 .. s.size + 1 /\ z \in 0 .. s.size + 1 /\ i <= z
          BY <1>1, <4>2
        <5>2. b[i] <= b[z] /\ b[i] \in Nat
          BY <1>2, <5>1
        <5>3. QED
          BY <1>1, <1>3, <1>4, <3>1, <4>2, <5>2
      <4>3. QED
        BY <1>1, <4>1, <4>2
    <3>2. CASE j \in 0 .. z
      <4>1. i \in 0 .. z /\ i \in 0 .. s.size + 1 /\ j \in 0 .. s.size + 1
        BY <1>1, <2>2, <3>2
      <4>2. c[i] = b[i] /\ c[j] = b[j]
        BY <1>4, <3>2, <4>1
      <4>3. b[i] <= b[j]
        BY <1>2, <2>2, <4>1
      <4>4. QED
        BY <4>2, <4>3
    <3>3. QED
      BY <1>1, <3>1, <3>2
  <2>3. QED
    BY <1>4, <2>1, <2>2 DEF Begins
<1>6. ASSUME NEW j \in 0 .. z PROVE RunIs(t.run[j], h, c[j], c[j + 1])
  <2>1. CASE j = z
    <3>1. c[j] = b[z] /\ c[j + 1] = Len(h)
      BY <1>1, <1>4, <2>1
    <3>2. QED
      BY <2>1, <3>1 DEF z
  <2>2. CASE j # z
    <3>1. j \in 0 .. z - 1 /\ j + 1 \in 0 .. z /\ j \in 0 .. s.size /\ z \in 0 .. s.size + 1
          /\ j + 1 \in 0 .. s.size + 1
      BY <1>1, <2>2
    <3>2. t.run[j] = s.run[j] /\ c[j] = b[j] /\ c[j + 1] = b[j + 1]
      BY <1>4, <3>1 DEF z
    <3>3. RunIs(s.run[j], g, b[j], b[j + 1])
      BY <3>1 DEF RunsAre
    <3>4. b[j] \in Nat /\ b[j + 1] \in Nat /\ b[j + 1] <= b[z]
      <4>1. j \in 0 .. s.size + 1 /\ j + 1 <= z
        BY <1>1, <3>1
      <4>2. b[j] \in Nat /\ b[j + 1] \in Nat
        BY <1>2, <3>1, <4>1
      <4>3. b[j + 1] <= b[z]
        BY <1>2, <3>1, <4>1
      <4>4. QED
        BY <4>2, <4>3
    <3>5. \A i \in b[j] + 1 .. b[j + 1] : h[i] = g[i]
      BY <1>3, <3>4 DEF z
    <3>6. QED
      BY <3>2, <3>3, <3>5 DEF RunIs
  <2>3. QED
    BY <2>1, <2>2
<1>7. RunsAre(t, h, c)
  BY <1>5, <1>6 DEF RunsAre, z
<1>8. QED
  BY <1>7

\* The run at the end of the stack gets another length.
WithLength(s, l) == [s EXCEPT !.run[s.size].length = l]

\* The record it makes.
LEMMA WithLengthIs ==
    ASSUME NEW s, s = [run |-> s.run, size |-> s.size], NEW r, NEW d,
           r = [array |-> r.array, length |-> r.length], s.run[s.size] = r
    PROVE  WithLength(s, d) =
             [run |-> [s.run EXCEPT ![s.size] = [array |-> r.array, length |-> d]],
              size |-> s.size]
<1> DEFINE w == s.run
           z == s.size
           q == [run |-> w, size |-> z]
           a == r.array
           l == r.length
<1>1. s = q /\ w[z] = [array |-> a, length |-> l]
  OBVIOUS
<1> HIDE DEF w, z, a, l
<1>2. WithLength(q, d) = [run |-> [w EXCEPT ![z].length = d], size |-> z]
  BY DEF WithLength
<1>3. [w EXCEPT ![z].length = d] = [w EXCEPT ![z] = [w[z] EXCEPT !.length = d]]
  OBVIOUS
<1>4. [w[z] EXCEPT !.length = d] = [array |-> a, length |-> d]
  BY <1>1
<1> HIDE DEF q
<1>5. WithLength(s, d) = [run |-> [w EXCEPT ![z] = [array |-> a, length |-> d]], size |-> z]
  BY <1>1, <1>2, <1>3, <1>4
<1>6. QED
  BY <1>5 DEF w, z, a, l

\* The last run has the last flag, and there are no more runs than flags.
LEMMA TopOfRuns ==
    ASSUME NEW g \in Seq(BOOLEAN), NEW s, Runs(s, g), s.size # -1
    PROVE  /\ s.size \in 0 .. Len(g) - 1 /\ s.size \in 0 .. Words * WordBits
           /\ s.run[s.size].array \in BOOLEAN /\ g[Len(g)] = s.run[s.size].array
           /\ F!runs_top(s) = s.run[s.size].array
<1>1. PICK b : RunsAre(s, g, b)
  BY DEF Runs
<1> DEFINE z == s.size
<1>2. z \in Nat /\ Len(g) \in Nat /\ Len(g) <= Words * WordBits
  BY DEF Runs, RunsHold
<1>3. z \in 0 .. z /\ z + 1 \in 0 .. z + 1 /\ z \in 0 .. z + 1
  BY <1>2
<1>4. RunIs(s.run[z], g, b[z], b[z + 1]) /\ b[z + 1] = Len(g)
      /\ b[z] \in Nat /\ z <= b[z]
  BY <1>1, <1>3 DEF RunsAre, Begins
<1>5. /\ s.run[z].array \in BOOLEAN /\ s.run[z].length \in Nat \ {0}
      /\ Len(g) = b[z] + s.run[z].length
      /\ \A i \in b[z] + 1 .. Len(g) : g[i] = s.run[z].array
  BY <1>4 DEF RunIs
<1>6. Len(g) \in b[z] + 1 .. Len(g) /\ z <= Len(g) - 1
  BY <1>2, <1>4, <1>5
<1>7. g[Len(g)] = s.run[z].array
  BY <1>5, <1>6
<1>8. z \in 0 .. Len(g) - 1 /\ z \in 0 .. Words * WordBits
  BY <1>2, <1>6, RoomIs
<1>9. F!runs_top(s) = s.run[z].array
  <2>1. CASE s.run[z].array = TRUE
    BY <2>1 DEF F!runs_top
  <2>2. CASE s.run[z].array = FALSE
    BY <2>2 DEF F!runs_top
  <2>3. QED
    BY <1>5, <2>1, <2>2
<1>10. QED
  BY <1>5, <1>7, <1>8, <1>9

\* The operations of compressed_objstack keep it.
LEMMA RunsPush ==
    ASSUME NEW g \in Seq(BOOLEAN), NEW x \in BOOLEAN, NEW s, Runs(s, g),
           Len(g) < Words * WordBits, F!Fits(s, x), NEW h, h = Append(g, x)
    PROVE  Runs(F!runs_push(s, x), h)
<1> DEFINE w == Words * WordBits
           t == F!runs_push(s, x)
           z == s.size
<1>1. /\ h \in Seq(BOOLEAN) /\ Len(h) = Len(g) + 1 /\ \A i \in 1 .. Len(g) : h[i] = g[i]
      /\ h[Len(g) + 1] = x /\ Len(g) \in Nat
  BY FlagAdded
<1>2. PICK b : RunsAre(s, g, b)
  BY DEF Runs
<1>3. /\ RunsHold(s, g) /\ s = [run |-> s.run, size |-> z]
      /\ z \in Int /\ z >= -1 /\ s.run = [i \in 0 .. w |-> s.run[i]]
      /\ w \in Nat /\ Len(g) < w
  BY RoomIs DEF Runs, RunsHold
<1>4. z + 1 \in 0 .. z + 1 /\ z + 1 \in Nat /\ z + 1 <= Len(g)
      /\ b[z + 1] = Len(g) /\ Len(h) <= w
  <2>1. z + 1 \in 0 .. z + 1
    BY <1>3
  <2>2. b[z + 1] = Len(g) /\ z + 1 <= b[z + 1]
    BY <1>2, <2>1 DEF RunsAre, Begins
  <2>3. QED
    BY <1>1, <1>3, <2>1, <2>2
<1>5. CASE F!runs_top(s) # x
  <2>1. t = [size |-> z + 1, run |-> [s.run EXCEPT ![z + 1] = [array |-> x, length |-> 1]]]
    BY <1>5 DEF F!runs_push
  <2>2. t = [run |-> t.run, size |-> t.size] /\ t.size = z + 1
        /\ t.run = [s.run EXCEPT ![z + 1] = [array |-> x, length |-> 1]]
    BY <2>1
  <2> HIDE DEF t, w, z
  <2>3. z + 1 \in 0 .. w /\ t.size \in Int /\ t.size >= -1
    BY <1>1, <1>3, <1>4, <2>2
  <2>4. t.run = [i \in 0 .. w |-> IF i = z + 1 THEN [array |-> x, length |-> 1]
                                  ELSE s.run[i]]
    BY <1>3, <2>2
  <2>5. RunsHold(t, h)
    BY <1>4, <2>2, <2>3, <2>4 DEF RunsHold, w
  <2>6. t.run[z + 1] = [array |-> x, length |-> 1]
        /\ \A j \in 0 .. (z + 1) - 1 : t.run[j] = s.run[j]
    BY <1>3, <2>3, <2>4
  <2>7. \A i \in b[z + 1] + 1 .. Len(h) : h[i] = x
    BY <1>1, <1>4
  <2>8. RunIs(t.run[z + 1], h, b[z + 1], Len(h))
    BY <1>1, <1>4, <2>6, <2>7 DEF RunIs
  <2>9. \A i \in 1 .. b[z + 1] : h[i] = g[i]
    BY <1>1, <1>4
  <2>10. \E c : RunsAre(t, h, c)
    <3>1. t.size \in 0 .. s.size + 1
      BY <1>4, <2>2 DEF z
    <3>2. RunIs(t.run[t.size], h, b[t.size], Len(h))
      BY <2>2, <2>8
    <3>3. \A j \in 0 .. t.size - 1 : t.run[j] = s.run[j]
      BY <2>2, <2>6
    <3>4. \A i \in 1 .. b[t.size] : h[i] = g[i]
      BY <2>2, <2>9
    <3>5. QED
      BY <1>1, <1>2, <1>3, <2>5, <3>1, <3>2, <3>3, <3>4, RunsEnd
  <2>11. QED
    BY <2>5, <2>10 DEF Runs, t
<1>6. CASE F!runs_top(s) = x
  <2> DEFINE r == s.run[z]
  <2>1. z # -1
    <3>1. ASSUME z = -1 PROVE FALSE
      <4>1. x = TRUE
        BY <3>1 DEF F!Fits
      <4>2. ~F!runs_top(s)
        BY <3>1 DEF F!runs_top
      <4>3. QED
        BY <1>6, <4>1, <4>2
    <3>2. QED
      BY <3>1
  <2>2. z \in 0 .. w /\ r.array = x
    BY <1>6, <2>1, TopOfRuns
  <2>3. z \in 0 .. z /\ z \in 0 .. z + 1 /\ z \in Nat
    BY <1>3, <2>1
  <2>4. RunIs(r, g, b[z], b[z + 1])
    BY <1>2, <2>3 DEF RunsAre
  <2>5. /\ r = [array |-> r.array, length |-> r.length] /\ r.length \in Nat \ {0}
        /\ Len(g) = b[z] + r.length
        /\ \A i \in b[z] + 1 .. Len(g) : g[i] = x
    BY <1>4, <2>2, <2>4 DEF RunIs
  <2>6. b[z] \in Nat
    BY <1>2, <2>3 DEF RunsAre, Begins
  <2>7. t = WithLength(s, s.run[s.size].length + 1)
    BY <1>6 DEF F!runs_push, WithLength
  <2>8. t = [run |-> [s.run EXCEPT ![z] = [array |-> x, length |-> r.length + 1]], size |-> z]
    BY <1>3, <2>2, <2>5, <2>7, WithLengthIs
  <2>9. t = [run |-> t.run, size |-> t.size] /\ t.size = z
        /\ t.run = [s.run EXCEPT ![z] = [array |-> x, length |-> r.length + 1]]
    BY <2>8
  <2> DEFINE l == r.length
  <2>10. l \in Nat \ {0} /\ Len(g) = b[z] + l
    BY <2>5
  <2>11. t.run = [s.run EXCEPT ![z] = [array |-> x, length |-> l + 1]]
    BY <2>9
  <2> HIDE DEF t, w, z, r, l
  <2>12. t.run = [i \in 0 .. w |-> IF i = z THEN [array |-> x, length |-> l + 1]
                                   ELSE s.run[i]]
    BY <1>3, <2>11
  <2>13. RunsHold(t, h)
    BY <1>3, <1>4, <2>9, <2>12 DEF RunsHold, w
  <2>14. t.run[z] = [array |-> x, length |-> l + 1]
         /\ \A j \in 0 .. z - 1 : t.run[j] = s.run[j]
    BY <1>3, <2>2, <2>12
  <2>15. \A i \in b[z] + 1 .. Len(h) : h[i] = x
    <3>1. ASSUME NEW i \in b[z] + 1 .. Len(h) PROVE h[i] = x
      <4>1. CASE i = Len(g) + 1
        BY <1>1, <4>1
      <4>2. CASE i # Len(g) + 1
        <5>1. i \in b[z] + 1 .. Len(g) /\ i \in 1 .. Len(g)
          BY <1>1, <2>6, <4>2
        <5>2. QED
          BY <1>1, <2>5, <5>1
      <4>3. QED
        BY <4>1, <4>2
    <3>2. QED
      BY <3>1
  <2>16. RunIs(t.run[z], h, b[z], Len(h))
    <3>1. Len(h) = b[z] + (l + 1) /\ l + 1 \in Nat \ {0}
      BY <1>1, <2>6, <2>10
    <3>2. t.run[z] = [array |-> t.run[z].array, length |-> t.run[z].length]
          /\ t.run[z].array = x /\ t.run[z].length = l + 1
      BY <2>14
    <3>3. \A i \in b[z] + 1 .. Len(h) : h[i] = t.run[z].array
      BY <2>15, <3>2
    <3>4. t.run[z].array \in BOOLEAN /\ t.run[z].length \in Nat \ {0}
          /\ Len(h) = b[z] + t.run[z].length
      BY <3>1, <3>2
    <3>5. QED
      BY <3>2, <3>3, <3>4 DEF RunIs
  <2>17. \A i \in 1 .. b[z] : h[i] = g[i]
    BY <1>1, <2>6, <2>10
  <2>18. \E c : RunsAre(t, h, c)
    <3>1. t.size \in 0 .. s.size + 1
      BY <2>3, <2>9 DEF z
    <3>2. RunIs(t.run[t.size], h, b[t.size], Len(h))
      BY <2>9, <2>16
    <3>3. \A j \in 0 .. t.size - 1 : t.run[j] = s.run[j]
      BY <2>9, <2>14
    <3>4. \A i \in 1 .. b[t.size] : h[i] = g[i]
      BY <2>9, <2>17
    <3>5. QED
      BY <1>1, <1>2, <1>3, <2>13, <3>1, <3>2, <3>3, <3>4, RunsEnd
  <2>19. QED
    BY <2>13, <2>18 DEF Runs, t
<1>7. QED
  BY <1>5, <1>6

LEMMA RunsPop ==
    ASSUME NEW g \in Seq(BOOLEAN), NEW s, Runs(s, g), g # <<>>,
           NEW h, h = F!Front(g)
    PROVE  Runs(F!runs_pop(s), h)
<1> DEFINE w == Words * WordBits
           z == s.size
           r == s.run[z]
           l == r.length
           u == WithLength(s, s.run[s.size].length - 1)
           t == F!runs_pop(s)
<1>1. /\ h \in Seq(BOOLEAN) /\ Len(h) = Len(g) - 1 /\ \A i \in 1 .. Len(g) - 1 : h[i] = g[i]
      /\ Len(g) \in Nat \ {0}
  BY FlagTaken
<1>2. PICK b : RunsAre(s, g, b)
  BY DEF Runs
<1>3. /\ RunsHold(s, g) /\ s = [run |-> s.run, size |-> z]
      /\ z \in Int /\ z >= -1 /\ s.run = [i \in 0 .. w |-> s.run[i]]
      /\ w \in Nat /\ Len(g) <= w
  BY RoomIs DEF Runs, RunsHold
<1>4. z # -1
  <2>1. ASSUME z = -1 PROVE FALSE
    <3>1. b[z + 1] = Len(g) /\ b[0] = 0
      BY <1>2 DEF RunsAre, Begins
    <3>2. QED
      BY <1>1, <2>1, <3>1
  <2>2. QED
    BY <2>1
<1>5. z \in 0 .. w /\ z \in Nat /\ z \in 0 .. z
  BY <1>3, <1>4, TopOfRuns
<1>6. RunIs(r, g, b[z], b[z + 1]) /\ b[z + 1] = Len(g)
  BY <1>2, <1>5 DEF RunsAre, Begins
<1>7. /\ b[0] = 0
      /\ \A j \in 0 .. z + 1 : b[j] \in Nat /\ j <= b[j]
      /\ \A i, j \in 0 .. z + 1 : i <= j => b[i] <= b[j]
  BY <1>2 DEF RunsAre, Begins
<1>8. /\ r = [array |-> r.array, length |-> l] /\ r.array \in BOOLEAN
      /\ l \in Nat \ {0} /\ Len(g) = b[z] + l
      /\ \A i \in b[z] + 1 .. Len(g) : g[i] = r.array
  BY <1>6 DEF RunIs
<1>9. b[z] \in Nat
  BY <1>5, <1>7
<1>10. u = [run |-> [s.run EXCEPT ![z] = [array |-> r.array, length |-> l - 1]], size |-> z]
  BY <1>3, <1>8, WithLengthIs
<1>11. t = IF u.run[u.size].length = 0 THEN [u EXCEPT !.size = @ - 1] ELSE u
  BY DEF F!runs_pop, WithLength
<1>12. /\ u = [run |-> u.run, size |-> u.size] /\ u.size = z
       /\ u.run = [s.run EXCEPT ![z] = [array |-> r.array, length |-> l - 1]]
  BY <1>10
<1> DEFINE a == r.array
<1>13. u.run = [s.run EXCEPT ![z] = [array |-> a, length |-> l - 1]] /\ a \in BOOLEAN
       /\ \A i \in b[z] + 1 .. Len(g) : g[i] = a
  BY <1>8, <1>12
<1>14. l \in Nat \ {0} /\ Len(g) = b[z] + l
  BY <1>8
<1> HIDE DEF t, u, w, z, r, l, a
<1>15. u.run = [i \in 0 .. w |-> IF i = z THEN [array |-> a, length |-> l - 1] ELSE s.run[i]]
  BY <1>3, <1>13
<1>16. /\ u.run = [i \in 0 .. w |-> u.run[i]]
       /\ u.run[z] = [array |-> a, length |-> l - 1]
       /\ \A j \in 0 .. z - 1 : u.run[j] = s.run[j]
  <2>1. u.run = [i \in 0 .. w |-> u.run[i]]
    BY <1>15
  <2>2. u.run[z] = [array |-> a, length |-> l - 1]
    <3> DEFINE e == [array |-> a, length |-> l - 1]
    <3>1. z \in 0 .. w /\ u.run = [i \in 0 .. w |-> IF i = z THEN e ELSE s.run[i]]
      BY <1>5, <1>15
    <3> HIDE DEF e
    <3>2. u.run[z] = e
      BY <3>1
    <3>3. QED
      BY <3>2 DEF e
  <2>3. ASSUME NEW j \in 0 .. z - 1 PROVE u.run[j] = s.run[j]
    <3>1. j \in 0 .. w /\ j # z
      BY <1>3, <1>5
    <3>2. QED
      BY <1>15, <3>1
  <2>4. QED
    BY <2>1, <2>2, <2>3
<1>17. u.run[u.size].length = l - 1
  BY <1>12, <1>16
<1>18. Len(h) <= w /\ Len(h) = b[z] + (l - 1) /\ Len(h) \in Nat
  BY <1>1, <1>3, <1>9, <1>14
<1>19. CASE l = 1
  <2>1. t = [run |-> u.run, size |-> z - 1]
    <3>1. t = [u EXCEPT !.size = @ - 1]
      BY <1>11, <1>17, <1>19
    <3>2. QED
      BY <1>12, <3>1
  <2>2. t = [run |-> t.run, size |-> t.size] /\ t.run = u.run /\ t.size = z - 1
    BY <2>1
  <2>3. RunsHold(t, h)
    BY <1>5, <1>16, <1>18, <2>2 DEF RunsHold, w
  <2>4. Len(h) = b[z]
    BY <1>9, <1>18, <1>19
  <2>5. Begins(b, z - 1, Len(h))
    <3>1. b[(z - 1) + 1] = Len(h)
      BY <1>5, <2>4
    <3>2. \A j \in 0 .. (z - 1) + 1 : j \in 0 .. z + 1
      BY <1>5
    <3>3. QED
      BY <1>7, <3>1, <3>2 DEF Begins
  <2>6. ASSUME NEW j \in 0 .. z - 1 PROVE RunIs(t.run[j], h, b[j], b[j + 1])
    <3>1. j \in 0 .. z /\ j \in 0 .. z + 1 /\ j + 1 \in 0 .. z + 1 /\ j + 1 <= z
          /\ z \in 0 .. z + 1
      BY <1>5
    <3>2. t.run[j] = s.run[j]
      BY <1>16, <2>2
    <3>3. RunIs(s.run[j], g, b[j], b[j + 1])
      BY <1>2, <3>1 DEF RunsAre, z
    <3>4. b[j] \in Nat /\ b[j + 1] \in Nat /\ b[j + 1] <= b[z]
      <4>1. b[j] \in Nat /\ b[j + 1] \in Nat
        BY <1>7, <3>1
      <4>2. b[j + 1] <= b[z]
        BY <1>7, <3>1
      <4>3. QED
        BY <4>1, <4>2
    <3>5. \A i \in b[j] + 1 .. b[j + 1] : i \in 1 .. Len(g) - 1
      BY <1>1, <2>4, <3>4
    <3>6. \A i \in b[j] + 1 .. b[j + 1] : h[i] = g[i]
      BY <1>1, <3>5
    <3>7. QED
      BY <3>2, <3>3, <3>6 DEF RunIs
  <2>7. RunsAre(t, h, b)
    BY <2>2, <2>5, <2>6 DEF RunsAre
  <2>8. QED
    BY <2>3, <2>7 DEF Runs, t
<1>20. CASE l # 1
  <2>1. t = u
    <3>1. l - 1 # 0
      BY <1>14, <1>20
    <3>2. QED
      BY <1>11, <1>17, <3>1
  <2>2. RunsHold(t, h)
    BY <1>3, <1>12, <1>16, <1>18, <2>1 DEF RunsHold, w
  <2>3. \A i \in b[z] + 1 .. Len(h) : h[i] = a
    <3>1. ASSUME NEW i \in b[z] + 1 .. Len(h) PROVE h[i] = a
      <4>1. i \in b[z] + 1 .. Len(g) /\ i \in 1 .. Len(g) - 1
        BY <1>1, <1>9
      <4>2. QED
        BY <1>1, <1>13, <4>1
    <3>2. QED
      BY <3>1
  <2>4. RunIs(t.run[z], h, b[z], Len(h))
    <3>1. t.run[z] = [array |-> t.run[z].array, length |-> t.run[z].length]
          /\ t.run[z].array = a /\ t.run[z].length = l - 1
      <4>1. t.run[z] = [array |-> a, length |-> l - 1]
        BY <1>16, <2>1
      <4>2. QED
        BY ONLY <4>1
    <3>2. \A i \in b[z] + 1 .. Len(h) : h[i] = t.run[z].array
      BY <2>3, <3>1
    <3>3. l - 1 \in Nat \ {0}
      BY <1>14, <1>20
    <3>4. t.run[z].array \in BOOLEAN /\ t.run[z].length \in Nat \ {0}
          /\ Len(h) = b[z] + t.run[z].length
      BY <1>13, <1>18, <3>1, <3>3
    <3>5. QED
      BY <3>1, <3>2, <3>4 DEF RunIs
  <2>5. \A i \in 1 .. b[z] : h[i] = g[i]
    <3>1. b[z] <= Len(g) - 1
      BY <1>9, <1>14
    <3>2. QED
      BY <1>1, <1>9, <3>1
  <2>6. t.size = z
    BY <1>12, <2>1
  <2>7. \E c : RunsAre(t, h, c)
    <3>1. t.size \in 0 .. s.size + 1
      BY <1>5, <2>6 DEF z
    <3>2. RunIs(t.run[t.size], h, b[t.size], Len(h))
      BY <2>4, <2>6
    <3>3. \A j \in 0 .. t.size - 1 : t.run[j] = s.run[j]
      BY <1>16, <2>1, <2>6
    <3>4. \A i \in 1 .. b[t.size] : h[i] = g[i]
      BY <2>5, <2>6
    <3>5. QED
      BY <1>1, <1>2, <1>3, <2>2, <3>1, <3>2, <3>3, <3>4, RunsEnd
  <2>8. QED
    BY <2>2, <2>7 DEF Runs, t
<1>21. QED
  BY <1>19, <1>20

-----------------------------------------------------------------------------
(* The four stacks of flags together.                                      *)

\* Each stack of flags packs the flags that were pushed in its own way.
FlagsInv ==
    /\ f_flags \in Seq(BOOLEAN)
    /\ \/ f_kind = "bits" /\ Bits(f_stack, f_flags)
       \/ f_kind = "bits63" /\ Bits63(f_stack, f_flags)
       \/ f_kind = "nibbles" /\ Nibbles(f_stack, f_flags)
       \/ f_kind = "runs" /\ Runs(f_stack, f_flags)

\* An empty stack has no flags.
LEMMA FlagsInit == ContainersInit => FlagsInv
<1> SUFFICES ASSUME ContainersInit PROVE FlagsInv
  OBVIOUS
<1>1. f_kind \in {"bits", "bits63", "nibbles", "runs"} /\ f_stack = F!Empty /\ f_flags = <<>>
  BY DEF ContainersInit, F!Init, F!Kind
<1>2. f_flags \in Seq(BOOLEAN) /\ Len(f_flags) = 0
  BY <1>1
<1> DEFINE w == Words * WordBits
<1>3. w \in Nat
  BY RoomIs
<1>4. CASE f_kind = "bits"
  <2>1. f_stack = [bits |-> [p \in 0 .. Words - 1 |-> NoMemory], mask |-> 0, pos |-> -1]
    BY <1>1, <1>4 DEF F!Empty, F!bits_empty
  <2>2. ASSUME NEW p \in 0 .. Words - 1, NEW b \in 1 .. WordBits
        PROVE  Bit(f_stack, f_flags, p, b)
    <3>1. p * WordBits \in Nat /\ b \in Nat \ {0}
      BY WordsAssumption
    <3>2. ~(p * WordBits + b <= Len(f_flags))
      BY <1>2, <3>1
    <3>3. QED
      BY <3>2 DEF Bit
  <2>3. f_stack.pos \in -1 .. Words - 1
    BY <2>1, WordsAssumption
  <2>4. /\ f_stack = [bits |-> f_stack.bits, mask |-> f_stack.mask, pos |-> f_stack.pos]
        /\ f_stack.bits = [p \in 0 .. Words - 1 |-> NoMemory]
        /\ f_stack.mask = 0 /\ f_stack.pos = -1
    BY <2>1
  <2>5. f_stack.bits = [p \in 0 .. Words - 1 |-> f_stack.bits[p]]
    BY <2>4
  <2>6. Bits(f_stack, f_flags)
    BY <1>2, <2>2, <2>3, <2>4, <2>5 DEF Bits
  <2>7. QED
    BY <1>2, <1>4, <2>6 DEF FlagsInv
<1>5. CASE f_kind = "bits63"
  <2>1. f_stack = [bits |-> {}, mask |-> 1]
    BY <1>1, <1>5 DEF F!Empty, F!bits63_empty
  <2>2. Bits63(f_stack, f_flags)
    BY <1>2, <2>1, WordsAssumption DEF Bits63
  <2>3. QED
    BY <1>2, <1>5, <2>2 DEF FlagsInv
<1>6. CASE f_kind = "nibbles"
  <2>1. f_stack = [bytes |-> [i \in 0 .. w |-> [m \in {F!Low, F!High} |-> NoMemory]],
                   mask |-> F!High, size |-> 0]
    BY <1>1, <1>6 DEF F!Empty, F!nibbles_empty
  <2> HIDE DEF w
  <2>2. ASSUME NEW i \in 0 .. w, NEW k \in {F!Low, F!High}
        PROVE  Nibble(f_stack, f_flags, i, k)
    <3>1. NibbleOf(i, k) \in Nat \ {0}
      BY <1>3, NibbleIs
    <3>2. ~(NibbleOf(i, k) <= Len(f_flags))
      BY <1>2, <3>1
    <3>3. QED
      BY <3>2 DEF Nibble
  <2>3. /\ f_stack.bytes = [i \in 0 .. w |-> f_stack.bytes[i]]
        /\ \A i \in 0 .. w :
              f_stack.bytes[i] = [m \in {F!Low, F!High} |-> f_stack.bytes[i][m]]
    BY <2>1
  <2>4. /\ f_stack = [bytes |-> f_stack.bytes, mask |-> f_stack.mask, size |-> f_stack.size]
        /\ f_stack.mask = F!High /\ f_stack.size = 0
    BY <2>1
  <2>5. Nibbles(f_stack, f_flags)
    <3>1. f_stack.mask \in {F!Low, F!High} /\ f_stack.size \in 0 .. 255
      BY <2>4
    <3>2. Len(f_flags) = (IF f_stack.mask = F!High THEN 2 * f_stack.size
                          ELSE 2 * f_stack.size - 1)
      BY <1>2, <2>4
    <3>3. Len(f_flags) <= Words * WordBits
      BY <1>2, RoomIs
    <3>4. QED
      BY <3>3, <2>2, <2>3, <2>4, <3>1, <3>2 DEF Nibbles, w
  <2>6. QED
    BY <1>2, <1>6, <2>5 DEF FlagsInv
<1>7. CASE f_kind = "runs"
  <2>1. f_stack = [run |-> [i \in 0 .. w |-> NoMemory], size |-> -1]
    BY <1>1, <1>7 DEF F!Empty, F!runs_empty
  <2>2. f_stack = [run |-> f_stack.run, size |-> f_stack.size] /\ f_stack.size = -1
        /\ f_stack.run = [i \in 0 .. w |-> f_stack.run[i]]
    BY <2>1
  <2> HIDE DEF w
  <2>3. RunsHold(f_stack, f_flags)
    BY <1>2, <1>3, <2>2 DEF RunsHold, w
  <2> DEFINE b == [j \in {0} |-> 0]
  <2>4. Begins(b, -1, 0)
    BY DEF Begins
  <2> HIDE DEF b
  <2>5. RunsAre(f_stack, f_flags, b)
    BY <1>2, <2>2, <2>4 DEF RunsAre
  <2>6. Runs(f_stack, f_flags)
    BY <2>3, <2>5 DEF Runs
  <2>7. QED
    BY <1>2, <1>7, <2>6 DEF FlagsInv
<1>8. QED
  BY <1>1, <1>4, <1>5, <1>6, <1>7

\* Push and pop keep the invariant, whatever the stack is.
LEMMA FlagsPush ==
    ASSUME FlagsInv, NEW x \in BOOLEAN, F!Push(x)
    PROVE  FlagsInv'
<1>1. f_flags \in Seq(BOOLEAN) /\ f_flags' = Append(f_flags, x) /\ f_kind' = f_kind
  BY DEF FlagsInv, F!Push
<1>2. f_flags' \in Seq(BOOLEAN)
  BY <1>1, FlagAdded
<1>3. CASE f_kind = "bits" /\ Bits(f_stack, f_flags)
  <2>1. Len(f_flags) < Words * WordBits /\ f_stack' = F!bits_push(f_stack, x)
    BY <1>3 DEF F!Push, F!HasRoom
  <2>2. Bits(f_stack', f_flags')
    BY <1>1, <1>3, <2>1, BitsPush
  <2>3. QED
    BY <1>1, <1>2, <1>3, <2>2 DEF FlagsInv
<1>4. CASE f_kind = "bits63" /\ Bits63(f_stack, f_flags)
  <2>1. Len(f_flags) < WordBits - 1 /\ f_stack' = F!bits63_push(f_stack, x)
    BY <1>4 DEF F!Push, F!HasRoom
  <2>2. Bits63(f_stack', f_flags')
    BY <1>1, <1>4, <2>1, Bits63Push
  <2>3. QED
    BY <1>1, <1>2, <1>4, <2>2 DEF FlagsInv
<1>5. CASE f_kind = "nibbles" /\ Nibbles(f_stack, f_flags)
  <2>1. Len(f_flags) < Words * WordBits /\ f_stack' = F!nibbles_push(f_stack, x)
    BY <1>5 DEF F!Push, F!HasRoom
  <2>2. Nibbles(f_stack', f_flags')
    BY <1>1, <1>5, <2>1, NibblesPush
  <2>3. QED
    BY <1>1, <1>2, <1>5, <2>2 DEF FlagsInv
<1>6. CASE f_kind = "runs" /\ Runs(f_stack, f_flags)
  <2>1. Len(f_flags) < Words * WordBits /\ F!Fits(f_stack, x)
        /\ f_stack' = F!runs_push(f_stack, x)
    BY <1>6 DEF F!Push, F!HasRoom
  <2>2. Runs(f_stack', f_flags')
    BY <1>1, <1>6, <2>1, RunsPush
  <2>3. QED
    BY <1>1, <1>2, <1>6, <2>2 DEF FlagsInv
<1>7. QED
  BY <1>3, <1>4, <1>5, <1>6 DEF FlagsInv

LEMMA FlagsPop ==
    ASSUME FlagsInv, F!Pop
    PROVE  FlagsInv'
<1>1. /\ f_flags \in Seq(BOOLEAN) /\ f_flags # <<>> /\ f_flags' = F!Front(f_flags)
      /\ f_kind' = f_kind
  BY DEF FlagsInv, F!Pop
<1>2. f_flags' \in Seq(BOOLEAN)
  BY <1>1, FlagTaken
<1>3. CASE f_kind = "bits" /\ Bits(f_stack, f_flags)
  <2>1. f_stack' = F!bits_pop(f_stack)
    BY <1>3 DEF F!Pop
  <2>2. Bits(f_stack', f_flags')
    BY <1>1, <1>3, <2>1, BitsPop
  <2>3. QED
    BY <1>1, <1>2, <1>3, <2>2 DEF FlagsInv
<1>4. CASE f_kind = "bits63" /\ Bits63(f_stack, f_flags)
  <2>1. f_stack' = F!bits63_pop(f_stack)
    BY <1>4 DEF F!Pop
  <2>2. Bits63(f_stack', f_flags')
    BY <1>1, <1>4, <2>1, Bits63Pop
  <2>3. QED
    BY <1>1, <1>2, <1>4, <2>2 DEF FlagsInv
<1>5. CASE f_kind = "nibbles" /\ Nibbles(f_stack, f_flags)
  <2>1. f_stack' = F!nibbles_pop(f_stack)
    BY <1>5 DEF F!Pop
  <2>2. Nibbles(f_stack', f_flags')
    BY <1>1, <1>5, <2>1, NibblesPop
  <2>3. QED
    BY <1>1, <1>2, <1>5, <2>2 DEF FlagsInv
<1>6. CASE f_kind = "runs" /\ Runs(f_stack, f_flags)
  <2>1. f_stack' = F!runs_pop(f_stack)
    BY <1>6 DEF F!Pop
  <2>2. Runs(f_stack', f_flags')
    BY <1>1, <1>6, <2>1, RunsPop
  <2>3. QED
    BY <1>1, <1>2, <1>6, <2>2 DEF FlagsInv
<1>7. QED
  BY <1>3, <1>4, <1>5, <1>6 DEF FlagsInv

\* Every step of the containers keeps the invariant of the stacks of flags.
LEMMA FlagsStep == FlagsInv /\ [ContainersNext]_containersVars => FlagsInv'
<1> SUFFICES ASSUME FlagsInv, [ContainersNext]_containersVars PROVE FlagsInv'
  OBVIOUS
<1>1. CASE UNCHANGED flags
  BY <1>1 DEF flags, FlagsInv
<1>2. CASE F!Next
  BY <1>2, FlagsPush, FlagsPop DEF F!Next
<1>3. QED
  BY <1>1, <1>2 DEF ContainersNext, containersVars

\* The top of a stack that packs g.
LEMMA LastFlag ==
    ASSUME NEW g \in Seq(BOOLEAN)
    PROVE  /\ Len(g) \in Nat /\ (g = <<>>) = (Len(g) = 0) /\ F!Last(g) = g[Len(g)]
           /\ g # <<>> => g[Len(g)] \in BOOLEAN
<1>1. Len(g) \in Nat /\ (g = <<>>) = (Len(g) = 0)
  BY EmptySeq, LenProperties
<1>2. g # <<>> => g[Len(g)] \in BOOLEAN
  BY <1>1, ElementOfSeq
<1>3. F!Last(g) = g[Len(g)]
  BY DEF F!Last
<1>4. QED
  BY <1>1, <1>2, <1>3

\* A stack that packs the flags has the last one at its top.
LEMMA TopIsLast == FlagsInv => F!TopIsLastFlag
<1> SUFFICES ASSUME FlagsInv
             PROVE  /\ F!empty = (f_flags = <<>>)
                    /\ f_flags # <<>> =>
                          \/ F!top = F!Last(f_flags)
                          \/ f_kind = "bits" /\ f_stack.mask # 1 /\ ~F!Last(f_flags)
  BY DEF F!TopIsLastFlag
<1> DEFINE g == f_flags
           s == f_stack
           n == Len(f_flags)
<1>1. /\ g \in Seq(BOOLEAN) /\ n \in Nat /\ (g = <<>>) = (n = 0) /\ F!Last(g) = g[n]
      /\ g # <<>> => g[n] \in BOOLEAN
  BY LastFlag DEF FlagsInv
<1>2. CASE f_kind = "bits" /\ Bits(s, g)
  <2>1. F!empty = (s.pos < 0) /\ F!top = (s.mask \in s.bits[s.pos])
    BY <1>2 DEF F!empty, F!top, F!bits_top
  <2>2. n = 0 => s.pos = -1
    BY <1>2 DEF Bits
  <2>3. n > 0 => /\ s.pos >= 0 /\ s.pos \in 0 .. Words - 1 /\ s.mask \in 1 .. WordBits
                 /\ n = s.pos * WordBits + s.mask
    BY <1>2, WordsAssumption DEF Bits
  <2>4. F!empty = (g = <<>>)
    <3>1. s.pos \in Int
      BY <1>2, WordsAssumption DEF Bits
    <3>2. s.pos < 0 <=> n = 0
      BY <1>1, <2>2, <2>3, <3>1
    <3>3. QED
      BY <1>1, <2>1, <3>2
  <2>5. ASSUME g # <<>>
        PROVE  F!top = F!Last(g) \/ (s.mask # 1 /\ ~F!Last(g))
    <3>1. n > 0
      BY <1>1, <2>5
    <3>2. Bit(s, g, s.pos, s.mask)
      BY <1>2, <2>3, <3>1 DEF Bits
    <3>3. /\ g[n] = TRUE => s.mask \in s.bits[s.pos]
          /\ s.mask = 1 /\ 1 \in s.bits[s.pos] => g[n] = TRUE
      BY <1>1, <2>3, <3>1, <3>2 DEF Bit
    <3>4. CASE g[n] = TRUE
      <4>1. F!top = TRUE
        BY <2>1, <3>3, <3>4
      <4>2. QED
        BY <1>1, <3>4, <4>1
    <3>5. CASE g[n] = FALSE
      <4>1. ~F!Last(g)
        BY <1>1, <3>5
      <4>2. ASSUME s.mask = 1 PROVE F!top = FALSE
        <5>1. ~(s.mask \in s.bits[s.pos])
          BY <3>3, <3>5, <4>2
        <5>2. (s.mask \in s.bits[s.pos]) = FALSE
          BY <5>1
        <5>3. QED
          BY <2>1, <5>2
      <4>3. QED
        BY <1>1, <3>5, <4>1, <4>2
    <3>6. QED
      BY <1>1, <2>5, <3>4, <3>5
  <2>6. QED
    BY <1>2, <2>4, <2>5
<1>3. CASE f_kind = "bits63" /\ Bits63(s, g)
  <2>1. F!empty = (s.mask = 1) /\ F!top = (s.mask \in s.bits)
    BY <1>3 DEF F!empty, F!top, F!bits63_top
  <2>2. s.mask = n + 1 /\ \A i \in 1 .. n : g[i] = TRUE <=> i + 1 \in s.bits
    BY <1>3 DEF Bits63
  <2>3. s.mask = 1 <=> n = 0
    BY <1>1, <2>2
  <2>4. F!empty = (g = <<>>)
    BY <1>1, <2>1, <2>3
  <2>5. ASSUME g # <<>> PROVE F!top = F!Last(g)
    <3>1. n \in 1 .. n
      BY <1>1, <2>5
    <3>2. g[n] = TRUE <=> s.mask \in s.bits
      BY <2>2, <3>1
    <3>3. CASE g[n] = TRUE
      <4>1. F!top = TRUE
        BY <2>1, <3>2, <3>3
      <4>2. QED
        BY <1>1, <3>3, <4>1
    <3>4. CASE g[n] = FALSE
      <4>1. F!top = FALSE
        <5>1. ~(s.mask \in s.bits)
          BY <3>2, <3>4
        <5>2. (s.mask \in s.bits) = FALSE
          BY <5>1
        <5>3. QED
          BY <2>1, <5>2
      <4>2. QED
        BY <1>1, <3>4, <4>1
    <3>5. QED
      BY <1>1, <2>5, <3>3, <3>4
  <2>6. QED
    BY <2>4, <2>5
<1>4. CASE f_kind = "nibbles" /\ Nibbles(s, g)
  <2>1. F!empty = (s.size = 0) /\ F!top = s.bytes[s.size - 1][s.mask]
    BY <1>4 DEF F!empty, F!top, F!nibbles_top
  <2>2. /\ s.mask \in {15, 240} /\ s.size \in 0 .. 255
        /\ n = (IF s.mask = 240 THEN 2 * s.size ELSE 2 * s.size - 1)
    BY <1>4 DEF Nibbles, F!Low, F!High
  <2> DEFINE z == s.size
  <2>3. z \in 0 .. 255 /\ (n = 2 * z \/ n = 2 * z - 1) /\ n \in Nat
    BY <1>1, <2>2
  <2> HIDE DEF n, z
  <2>4. (z = 0 <=> n = 0) /\ (n # 0 => z - 1 \in 0 .. Words * WordBits /\ z - 1 \in Nat)
    <3>1. n # 0 => z - 1 \in 0 .. Words * WordBits
      <4>1. n <= Words * WordBits
        BY <1>4 DEF Nibbles, n
      <4>2. QED
        BY <2>3, <4>1, RoomIs
    <3>2. QED
      BY <2>3, <3>1
  <2>5. s.size = 0 <=> n = 0
    BY <2>4 DEF z
  <2>6. F!empty = (g = <<>>)
    BY <1>1, <2>1, <2>5
  <2>7. ASSUME g # <<>> PROVE F!top = F!Last(g)
    <3>1. n # 0 /\ z - 1 \in 0 .. Words * WordBits
      BY <1>1, <2>4, <2>7
    <3>2. NibbleOf(z - 1, s.mask) = n
      <4>1. n = (IF s.mask = 240 THEN 2 * z ELSE 2 * z - 1) /\ s.mask \in {15, 240}
        BY <2>2 DEF n, z
      <4>2. QED
        BY <2>3, <4>1 DEF NibbleOf, F!Low
    <3>3. Nibble(s, g, z - 1, s.mask)
      BY <1>4, <3>1 DEF Nibbles
    <3>4. s.bytes[z - 1][s.mask] = g[n]
      BY <2>3, <3>2, <3>3 DEF Nibble, n
    <3>5. QED
      BY <1>1, <2>1, <3>4 DEF z
  <2>8. QED
    BY <2>6, <2>7
<1>5. CASE f_kind = "runs" /\ Runs(s, g)
  <2>1. F!empty = (s.size = -1) /\ F!top = F!runs_top(s)
    BY <1>5 DEF F!empty, F!top
  <2>2. s.size = -1 <=> n = 0
    <3>1. ASSUME s.size = -1 PROVE n = 0
      <4>1. PICK b : RunsAre(s, g, b)
        BY <1>5 DEF Runs
      <4>2. b[-1 + 1] = n /\ b[0] = 0
        BY <3>1, <4>1 DEF RunsAre, Begins
      <4>3. QED
        BY <4>2
    <3>2. ASSUME s.size # -1 PROVE n # 0
      <4>1. s.size \in 0 .. n - 1
        BY <1>1, <1>5, <3>2, TopOfRuns
      <4>2. QED
        BY <1>1, <4>1
    <3>3. QED
      BY <3>1, <3>2
  <2>3. F!empty = (g = <<>>)
    BY <1>1, <2>1, <2>2
  <2>4. ASSUME g # <<>> PROVE F!top = F!Last(g)
    <3>1. s.size # -1
      BY <1>1, <2>2, <2>4
    <3>2. g[n] = s.run[s.size].array /\ F!runs_top(s) = s.run[s.size].array
      BY <1>1, <1>5, <3>1, TopOfRuns
    <3>3. QED
      BY <1>1, <2>1, <3>2
  <2>5. QED
    BY <2>3, <2>4
<1>6. QED
  BY <1>2, <1>3, <1>4, <1>5 DEF FlagsInv

\* A stack of items has what was pushed on it, in the order comparisons say,
\* and a stack of flags has the last one at its top.
THEOREM StacksAlwaysAgree == ContainersSpec => []StacksAgree
<1>1. ContainersInit => StackInv /\ FlagsInv
  BY StackInit, FlagsInit
<1>2. (StackInv /\ FlagsInv) /\ [ContainersNext]_containersVars => (StackInv /\ FlagsInv)'
  BY StackStep, FlagsStep
<1>3. StackInv /\ FlagsInv => StacksAgree
  BY StackPrefix, StacksOrdered, TopIsLast DEF StacksAgree
<1>4. QED
  BY <1>1, <1>2, <1>3, PTL DEF ContainersSpec

-----------------------------------------------------------------------------
(* mono::string.                                                           *)

\* The array b holds the string t, its NUL and the room that it leaves.
HoldsText(b, t) ==
    /\ b \in [0 .. StringN -> Nat]
    /\ t \in Seq(Char) /\ Len(t) <= StringN
    /\ Starts(b, Len(t), t)
    /\ b[Len(t)] = 0
    /\ b[StringN] = StringN - Len(t)

StringInv ==
    /\ HoldsText(s_buf, s_text)
    /\ s_due # S!Copied => s_answer = s_due

LEMMA ResizedHolds ==
    ASSUME NEW b \in [0 .. StringN -> Nat], NEW t \in Seq(Char),
           Len(t) <= StringN, Starts(b, Len(t), t)
    PROVE  HoldsText(S!resized(b, Len(t)), t)
<1>1. StringN \in Nat \ {0} /\ Len(t) \in Nat
  BY StringNAssumption
<1> DEFINE n == Len(t)
           d == [b EXCEPT ![StringN] = StringN - n, ![n] = 0]
<1>2. d \in [0 .. StringN -> Nat]
  BY <1>1
<1>3. \A i \in 0 .. StringN : d[i] = IF i = n THEN 0 ELSE IF i = StringN THEN StringN - n ELSE b[i]
  BY <1>1
<1> HIDE DEF d
<1>4. d[n] = 0 /\ d[StringN] = StringN - n
  BY <1>1, <1>3
<1>5. \A i \in 0 .. n - 1 : d[i] = b[i]
  BY <1>1, <1>3
<1>6. \A i \in 0 .. n - 1 : d[i] = t[i + 1]
  BY <1>5 DEF Starts
<1>7. QED
  BY <1>2, <1>4, <1>6 DEF HoldsText, Starts, d, S!resized

LEMMA BecomesHolds ==
    ASSUME NEW b, NEW t, HoldsText(b, t), S!Becomes(b, t)
    PROVE  StringInv'
BY DEF S!Becomes, StringInv, HoldsText, Starts

LEMMA PutIs ==
    ASSUME NEW b \in [0 .. StringN -> Nat], NEW to \in Nat, NEW s \in Seq(Char)
    PROVE  /\ S!put(b, to, s) \in [0 .. StringN -> Nat]
           /\ \A i \in 0 .. StringN :
                 S!put(b, to, s)[i] = IF i >= to /\ i < to + Len(s) THEN s[i - to + 1] ELSE b[i]
<1>1. Len(s) \in Nat /\ StringN \in Nat
  BY StringNAssumption
<1>2. \A j \in 1 .. Len(s) : s[j] \in Nat
  BY ElementOfSeq, CharAssumption
<1>3. \A i \in 0 .. StringN : i \in to .. to + Len(s) - 1 <=> i >= to /\ i < to + Len(s)
  BY <1>1
<1>4. \A i \in 0 .. StringN : i >= to /\ i < to + Len(s) => i - to + 1 \in 1 .. Len(s)
  BY <1>1
<1>5. QED
  BY <1>2, <1>3, <1>4 DEF S!put

MovedTo(a, b, to, from, n) ==
    /\ a \in [0 .. StringN -> Nat]
    /\ \A i \in 0 .. StringN :
          a[i] = IF i >= to /\ i < to + n THEN b[i - to + from] ELSE b[i]

LEMMA MovedIs ==
    ASSUME NEW b \in [0 .. StringN -> Nat], NEW to \in Nat, NEW from \in Nat, NEW n \in Nat,
           from + n <= StringN
    PROVE  MovedTo(S!moved(b, to, from, n), b, to, from, n)
<1>1. StringN \in Nat
  BY StringNAssumption
<1>2. \A i \in 0 .. StringN : i \in to .. to + n - 1 <=> i >= to /\ i < to + n
  BY <1>1
<1>3. \A i \in 0 .. StringN : i >= to /\ i < to + n => i - to + from \in 0 .. StringN
  BY <1>1
<1>4. QED
  BY <1>2, <1>3 DEF S!moved, MovedTo

\* t with s in the place of count characters from pos on.
Spliced(t, pos, count, s) ==
    SubSeq(t, 1, pos) \o s \o SubSeq(t, pos + count + 1, Len(t))

SplicedIs(u, t, pos, count, s) ==
    /\ u \in Seq(Char)
    /\ Len(u) = Len(t) - count + Len(s)
    /\ \A i \in 1 .. Len(u) :
          u[i] = IF i <= pos THEN t[i]
                 ELSE IF i <= pos + Len(s) THEN s[i - pos] ELSE t[i - Len(s) + count]

LEMMA PartOf ==
    ASSUME NEW t \in Seq(Char), NEW m \in 1 .. Len(t) + 1, NEW n \in m - 1 .. Len(t)
    PROVE  /\ SubSeq(t, m, n) \in Seq(Char)
           /\ Len(SubSeq(t, m, n)) = n - m + 1
           /\ \A i \in 1 .. n - m + 1 : SubSeq(t, m, n)[i] = t[m + i - 1]
<1>1. m \in Int /\ n \in Int /\ Len(t) \in Nat
  OBVIOUS
<1>2. \A i \in m .. n : t[i] \in Char
  BY <1>1, ElementOfSeq
<1> DEFINE u == SubSeq(t, m, n)
<1>3. u \in Seq(Char) /\ Len(u) = IF m <= n THEN n - m + 1 ELSE 0
  BY <1>1, <1>2, SubSeqProperties
<1>4. \A i \in 1 .. n - m + 1 : u[i] = t[m + i - 1]
  BY <1>1, <1>2, SubSeqProperties
<1> HIDE DEF u
<1>5. Len(u) = n - m + 1
  BY <1>1, <1>3
<1>6. QED
  BY <1>3, <1>4, <1>5 DEF u

LEMMA SplicedText ==
    ASSUME NEW t \in Seq(Char), NEW pos \in Nat, NEW count \in Nat, NEW s \in Seq(Char),
           pos + count <= Len(t)
    PROVE  SplicedIs(Spliced(t, pos, count, s), t, pos, count, s)
<1>1. Len(t) \in Nat /\ Len(s) \in Nat
  OBVIOUS
<1> DEFINE a == SubSeq(t, 1, pos)
           c == SubSeq(t, pos + count + 1, Len(t))
           d == a \o s
           u == d \o c
<1>2. /\ a \in Seq(Char) /\ Len(a) = pos
      /\ \A i \in 1 .. pos : a[i] = t[i]
  <2>1. 1 \in 1 .. Len(t) + 1 /\ pos \in 1 - 1 .. Len(t)
    BY <1>1
  <2>2. /\ a \in Seq(Char) /\ Len(a) = pos - 1 + 1
        /\ \A i \in 1 .. pos - 1 + 1 : a[i] = t[1 + i - 1]
    BY <2>1, PartOf
  <2> HIDE DEF a
  <2>3. QED
    BY <2>2
<1>3. /\ c \in Seq(Char) /\ Len(c) = Len(t) - pos - count
      /\ \A i \in 1 .. Len(t) - pos - count : c[i] = t[pos + count + i]
  <2>1. PICK m : m = pos + count + 1
    OBVIOUS
  <2>2. m \in 1 .. Len(t) + 1 /\ Len(t) \in m - 1 .. Len(t)
    BY <1>1, <2>1
  <2>3. /\ SubSeq(t, m, Len(t)) \in Seq(Char) /\ Len(SubSeq(t, m, Len(t))) = Len(t) - m + 1
        /\ \A i \in 1 .. Len(t) - m + 1 : SubSeq(t, m, Len(t))[i] = t[m + i - 1]
    BY <2>2, PartOf
  <2>4. c = SubSeq(t, m, Len(t))
    BY <2>1
  <2> HIDE DEF c
  <2>5. c \in Seq(Char) /\ Len(c) = Len(t) - m + 1 /\ \A i \in 1 .. Len(t) - m + 1 : c[i] = t[m + i - 1]
    BY <2>3, <2>4
  <2>6. Len(t) - m + 1 = Len(t) - pos - count /\ \A i \in Int : m + i - 1 = pos + count + i
    BY <1>1, <2>1
  <2>7. QED
    BY <2>5, <2>6
<1> HIDE DEF a, c
<1>4. /\ d \in Seq(Char) /\ Len(d) = pos + Len(s)
      /\ \A i \in 1 .. pos + Len(s) : d[i] = IF i <= pos THEN a[i] ELSE s[i - pos]
  BY <1>2, ConcatProperties
<1> HIDE DEF d
<1>5. /\ u \in Seq(Char) /\ Len(u) = Len(d) + Len(c)
      /\ \A i \in 1 .. Len(d) + Len(c) : u[i] = IF i <= Len(d) THEN d[i] ELSE c[i - Len(d)]
  <2>1. d \in Seq(Char) /\ c \in Seq(Char)
    BY <1>3, <1>4
  <2>2. QED
    BY ONLY <2>1, ConcatProperties
<1> HIDE DEF u
<1>6. Len(u) = Len(t) - count + Len(s)
  BY <1>1, <1>3, <1>4, <1>5
<1>7. ASSUME NEW i \in 1 .. Len(u)
      PROVE  u[i] = IF i <= pos THEN t[i]
                    ELSE IF i <= pos + Len(s) THEN s[i - pos] ELSE t[i - Len(s) + count]
  <2>1. u[i] = IF i <= pos + Len(s) THEN d[i] ELSE c[i - (pos + Len(s))]
    BY <1>4, <1>5
  <2>2. i <= pos + Len(s) => d[i] = IF i <= pos THEN t[i] ELSE s[i - pos]
    BY <1>1, <1>2, <1>4
  <2>3. ASSUME i > pos + Len(s) PROVE c[i - (pos + Len(s))] = t[i - Len(s) + count]
    <3>1. PICK j : j = i - (pos + Len(s))
      OBVIOUS
    <3>2. j \in 1 .. Len(t) - pos - count /\ pos + count + j = i - Len(s) + count
      BY <1>1, <1>6, <2>3, <3>1
    <3>3. QED
      BY <1>3, <3>1, <3>2
  <2>4. i \in Nat /\ (i <= pos => i <= pos + Len(s))
    BY <1>1
  <2>5. QED
    BY <1>1, <2>1, <2>2, <2>3, <2>4
<1>8. u = Spliced(t, pos, count, s)
  BY DEF u, d, a, c, Spliced
<1>9. QED
  BY <1>5, <1>6, <1>7, <1>8 DEF SplicedIs

\* The array after what follows the count characters has been moved and s been
\* put in their place.
SplicedBuf(b, n, pos, count, s) ==
    S!put(S!moved(b, pos + Len(s), pos + count, n - (pos + count)), pos, s)

LEMMA SpliceHolds ==
    ASSUME NEW b, NEW t, NEW pos \in Nat, NEW count \in Nat, NEW s \in Seq(Char), NEW m,
           HoldsText(b, t), pos + count <= Len(t), m = Len(t) - count + Len(s), m <= StringN
    PROVE  HoldsText(S!resized(SplicedBuf(b, Len(t), pos, count, s), m), Spliced(t, pos, count, s))
<1> DEFINE n == Len(t)
           k == n - (pos + count)
           a == S!moved(b, pos + Len(s), pos + count, k)
           d == S!put(a, pos, s)
           u == Spliced(t, pos, count, s)
<1>1. /\ b \in [0 .. StringN -> Nat] /\ t \in Seq(Char) /\ n \in Nat /\ n <= StringN
      /\ \A i \in 0 .. n - 1 : b[i] = t[i + 1]
      /\ StringN \in Nat /\ Len(s) \in Nat
  BY StringNAssumption DEF HoldsText, Starts
<1> HIDE DEF n
<1>2. k \in Nat /\ pos + Len(s) \in Nat /\ pos + count \in Nat /\ (pos + count) + k <= StringN
  BY <1>1 DEF n
<1> HIDE DEF k
<1>3. /\ a \in [0 .. StringN -> Nat]
      /\ \A i \in 0 .. StringN :
            a[i] = IF i >= pos + Len(s) /\ i < (pos + Len(s)) + k
                   THEN b[i - (pos + Len(s)) + (pos + count)] ELSE b[i]
  <2>1. PICK to, from : to = pos + Len(s) /\ from = pos + count
    OBVIOUS
  <2>2. to \in Nat /\ from \in Nat /\ from + k <= StringN
    BY <1>2, <2>1
  <2>3. MovedTo(S!moved(b, to, from, k), b, to, from, k)
    BY <1>1, <1>2, <2>2, MovedIs
  <2>4. QED
    BY <2>1, <2>3 DEF MovedTo
<1> HIDE DEF a
<1>4. /\ d \in [0 .. StringN -> Nat]
      /\ \A i \in 0 .. StringN :
            d[i] = IF i >= pos /\ i < pos + Len(s) THEN s[i - pos + 1] ELSE a[i]
  BY <1>3, PutIs
<1> HIDE DEF d
<1>5. SplicedIs(u, t, pos, count, s)
  BY <1>1, SplicedText DEF n
<1> HIDE DEF u
<1>6. u \in Seq(Char) /\ Len(u) = m /\ m \in Nat
  BY <1>1, <1>5 DEF SplicedIs, n
<1>7. ASSUME NEW i \in 0 .. m - 1 PROVE d[i] = u[i + 1]
  <2>1. i \in 0 .. StringN /\ i + 1 \in 1 .. Len(u) /\ i \in Nat
    BY <1>1, <1>6
  <2>2. u[i + 1] = IF i + 1 <= pos THEN t[i + 1]
                   ELSE IF i + 1 <= pos + Len(s) THEN s[i + 1 - pos]
                        ELSE t[i + 1 - Len(s) + count]
    BY <1>5, <2>1 DEF SplicedIs
  <2>3. CASE i < pos
    <3>1. i \in 0 .. n - 1 /\ ~(i >= pos) /\ ~(i >= pos + Len(s)) /\ i + 1 <= pos
      BY <1>1, <2>1, <2>3 DEF n
    <3>2. d[i] = a[i] /\ a[i] = b[i]
      BY <1>3, <1>4, <2>1, <3>1
    <3>3. b[i] = t[i + 1]
      BY <1>1, <3>1
    <3>4. QED
      BY <2>2, <3>1, <3>2, <3>3
  <2>4. CASE i >= pos /\ i < pos + Len(s)
    <3>1. d[i] = s[i - pos + 1] /\ i - pos + 1 = i + 1 - pos
      BY <1>1, <1>4, <2>1, <2>4
    <3>2. ~(i + 1 <= pos) /\ i + 1 <= pos + Len(s)
      BY <1>1, <2>1, <2>4
    <3>3. QED
      BY <2>2, <3>1, <3>2
  <2>5. CASE i >= pos + Len(s)
    <3>1. PICK j : j = i - (pos + Len(s)) + (pos + count)
      OBVIOUS
    <3>2. m = n - count + Len(s)
      BY DEF n
    <3>3. PICK l : l = Len(s)
      OBVIOUS
    <3>4. /\ k = n - (pos + count) /\ n \in Nat /\ l \in Nat /\ i \in Nat /\ i < m
          /\ m = n - count + l /\ i >= pos + l /\ j = i - (pos + l) + (pos + count)
      BY <1>1, <1>6, <2>1, <2>5, <3>1, <3>2, <3>3 DEF k
    <3>5. /\ j \in 0 .. n - 1 /\ i < (pos + l) + k /\ j + 1 = i + 1 - l + count
          /\ ~(i + 1 <= pos) /\ ~(i + 1 <= pos + l) /\ ~(i < pos + l)
      BY ONLY pos \in Nat, count \in Nat, <3>4
    <3>6. d[i] = a[i]
      BY <1>4, <2>1, <3>3, <3>5
    <3>7. a[i] = b[j]
      BY <1>3, <2>1, <2>5, <3>1, <3>3, <3>5
    <3>8. b[j] = t[j + 1]
      BY <1>1, <3>5
    <3>9. QED
      BY <2>2, <3>3, <3>5, <3>6, <3>7, <3>8
  <2>6. QED
    BY <1>1, <2>1, <2>3, <2>4, <2>5
<1>8. HoldsText(S!resized(d, Len(u)), u)
  <2>1. Starts(d, Len(u), u)
    BY <1>6, <1>7 DEF Starts
  <2>2. QED
    BY <1>4, <1>6, <2>1, ResizedHolds
<1>9. QED
  BY <1>6, <1>8 DEF u, d, a, k, n, SplicedBuf

\* With nothing in its place.
LEMMA CutHolds ==
    ASSUME NEW b, NEW t, NEW pos \in Nat, NEW count \in Nat, NEW m,
           HoldsText(b, t), pos + count <= Len(t), m = Len(t) - count
    PROVE  HoldsText(S!resized(S!moved(b, pos, pos + count, Len(t) - (pos + count)), m),
                     SubSeq(t, 1, pos) \o SubSeq(t, pos + count + 1, Len(t)))
<1>1. b \in [0 .. StringN -> Nat] /\ t \in Seq(Char) /\ Len(t) \in Nat /\ Len(t) <= StringN
  BY DEF HoldsText
<1>2. <<>> \in Seq(Char) /\ Len(<<>>) = 0
  BY EmptySeq
<1>3. m = Len(t) - count + Len(<<>>) /\ m <= StringN
  BY <1>1, <1>2, StringNAssumption
<1>4. HoldsText(S!resized(SplicedBuf(b, Len(t), pos, count, <<>>), m), Spliced(t, pos, count, <<>>))
  BY <1>2, <1>3, SpliceHolds
<1>5. SplicedBuf(b, Len(t), pos, count, <<>>) = S!moved(b, pos, pos + count, Len(t) - (pos + count))
  <2> DEFINE a == S!moved(b, pos, pos + count, Len(t) - (pos + count))
  <2>1. S!put(a, pos, <<>>) = [i \in 0 .. StringN |-> a[i]]
    BY <1>2 DEF S!put
  <2>2. a = [i \in 0 .. StringN |-> a[i]]
    BY DEF S!moved
  <2>3. pos + 0 = pos
    OBVIOUS
  <2>4. QED
    BY <1>2, <2>1, <2>2, <2>3 DEF SplicedBuf
<1>6. Spliced(t, pos, count, <<>>) = SubSeq(t, 1, pos) \o SubSeq(t, pos + count + 1, Len(t))
  <2>1. 1 \in 1 .. Len(t) + 1 /\ pos \in 1 - 1 .. Len(t)
    BY <1>1
  <2>2. SubSeq(t, 1, pos) \in Seq(Char)
    BY <1>1, <2>1, PartOf
  <2>3. QED
    BY <2>2, ConcatEmptySeq DEF Spliced
<1>7. QED
  BY <1>4, <1>5, <1>6

LEMMA AppendHolds ==
    ASSUME NEW b, NEW t, NEW s \in Seq(Char), HoldsText(b, t), Len(t) + Len(s) <= StringN
    PROVE  HoldsText(S!resized(S!put(b, Len(t), s), Len(t) + Len(s)), t \o s)
<1>1. /\ b \in [0 .. StringN -> Nat] /\ t \in Seq(Char) /\ Len(t) \in Nat
      /\ \A i \in 0 .. Len(t) - 1 : b[i] = t[i + 1]
      /\ Len(s) \in Nat /\ StringN \in Nat
  BY StringNAssumption DEF HoldsText, Starts
<1> DEFINE u == t \o s
           d == S!put(b, Len(t), s)
<1>2. /\ u \in Seq(Char) /\ Len(u) = Len(t) + Len(s)
      /\ \A i \in 1 .. Len(t) + Len(s) : u[i] = IF i <= Len(t) THEN t[i] ELSE s[i - Len(t)]
  BY <1>1, ConcatProperties
<1>3. /\ d \in [0 .. StringN -> Nat]
      /\ \A i \in 0 .. StringN :
            d[i] = IF i >= Len(t) /\ i < Len(t) + Len(s) THEN s[i - Len(t) + 1] ELSE b[i]
  BY <1>1, PutIs
<1> HIDE DEF u, d
<1>4. ASSUME NEW i \in 0 .. Len(u) - 1 PROVE d[i] = u[i + 1]
  <2>1. /\ i \in 0 .. StringN /\ i + 1 \in 1 .. Len(t) + Len(s)
        /\ i < Len(t) + Len(s) /\ i - Len(t) + 1 = i + 1 - Len(t)
        /\ (i >= Len(t) <=> ~(i + 1 <= Len(t)))
    BY <1>1, <1>2
  <2>2. i + 1 <= Len(t) => b[i] = t[i + 1]
    BY <1>1, <2>1
  <2>3. d[i] = IF i >= Len(t) THEN s[i - Len(t) + 1] ELSE b[i]
    BY <1>3, <2>1
  <2>4. u[i + 1] = IF i + 1 <= Len(t) THEN t[i + 1] ELSE s[i + 1 - Len(t)]
    BY <1>2, <2>1
  <2>5. QED
    BY <2>1, <2>2, <2>3, <2>4
<1>5. Starts(d, Len(u), u)
  BY <1>4 DEF Starts
<1>6. HoldsText(S!resized(d, Len(u)), u)
  BY <1>2, <1>3, <1>5, ResizedHolds
<1>7. QED
  BY <1>2, <1>6 DEF u, d

-----------------------------------------------------------------------------
(* The searches of mono::string.                                           *)

\* What the array says is the string.
LEMMA TextIs ==
    ASSUME StringInv
    PROVE  /\ s_text \in Seq(Char) /\ Len(s_text) \in 0 .. StringN
           /\ S!size = Len(s_text)
           /\ \A i \in 0 .. Len(s_text) - 1 : s_buf[i] = s_text[i + 1]
           /\ S!CharsAt(0, Len(s_text)) = s_text
           /\ S!CString = s_text
<1> DEFINE n == Len(s_text)
<1>1. /\ s_buf \in [0 .. StringN -> Nat]
      /\ s_text \in Seq(Char) /\ n \in Nat /\ n <= StringN
      /\ \A i \in 0 .. n - 1 : s_buf[i] = s_text[i + 1]
      /\ s_buf[n] = 0 /\ s_buf[StringN] = StringN - n
      /\ StringN \in Nat
  BY StringNAssumption DEF StringInv, HoldsText, Starts
<1>2. S!size = n
  BY <1>1 DEF S!size
<1>3. S!CharsAt(0, n) = s_text
  <2>1. S!CharsAt(0, n) = [i \in 1 .. n |-> s_buf[0 + i - 1]]
    BY DEF S!CharsAt
  <2>2. \A i \in 1 .. n : s_buf[0 + i - 1] = s_text[i]
    <3> SUFFICES ASSUME NEW i \in 1 .. n PROVE s_buf[0 + i - 1] = s_text[i]
      OBVIOUS
    <3>1. PICK j : j = 0 + i - 1
      OBVIOUS
    <3>2. j \in 0 .. n - 1 /\ j + 1 = i
      BY <1>1, <3>1
    <3>3. QED
      BY <1>1, <3>1, <3>2
  <2>3. s_text = [i \in 1 .. n |-> s_text[i]]
    BY <1>1
  <2>4. QED
    BY <2>1, <2>2, <2>3
<1>4. S!CString = s_text
  <2> DEFINE nuls == {i \in 0 .. StringN : s_buf[i] = 0}
  <2>1. n \in nuls
    BY <1>1
  <2>2. ASSUME NEW i \in nuls PROVE n <= i
    <3>1. SUFFICES ASSUME i < n PROVE FALSE
      BY <1>1
    <3>2. i \in 0 .. n - 1 /\ i + 1 \in 1 .. n /\ s_buf[i] = 0
      BY <1>1, <3>1
    <3>3. s_text[i + 1] \in Nat \ {0}
      BY <1>1, <3>2, ElementOfSeq, CharAssumption
    <3>4. QED
      BY <1>1, <3>2, <3>3
  <2>3. \A x \in nuls : (\A y \in nuls : x <= y) => x = n
    BY <1>1, <2>1, <2>2
  <2>4. S!Min(nuls) = n
    BY <2>1, <2>2, <2>3 DEF S!Min
  <2>5. S!CString = S!CharsAt(0, IF nuls = {} THEN StringN + 1 ELSE S!Min(nuls))
    BY DEF S!CString
  <2> HIDE DEF nuls
  <2>6. QED
    BY <1>3, <2>1, <2>4, <2>5
<1>5. QED
  BY <1>1, <1>2, <1>3, <1>4

LEMMA StringSound == StringInv => StringIsText
<1> SUFFICES ASSUME StringInv PROVE StringIsText
  OBVIOUS
<1>1. S!size \in 0 .. StringN /\ S!CharsAt(0, S!size) = s_text /\ S!CString = s_text
  BY TextIs
<1>2. QED
  BY <1>1 DEF StringInv, StringIsText, S!StringIsText

LEMMA StringMin ==
    ASSUME NEW k \in Int, NEW n \in Int
    PROVE  S!Min({k, n}) = IF n < k THEN n ELSE k
<1> DEFINE m == IF n < k THEN n ELSE k
<1>1. m \in {k, n} /\ \A y \in {k, n} : m <= y
  OBVIOUS
<1>2. \A x \in {k, n} : (\A y \in {k, n} : x <= y) => x = m
  OBVIOUS
<1>3. QED
  BY <1>1, <1>2 DEF S!Min

\* The last of a set of places.
LEMMA LastIs ==
    ASSUME NEW n \in Int, NEW P \in SUBSET (0 .. n)
    PROVE  /\ P = {} => S!LastOf(P) = -1
           /\ P # {} => /\ S!LastOf(P) \in P
                        /\ \A x \in P : x <= S!LastOf(P)
<1>1. P = {} => S!LastOf(P) = -1
  BY DEF S!LastOf, S!npos
<1>2. ASSUME P # {} PROVE S!LastOf(P) \in P /\ \A x \in P : x <= S!LastOf(P)
  <2> DEFINE Q == {k \in Nat : n - k \in P}
  <2>1. PICK p \in P : TRUE
    BY <1>2
  <2>2. n - p \in Q
    <3>1. p \in Nat /\ n - p \in Nat /\ n - (n - p) = p
      BY <2>1
    <3>2. QED
      BY <3>1
  <2>3. Q \in SUBSET Nat /\ Q # {}
    BY <2>2
  <2>4. PICK k \in Q : \A l \in Q : k <= l
    <3> HIDE DEF Q
    <3>1. QED
      BY <2>3, LeastExists
  <2>5. n - k \in P /\ k \in Nat
    BY <2>4
  <2>6. ASSUME NEW x \in P PROVE n - k >= x
    <3>1. n - x \in Nat /\ n - (n - x) = x
      OBVIOUS
    <3>2. n - x \in Q
      BY <3>1
    <3>3. k <= n - x
      BY <2>4, <3>2
    <3>4. QED
      BY <2>5, <3>1, <3>3
  <2>7. \E m \in P : \A x \in P : m >= x
    BY <2>5, <2>6
  <2>8. S!Max(P) \in P /\ \A x \in P : S!Max(P) >= x
    BY <2>7 DEF S!Max
  <2>9. S!LastOf(P) = S!Max(P)
    BY <1>2 DEF S!LastOf
  <2>10. \A x \in P : x \in Int
    OBVIOUS
  <2>11. QED
    BY <2>8, <2>9, <2>10
<1>3. QED
  BY <1>1, <1>2

LEMMA MatchesIs ==
    ASSUME NEW t \in Seq(Char), NEW i \in Nat, NEW s \in Seq(Char)
    PROVE  S!Matches(t, i, s) <=>
              /\ i + Len(s) <= Len(t)
              /\ \A j \in 1 .. Len(s) : t[i + j] = s[j]
<1>1. SUFFICES ASSUME i + Len(s) <= Len(t)
               PROVE  SubSeq(t, i + 1, i + Len(s)) = s
                         <=> \A j \in 1 .. Len(s) : t[i + j] = s[j]
  BY DEF S!Matches
<1> DEFINE u == SubSeq(t, i + 1, i + Len(s))
<1>2. Len(s) \in Nat /\ Len(t) \in Nat
  OBVIOUS
<1>3. u \in Seq(Char) /\ Len(u) = Len(s) /\ \A j \in 1 .. Len(s) : u[j] = t[i + j]
  <2>1. PICK m, n : m = i + 1 /\ n = i + Len(s)
    OBVIOUS
  <2>2. m \in 1 .. Len(t) + 1 /\ n \in m - 1 .. Len(t) /\ n - m + 1 = Len(s)
    BY <1>1, <1>2, <2>1
  <2>3. /\ SubSeq(t, m, n) \in Seq(Char)
        /\ Len(SubSeq(t, m, n)) = n - m + 1
        /\ \A j \in 1 .. n - m + 1 : SubSeq(t, m, n)[j] = t[m + j - 1]
    BY <2>2, PartOf
  <2>4. \A j \in Int : m + j - 1 = i + j
    BY <2>1
  <2>5. u = SubSeq(t, m, n)
    BY <2>1
  <2> HIDE DEF u
  <2>6. QED
    BY <2>2, <2>3, <2>4, <2>5
<1> HIDE DEF u
<1>4. ASSUME \A j \in 1 .. Len(s) : t[i + j] = s[j] PROVE u = s
  <2>1. \A j \in 1 .. Len(u) : u[j] = s[j]
    BY <1>3, <1>4
  <2>2. QED
    BY <1>3, <2>1, SeqEqual
<1>5. QED
  BY <1>3, <1>4 DEF u

\* algo::memrmem(): the places where s begins, and where its first character is.
Places(h, s, end) == {i \in 0 .. end - 1 : S!Matches(h, i, s)}
FirstPlaces(h, s, end) == {i \in 0 .. end - 1 : h[i + 1] = s[1]}

\* No place directly before one that is not a match is a match.
Searchable(s) == s \in Seq(Char) /\ s # <<>> /\ (Len(s) > 1 => s[1] # s[2])

LEMMA SearchStep ==
    ASSUME NEW h \in Seq(Char), NEW s, NEW end \in -1 .. Len(h), NEW place,
           Searchable(s), place = S!LastOf(FirstPlaces(h, s, end))
    PROVE  /\ place = -1 \/ place \in 0 .. end - 1
           /\ S!LastOf(Places(h, s, end)) =
                IF place = -1 THEN -1
                ELSE IF S!Matches(h, place, s) THEN place
                ELSE S!LastOf(Places(h, s, place - 1))
<1> DEFINE P == Places(h, s, end)
           Q == FirstPlaces(h, s, end)
<1>1. s \in Seq(Char) /\ Len(s) \in Nat \ {0} /\ Len(h) \in Nat /\ end \in Int
  BY EmptySeq DEF Searchable
<1>2. Len(s) = 1 \/ Len(s) > 1
  <2>1. \A n \in Nat \ {0} : n = 1 \/ n > 1
    OBVIOUS
  <2>2. QED
    BY <1>1, <2>1
<1>3. P \in SUBSET (0 .. end - 1) /\ Q \in SUBSET (0 .. end - 1) /\ end - 1 \in Int
  BY <1>1 DEF Places, FirstPlaces
<1>4. \A i \in P : i \in Q
  <2> SUFFICES ASSUME NEW i \in P PROVE i \in Q
    OBVIOUS
  <2>1. i \in 0 .. end - 1 /\ i \in Nat /\ S!Matches(h, i, s)
    BY DEF Places
  <2>2. h[i + 1] = s[1]
    BY <1>1, <2>1, MatchesIs
  <2>3. QED
    BY <2>1, <2>2 DEF FirstPlaces
<1>5. /\ P = {} => S!LastOf(P) = -1
      /\ P # {} => S!LastOf(P) \in P /\ \A x \in P : x <= S!LastOf(P)
      /\ Q = {} => place = -1
      /\ Q # {} => place \in Q /\ \A x \in Q : x <= place
  <2> HIDE DEF P
  <2>1. /\ Q = {} => S!LastOf(Q) = -1
        /\ Q # {} => S!LastOf(Q) \in Q /\ \A x \in Q : x <= S!LastOf(Q)
    <3> HIDE DEF Q
    <3>1. QED
      BY <1>3, LastIs
  <2>2. QED
    BY <1>3, <2>1, LastIs
<1>6. CASE Q = {}
  BY <1>4, <1>5, <1>6
<1>7. CASE Q # {}
  <2>1. place \in 0 .. end - 1 /\ h[place + 1] = s[1] /\ place \in Nat
    BY <1>5, <1>7 DEF FirstPlaces
  <2>2. CASE S!Matches(h, place, s)
    <3>1. place \in P
      BY <2>1, <2>2 DEF Places
    <3>2. S!LastOf(P) \in P /\ place <= S!LastOf(P)
      BY <1>5, <3>1
    <3>3. S!LastOf(P) <= place
      BY <1>4, <1>5, <1>7, <3>2
    <3>4. S!LastOf(P) \in Int
      BY <1>3, <3>2
    <3>5. S!LastOf(P) = place
      BY <2>1, <3>2, <3>3, <3>4
    <3>6. QED
      BY <2>1, <2>2, <3>5
  <2>3. CASE ~S!Matches(h, place, s)
    <3>1. ASSUME NEW x \in P PROVE x \in Places(h, s, place - 1)
      <4>1. x \in 0 .. end - 1 /\ x \in Nat /\ S!Matches(h, x, s) /\ x <= place /\ x # place
        BY <1>4, <1>5, <1>7, <2>3 DEF Places
      <4>2. x # place - 1
        <5>1. SUFFICES ASSUME x = place - 1 PROVE FALSE
          OBVIOUS
        <5>2. CASE Len(s) = 1
          <6>1. place + Len(s) <= Len(h)
            BY <1>1, <2>1, <5>2
          <6>2. \A j \in 1 .. Len(s) : h[place + j] = s[j]
            BY <2>1, <5>2
          <6>3. QED
            BY <1>1, <2>1, <2>3, <6>1, <6>2, MatchesIs
        <5>3. CASE Len(s) > 1
          <6>1. h[x + 2] = s[2]
            BY <1>1, <4>1, <5>3, MatchesIs
          <6>2. x + 2 = place + 1
            BY <2>1, <5>1
          <6>3. QED
            BY <2>1, <5>3, <6>1, <6>2 DEF Searchable
        <5>4. QED
          BY <1>2, <5>2, <5>3
      <4>3. x \in 0 .. (place - 1) - 1
        BY <2>1, <4>1, <4>2
      <4>4. QED
        BY <4>1, <4>3 DEF Places
    <3>2. ASSUME NEW x \in Places(h, s, place - 1) PROVE x \in P
      <4>1. x \in 0 .. (place - 1) - 1 /\ S!Matches(h, x, s)
        BY DEF Places
      <4>2. x \in 0 .. end - 1
        BY <1>1, <2>1, <4>1
      <4>3. QED
        BY <4>1, <4>2 DEF Places
    <3>3. P = Places(h, s, place - 1)
      BY <3>1, <3>2
    <3>4. QED
      BY <2>1, <2>3, <3>3
  <2>4. QED
    BY <2>2, <2>3
<1>8. QED
  BY <1>6, <1>7

IsSearch(h, s, f) ==
    f = [end \in -1 .. Len(h) |->
            LET place == S!LastOf({i \in 0 .. end - 1 : h[i + 1] = s[1]})
            IN  IF place = S!npos THEN S!npos
                ELSE IF S!Matches(h, place, s) THEN place
                ELSE f[place - 1]]

LEMMA SearchSteps ==
    ASSUME NEW h, NEW s, NEW f, IsSearch(h, s, f), NEW end \in -1 .. Len(h), NEW place,
           place = S!LastOf(FirstPlaces(h, s, end))
    PROVE  f[end] = IF place = -1 THEN -1
                    ELSE IF S!Matches(h, place, s) THEN place ELSE f[place - 1]
BY DEF IsSearch, FirstPlaces, S!npos

LEMMA SearchExists ==
    ASSUME NEW h \in Seq(Char), NEW s, Searchable(s)
    PROVE  \E f : IsSearch(h, s, f)
<1> DEFINE f == [end \in -1 .. Len(h) |-> S!LastOf(Places(h, s, end))]
<1>1. ASSUME NEW end \in -1 .. Len(h)
      PROVE  f[end] = LET place == S!LastOf({i \in 0 .. end - 1 : h[i + 1] = s[1]})
                      IN  IF place = S!npos THEN S!npos
                          ELSE IF S!Matches(h, place, s) THEN place
                          ELSE f[place - 1]
  <2>1. PICK place : place = S!LastOf(FirstPlaces(h, s, end))
    OBVIOUS
  <2>2. /\ place = -1 \/ place \in 0 .. end - 1
        /\ S!LastOf(Places(h, s, end)) =
                IF place = -1 THEN -1
                ELSE IF S!Matches(h, place, s) THEN place
                ELSE S!LastOf(Places(h, s, place - 1))
    BY <2>1, SearchStep
  <2>3. place # -1 => place - 1 \in -1 .. Len(h)
    <3>1. Len(h) \in Nat /\ end \in Int
      OBVIOUS
    <3>2. QED
      BY <2>2, <3>1
  <2>4. f[end] = S!LastOf(Places(h, s, end))
    OBVIOUS
  <2>5. place # -1 => f[place - 1] = S!LastOf(Places(h, s, place - 1))
    BY <2>3
  <2> HIDE DEF f
  <2>6. f[end] = IF place = -1 THEN -1
                 ELSE IF S!Matches(h, place, s) THEN place ELSE f[place - 1]
    BY <2>2, <2>4, <2>5
  <2>7. QED
    BY <2>1, <2>6 DEF FirstPlaces, S!npos
<1>2. f = [end \in -1 .. Len(h) |-> f[end]]
  OBVIOUS
<1> HIDE DEF f
<1>3. IsSearch(h, s, f)
  BY <1>1, <1>2 DEF IsSearch
<1>4. QED
  BY <1>3

LEMMA MemrmemIs ==
    ASSUME NEW h \in Seq(Char), NEW s, Searchable(s)
    PROVE  S!memrmem(h, s) = IF Len(s) > Len(h) THEN -1
                             ELSE S!LastOf(Places(h, s, Len(h) - Len(s) + 1))
<1>1. Len(h) \in Nat /\ Len(s) \in Nat
  BY DEF Searchable
<1> DEFINE f == CHOOSE f : IsSearch(h, s, f)
<1>2. IsSearch(h, s, f)
  BY SearchExists
<1>3. S!memrmem(h, s) = IF Len(s) > Len(h) THEN -1 ELSE f[Len(h) - Len(s) + 1]
  BY DEF S!memrmem, IsSearch, S!npos
<1> HIDE DEF f
<1> DEFINE bad == {k \in Nat : k - 1 \in -1 .. Len(h) /\ f[k - 1] # S!LastOf(Places(h, s, k - 1))}
<1>4. bad = {}
  <2>1. SUFFICES ASSUME bad # {} PROVE FALSE
    OBVIOUS
  <2>2. PICK k \in bad : \A l \in bad : k <= l
    <3>1. bad \in SUBSET Nat
      OBVIOUS
    <3> HIDE DEF bad
    <3>2. QED
      BY <2>1, <3>1, LeastExists
  <2>3. PICK end : end = k - 1
    OBVIOUS
  <2>4. /\ k \in Nat /\ end \in -1 .. Len(h) /\ end \in Int /\ k = end + 1
        /\ f[end] # S!LastOf(Places(h, s, end))
    BY <2>2, <2>3
  <2>5. PICK place : place = S!LastOf(FirstPlaces(h, s, end))
    OBVIOUS
  <2>6. /\ place = -1 \/ place \in 0 .. end - 1
        /\ S!LastOf(Places(h, s, end)) =
                IF place = -1 THEN -1
                ELSE IF S!Matches(h, place, s) THEN place
                ELSE S!LastOf(Places(h, s, place - 1))
    BY <2>4, <2>5, SearchStep
  <2>7. f[end] = IF place = -1 THEN -1
                 ELSE IF S!Matches(h, place, s) THEN place ELSE f[place - 1]
    BY <1>2, <2>4, <2>5, SearchSteps
  <2>8. place # -1 => f[place - 1] = S!LastOf(Places(h, s, place - 1))
    <3> SUFFICES ASSUME place # -1 PROVE f[place - 1] = S!LastOf(Places(h, s, place - 1))
      OBVIOUS
    <3>1. place \in Nat /\ place < k /\ place - 1 \in -1 .. Len(h)
      BY <1>1, <2>4, <2>6
    <3>2. place \notin bad
      BY <2>2, <2>4, <3>1
    <3>3. QED
      BY <3>1, <3>2
  <2>9. QED
    BY <2>4, <2>6, <2>7, <2>8
<1>5. \A end \in -1 .. Len(h) : f[end] = S!LastOf(Places(h, s, end))
  <2> SUFFICES ASSUME NEW end \in -1 .. Len(h) PROVE f[end] = S!LastOf(Places(h, s, end))
    OBVIOUS
  <2>1. PICK k : k = end + 1
    OBVIOUS
  <2>2. k \in Nat /\ k - 1 = end
    BY <1>1, <2>1
  <2>3. k \notin bad
    BY <1>4
  <2>4. QED
    BY <2>2, <2>3
<1>6. ~(Len(s) > Len(h)) => Len(h) - Len(s) + 1 \in -1 .. Len(h)
  <2>1. Len(s) # 0
    BY EmptySeq DEF Searchable
  <2>2. QED
    BY <1>1, <2>1
<1>7. QED
  BY <1>3, <1>5, <1>6

\* The characters of the array that rfind() searches.
LEMMA SearchedIs ==
    ASSUME StringInv, NEW end \in 0 .. Len(s_text)
    PROVE  /\ S!CharsAt(0, end) \in Seq(Char) /\ Len(S!CharsAt(0, end)) = end
           /\ \A i \in 1 .. end : S!CharsAt(0, end)[i] = s_text[i]
<1>1. /\ s_text \in Seq(Char) /\ Len(s_text) \in Nat
      /\ \A i \in 0 .. Len(s_text) - 1 : s_buf[i] = s_text[i + 1]
  BY TextIs
<1>2. ASSUME NEW i \in 1 .. end PROVE s_buf[0 + i - 1] = s_text[i] /\ s_text[i] \in Char
  <2>1. PICK j : j = 0 + i - 1
    OBVIOUS
  <2>2. j \in 0 .. Len(s_text) - 1 /\ j + 1 = i /\ i \in 1 .. Len(s_text)
    BY <1>1, <2>1
  <2>3. s_text[i] \in Char
    BY <1>1, <2>2, ElementOfSeq
  <2>4. QED
    BY <1>1, <2>1, <2>2, <2>3
<1>3. S!CharsAt(0, end) = [i \in 1 .. end |-> s_text[i]]
  BY <1>2 DEF S!CharsAt
<1>4. QED
  BY <1>1, <1>2, <1>3

LEMMA RfindFinds ==
    ASSUME StringInv, NEW s, NEW pos \in Nat, NEW end,
           Searchable(s),
           end = S!Min({IF pos < S!size THEN pos + Len(s) ELSE pos, S!size})
    PROVE  S!memrmem(S!CharsAt(0, end), s) = S!LastOf({i \in 0 .. pos : S!Matches(s_text, i, s)})
<1> DEFINE n == Len(s_text)
           h == S!CharsAt(0, end)
           P == {i \in 0 .. pos : S!Matches(s_text, i, s)}
<1>1. s_text \in Seq(Char) /\ n \in Nat /\ S!size = n /\ n = Len(s_text)
  BY TextIs
<1>2. s \in Seq(Char) /\ Len(s) \in Nat \ {0}
  BY EmptySeq DEF Searchable
<1>3. PICK l \in Nat \ {0} : l = Len(s)
  BY <1>2
<1>4. PICK last : last = end - l + 1
  OBVIOUS
<1> DEFINE Q == Places(h, s, last)
<1> HIDE DEF n
<1>5. end = IF pos < n THEN (IF n < pos + l THEN n ELSE pos + l) ELSE n
  <2>1. PICK k \in Int : k = IF pos < n THEN pos + l ELSE pos
    BY <1>1, <1>2, <1>3
  <2>2. end = IF n < k THEN n ELSE k
    BY <1>1, <1>3, <2>1, StringMin
  <2>3. QED
    BY ONLY <1>1, <1>3, pos \in Nat, <2>1, <2>2
<1>6. end \in 0 .. n /\ end \in Nat
  BY ONLY <1>1, <1>3, pos \in Nat, <1>5
<1>7. h \in Seq(Char) /\ Len(h) = end /\ \A i \in 1 .. end : h[i] = s_text[i]
  BY <1>1, <1>6, SearchedIs
<1> HIDE DEF h
<1>8. S!memrmem(h, s) = IF l > end THEN -1 ELSE S!LastOf(Q)
  BY <1>7, <1>3, <1>4, MemrmemIs
<1>9. ASSUME NEW i \in Nat, i + l <= end
      PROVE  S!Matches(h, i, s) <=> S!Matches(s_text, i, s)
  <2>1. \A j \in 1 .. l : i + j \in 1 .. end
    BY <1>6, <1>9, <1>3
  <2>2. \A j \in 1 .. l : h[i + j] = s_text[i + j]
    BY <1>7, <2>1
  <2>3. i + l <= n
    BY <1>1, <1>6, <1>9, <1>3
  <2>4. S!Matches(h, i, s) <=> \A j \in 1 .. l : h[i + j] = s[j]
    BY <1>2, <1>7, <1>9, <1>3, MatchesIs
  <2>5. S!Matches(s_text, i, s) <=> \A j \in 1 .. l : s_text[i + j] = s[j]
    BY <1>1, <1>2, <1>3, <2>3, MatchesIs
  <2>6. QED
    BY <2>2, <2>4, <2>5
<1>10. ASSUME NEW i \in P PROVE i \in Nat /\ i + l <= end /\ S!Matches(s_text, i, s)
  <2>1. i \in Nat /\ i <= pos /\ S!Matches(s_text, i, s)
    OBVIOUS
  <2>2. i + l <= n
    BY <1>3, <2>1 DEF S!Matches, n
  <2>3. i + l <= end
    BY ONLY <1>1, <1>5, <1>3, pos \in Nat, <2>1, <2>2
  <2>4. QED
    BY <2>1, <2>3
<1>11. CASE l > end
  <2>1. P = {}
    <3> SUFFICES ASSUME NEW i \in P PROVE FALSE
      OBVIOUS
    <3>1. i \in Nat /\ i + l <= end
      BY <1>10
    <3>2. QED
      BY <1>6, <1>11, <1>3, <3>1
  <2>2. S!LastOf(P) = -1
    BY <2>1 DEF S!LastOf, S!npos
  <2>3. QED
    BY <1>8, <1>11, <2>2 DEF h
<1>12. CASE ~(l > end)
  <2>1. ASSUME NEW i \in P PROVE i \in Q
    <3>1. i \in Nat /\ i + l <= end /\ S!Matches(h, i, s)
      BY <1>9, <1>10
    <3>2. i \in 0 .. last - 1
      BY <1>6, <1>3, <1>4, <3>1
    <3>3. QED
      BY <3>1, <3>2 DEF Places
  <2>2. ASSUME NEW i \in Q PROVE i \in P
    <3>1. i \in 0 .. last - 1 /\ S!Matches(h, i, s)
      BY DEF Places
    <3>2. i \in Nat /\ i + l <= end
      BY <1>6, <1>3, <1>4, <3>1
    <3>3. S!Matches(s_text, i, s)
      BY <1>9, <3>1, <3>2
    <3>4. i <= pos
      BY ONLY <1>1, <1>5, <1>3, pos \in Nat, <3>2
    <3>5. QED
      BY <3>2, <3>3, <3>4
  <2>3. P = Q
    BY <2>1, <2>2
  <2>4. QED
    BY <1>8, <1>12, <2>3 DEF h
<1>13. QED
  BY <1>11, <1>12

LEMMA ArgIsText ==
    ASSUME NEW n \in Nat, NEW s \in S!SeqOf(Char, n)
    PROVE  s \in Seq(Char) /\ Len(s) <= n
<1>1. PICK m \in 0 .. n : s \in [1 .. m -> Char]
  BY DEF S!SeqOf
<1>2. QED
  BY <1>1

LEMMA StringStarts == ContainersInit => StringInv
<1> SUFFICES ASSUME ContainersInit PROVE StringInv
  OBVIOUS
<1>1. StringN \in Nat \ {0}
  BY StringNAssumption
<1>2. /\ s_buf = S!Cleared(S!Zeros) /\ s_text = <<>>
      /\ s_answer = S!npos /\ s_due = S!npos
  BY DEF ContainersInit, S!Init
<1>3. S!Zeros \in [0 .. StringN -> Nat]
  BY DEF S!Zeros
<1>4. HoldsText(s_buf, s_text)
  <2>1. \A b \in [0 .. StringN -> Nat] :
            HoldsText([b EXCEPT ![0] = 0, ![StringN] = StringN], <<>>)
    BY <1>1 DEF HoldsText, Starts
  <2>2. QED
    BY <1>2, <1>3, <2>1 DEF S!Cleared
<1>5. QED
  BY <1>2, <1>4 DEF StringInv

LEMMA StringAssigns ==
    ASSUME StringInv, NEW s \in Seq(Char), Len(s) <= StringN
    PROVE  /\ S!assign(s) => StringInv'
           /\ Len(s) = S!size /\ S!copy(s) => StringInv'
<1> DEFINE n == Len(s)
           Filled(b) == S!resized(S!put(b, 0, s), n)
<1>1. StringN \in Nat /\ n \in Nat /\ 0 \in Nat
  BY StringNAssumption
<1>2. ASSUME NEW b \in [0 .. StringN -> Nat] PROVE HoldsText(Filled(b), s)
  <2> DEFINE d == S!put(b, 0, s)
  <2>1. /\ d \in [0 .. StringN -> Nat]
        /\ \A i \in 0 .. StringN : d[i] = IF i >= 0 /\ i < 0 + n THEN s[i - 0 + 1] ELSE b[i]
    BY <1>1, PutIs
  <2> HIDE DEF d
  <2>2. Starts(d, n, s)
    BY <1>1, <2>1 DEF Starts
  <2>3. QED
    BY <2>1, <2>2, ResizedHolds DEF d
<1>3. s_buf \in [0 .. StringN -> Nat] /\ S!Zeros \in [0 .. StringN -> Nat]
  BY DEF StringInv, HoldsText, S!Zeros
<1>4. ASSUME S!assign(s) PROVE StringInv'
  <2>1. S!Becomes(Filled(s_buf), s)
    BY <1>4 DEF S!assign
  <2>2. QED
    BY <1>2, <1>3, <2>1, BecomesHolds
<1>5. ASSUME Len(s) = S!size, S!copy(s) PROVE StringInv'
  <2> DEFINE d == Filled(S!Zeros)
  <2>1. /\ s_buf' = [d EXCEPT ![StringN] = s_buf[StringN]]
        /\ s_text' = s /\ s_due' = S!Copied
    BY <1>5 DEF S!copy
  <2>2. HoldsText(d, s)
    BY <1>2, <1>3
  <2> HIDE DEF d
  <2>3. s_buf[StringN] = StringN - n
    <3>1. n = StringN - s_buf[StringN] /\ s_buf[StringN] \in Nat
      BY <1>1, <1>3, <1>5 DEF S!size
    <3>2. QED
      BY <1>1, <3>1
  <2>4. d[StringN] = s_buf[StringN] /\ d \in [0 .. StringN -> Nat]
    BY <2>2, <2>3 DEF HoldsText
  <2>5. [d EXCEPT ![StringN] = s_buf[StringN]] = d
    BY <2>4
  <2>6. QED
    BY <2>1, <2>2, <2>5 DEF StringInv, HoldsText, Starts
<1>6. QED
  BY <1>4, <1>5

LEMMA StringShrinks ==
    ASSUME StringInv, NEW n \in Nat, n <= S!size, S!resize(n)
    PROVE  StringInv'
<1>1. /\ s_text \in Seq(Char) /\ Len(s_text) \in Nat /\ n <= Len(s_text)
      /\ \A i \in 0 .. Len(s_text) - 1 : s_buf[i] = s_text[i + 1]
      /\ s_buf \in [0 .. StringN -> Nat] /\ Len(s_text) <= StringN /\ StringN \in Nat
  BY TextIs, StringNAssumption DEF StringInv, HoldsText
<1> DEFINE u == SubSeq(s_text, 1, n)
<1>2. u \in Seq(Char) /\ Len(u) = n /\ \A i \in 1 .. n : u[i] = s_text[i]
  <2>1. 1 \in 1 .. Len(s_text) + 1 /\ n \in 1 - 1 .. Len(s_text)
    BY <1>1
  <2>2. /\ u \in Seq(Char) /\ Len(u) = n - 1 + 1
        /\ \A i \in 1 .. n - 1 + 1 : u[i] = s_text[1 + i - 1]
    BY <1>1, <2>1, PartOf
  <2> HIDE DEF u
  <2>3. QED
    BY <2>2
<1> HIDE DEF u
<1>3. Starts(s_buf, n, u)
  <2> SUFFICES ASSUME NEW i \in 0 .. n - 1 PROVE s_buf[i] = u[i + 1]
    BY DEF Starts
  <2>1. i \in 0 .. Len(s_text) - 1 /\ i + 1 \in 1 .. n
    BY <1>1
  <2>2. QED
    BY <1>1, <1>2, <2>1
<1>4. HoldsText(S!resized(s_buf, n), u)
  <2>1. Len(u) <= StringN /\ Starts(s_buf, Len(u), u)
    BY <1>1, <1>2, <1>3
  <2>2. HoldsText(S!resized(s_buf, Len(u)), u)
    BY <1>1, <1>2, <2>1, ResizedHolds
  <2>3. QED
    BY <1>2, <2>2
<1>5. S!Becomes(S!resized(s_buf, n), u)
  BY DEF S!resize, u
<1>6. QED
  BY <1>4, <1>5, BecomesHolds

LEMMA StringWrites ==
    ASSUME StringInv, NEW i \in Nat, NEW c \in Char, S!write(i, c)
    PROVE  StringInv'
<1> DEFINE n == Len(s_text)
           b == [s_buf EXCEPT ![i] = c]
           t == [s_text EXCEPT ![i + 1] = c]
<1>1. /\ s_buf \in [0 .. StringN -> Nat] /\ s_text \in Seq(Char)
      /\ n \in Nat /\ n <= StringN /\ StringN \in Nat
      /\ \A j \in 0 .. n - 1 : s_buf[j] = s_text[j + 1]
      /\ s_buf[n] = 0 /\ s_buf[StringN] = StringN - n
      /\ i < n /\ c \in Nat
  <2>1. S!size = n /\ i < S!size
    BY TextIs DEF S!write
  <2>2. c \in Nat /\ StringN \in Nat
    BY StringNAssumption, CharAssumption
  <2>3. QED
    BY <2>1, <2>2 DEF StringInv, HoldsText, Starts
<1>2. /\ b \in [0 .. StringN -> Nat]
      /\ \A j \in 0 .. StringN : b[j] = IF j = i THEN c ELSE s_buf[j]
  BY <1>1
<1>3. /\ t \in Seq(Char) /\ Len(t) = n
      /\ \A j \in 1 .. n : t[j] = IF j = i + 1 THEN c ELSE s_text[j]
  <2>1. i + 1 \in 1 .. n
    BY <1>1
  <2>2. QED
    BY <1>1, <2>1, ExceptSeq
<1> HIDE DEF b, t
<1>4. ASSUME NEW j \in 0 .. n - 1 PROVE b[j] = t[j + 1]
  <2>1. j \in 0 .. StringN /\ j + 1 \in 1 .. n /\ (j = i <=> j + 1 = i + 1)
    BY <1>1
  <2>2. QED
    BY <1>1, <1>2, <1>3, <2>1
<1>5. b[n] = 0 /\ b[StringN] = StringN - n
  <2>1. n \in 0 .. StringN /\ StringN \in 0 .. StringN /\ n # i /\ StringN # i
    BY <1>1
  <2>2. QED
    BY <1>1, <1>2, <2>1
<1>6. HoldsText(b, t)
  BY <1>1, <1>2, <1>3, <1>4, <1>5 DEF HoldsText, Starts
<1>7. S!Becomes(b, t)
  BY DEF S!write, b, t
<1>8. QED
  BY <1>6, <1>7, BecomesHolds

LEMMA StringClears ==
    ASSUME StringInv, S!clear
    PROVE  StringInv'
<1>1. StringN \in Nat \ {0} /\ s_buf \in [0 .. StringN -> Nat]
  BY StringNAssumption DEF StringInv, HoldsText
<1>2. HoldsText(S!Cleared(s_buf), <<>>)
  BY <1>1 DEF HoldsText, Starts, S!Cleared
<1>3. QED
  BY <1>2, BecomesHolds DEF S!clear

LEMMA StringEdits ==
    ASSUME StringInv, NEW i \in Nat, NEW n \in Nat, NEW s \in Seq(Char)
    PROVE  /\ S!append(s) => StringInv'
           /\ S!erase(i, n) => StringInv'
           /\ S!insert(i, s) => StringInv'
           /\ S!replace(i, n, s) => StringInv'
<1> DEFINE k == Len(s_text)
<1>1. /\ s_text \in Seq(Char) /\ k \in Nat /\ S!size = k /\ HoldsText(s_buf, s_text)
      /\ Len(s) \in Nat
  BY TextIs DEF StringInv
<1>2. ASSUME S!append(s) PROVE StringInv'
  <2>1. HoldsText(S!resized(S!put(s_buf, k, s), k + Len(s)), s_text \o s)
    BY <1>1, <1>2, AppendHolds DEF S!append
  <2>2. S!Becomes(S!resized(S!put(s_buf, k, s), k + Len(s)), s_text \o s)
    BY <1>1, <1>2 DEF S!append
  <2>3. QED
    BY <2>1, <2>2, BecomesHolds
<1>3. ASSUME S!erase(i, n) PROVE StringInv'
  <2>1. i <= k
    BY <1>1, <1>3 DEF S!erase
  <2>2. PICK m \in Nat : m = S!Min({n, S!size - i}) /\ m <= k - i
    <3>1. k - i \in Int /\ k - i \in Nat
      BY <1>1, <2>1
    <3>2. S!Min({n, k - i}) = IF k - i < n THEN k - i ELSE n
      BY <3>1, StringMin
    <3>3. QED
      BY <1>1, <3>1, <3>2
  <2>3. i + m <= k
    BY <1>1, <2>1, <2>2
  <2> DEFINE b == S!resized(S!moved(s_buf, i, i + m, k - (i + m)), k - m)
             t == SubSeq(s_text, 1, i) \o SubSeq(s_text, i + m + 1, k)
  <2>4. HoldsText(b, t)
    BY <1>1, <2>3, CutHolds
  <2>5. S!Becomes(b, t)
    BY <1>1, <1>3, <2>2 DEF S!erase
  <2> HIDE DEF b, t
  <2>6. QED
    BY <2>4, <2>5, BecomesHolds
<1>4. ASSUME S!insert(i, s) PROVE StringInv'
  <2>1. /\ i <= k /\ k + Len(s) <= StringN
        /\ S!Becomes(S!resized(S!put(S!moved(s_buf, i + Len(s), i, k - i), i, s), k + Len(s)),
                     SubSeq(s_text, 1, i) \o s \o SubSeq(s_text, i + 1, k))
    BY <1>1, <1>4 DEF S!insert
  <2>2. i + 0 = i /\ k + Len(s) = k - 0 + Len(s) /\ i + 0 + 1 = i + 1
    BY <1>1
  <2>3. HoldsText(S!resized(SplicedBuf(s_buf, k, i, 0, s), k + Len(s)), Spliced(s_text, i, 0, s))
    BY <1>1, <2>1, <2>2, SpliceHolds
  <2>4. S!Becomes(S!resized(SplicedBuf(s_buf, k, i, 0, s), k + Len(s)), Spliced(s_text, i, 0, s))
    BY <2>1, <2>2 DEF SplicedBuf, Spliced
  <2>5. QED
    BY <2>3, <2>4, BecomesHolds
<1>5. ASSUME S!replace(i, n, s) PROVE StringInv'
  <2>1. /\ i + n <= k /\ k - n + Len(s) <= StringN
        /\ S!Becomes(S!resized(S!put(S!moved(s_buf, i + Len(s), i + n, k - i - n), i, s),
                               k + Len(s) - n),
                     SubSeq(s_text, 1, i) \o s \o SubSeq(s_text, i + n + 1, k))
    BY <1>1, <1>5 DEF S!replace
  <2>2. PICK m : m = k - n + Len(s)
    OBVIOUS
  <2>3. k - i - n = k - (i + n) /\ k + Len(s) - n = m
    BY <1>1, <2>2
  <2>4. HoldsText(S!resized(SplicedBuf(s_buf, k, i, n, s), m), Spliced(s_text, i, n, s))
    BY <1>1, <2>1, <2>2, SpliceHolds
  <2>5. S!Becomes(S!resized(SplicedBuf(s_buf, k, i, n, s), m), Spliced(s_text, i, n, s))
    BY <2>1, <2>3 DEF SplicedBuf, Spliced
  <2>6. QED
    BY <2>4, <2>5, BecomesHolds
<1>6. QED
  BY <1>2, <1>3, <1>4, <1>5

LEMMA AskedHolds ==
    ASSUME StringInv, NEW x, S!Asked(x, x)
    PROVE  StringInv'
BY DEF S!Asked, StringInv, HoldsText, Starts

LEMMA StringFinds ==
    ASSUME StringInv, NEW s \in Seq(Char), NEW pos \in Nat, NEW C
    PROVE  /\ S!find(s, pos) => StringInv'
           /\ S!rfind(s, pos) => StringInv'
           /\ S!find_first_of(C, pos) => StringInv'
           /\ S!find_last_of(C, pos) => StringInv'
<1> DEFINE n == Len(s_text)
<1>1. /\ S!CString = s_text /\ S!size = n /\ n \in Nat
      /\ \A i \in 0 .. n - 1 : s_buf[i] = s_text[i + 1]
  BY TextIs
<1>2. ASSUME S!find(s, pos) PROVE StringInv'
  BY <1>1, <1>2, AskedHolds DEF S!find
<1>3. ASSUME S!rfind(s, pos) PROVE StringInv'
  <2>1. Searchable(s)
    BY <1>3 DEF S!rfind, Searchable
  <2>2. PICK end : end = S!Min({IF pos < S!size THEN pos + Len(s) ELSE pos, S!size})
    OBVIOUS
  <2>3. S!Asked(S!memrmem(S!CharsAt(0, end), s), S!LastOf({i \in 0 .. pos : S!Matches(s_text, i, s)}))
    BY <1>3, <2>2 DEF S!rfind
  <2>4. S!memrmem(S!CharsAt(0, end), s) = S!LastOf({i \in 0 .. pos : S!Matches(s_text, i, s)})
    BY <2>1, <2>2, RfindFinds
  <2>5. QED
    BY <2>3, <2>4, AskedHolds
<1>4. ASSUME S!find_first_of(C, pos) PROVE StringInv'
  <2> DEFINE P == {i \in pos .. n - 1 : s_buf[i] \in C}
             Q == {i \in pos .. n - 1 : s_text[i + 1] \in C}
  <2>1. \A i \in pos .. n - 1 : s_buf[i] = s_text[i + 1]
    BY <1>1
  <2>2. P = Q
    BY <2>1
  <2>3. S!Asked(S!FirstOf(P), S!FirstOf(Q))
    BY <1>1, <1>4 DEF S!find_first_of
  <2> HIDE DEF P, Q
  <2>4. QED
    BY <2>2, <2>3, AskedHolds
<1>5. ASSUME S!find_last_of(C, pos) PROVE StringInv'
  <2> DEFINE last == S!Min({pos, n - 1})
             P == {i \in 0 .. last : s_buf[i] \in C}
             Q == {i \in 0 .. last : s_text[i + 1] \in C}
  <2>1. S!Asked(IF n = 0 THEN S!npos ELSE S!LastOf(P), S!LastOf(Q))
    BY <1>1, <1>5 DEF S!find_last_of
  <2>2. last = IF n - 1 < pos THEN n - 1 ELSE pos
    <3>1. n - 1 \in Int /\ pos \in Int
      BY <1>1
    <3>2. QED
      BY <3>1, StringMin
  <2> HIDE DEF last
  <2>3. \A i \in 0 .. last : i \in 0 .. n - 1
    BY <1>1, <2>2
  <2>4. P = Q
    BY <1>1, <2>3
  <2>5. n = 0 => Q = {}
    BY <1>1, <2>2, <2>3
  <2>6. S!LastOf({}) = S!npos
    BY DEF S!LastOf
  <2> HIDE DEF P, Q
  <2>7. (IF n = 0 THEN S!npos ELSE S!LastOf(P)) = S!LastOf(Q)
    BY <2>4, <2>5, <2>6
  <2>8. QED
    BY <2>1, <2>7, AskedHolds
<1>6. QED
  BY <1>2, <1>3, <1>4, <1>5

LEMMA StringSteps ==
    ASSUME ~CopiesResize, StringInv, S!Next
    PROVE  StringInv'
<1>1. StringN \in Nat /\ 2 \in Nat
  BY StringNAssumption
<1>2. \A s \in S!Text : s \in Seq(Char) /\ Len(s) <= StringN
  BY <1>1, ArgIsText DEF S!Text
<1>3. \A s \in S!Arg : s \in Seq(Char)
  BY <1>1, ArgIsText DEF S!Arg
<1>4. \A i \in 0 .. StringN : i \in Nat
  OBVIOUS
<1>5. ASSUME NEW s \in S!Text, S!assign(s) \/ S!copy(s) PROVE StringInv'
  <2>1. S!copy(s) => Len(s) = S!size
    BY DEF S!copy
  <2>2. QED
    BY <1>2, <1>5, <2>1, StringAssigns
<1>6. ASSUME NEW s \in S!Arg, S!append(s) PROVE StringInv'
  BY <1>3, <1>6, StringEdits
<1>7. ASSUME NEW n \in 0 .. StringN, S!resize(n) PROVE StringInv'
  <2>1. n <= S!size
    BY <1>7 DEF S!resize
  <2>2. QED
    BY <1>4, <1>7, <2>1, StringShrinks
<1>8. ASSUME NEW i \in 0 .. StringN, NEW c \in Char, S!write(i, c) PROVE StringInv'
  BY <1>4, <1>8, StringWrites
<1>9. CASE S!clear
  BY <1>9, StringClears
<1>10. CASE S!pop_back
  <2>1. S!size \in Nat /\ S!size > 0
    BY <1>10, TextIs DEF S!pop_back
  <2>2. PICK n : n = S!size - 1
    OBVIOUS
  <2>3. n \in Nat /\ n <= S!size
    BY <2>1, <2>2
  <2>4. S!resize(n)
    BY <1>10, <2>2 DEF S!pop_back
  <2>5. QED
    BY <2>3, <2>4, StringShrinks
<1>11. ASSUME NEW i \in 0 .. StringN, NEW n \in 0 .. StringN, S!erase(i, n) PROVE StringInv'
  <2>1. <<>> \in Seq(Char)
    BY EmptySeq
  <2>2. QED
    BY <1>4, <1>11, <2>1, StringEdits
<1>12. ASSUME NEW i \in 0 .. StringN, NEW s \in S!Arg,
              S!insert(i, s) \/ S!find(s, i) \/ S!rfind(s, i)
       PROVE  StringInv'
  BY <1>3, <1>4, <1>12, StringEdits, StringFinds
<1>13. ASSUME NEW i \in 0 .. StringN, NEW n \in 0 .. StringN, NEW s \in S!Arg, S!replace(i, n, s)
       PROVE  StringInv'
  BY <1>3, <1>4, <1>13, StringEdits
<1>14. ASSUME NEW C \in SUBSET Char, NEW i \in 0 .. StringN,
              S!find_first_of(C, i) \/ S!find_last_of(C, i)
       PROVE  StringInv'
  <2>1. <<>> \in Seq(Char)
    BY EmptySeq
  <2>2. QED
    BY <1>4, <1>14, <2>1, StringFinds
<1>15. QED
  BY <1>5, <1>6, <1>7, <1>8, <1>9, <1>10, <1>11, <1>12, <1>13, <1>14 DEF S!Next

LEMMA StringNext ==
    ASSUME ~CopiesResize, StringInv, [ContainersNext]_containersVars
    PROVE  StringInv'
<1>1. CASE UNCHANGED string
  BY <1>1 DEF string, StringInv, HoldsText, Starts
<1>2. CASE S!Next
  BY <1>2, StringSteps
<1>3. QED
  BY <1>1, <1>2 DEF ContainersNext, containersVars

\* For any characters and any room, in programs that copy only strings of the
\* size of the copy, a mono::string holds the characters of the string, its
\* size and a NUL, whatever is put in, cut out or replaced, and find(), rfind()
\* and the searches for characters answer as for that string (mono_string.h,
\* algo.h).
THEOREM StringsHoldTheirText == ~CopiesResize => (ContainersSpec => []StringIsText)
<1> SUFFICES ASSUME ~CopiesResize PROVE ContainersSpec => []StringIsText
  OBVIOUS
<1>1. StringInv /\ [ContainersNext]_containersVars => StringInv'
  BY StringNext
<1>2. ContainersSpec => []StringInv
  BY StringStarts, <1>1, PTL DEF ContainersSpec
<1>3. QED
  BY <1>2, StringSound, PTL
==============================================================================
