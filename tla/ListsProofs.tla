---------------------------- MODULE ListsProofs ----------------------------
(***************************************************************************)
(* For every N and every set of items: the cursors of mono::queue stay in  *)
(* range and the queue implements the bounded deque of module Deque; and,  *)
(* under the calls of module Lists, mono::slist, mono::list and            *)
(* mono::xorlist hold the items the queue holds, in the same order, and    *)
(* the pointers of intrusive_list and list lead along their nodes; the     *)
(* chunks of duo::list are its items, in order.                            *)
(***************************************************************************)
EXTENDS Lists, SequenceTheorems, FiniteSetTheorems, FunctionTheorems,
        WellFoundedInduction, TLAPS

-----------------------------------------------------------------------------
(* Arithmetic of the ring, stated without the modulo.                      *)

\* The cell k places after cell 0, for a k that goes round the ring at most
\* once.
Wrap(k) == IF k < N THEN k ELSE k - N

LEMMA WrapOnce ==
    ASSUME NEW k \in 0 .. 2 * N - 1
    PROVE  k % N = Wrap(k)
BY NAssumption, Z3 DEF Wrap

LEMMA ForwardWraps ==
    ASSUME NEW p \in Cell
    PROVE  move_forward(p) = IF p = N - 1 THEN 0 ELSE p + 1
<1>1. p + 1 \in 0 .. 2 * N - 1
  BY NAssumption DEF Cell
<1>2. QED
  BY <1>1, NAssumption, WrapOnce DEF move_forward, Cell, Wrap

LEMMA BackwardWraps ==
    ASSUME NEW p \in Cell
    PROVE  move_backward(p) = IF p = 0 THEN N - 1 ELSE p - 1
<1>1. (N - 1) + p \in 0 .. 2 * N - 1
  BY NAssumption DEF Cell
<1>2. QED
  BY <1>1, NAssumption, WrapOnce DEF move_backward, Cell, Wrap

-----------------------------------------------------------------------------
(* The cursors.                                                            *)

\* The type invariant and the agreement of the cursors are inductive
\* together: pop_front needs count > 0 to stay in range, and the tail of a
\* full ring coincides with its head.
Inv == TypeOK /\ tail = Wrap(head + count)

LEMMA InvMeaning == Inv <=> TypeOK /\ TailFollowsHead
<1>1. TypeOK => head + count \in 0 .. 2 * N - 1
  BY NAssumption DEF TypeOK, Cell
<1>2. QED
  BY <1>1, WrapOnce DEF Inv, TailFollowsHead

LEMMA InitInv == Init => Inv
BY NAssumption DEF Init, Inv, TypeOK, Cell, Wrap

LEMMA NextInv == Inv /\ [Next]_vars => Inv'
<1> SUFFICES ASSUME Inv, [Next]_vars PROVE Inv'
  OBVIOUS
<1> USE NAssumption DEF Inv, TypeOK, Cell, Wrap, empty, full
<1>1. move_forward(head) = IF head = N - 1 THEN 0 ELSE head + 1
  BY ForwardWraps
<1>2. move_forward(tail) = IF tail = N - 1 THEN 0 ELSE tail + 1
  BY ForwardWraps
<1>3. move_backward(head) = IF head = 0 THEN N - 1 ELSE head - 1
  BY BackwardWraps
<1>4. move_backward(tail) = IF tail = 0 THEN N - 1 ELSE tail - 1
  BY BackwardWraps
<1>5. ASSUME NEW x \in Item, push_back(x) PROVE Inv'
  BY <1>2, <1>5 DEF push_back
<1>6. ASSUME NEW x \in Item, push_front(x) PROVE Inv'
  BY <1>3, <1>6 DEF push_front
<1>7. CASE emplace_back
  BY <1>2, <1>7 DEF emplace_back
<1>8. CASE emplace_front
  BY <1>3, <1>8 DEF emplace_front
<1>9. CASE pop_back
  BY <1>4, <1>9 DEF pop_back
<1>10. CASE pop_front
  BY <1>1, <1>10 DEF pop_front
<1>11. ASSUME NEW x \in Item, write_front(x) PROVE Inv'
  BY <1>11 DEF write_front
<1>12. ASSUME NEW x \in Item, write_back(x) PROVE Inv'
  BY <1>4, <1>12 DEF write_back
<1>13. CASE clear
  BY <1>13 DEF clear
<1>14. CASE UNCHANGED vars
  BY <1>14 DEF vars
<1>15. QED
  BY <1>5, <1>6, <1>7, <1>8, <1>9, <1>10, <1>11, <1>12, <1>13, <1>14 DEF Next

\* Whatever calls are made, the tail of the ring stays `count' cells after
\* its head: no sequence of pushes and pops at both ends lets the two
\* cursors of mono::queue disagree about how many items there are.
THEOREM CursorsAgree == Spec => [](TypeOK /\ TailFollowsHead)
<1>1. Spec => []Inv
  BY InitInv, NextInv, PTL DEF Spec
<1>2. QED
  BY <1>1, InvMeaning, PTL

-----------------------------------------------------------------------------
(* The refinement of Deque.                                                *)

\* The items the iterator visits, without the modulo.
ContentsOK ==
    /\ Contents \in Seq(Item)
    /\ Len(Contents) = count
    /\ \A i \in 1 .. count : Contents[i] = data[Wrap(head + i - 1)]

LEMMA ContentsIsSeq == Inv => ContentsOK
<1> SUFFICES ASSUME Inv PROVE ContentsOK
  OBVIOUS
<1>1. ASSUME NEW i \in 1 .. count
      PROVE  /\ (head + i - 1) % N = Wrap(head + i - 1)
             /\ Wrap(head + i - 1) \in Cell
  <2>1. head + i - 1 \in 0 .. 2 * N - 1
    BY NAssumption DEF Inv, TypeOK, Cell
  <2>2. QED
    BY <2>1, WrapOnce, NAssumption DEF Wrap, Cell
<1>2. \A i \in 1 .. count : Contents[i] = data[Wrap(head + i - 1)]
  BY <1>1 DEF Contents
<1>3. count \in Nat /\ Contents \in [1 .. count -> Item]
  BY <1>1 DEF Contents, Inv, TypeOK
<1>4. Contents \in Seq(Item)
  BY <1>3, SeqDef
<1>5. Len(Contents) = count
  <2>1. DOMAIN Contents = 1 .. Len(Contents) /\ Len(Contents) \in Nat
    BY <1>4, LenProperties
  <2>2. DOMAIN Contents = 1 .. count
    BY DEF Contents
  <2>3. QED
    BY <1>3, <2>1, <2>2
<1>6. QED
  BY <1>2, <1>4, <1>5 DEF ContentsOK

LEMMA InitRefines == Init => Promise!Init
<1> SUFFICES ASSUME Init PROVE Promise!Init
  OBVIOUS
<1>1. Contents \in Seq(Item) /\ Len(Contents) = 0
  BY InitInv, ContentsIsSeq DEF Init, ContentsOK
<1>2. Contents = << >>
  BY <1>1, EmptySeq
<1>3. QED
  BY <1>2 DEF Init, Promise!Init

\* What a call does to k items C, of which it leaves K items E.
AddsLast(k, C, x, K, E) ==
    K = k + 1 /\ \A i \in 1 .. K : E[i] = IF i = K THEN x ELSE C[i]
AddsFirst(k, C, x, K, E) ==
    K = k + 1 /\ \A i \in 1 .. K : E[i] = IF i = 1 THEN x ELSE C[i - 1]
DropsLast(k, C, K, E) ==
    k > 0 /\ K = k - 1 /\ \A i \in 1 .. K : E[i] = C[i]
DropsFirst(k, C, K, E) ==
    k > 0 /\ K = k - 1 /\ \A i \in 1 .. K : E[i] = C[i + 1]
Writes(k, C, j, x, K, E) ==
    K = k /\ \A i \in 1 .. K : E[i] = IF i = j THEN x ELSE C[i]

\* The places of the ring before and after a call.
Ring ==
    /\ Inv /\ ContentsOK /\ ContentsOK'
    /\ move_forward(head) = IF head = N - 1 THEN 0 ELSE head + 1
    /\ move_backward(head) = IF head = 0 THEN N - 1 ELSE head - 1
    /\ count > 0 => move_backward(tail) = Wrap(head + count - 1)

LEMMA RingPlaces ==
    ASSUME Inv, [Next]_vars PROVE Ring
<1>1. Inv'
  BY NextInv
<1>2. ContentsOK /\ ContentsOK'
  BY <1>1, ContentsIsSeq, PTL
<1>3. move_forward(head) = IF head = N - 1 THEN 0 ELSE head + 1
  BY ForwardWraps DEF Inv, TypeOK
<1>4. move_backward(head) = IF head = 0 THEN N - 1 ELSE head - 1
  BY BackwardWraps DEF Inv, TypeOK
<1>5. move_backward(tail) = IF tail = 0 THEN N - 1 ELSE tail - 1
  BY BackwardWraps DEF Inv, TypeOK
<1>6. count > 0 => move_backward(tail) = Wrap(head + count - 1)
  <2>1. tail \in 0 .. N - 1 /\ N \in Nat /\ head \in 0 .. N - 1
    BY NAssumption DEF Inv, TypeOK, Cell
  <2>2. tail = Wrap(head + count) /\ count \in 0 .. N
    BY DEF Inv, TypeOK
  <2>3. QED
    BY <1>5, <2>1, <2>2 DEF Wrap
<1>7. QED
  BY <1>2, <1>3, <1>4, <1>6 DEF Ring

\* A call that adds x behind the last item ...
LEMMA QueueAddsLast ==
    ASSUME Ring, NEW x, ~full, head' = head, count' = count + 1,
           data' = [data EXCEPT ![tail] = x]
    PROVE  AddsLast(count, Contents, x, count', Contents')
<1>1. \A i \in 1 .. count' :
          Contents'[i] = IF i = count + 1 THEN x ELSE Contents[i]
  BY NAssumption DEF Ring, ContentsOK, Inv, TypeOK, Cell, Wrap, full
<1>2. QED
  BY <1>1 DEF AddsLast

\* ... and one that adds x before the first.
LEMMA QueueAddsFirst ==
    ASSUME Ring, NEW x, ~full, head' = move_backward(head), count' = count + 1,
           data' = [data EXCEPT ![move_backward(head)] = x]
    PROVE  AddsFirst(count, Contents, x, count', Contents')
<1>1. \A i \in 1 .. count' :
          Contents'[i] = IF i = 1 THEN x ELSE Contents[i - 1]
  BY NAssumption DEF Ring, ContentsOK, Inv, TypeOK, Cell, Wrap, full
<1>2. QED
  BY <1>1 DEF AddsFirst

\* An assignment to the j-th item.
LEMMA QueueWrites ==
    ASSUME Ring, NEW j \in 1 .. count, NEW x,
           data' = [data EXCEPT ![Wrap(head + j - 1)] = x],
           UNCHANGED <<head, count>>
    PROVE  Writes(count, Contents, j, x, count', Contents')
<1>1. \A i \in 1 .. count :
        /\ Wrap(head + i - 1) \in Cell
        /\ i # j => Wrap(head + i - 1) # Wrap(head + j - 1)
  BY NAssumption DEF Ring, Inv, TypeOK, Cell, Wrap
<1>2. QED
  BY <1>1 DEF Ring, ContentsOK, Inv, TypeOK, Writes

LEMMA QueueDropsLast ==
    ASSUME Ring, pop_back
    PROVE  /\ DropsLast(count, Contents, count', Contents')
           /\ ret' = Contents[count]
<1>1. count \in 1 .. N /\ count' = count - 1
  BY DEF pop_back, Ring, Inv, TypeOK, empty
<1>2. ret' = Contents[count]
  BY <1>1 DEF pop_back, Ring, ContentsOK
<1>3. \A i \in 1 .. count' : Contents'[i] = Contents[i]
  <2>1. head' = head /\ data' = data
    BY DEF pop_back
  <2>2. 1 .. count' \subseteq 1 .. count
    BY <1>1
  <2>3. QED
    BY <2>1, <2>2 DEF Ring, ContentsOK
<1>4. QED
  BY <1>1, <1>2, <1>3 DEF DropsLast

LEMMA QueueDropsFirst ==
    ASSUME Ring, pop_front
    PROVE  /\ DropsFirst(count, Contents, count', Contents')
           /\ ret' = Contents[1]
<1>1. count \in 1 .. N /\ count' = count - 1
  BY DEF pop_front, Ring, Inv, TypeOK, empty
<1>2. ret' = Contents[1]
  BY <1>1, NAssumption DEF pop_front, Ring, ContentsOK, Inv, TypeOK, Cell, Wrap
<1>3. \A i \in 1 .. count' : Contents'[i] = Contents[i + 1]
  <2>1. \A i \in 1 .. count' :
          i + 1 \in 1 .. count /\ Wrap(head' + i - 1) = Wrap(head + (i + 1) - 1)
    BY <1>1, NAssumption DEF pop_front, Ring, Inv, TypeOK, Cell, Wrap
  <2>2. data' = data
    BY DEF pop_front
  <2>3. QED
    BY <2>1, <2>2 DEF Ring, ContentsOK
<1>4. QED
  BY <1>1, <1>2, <1>3 DEF DropsFirst

\* An emplace adds what the cell holds.
LEMMA QueueEmplacesLast ==
    ASSUME Ring, emplace_back
    PROVE  /\ data[tail] \in Item
           /\ AddsLast(count, Contents, data[tail], count', Contents')
<1>1. data[tail] \in Item /\ data' = [data EXCEPT ![tail] = data[tail]]
  BY DEF emplace_back, Ring, Inv, TypeOK
<1>2. QED
  BY <1>1, QueueAddsLast DEF emplace_back

LEMMA QueueEmplacesFirst ==
    ASSUME Ring, emplace_front
    PROVE  /\ data[move_backward(head)] \in Item
           /\ AddsFirst(count, Contents, data[move_backward(head)], count', Contents')
<1>1. /\ data[move_backward(head)] \in Item
      /\ data' = [data EXCEPT ![move_backward(head)] = data[move_backward(head)]]
  BY NAssumption DEF emplace_front, Ring, Inv, TypeOK, Cell
<1>2. QED
  BY <1>1, QueueAddsFirst DEF emplace_front

LEMMA QueueWritesFirst ==
    ASSUME Ring, NEW x, write_front(x)
    PROVE  1 \in 1 .. count /\ Writes(count, Contents, 1, x, count', Contents')
<1>1. 1 \in 1 .. count /\ head = Wrap(head + 1 - 1)
  BY NAssumption DEF write_front, Ring, Inv, TypeOK, Cell, Wrap, empty
<1>2. QED
  BY <1>1, QueueWrites DEF write_front

LEMMA QueueWritesLast ==
    ASSUME Ring, NEW x, write_back(x)
    PROVE  count \in 1 .. count /\ Writes(count, Contents, count, x, count', Contents')
<1>1. count \in 1 .. count /\ move_backward(tail) = Wrap(head + count - 1)
  BY DEF write_back, Ring, Inv, TypeOK, empty
<1>2. QED
  BY <1>1, QueueWrites DEF write_back

\* What these do to sequences.
LEMMA SeqAdded ==
    ASSUME NEW C \in Seq(Item), NEW E \in Seq(Item), NEW x \in Item
    PROVE  /\ AddsLast(Len(C), C, x, Len(E), E) => E = Append(C, x)
           /\ AddsFirst(Len(C), C, x, Len(E), E) => E = <<x>> \o C
<1>0. Len(C) \in Nat /\ Len(E) \in Nat
  BY LenProperties
<1>1. ASSUME AddsLast(Len(C), C, x, Len(E), E) PROVE E = Append(C, x)
  <2>1. /\ Append(C, x) \in Seq(Item)
        /\ Len(Append(C, x)) = Len(E)
    BY <1>1, AppendProperties DEF AddsLast
  <2>2. \A i \in 1 .. Len(E) : E[i] = Append(C, x)[i]
    BY <1>0, <1>1, AppendProperties DEF AddsLast
  <2>3. QED
    BY <2>1, <2>2, SeqEqual
<1>2. ASSUME AddsFirst(Len(C), C, x, Len(E), E) PROVE E = <<x>> \o C
  <2>1. <<x>> \in Seq(Item) /\ Len(<<x>>) = 1 /\ <<x>>[1] = x
    OBVIOUS
  <2>2. /\ <<x>> \o C \in Seq(Item)
        /\ Len(<<x>> \o C) = Len(E)
    BY <1>0, <1>2, <2>1, ConcatProperties DEF AddsFirst
  <2>3. \A i \in 1 .. Len(E) : E[i] = (<<x>> \o C)[i]
    BY <1>0, <1>2, <2>1, ConcatProperties DEF AddsFirst
  <2>4. QED
    BY <2>2, <2>3, SeqEqual
<1>3. QED
  BY <1>1, <1>2

LEMMA SeqDropped ==
    ASSUME NEW C \in Seq(Item), NEW E \in Seq(Item)
    PROVE  /\ DropsLast(Len(C), C, Len(E), E) => E = SubSeq(C, 1, Len(C) - 1)
           /\ DropsFirst(Len(C), C, Len(E), E) => E = SubSeq(C, 2, Len(C))
<1>0. Len(C) \in Nat /\ Len(E) \in Nat
  BY LenProperties
<1>1. ASSUME DropsLast(Len(C), C, Len(E), E) PROVE E = SubSeq(C, 1, Len(C) - 1)
  <2>1. \A i \in 1 .. Len(C) - 1 : C[i] \in Item
    BY <1>0, ElementOfSeq
  <2>2. /\ SubSeq(C, 1, Len(C) - 1) \in Seq(Item)
        /\ Len(SubSeq(C, 1, Len(C) - 1)) = Len(E)
        /\ \A i \in 1 .. Len(E) : SubSeq(C, 1, Len(C) - 1)[i] = C[i]
    BY <1>0, <1>1, <2>1, SubSeqProperties DEF DropsLast
  <2>3. QED
    BY <1>1, <2>2, SeqEqual DEF DropsLast
<1>2. ASSUME DropsFirst(Len(C), C, Len(E), E) PROVE E = SubSeq(C, 2, Len(C))
  <2>1. \A i \in 2 .. Len(C) : C[i] \in Item
    BY <1>0, ElementOfSeq
  <2>2. /\ SubSeq(C, 2, Len(C)) \in Seq(Item)
        /\ Len(SubSeq(C, 2, Len(C))) = Len(E)
        /\ \A i \in 1 .. Len(E) : SubSeq(C, 2, Len(C))[i] = C[i + 1]
    BY <1>0, <1>2, <2>1, SubSeqProperties DEF DropsFirst
  <2>3. QED
    BY <1>2, <2>2, SeqEqual DEF DropsFirst
<1>3. QED
  BY <1>1, <1>2

LEMMA SeqWritten ==
    ASSUME NEW C \in Seq(Item), NEW E \in Seq(Item), NEW x \in Item,
           NEW j \in 1 .. Len(C), Writes(Len(C), C, j, x, Len(E), E)
    PROVE  E = [C EXCEPT ![j] = x]
<1>1. \A i \in 1 .. Len(E) : E[i] = [C EXCEPT ![j] = x][i]
  BY ExceptSeq DEF Writes
<1>2. QED
  BY <1>1, ExceptSeq, SeqEqual DEF Writes

LEMMA StepRefines == Inv /\ [Next]_vars => [Promise!Next]_(Promise!vars)
<1> SUFFICES ASSUME Inv, [Next]_vars PROVE [Promise!Next]_(Promise!vars)
  OBVIOUS
<1>a. Ring
  BY RingPlaces
<1>b. Contents \in Seq(Item) /\ Len(Contents) = count /\ count \in 0 .. N
  BY <1>a DEF Ring, ContentsOK, Inv, TypeOK
<1>c. Contents' \in Seq(Item) /\ Len(Contents') = count'
  BY <1>a DEF Ring, ContentsOK
<1> USE NAssumption, <1>b, <1>c
<1>1. ASSUME NEW x \in Item, AddsLast(count, Contents, x, count', Contents'),
             ~full, ret' = None
      PROVE  Promise!Next
  <2>1. AddsLast(Len(Contents), Contents, x, Len(Contents'), Contents')
    BY <1>1
  <2>2. Contents' = Append(Contents, x)
    BY <2>1, SeqAdded
  <2>3. Len(Contents) < N
    BY <1>1 DEF full
  <2>4. QED
    BY <1>1, <2>2, <2>3 DEF Promise!Next, Promise!PushBack
<1>2. ASSUME NEW x \in Item, AddsFirst(count, Contents, x, count', Contents'),
             ~full, ret' = None
      PROVE  Promise!Next
  <2>1. AddsFirst(Len(Contents), Contents, x, Len(Contents'), Contents')
    BY <1>2
  <2>2. Contents' = <<x>> \o Contents
    BY <2>1, SeqAdded
  <2>3. Len(Contents) < N
    BY <1>2 DEF full
  <2>4. QED
    BY <1>2, <2>2, <2>3 DEF Promise!Next, Promise!PushFront
<1>3. ASSUME NEW j \in 1 .. count, NEW x \in Item,
             Writes(count, Contents, j, x, count', Contents'), ret' = None
      PROVE  Promise!Next
  BY <1>3, SeqWritten DEF Promise!Next, Promise!Write
<1>7. ASSUME NEW x \in Item, push_back(x) PROVE Promise!Next
  <2>1. AddsLast(count, Contents, x, count', Contents')
    BY <1>a, <1>7, QueueAddsLast DEF push_back
  <2>2. QED
    BY <1>1, <1>7, <2>1 DEF push_back
<1>8. ASSUME NEW x \in Item, push_front(x) PROVE Promise!Next
  <2>1. AddsFirst(count, Contents, x, count', Contents')
    BY <1>a, <1>8, QueueAddsFirst DEF push_front
  <2>2. QED
    BY <1>2, <1>8, <2>1 DEF push_front
<1>9. CASE emplace_back
  <2>1. data[tail] \in Item /\ AddsLast(count, Contents, data[tail], count', Contents')
    BY <1>a, <1>9, QueueEmplacesLast
  <2>2. QED
    BY <1>1, <1>9, <2>1 DEF emplace_back
<1>10. CASE emplace_front
  <2>1. /\ data[move_backward(head)] \in Item
        /\ AddsFirst(count, Contents, data[move_backward(head)], count', Contents')
    BY <1>a, <1>10, QueueEmplacesFirst
  <2>2. QED
    BY <1>2, <1>10, <2>1 DEF emplace_front
<1>11. CASE pop_back
  <2>1. DropsLast(count, Contents, count', Contents') /\ ret' = Contents[count]
    BY <1>a, <1>11, QueueDropsLast
  <2>2. QED
    BY <2>1, SeqDropped DEF DropsLast, Promise!Next, Promise!PopBack
<1>12. CASE pop_front
  <2>1. DropsFirst(count, Contents, count', Contents') /\ ret' = Contents[1]
    BY <1>a, <1>12, QueueDropsFirst
  <2>2. QED
    BY <2>1, SeqDropped DEF DropsFirst, Promise!Next, Promise!PopFront
<1>13. ASSUME NEW x \in Item, write_front(x) PROVE Promise!Next
  <2>1. 1 \in 1 .. count /\ Writes(count, Contents, 1, x, count', Contents')
    BY <1>a, <1>13, QueueWritesFirst
  <2>2. QED
    BY <1>3, <1>13, <2>1 DEF write_front
<1>14. ASSUME NEW x \in Item, write_back(x) PROVE Promise!Next
  <2>1. count \in 1 .. count /\ Writes(count, Contents, count, x, count', Contents')
    BY <1>a, <1>14, QueueWritesLast
  <2>2. QED
    BY <1>3, <1>14, <2>1 DEF write_back
<1>15. CASE clear
  <2>1. Contents' = << >>
    BY <1>15, EmptySeq DEF clear
  <2>2. QED
    BY <1>15, <2>1 DEF clear, Promise!Next, Promise!Clear
<1>16. CASE UNCHANGED vars
  BY <1>16 DEF vars, Promise!vars, Contents
<1>17. QED
  BY <1>7, <1>8, <1>9, <1>10, <1>11, <1>12, <1>13, <1>14, <1>15, <1>16
     DEF Next

\* The ring buffer implements the bounded deque, for every capacity and every
\* item type: what pop_back and pop_front return, and what the iterator
\* visits, is what the calls before them put there, in order.
THEOREM QueueImplementsDeque == Spec => ImplementsDeque
<1>1. Spec => []Inv
  BY InitInv, NextInv, PTL DEF Spec
<1>2. QED
  BY <1>1, InitRefines, StepRefines, PTL
     DEF Spec, ImplementsDeque, Promise!Spec

LEMMA LeastExists ==
    ASSUME NEW P \in SUBSET Nat, P # {}
    PROVE  \E n \in P : \A m \in P : n <= m
<1>1. PICK c \in P : \A d \in P : ~(<<d, c>> \in OpToRel(<, Nat))
  BY WFMin, NatLessThanWellFounded
<1>2. \A d \in P : ~(d < c)
  BY <1>1 DEF OpToRel
<1>3. QED
  BY <1>2

-----------------------------------------------------------------------------
(* Two lists that run through the links of one array.                      *)

Nil == -1

First(n, s) == IF n = 0 THEN Nil ELSE s[1]
Final(n, s) == IF n = 0 THEN Nil ELSE s[n]

\* The n cells s, each linked to the next one.
Chain(nx, n, s) ==
    /\ s \in [1 .. n -> Cell]
    /\ \A i, j \in 1 .. n : s[i] = s[j] => i = j
    /\ \A i \in 1 .. n - 1 : nx[s[i]] = s[i + 1]

\* A list from h to t and a free list from fr share the cells; the last free
\* one says so.
Shared(nx, n, s, m, f, h, t, fr) ==
    /\ n \in Nat /\ m \in Nat
    /\ Chain(nx, n, s) /\ Chain(nx, m, f)
    /\ \A i \in 1 .. n, j \in 1 .. m : s[i] # f[j]
    /\ \A c \in Cell : (\E i \in 1 .. n : s[i] = c) \/ (\E j \in 1 .. m : f[j] = c)
    /\ h = First(n, s) /\ t = Final(n, s) /\ fr = First(m, f)
    /\ nx \in [Cell -> Cell \cup {Nil}]
    /\ m > 0 => nx[f[m]] = Nil

\* A list with one cell more or less, and two in a row.
WithLast(n, s, c) == [i \in 1 .. n + 1 |-> IF i <= n THEN s[i] ELSE c]
WithFirst(n, s, c) == [i \in 1 .. n + 1 |-> IF i = 1 THEN c ELSE s[i - 1]]
ButLast(n, s) == [i \in 1 .. n - 1 |-> s[i]]
ButFirst(n, s) == [i \in 1 .. n - 1 |-> s[i + 1]]
InARow(n, s, m, f) == [i \in 1 .. n + m |-> IF i <= n THEN s[i] ELSE f[i - n]]
NoCells == [i \in 1 .. 0 |-> Nil]

LEMMA SharedCount ==
    ASSUME NEW nx, NEW n, NEW s, NEW m, NEW f, NEW h, NEW t, NEW fr,
           Shared(nx, n, s, m, f, h, t, fr)
    PROVE  n + m = N
<1> DEFINE g == [i \in 1 .. n + m |-> IF i <= n THEN s[i] ELSE f[i - n]]
<1> n \in Nat /\ m \in Nat
  BY DEF Shared
<1>1. ASSUME NEW i \in 1 .. n + m
      PROVE  /\ i <= n => i \in 1 .. n /\ g[i] = s[i]
             /\ ~(i <= n) => i - n \in 1 .. m /\ g[i] = f[i - n]
  OBVIOUS
<1>2. g \in [1 .. n + m -> Cell]
  BY <1>1 DEF Shared, Chain
<1>3. ASSUME NEW i \in 1 .. n + m, NEW j \in 1 .. n + m, g[i] = g[j] PROVE i = j
  BY <1>1, <1>3 DEF Shared, Chain
<1>4. ASSUME NEW c \in Cell PROVE \E i \in 1 .. n + m : g[i] = c
  <2>1. CASE \E i \in 1 .. n : s[i] = c
    BY <2>1, <1>1
  <2>2. CASE \E j \in 1 .. m : f[j] = c
    <3>1. PICK j \in 1 .. m : f[j] = c
      BY <2>2
    <3>2. j + n \in 1 .. n + m /\ ~(j + n <= n) /\ (j + n) - n = j
      OBVIOUS
    <3>3. g[j + n] = c
      BY <3>1, <3>2, <1>1
    <3>4. QED
      BY <3>2, <3>3
  <2>3. QED
    BY <2>1, <2>2 DEF Shared
<1> HIDE DEF g
<1>5. g \in Bijection(1 .. n + m, Cell)
  BY <1>2, <1>3, <1>4, Fun_IsBij, Zenon
<1>6. Cardinality(Cell) = n + m
  BY <1>5, FS_CountingElements DEF ExistsBijection
<1>7. Cardinality(Cell) = N
  BY NAssumption, FS_Interval DEF Cell
<1>8. QED
  BY <1>6, <1>7

\* alloc() takes a cell that is not in the list.
LEMMA FreeCell ==
    ASSUME NEW nx, NEW n, NEW s, NEW m, NEW f, NEW h, NEW t, NEW fr,
           Shared(nx, n, s, m, f, h, t, fr), fr # Nil
    PROVE  m > 0 /\ fr = f[1] /\ fr \in Cell /\ \A i \in 1 .. n : s[i] # fr
BY DEF Shared, Chain, First

\* alloc(), and the new cell becomes the last one.
LEMMA TookLast ==
    ASSUME NEW nx, NEW n, NEW s, NEW m, NEW f, NEW h, NEW t, NEW fr, NEW ny,
           Shared(nx, n, s, m, f, h, t, fr), fr # Nil,
           ny = IF n = 0 THEN [nx EXCEPT ![fr] = Nil]
                ELSE [nx EXCEPT ![fr] = Nil, ![t] = fr],
           NEW hy, hy = IF n = 0 THEN fr ELSE h, NEW ty, ty = fr, NEW fy, fy = nx[fr]
    PROVE  Shared(ny, n + 1, WithLast(n, s, fr), m - 1, ButFirst(m, f), hy, ty, fy)
<1> DEFINE g == [i \in 1 .. n + 1 |-> IF i <= n THEN s[i] ELSE fr]
           e == [i \in 1 .. m - 1 |-> f[i + 1]]
<1>1. /\ n \in Nat /\ m \in Nat
      /\ s \in [1 .. n -> Cell] /\ f \in [1 .. m -> Cell]
      /\ nx \in [Cell -> Cell \cup {Nil}]
  BY DEF Shared, Chain
<1>2. m > 0 /\ fr = f[1] /\ fr \in Cell /\ \A i \in 1 .. n : s[i] # fr
  BY <1>1 DEF Shared, First
<1>3. t \in Cell \cup {Nil} /\ (n > 0 => t = s[n] /\ t # fr)
  BY <1>1, <1>2 DEF Shared, Final
<1>4. /\ ny \in [Cell -> Cell \cup {Nil}] /\ ny[fr] = Nil
      /\ n > 0 => ny[t] = fr
      /\ \A c \in Cell : c # fr /\ c # t => ny[c] = nx[c]
  <2>1. CASE n = 0
    <3>1. t = Nil /\ Nil \notin Cell
      BY <2>1 DEF Shared, Final, Nil, Cell
    <3>2. QED
      BY <1>1, <1>2, <2>1, <3>1
  <2>2. CASE n > 0
    <3>1. t \in Cell
      BY <1>1, <1>3, <2>2
    <3>2. QED
      BY <1>1, <1>2, <1>3, <2>2, <3>1
  <2>3. QED
    BY <1>1, <2>1, <2>2
<1>5. Chain(ny, n + 1, g)
  <2>1. g \in [1 .. n + 1 -> Cell]
    BY <1>1, <1>2
  <2>2. ASSUME NEW i \in 1 .. n + 1, NEW j \in 1 .. n + 1, g[i] = g[j] PROVE i = j
    BY <1>1, <1>2, <2>2 DEF Shared, Chain
  <2>3. ASSUME NEW i \in 1 .. (n + 1) - 1 PROVE ny[g[i]] = g[i + 1]
    <3>1. CASE i = n
      BY <1>1, <1>3, <1>4, <3>1
    <3>2. CASE i < n
      <4>1. s[i] # s[n] /\ s[i] \in Cell /\ nx[s[i]] = s[i + 1]
        BY <1>1, <2>3, <3>2 DEF Shared, Chain
      <4>2. QED
        BY <1>1, <1>2, <1>3, <1>4, <3>2, <4>1
    <3>3. QED
      BY <1>1, <3>1, <3>2
  <2>4. QED
    BY <2>1, <2>2, <2>3 DEF Chain
<1>6. \A i \in 1 .. m - 1 : i + 1 \in 1 .. m /\ e[i] = f[i + 1] /\ f[i + 1] # fr /\ f[i + 1] # t
  <2> SUFFICES ASSUME NEW i \in 1 .. m - 1
               PROVE  i + 1 \in 1 .. m /\ e[i] = f[i + 1] /\ f[i + 1] # fr /\ f[i + 1] # t
    OBVIOUS
  <2>1. i + 1 \in 1 .. m /\ e[i] = f[i + 1] /\ f[i + 1] \in Cell /\ 1 \in 1 .. m
    BY <1>1
  <2>2. f[i + 1] # fr
    BY <1>1, <1>2, <2>1 DEF Shared, Chain
  <2>3. f[i + 1] # t
    <3>1. Nil \notin Cell
      BY DEF Nil, Cell
    <3>2. CASE n = 0
      BY <2>1, <3>1, <3>2 DEF Shared, Final
    <3>3. CASE n > 0
      BY <1>1, <1>3, <2>1, <3>3 DEF Shared
    <3>4. QED
      BY <1>1, <3>2, <3>3
  <2>4. QED
    BY <2>1, <2>2, <2>3
<1>7. Chain(ny, m - 1, e)
  <2>1. e \in [1 .. m - 1 -> Cell]
    BY <1>1, <1>6
  <2>2. ASSUME NEW i \in 1 .. m - 1, NEW j \in 1 .. m - 1, e[i] = e[j] PROVE i = j
    BY <1>1, <1>6, <2>2 DEF Shared, Chain
  <2>3. ASSUME NEW i \in 1 .. (m - 1) - 1 PROVE ny[e[i]] = e[i + 1]
    <3>1. i \in 1 .. m - 1 /\ i + 1 \in 1 .. m - 1
      BY <1>1
    <3>2. nx[f[i + 1]] = f[(i + 1) + 1]
      BY <1>1, <3>1 DEF Shared, Chain
    <3>3. ny[f[i + 1]] = nx[f[i + 1]]
      BY <1>1, <1>4, <1>6, <3>1
    <3>4. QED
      BY <1>6, <3>1, <3>2, <3>3
  <2>4. QED
    BY <2>1, <2>2, <2>3 DEF Chain
<1>8. \A i \in 1 .. n + 1, j \in 1 .. m - 1 : g[i] # e[j]
  BY <1>1, <1>6 DEF Shared
<1>9. ASSUME NEW c \in Cell
      PROVE  (\E i \in 1 .. n + 1 : g[i] = c) \/ (\E j \in 1 .. m - 1 : e[j] = c)
  <2>1. CASE \E i \in 1 .. n : s[i] = c
    BY <1>1, <2>1
  <2>2. ASSUME NEW j \in 1 .. m, f[j] = c
        PROVE  (\E i \in 1 .. n + 1 : g[i] = c) \/ (\E k \in 1 .. m - 1 : e[k] = c)
    <3>1. CASE j = 1
      <4>1. n + 1 \in 1 .. n + 1 /\ g[n + 1] = fr
        BY <1>1
      <4>2. QED
        BY <1>2, <2>2, <3>1, <4>1
    <3>2. CASE j # 1
      <4>1. j - 1 \in 1 .. m - 1 /\ (j - 1) + 1 = j
        BY <1>1, <3>2
      <4>2. e[j - 1] = c
        BY <1>6, <2>2, <4>1
      <4>3. QED
        BY <4>1, <4>2
    <3>3. QED
      BY <3>1, <3>2
  <2>3. QED
    BY <2>1, <2>2 DEF Shared
<1>10. (IF n = 0 THEN fr ELSE h) = First(n + 1, g) /\ fr = Final(n + 1, g)
  BY <1>1 DEF Shared, First, Final
<1>11. nx[fr] = First(m - 1, e)
  <2>1. CASE m = 1
    BY <1>1, <1>2, <2>1 DEF Shared, First
  <2>2. CASE m > 1
    <3>1. nx[f[1]] = f[1 + 1]
      BY <1>1, <2>2 DEF Shared, Chain
    <3>2. QED
      BY <1>1, <1>2, <1>6, <2>2, <3>1 DEF First
  <2>3. QED
    BY <1>1, <1>2, <2>1, <2>2
<1>12. m - 1 > 0 => ny[e[m - 1]] = Nil
  <2> SUFFICES ASSUME m - 1 > 0 PROVE ny[e[m - 1]] = Nil
    OBVIOUS
  <2>1. m - 1 \in 1 .. m - 1 /\ (m - 1) + 1 = m
    BY <1>1
  <2>2. e[m - 1] = f[m] /\ f[m] # fr /\ f[m] # t /\ f[m] \in Cell
    BY <1>1, <1>6, <2>1
  <2>3. nx[f[m]] = Nil
    BY <1>1 DEF Shared
  <2>4. QED
    BY <1>4, <2>2, <2>3
<1> HIDE DEF g, e, WithLast, ButFirst
<1>13. hy = First(n + 1, g) /\ ty = Final(n + 1, g) /\ fy = First(m - 1, e)
  BY <1>10, <1>11
<1>14. Shared(ny, n + 1, g, m - 1, e, hy, ty, fy)
  BY <1>1, <1>2, <1>4, <1>5, <1>7, <1>8, <1>9, <1>12, <1>13 DEF Shared
<1>15. QED
  BY <1>14 DEF g, e, WithLast, ButFirst

\* alloc(), and the new cell becomes the first one.
LEMMA TookFirst ==
    ASSUME NEW nx, NEW n, NEW s, NEW m, NEW f, NEW h, NEW t, NEW fr, NEW ny,
           Shared(nx, n, s, m, f, h, t, fr), fr # Nil,
           ny = [nx EXCEPT ![fr] = h],
           NEW hy, hy = fr, NEW ty, ty = IF n = 0 THEN fr ELSE t, NEW fy, fy = nx[fr]
    PROVE  Shared(ny, n + 1, WithFirst(n, s, fr), m - 1, ButFirst(m, f), hy, ty, fy)
<1> DEFINE g == [i \in 1 .. n + 1 |-> IF i = 1 THEN fr ELSE s[i - 1]]
           e == [i \in 1 .. m - 1 |-> f[i + 1]]
<1>1. /\ n \in Nat /\ m \in Nat
      /\ s \in [1 .. n -> Cell] /\ f \in [1 .. m -> Cell]
      /\ nx \in [Cell -> Cell \cup {Nil}]
  BY DEF Shared, Chain
<1>2. m > 0 /\ fr = f[1] /\ fr \in Cell /\ \A i \in 1 .. n : s[i] # fr
  BY <1>1 DEF Shared, First
<1>3. h \in Cell \cup {Nil} /\ (n > 0 => h = s[1])
  BY <1>1 DEF Shared, First
<1>4. /\ ny \in [Cell -> Cell \cup {Nil}] /\ ny[fr] = h
      /\ \A c \in Cell : c # fr => ny[c] = nx[c]
  BY <1>1, <1>2, <1>3
<1>5. Chain(ny, n + 1, g)
  <2>1. g \in [1 .. n + 1 -> Cell]
    BY <1>1, <1>2
  <2>2. ASSUME NEW i \in 1 .. n + 1, NEW j \in 1 .. n + 1, g[i] = g[j] PROVE i = j
    BY <1>1, <1>2, <2>2 DEF Shared, Chain
  <2>3. ASSUME NEW i \in 1 .. (n + 1) - 1 PROVE ny[g[i]] = g[i + 1]
    <3>1. CASE i = 1
      BY <1>1, <1>3, <1>4, <2>3, <3>1
    <3>2. CASE i > 1
      <4>1. i - 1 \in 1 .. n - 1 /\ (i - 1) + 1 = i /\ i - 1 \in 1 .. n
        BY <1>1, <2>3, <3>2
      <4>2. nx[s[i - 1]] = s[i] /\ s[i - 1] \in Cell /\ s[i - 1] # fr
        BY <1>1, <1>2, <4>1 DEF Shared, Chain
      <4>3. g[i] = s[i - 1] /\ g[i + 1] = s[i]
        BY <1>1, <2>3, <3>2
      <4>4. QED
        BY <1>4, <4>2, <4>3
    <3>3. QED
      BY <1>1, <3>1, <3>2
  <2>4. QED
    BY <2>1, <2>2, <2>3 DEF Chain
<1>6. \A i \in 1 .. m - 1 : i + 1 \in 1 .. m /\ e[i] = f[i + 1] /\ f[i + 1] # fr
  <2> SUFFICES ASSUME NEW i \in 1 .. m - 1
               PROVE  i + 1 \in 1 .. m /\ e[i] = f[i + 1] /\ f[i + 1] # fr
    OBVIOUS
  <2>1. i + 1 \in 1 .. m /\ e[i] = f[i + 1] /\ f[i + 1] \in Cell /\ 1 \in 1 .. m
    BY <1>1
  <2>2. f[i + 1] # fr
    BY <1>1, <1>2, <2>1 DEF Shared, Chain
  <2>4. QED
    BY <2>1, <2>2
<1>7. Chain(ny, m - 1, e)
  <2>1. e \in [1 .. m - 1 -> Cell]
    BY <1>1, <1>6
  <2>2. ASSUME NEW i \in 1 .. m - 1, NEW j \in 1 .. m - 1, e[i] = e[j] PROVE i = j
    BY <1>1, <1>6, <2>2 DEF Shared, Chain
  <2>3. ASSUME NEW i \in 1 .. (m - 1) - 1 PROVE ny[e[i]] = e[i + 1]
    <3>1. i \in 1 .. m - 1 /\ i + 1 \in 1 .. m - 1
      BY <1>1
    <3>2. nx[f[i + 1]] = f[(i + 1) + 1]
      BY <1>1, <3>1 DEF Shared, Chain
    <3>3. ny[f[i + 1]] = nx[f[i + 1]]
      BY <1>1, <1>4, <1>6, <3>1
    <3>4. QED
      BY <1>6, <3>1, <3>2, <3>3
  <2>4. QED
    BY <2>1, <2>2, <2>3 DEF Chain
<1>8. \A i \in 1 .. n + 1, j \in 1 .. m - 1 : g[i] # e[j]
  BY <1>1, <1>6 DEF Shared
<1>9. ASSUME NEW c \in Cell
      PROVE  (\E i \in 1 .. n + 1 : g[i] = c) \/ (\E j \in 1 .. m - 1 : e[j] = c)
  <2>1. ASSUME NEW i \in 1 .. n, s[i] = c
        PROVE  \E k \in 1 .. n + 1 : g[k] = c
    <3>1. i + 1 \in 1 .. n + 1 /\ g[i + 1] = s[i]
      BY <1>1
    <3>2. QED
      BY <2>1, <3>1
  <2>2. ASSUME NEW j \in 1 .. m, f[j] = c
        PROVE  (\E i \in 1 .. n + 1 : g[i] = c) \/ (\E k \in 1 .. m - 1 : e[k] = c)
    <3>1. CASE j = 1
      <4>1. 1 \in 1 .. n + 1 /\ g[1] = fr
        BY <1>1
      <4>2. QED
        BY <1>2, <2>2, <3>1, <4>1
    <3>2. CASE j # 1
      <4>1. j - 1 \in 1 .. m - 1 /\ (j - 1) + 1 = j
        BY <1>1, <3>2
      <4>2. e[j - 1] = c
        BY <1>6, <2>2, <4>1
      <4>3. QED
        BY <4>1, <4>2
    <3>3. QED
      BY <3>1, <3>2
  <2>3. QED
    BY <2>1, <2>2 DEF Shared
<1>10. fr = First(n + 1, g) /\ (IF n = 0 THEN fr ELSE t) = Final(n + 1, g)
  BY <1>1 DEF Shared, First, Final
<1>11. nx[fr] = First(m - 1, e)
  <2>1. CASE m = 1
    BY <1>1, <1>2, <2>1 DEF Shared, First
  <2>2. CASE m > 1
    <3>1. nx[f[1]] = f[1 + 1]
      BY <1>1, <2>2 DEF Shared, Chain
    <3>2. QED
      BY <1>1, <1>2, <1>6, <2>2, <3>1 DEF First
  <2>3. QED
    BY <1>1, <1>2, <2>1, <2>2
<1>12. m - 1 > 0 => ny[e[m - 1]] = Nil
  <2> SUFFICES ASSUME m - 1 > 0 PROVE ny[e[m - 1]] = Nil
    OBVIOUS
  <2>1. m - 1 \in 1 .. m - 1 /\ (m - 1) + 1 = m
    BY <1>1
  <2>2. e[m - 1] = f[m] /\ f[m] # fr /\ f[m] \in Cell
    BY <1>1, <1>6, <2>1
  <2>3. nx[f[m]] = Nil
    BY <1>1 DEF Shared
  <2>4. QED
    BY <1>4, <2>2, <2>3
<1> HIDE DEF g, e, WithFirst, ButFirst
<1>13. hy = First(n + 1, g) /\ ty = Final(n + 1, g) /\ fy = First(m - 1, e)
  BY <1>10, <1>11
<1>14. Shared(ny, n + 1, g, m - 1, e, hy, ty, fy)
  BY <1>1, <1>2, <1>4, <1>5, <1>7, <1>8, <1>9, <1>12, <1>13 DEF Shared
<1>15. QED
  BY <1>14 DEF g, e, WithFirst, ButFirst

\* free() of the last cell, whose predecessor gets some link.
LEMMA GaveLast ==
    ASSUME NEW nx, NEW n, NEW s, NEW m, NEW f, NEW h, NEW t, NEW fr, NEW ny,
           Shared(nx, n, s, m, f, h, t, fr), n > 0,
           ny \in [Cell -> Cell \cup {Nil}], ny[t] = fr,
           \A c \in Cell : c # t /\ (n > 1 => c # s[n - 1]) => ny[c] = nx[c],
           NEW hy, hy = IF n = 1 THEN Nil ELSE h,
           NEW ty, ty = IF n = 1 THEN Nil ELSE s[n - 1], NEW fy, fy = t
    PROVE  Shared(ny, n - 1, ButLast(n, s), m + 1, WithFirst(m, f, t), hy, ty, fy)
<1> DEFINE g == [i \in 1 .. n - 1 |-> s[i]]
           e == [i \in 1 .. m + 1 |-> IF i = 1 THEN t ELSE f[i - 1]]
<1>1. /\ n \in Nat /\ m \in Nat
      /\ s \in [1 .. n -> Cell] /\ f \in [1 .. m -> Cell]
      /\ nx \in [Cell -> Cell \cup {Nil}]
  BY DEF Shared, Chain
<1>2. t = s[n] /\ t \in Cell /\ n \in 1 .. n
  BY <1>1 DEF Shared, Final
<1>3. \A j \in 1 .. m : f[j] \in Cell /\ f[j] # t /\ ny[f[j]] = nx[f[j]]
  <2> SUFFICES ASSUME NEW j \in 1 .. m
               PROVE  f[j] \in Cell /\ f[j] # t /\ ny[f[j]] = nx[f[j]]
    OBVIOUS
  <2>1. f[j] \in Cell /\ f[j] # t /\ (n > 1 => f[j] # s[n - 1])
    BY <1>1, <1>2 DEF Shared
  <2>2. QED
    BY <2>1
<1>4. \A j \in 1 .. m : j + 1 \in 1 .. m + 1 /\ e[j + 1] = f[j]
  BY <1>1
<1>5. \A i \in 1 .. n - 1 : i \in 1 .. n /\ g[i] = s[i] /\ s[i] # t
  BY <1>1, <1>2 DEF Shared, Chain
<1>6. Chain(ny, n - 1, g)
  <2>1. g \in [1 .. n - 1 -> Cell]
    BY <1>1, <1>5
  <2>2. ASSUME NEW i \in 1 .. n - 1, NEW j \in 1 .. n - 1, g[i] = g[j] PROVE i = j
    BY <1>1, <1>5, <2>2 DEF Shared, Chain
  <2>3. ASSUME NEW i \in 1 .. (n - 1) - 1 PROVE ny[g[i]] = g[i + 1]
    <3>1. i \in 1 .. n - 1 /\ i + 1 \in 1 .. n - 1 /\ n - 1 \in 1 .. n /\ i # n - 1
      BY <1>1
    <3>2. s[i] # s[n - 1]
      BY <1>1, <1>5, <3>1 DEF Shared, Chain
    <3>3. nx[s[i]] = s[i + 1] /\ s[i] \in Cell
      BY <1>1, <1>5, <3>1 DEF Shared, Chain
    <3>4. ny[s[i]] = nx[s[i]]
      BY <1>5, <3>1, <3>2, <3>3
    <3>5. QED
      BY <1>5, <3>1, <3>3, <3>4
  <2>4. QED
    BY <2>1, <2>2, <2>3 DEF Chain
<1>7. Chain(ny, m + 1, e)
  <2>1. e \in [1 .. m + 1 -> Cell]
    BY <1>1, <1>2
  <2>2. ASSUME NEW i \in 1 .. m + 1, NEW j \in 1 .. m + 1, e[i] = e[j] PROVE i = j
    BY <1>1, <1>3, <2>2 DEF Shared, Chain
  <2>3. ASSUME NEW i \in 1 .. (m + 1) - 1 PROVE ny[e[i]] = e[i + 1]
    <3>1. CASE i = 1
      BY <1>1, <1>4, <2>3, <3>1 DEF Shared, First
    <3>2. CASE i > 1
      <4>1. i - 1 \in 1 .. m - 1 /\ i - 1 \in 1 .. m /\ (i - 1) + 1 = i /\ i \in 1 .. m
        BY <1>1, <2>3, <3>2
      <4>2. nx[f[i - 1]] = f[i]
        BY <1>1, <4>1 DEF Shared, Chain
      <4>3. QED
        BY <1>3, <1>4, <4>1, <4>2
    <3>3. QED
      BY <1>1, <3>1, <3>2
  <2>4. QED
    BY <2>1, <2>2, <2>3 DEF Chain
<1>8. \A i \in 1 .. n - 1, j \in 1 .. m + 1 : g[i] # e[j]
  BY <1>1, <1>5 DEF Shared
<1>9. ASSUME NEW c \in Cell
      PROVE  (\E i \in 1 .. n - 1 : g[i] = c) \/ (\E j \in 1 .. m + 1 : e[j] = c)
  <2>1. ASSUME NEW i \in 1 .. n, s[i] = c
        PROVE  (\E k \in 1 .. n - 1 : g[k] = c) \/ (\E j \in 1 .. m + 1 : e[j] = c)
    <3>1. CASE i = n
      <4>1. 1 \in 1 .. m + 1 /\ e[1] = t
        BY <1>1
      <4>2. QED
        BY <1>2, <2>1, <3>1, <4>1
    <3>2. CASE i # n
      <4>1. i \in 1 .. n - 1
        BY <1>1, <3>2
      <4>2. QED
        BY <1>5, <2>1, <4>1
    <3>3. QED
      BY <3>1, <3>2
  <2>2. ASSUME NEW j \in 1 .. m, f[j] = c
        PROVE  \E k \in 1 .. m + 1 : e[k] = c
    BY <1>4, <2>2
  <2>3. QED
    BY <2>1, <2>2 DEF Shared
<1>10. /\ (IF n = 1 THEN Nil ELSE h) = First(n - 1, g)
       /\ (IF n = 1 THEN Nil ELSE s[n - 1]) = Final(n - 1, g)
       /\ t = First(m + 1, e)
  BY <1>1 DEF Shared, First, Final
<1>11. ny[e[m + 1]] = Nil
  <2>1. CASE m = 0
    BY <1>1, <2>1 DEF Shared, First
  <2>2. CASE m > 0
    BY <1>1, <1>3, <1>4, <2>2 DEF Shared
  <2>3. QED
    BY <1>1, <2>1, <2>2
<1> HIDE DEF g, e, ButLast, WithFirst
<1>12. hy = First(n - 1, g) /\ ty = Final(n - 1, g) /\ fy = First(m + 1, e)
  BY <1>10
<1>13. Shared(ny, n - 1, g, m + 1, e, hy, ty, fy)
  BY <1>1, <1>6, <1>7, <1>8, <1>9, <1>11, <1>12 DEF Shared
<1>14. QED
  BY <1>13 DEF g, e, ButLast, WithFirst

\* free() of the first cell.
LEMMA GaveFirst ==
    ASSUME NEW nx, NEW n, NEW s, NEW m, NEW f, NEW h, NEW t, NEW fr, NEW ny,
           Shared(nx, n, s, m, f, h, t, fr), n > 0,
           ny = [nx EXCEPT ![h] = fr],
           NEW hy, hy = IF n = 1 THEN Nil ELSE s[2],
           NEW ty, ty = IF n = 1 THEN Nil ELSE t, NEW fy, fy = h
    PROVE  Shared(ny, n - 1, ButFirst(n, s), m + 1, WithFirst(m, f, h), hy, ty, fy)
<1> DEFINE g == [i \in 1 .. n - 1 |-> s[i + 1]]
           e == [i \in 1 .. m + 1 |-> IF i = 1 THEN h ELSE f[i - 1]]
<1>1. /\ n \in Nat /\ m \in Nat
      /\ s \in [1 .. n -> Cell] /\ f \in [1 .. m -> Cell]
      /\ nx \in [Cell -> Cell \cup {Nil}]
  BY DEF Shared, Chain
<1>2. h = s[1] /\ h \in Cell /\ 1 \in 1 .. n
  BY <1>1 DEF Shared, First
<1>a. fr \in Cell \cup {Nil}
  BY <1>1 DEF Shared, First
<1>b. ny \in [Cell -> Cell \cup {Nil}] /\ ny[h] = fr /\ \A c \in Cell : c # h => ny[c] = nx[c]
  BY <1>1, <1>2, <1>a
<1>3. \A j \in 1 .. m : f[j] \in Cell /\ f[j] # h /\ ny[f[j]] = nx[f[j]]
  BY <1>1, <1>2, <1>b DEF Shared
<1>4. \A j \in 1 .. m : j + 1 \in 1 .. m + 1 /\ e[j + 1] = f[j]
  BY <1>1
<1>5. \A i \in 1 .. n - 1 : i + 1 \in 1 .. n /\ g[i] = s[i + 1] /\ s[i + 1] # h /\ s[i + 1] \in Cell
  BY <1>1, <1>2 DEF Shared, Chain
<1>6. Chain(ny, n - 1, g)
  <2>1. g \in [1 .. n - 1 -> Cell]
    BY <1>1, <1>5
  <2>2. ASSUME NEW i \in 1 .. n - 1, NEW j \in 1 .. n - 1, g[i] = g[j] PROVE i = j
    <3>1. i + 1 = j + 1
      BY <1>5, <2>2 DEF Shared, Chain
    <3>2. QED
      BY <3>1
  <2>3. ASSUME NEW i \in 1 .. (n - 1) - 1 PROVE ny[g[i]] = g[i + 1]
    <3>1. i \in 1 .. n - 1 /\ i + 1 \in 1 .. n - 1
      BY <1>1
    <3>3. nx[s[i + 1]] = s[(i + 1) + 1]
      BY <1>1, <3>1 DEF Shared, Chain
    <3>5. QED
      BY <1>5, <1>b, <3>1, <3>3
  <2>4. QED
    BY <2>1, <2>2, <2>3 DEF Chain
<1>7. Chain(ny, m + 1, e)
  <2>1. e \in [1 .. m + 1 -> Cell]
    BY <1>1, <1>2
  <2>2. ASSUME NEW i \in 1 .. m + 1, NEW j \in 1 .. m + 1, e[i] = e[j] PROVE i = j
    BY <1>1, <1>3, <2>2 DEF Shared, Chain
  <2>3. ASSUME NEW i \in 1 .. (m + 1) - 1 PROVE ny[e[i]] = e[i + 1]
    <3>1. CASE i = 1
      BY <1>1, <1>4, <1>b, <2>3, <3>1 DEF Shared, First
    <3>2. CASE i > 1
      <4>1. i - 1 \in 1 .. m - 1 /\ i - 1 \in 1 .. m /\ (i - 1) + 1 = i /\ i \in 1 .. m
        BY <1>1, <2>3, <3>2
      <4>2. nx[f[i - 1]] = f[i]
        BY <1>1, <4>1 DEF Shared, Chain
      <4>3. QED
        BY <1>3, <1>4, <4>1, <4>2
    <3>3. QED
      BY <1>1, <3>1, <3>2
  <2>4. QED
    BY <2>1, <2>2, <2>3 DEF Chain
<1>8. \A i \in 1 .. n - 1, j \in 1 .. m + 1 : g[i] # e[j]
  BY <1>1, <1>5 DEF Shared
<1>9. ASSUME NEW c \in Cell
      PROVE  (\E i \in 1 .. n - 1 : g[i] = c) \/ (\E j \in 1 .. m + 1 : e[j] = c)
  <2>1. ASSUME NEW i \in 1 .. n, s[i] = c
        PROVE  (\E k \in 1 .. n - 1 : g[k] = c) \/ (\E j \in 1 .. m + 1 : e[j] = c)
    <3>1. CASE i = 1
      <4>1. 1 \in 1 .. m + 1 /\ e[1] = h
        BY <1>1
      <4>2. QED
        BY <1>2, <2>1, <3>1, <4>1
    <3>2. CASE i # 1
      <4>1. i - 1 \in 1 .. n - 1 /\ (i - 1) + 1 = i
        BY <1>1, <3>2
      <4>2. g[i - 1] = c
        BY <1>5, <2>1, <4>1
      <4>3. QED
        BY <4>1, <4>2
    <3>3. QED
      BY <3>1, <3>2
  <2>2. ASSUME NEW j \in 1 .. m, f[j] = c
        PROVE  \E k \in 1 .. m + 1 : e[k] = c
    BY <1>4, <2>2
  <2>3. QED
    BY <2>1, <2>2 DEF Shared
<1>10. /\ (IF n = 1 THEN Nil ELSE s[2]) = First(n - 1, g)
       /\ (IF n = 1 THEN Nil ELSE t) = Final(n - 1, g)
       /\ h = First(m + 1, e)
  BY <1>1 DEF Shared, First, Final
<1>11. ny[e[m + 1]] = Nil
  <2>1. CASE m = 0
    BY <1>1, <1>b, <2>1 DEF Shared, First
  <2>2. CASE m > 0
    BY <1>1, <1>3, <1>4, <2>2 DEF Shared
  <2>3. QED
    BY <1>1, <2>1, <2>2
<1>12. hy = First(n - 1, g) /\ ty = Final(n - 1, g) /\ fy = First(m + 1, e)
  BY <1>10
<1> HIDE DEF g, e, ButFirst, WithFirst
<1>13. Shared(ny, n - 1, g, m + 1, e, hy, ty, fy)
  BY <1>1, <1>b, <1>6, <1>7, <1>8, <1>9, <1>11, <1>12 DEF Shared
<1>14. QED
  BY <1>13 DEF g, e, ButFirst, WithFirst

\* clear(): all cells go in front of the free ones.
LEMMA GaveAll ==
    ASSUME NEW nx, NEW n, NEW s, NEW m, NEW f, NEW h, NEW t, NEW fr, NEW ny,
           Shared(nx, n, s, m, f, h, t, fr), n > 0,
           ny = [nx EXCEPT ![t] = fr],
           NEW hy, hy = Nil, NEW ty, ty = Nil, NEW fy, fy = h
    PROVE  Shared(ny, 0, NoCells, n + m, InARow(n, s, m, f), hy, ty, fy)
<1> DEFINE g == [i \in 1 .. 0 |-> Nil]
           e == [i \in 1 .. n + m |-> IF i <= n THEN s[i] ELSE f[i - n]]
<1>1. /\ n \in Nat /\ m \in Nat
      /\ s \in [1 .. n -> Cell] /\ f \in [1 .. m -> Cell]
      /\ nx \in [Cell -> Cell \cup {Nil}]
  BY DEF Shared, Chain
<1>2. t = s[n] /\ t \in Cell /\ n \in 1 .. n /\ fr \in Cell \cup {Nil}
  BY <1>1 DEF Shared, Final, First
<1>3. ny \in [Cell -> Cell \cup {Nil}] /\ ny[t] = fr /\ \A c \in Cell : c # t => ny[c] = nx[c]
  BY <1>1, <1>2
<1>4. \A j \in 1 .. m : j + n \in 1 .. n + m /\ e[j + n] = f[j] /\ f[j] # t /\ ny[f[j]] = nx[f[j]]
  BY <1>1, <1>2, <1>3 DEF Shared
<1>5. \A i \in 1 .. n : i \in 1 .. n + m /\ e[i] = s[i]
  BY <1>1
<1>6. Chain(ny, 0, g)
  BY DEF Chain
<1>7. Chain(ny, n + m, e)
  <2>1. e \in [1 .. n + m -> Cell]
    BY <1>1
  <2>2. ASSUME NEW i \in 1 .. n + m, NEW j \in 1 .. n + m, e[i] = e[j] PROVE i = j
    BY <1>1, <2>2 DEF Shared, Chain
  <2>3. ASSUME NEW i \in 1 .. (n + m) - 1 PROVE ny[e[i]] = e[i + 1]
    <3>1. CASE i < n
      <4>1. s[i] # s[n] /\ s[i] \in Cell /\ nx[s[i]] = s[i + 1]
        BY <1>1, <1>2, <2>3, <3>1 DEF Shared, Chain
      <4>2. e[i] = s[i] /\ e[i + 1] = s[i + 1]
        BY <1>1, <2>3, <3>1
      <4>3. QED
        BY <1>2, <1>3, <4>1, <4>2
    <3>2. CASE i = n
      <4>1. e[i] = t /\ e[i + 1] = f[1] /\ m > 0
        BY <1>1, <1>2, <1>4, <2>3, <3>2
      <4>2. QED
        BY <1>3, <4>1 DEF Shared, First
    <3>3. CASE i > n
      <4>1. i - n \in 1 .. m - 1 /\ i - n \in 1 .. m /\ (i - n) + 1 \in 1 .. m
        BY <1>1, <2>3, <3>3
      <4>2. nx[f[i - n]] = f[(i - n) + 1]
        BY <1>1, <4>1 DEF Shared, Chain
      <4>3. e[i] = f[i - n] /\ e[i + 1] = f[(i - n) + 1]
        BY <1>1, <2>3, <3>3
      <4>4. QED
        BY <1>4, <4>1, <4>2, <4>3
    <3>4. QED
      BY <1>1, <3>1, <3>2, <3>3
  <2>4. QED
    BY <2>1, <2>2, <2>3 DEF Chain
<1>8. ASSUME NEW c \in Cell PROVE \E j \in 1 .. n + m : e[j] = c
  <2> HIDE DEF e
  <2>1. (\E i \in 1 .. n : s[i] = c) \/ (\E j \in 1 .. m : f[j] = c)
    BY DEF Shared
  <2>2. QED
    BY <1>4, <1>5, <2>1
<1>9. Nil = First(0, g) /\ Nil = Final(0, g) /\ h = First(n + m, e)
  BY <1>1 DEF Shared, First, Final
<1>10. ny[e[n + m]] = Nil
  <2>1. CASE m = 0
    BY <1>1, <1>2, <1>3, <2>1 DEF Shared, First
  <2>2. CASE m > 0
    BY <1>1, <1>4, <2>2 DEF Shared
  <2>3. QED
    BY <1>1, <2>1, <2>2
<1> HIDE DEF g, e, NoCells, InARow
<1>11. n + m \in Nat /\ 0 \in Nat
  BY <1>1
<1>12. Shared(ny, 0, g, n + m, e, hy, ty, fy)
  BY <1>3, <1>6, <1>7, <1>8, <1>9, <1>10, <1>11 DEF Shared
<1>13. QED
  BY <1>12 DEF g, e, NoCells, InARow

-----------------------------------------------------------------------------
(* The walk of size() along the links, for at most n steps.                *)

IsWalk(z, n, first, nx, at) ==
    at = [i \in 0 .. n |-> IF i = 0 THEN first
                           ELSE IF at[i - 1] = z THEN z ELSE nx[at[i - 1]]]

LEMMA WalkExists ==
    ASSUME NEW z, NEW first, NEW nx, NEW n \in Nat
    PROVE  \E at : IsWalk(z, n, first, nx, at)
<1> DEFINE bad == {m \in Nat : ~\E at : IsWalk(z, m, first, nx, at)}
<1>1. SUFFICES ASSUME bad # {} PROVE FALSE
  OBVIOUS
<1>2. PICK m \in bad : \A k \in bad : m <= k
  BY <1>1, LeastExists
<1>3. CASE m = 0
  <2>1. IsWalk(z, 0, first, nx, [i \in 0 .. 0 |-> first])
    BY DEF IsWalk
  <2>2. QED
    BY <1>3, <2>1
<1>4. CASE m # 0
  <2>1. m \in Nat /\ m - 1 \in Nat /\ m - 1 \notin bad
    BY <1>2, <1>4
  <2>2. PICK g : IsWalk(z, m - 1, first, nx, g)
    BY <2>1
  <2> DEFINE last == IF g[m - 1] = z THEN z ELSE nx[g[m - 1]]
             h == [i \in 0 .. m |-> IF i = m THEN last ELSE g[i]]
  <2> HIDE DEF last
  <2>3. \A i \in 0 .. m - 1 : h[i] = g[i]
    BY <2>1
  <2>4. ASSUME NEW i \in 0 .. m
        PROVE  h[i] = IF i = 0 THEN first ELSE IF h[i - 1] = z THEN z ELSE nx[h[i - 1]]
    <3>1. CASE i = 0
      BY <1>4, <2>1, <2>2, <2>3, <3>1 DEF IsWalk
    <3>2. CASE i = m
      <4>1. h[i] = last /\ h[i - 1] = g[m - 1]
        BY <2>1, <2>3, <3>2
      <4>2. QED
        BY <1>4, <3>2, <4>1 DEF last
    <3>3. CASE i # 0 /\ i # m
      <4>1. i \in 0 .. m - 1 /\ i - 1 \in 0 .. m - 1
        BY <2>1, <3>3
      <4>2. h[i] = g[i] /\ h[i - 1] = g[i - 1]
        BY <2>3, <4>1
      <4>3. g[i] = IF g[i - 1] = z THEN z ELSE nx[g[i - 1]]
        BY <2>2, <3>3, <4>1 DEF IsWalk
      <4>4. QED
        BY <3>3, <4>2, <4>3
    <3>4. QED
      BY <3>1, <3>2, <3>3
  <2>5. h = [i \in 0 .. m |-> h[i]]
    OBVIOUS
  <2> HIDE DEF h
  <2>6. IsWalk(z, m, first, nx, h)
    BY <2>4, <2>5 DEF IsWalk
  <2>7. QED
    BY <1>2, <2>6
<1>5. QED
  BY <1>3, <1>4


\* The walk passes the cells of a chain one by one.
LEMMA WalkFollows ==
    ASSUME NEW nx, NEW n \in Nat, NEW s, Chain(nx, n, s), n > 0, n <= N,
           NEW h, h = s[1], NEW z, z \notin Cell, NEW at, IsWalk(z, N, h, nx, at)
    PROVE  /\ \A i \in 1 .. n : at[i - 1] = s[i]
           /\ nx[s[n]] = z => \A i \in n .. N : at[i] = z
<1>0. N \in Nat
  BY NAssumption
<1>1. /\ at[0] = s[1]
      /\ \A i \in 1 .. N : at[i] = IF at[i - 1] = z THEN z ELSE nx[at[i - 1]]
  <2>2. at[0] = h
    BY <1>0 DEF IsWalk
  <2>3. \A i \in 1 .. N : at[i] = IF at[i - 1] = z THEN z ELSE nx[at[i - 1]]
    BY <1>0 DEF IsWalk
  <2>4. QED
    BY <2>2, <2>3
<1>2. s \in [1 .. n -> Cell] /\ z \notin Cell
  BY DEF Chain
<1>3. \A i \in 1 .. n : at[i - 1] = s[i]
  <2> DEFINE wrong == {i \in 1 .. n : at[i - 1] # s[i]}
  <2>1. SUFFICES ASSUME wrong # {} PROVE FALSE
    OBVIOUS
  <2>0. wrong \in SUBSET Nat
    OBVIOUS
  <2>2. PICK i \in wrong : \A j \in wrong : i <= j
    BY <2>0, <2>1, LeastExists
  <2>3. i # 1 /\ i \in 1 .. n
    BY <1>1, <2>2
  <2>4. i - 1 \in 1 .. n /\ i - 1 \notin wrong /\ i - 1 \in 1 .. n - 1 /\ i - 1 \in 1 .. N
    BY <2>2, <2>3, NAssumption
  <2>5. at[(i - 1) - 1] = s[i - 1] /\ nx[s[i - 1]] = s[(i - 1) + 1]
    BY <2>4 DEF Chain
  <2>6. at[i - 1] = nx[s[i - 1]]
    BY <1>1, <1>2, <2>4, <2>5
  <2>7. QED
    BY <2>2, <2>3, <2>5, <2>6
<1>4. ASSUME nx[s[n]] = z, NEW k \in n .. N PROVE at[k] = z
  <2> DEFINE wrong == {i \in n .. N : at[i] # z}
  <2>1. SUFFICES ASSUME wrong # {} PROVE FALSE
    OBVIOUS
  <2>0. wrong \in SUBSET Nat
    BY NAssumption
  <2>2. PICK i \in wrong : \A j \in wrong : i <= j
    BY <2>0, <2>1, LeastExists
  <2>3. i # n
    BY <1>1, <1>2, <1>3, <1>4, <2>2, NAssumption
  <2>4. i - 1 \in n .. N /\ i \in 1 .. N /\ i - 1 \notin wrong
    BY <2>2, <2>3, NAssumption
  <2>5. QED
    BY <1>1, <2>2, <2>4
<1>5. QED
  BY <1>3, <1>4

\* The steps to a cell, as size() counts them.
StepsTo(at, c) ==
    LET r == {i \in 0 .. N - 1 : at[i] = c} \cup {N}
    IN  CHOOSE x \in r : \A y \in r : x <= y

LEMMA StepsToEnd ==
    ASSUME NEW n \in Nat, n > 0, n <= N, NEW s, \A i, j \in 1 .. n : s[i] = s[j] => i = j,
           NEW at, \A i \in 1 .. n : at[i - 1] = s[i]
    PROVE  StepsTo(at, s[n]) = n - 1
<1> DEFINE r == {i \in 0 .. N - 1 : at[i] = s[n]} \cup {N}
<1>2. n - 1 \in r
  BY NAssumption
<1>3. ASSUME NEW y \in r, y < n - 1 PROVE FALSE
  <2>1. y + 1 \in 1 .. n /\ y \in 0 .. N - 1 /\ at[y] = s[n] /\ (y + 1) - 1 = y /\ n \in 1 .. n
    BY <1>3, NAssumption
  <2>2. s[y + 1] = s[n]
    BY <2>1
  <2>3. QED
    BY <1>3, <2>1, <2>2
<1>4. r \in SUBSET Int /\ n - 1 \in Int
  BY NAssumption
<1>5. \A y \in r : n - 1 <= y
  <2> HIDE DEF r
  <2>1. ASSUME NEW y \in r PROVE n - 1 <= y
    BY <1>3, <1>4
  <2>2. QED
    BY <2>1
<1> HIDE DEF r
<1>6. ASSUME NEW x \in r, \A y \in r : x <= y PROVE x = n - 1
  <2>1. x <= n - 1 /\ n - 1 <= x /\ x \in Int
    BY <1>2, <1>4, <1>5, <1>6
  <2>2. QED
    BY <1>4, <2>1
<1>7. \E x \in r : \A y \in r : x <= y
  BY <1>2, <1>5
<1>8. (CHOOSE x \in r : \A y \in r : x <= y) = n - 1
  BY <1>6, <1>7
<1>9. QED
  BY <1>8 DEF r, StepsTo

\* What a walk along the cells of a chain finds.
Passes(z, nx, n, s, at) ==
    /\ \A i \in 1 .. n : at[i - 1] = s[i]
    /\ nx[s[n]] = z => \A i \in n .. N : at[i] = z
    /\ StepsTo(at, s[n]) = n - 1

LEMMA WalkPasses ==
    ASSUME NEW nx, NEW n \in Nat, NEW s, Chain(nx, n, s), n > 0, n <= N,
           NEW h, h = s[1], NEW z, z \notin Cell, NEW at, IsWalk(z, N, h, nx, at)
    PROVE  Passes(z, nx, n, s, at)
<1>1. \A i \in 1 .. n : at[i - 1] = s[i]
  BY WalkFollows
<1>2. nx[s[n]] = z => \A i \in n .. N : at[i] = z
  BY WalkFollows
<1>3. StepsTo(at, s[n]) = n - 1
  BY <1>1, StepsToEnd DEF Chain
<1>4. QED
  BY <1>1, <1>2, <1>3 DEF Passes

\* A walk from nowhere stays there.
LEMMA WalkOfNil ==
    ASSUME NEW z, NEW nx, NEW n \in Nat, NEW at, IsWalk(z, n, z, nx, at)
    PROVE  \A i \in 0 .. n : at[i] = z
<1> DEFINE wrong == {i \in 0 .. n : at[i] # z}
<1>1. SUFFICES ASSUME wrong # {} PROVE FALSE
  OBVIOUS
<1>0. wrong \in SUBSET Nat
  OBVIOUS
<1>2. PICK i \in wrong : \A j \in wrong : i <= j
  BY <1>0, <1>1, LeastExists
<1>3. \A k \in 0 .. n : at[k] = IF k = 0 THEN z
                                ELSE IF at[k - 1] = z THEN z ELSE nx[at[k - 1]]
  BY DEF IsWalk
<1>4. i # 0 /\ i - 1 \in 0 .. n /\ i - 1 \notin wrong
  BY <1>2, <1>3
<1>5. at[i - 1] = z
  BY <1>4
<1>6. QED
  BY <1>2, <1>3, <1>4, <1>5

\* What the walks of a list module find: the steps from the head to the tail,
\* the cells of the list and the free cells.
Walked(nx, n, s, m, f, h, t, at, bt) ==
    /\ h = Nil <=> n = 0
    /\ n > 0 => \A i \in 1 .. n : at[i - 1] = s[i]
    /\ n > 0 => StepsTo(at, t) = n - 1
    /\ n > 0 /\ nx[t] = Nil => \A i \in n .. N : at[i] = Nil
    /\ {bt[i] : i \in 0 .. N} \ {Nil} = {f[j] : j \in 1 .. m}

LEMMA WalksOfShared ==
    ASSUME NEW nx, NEW n \in Nat, NEW s, NEW m \in Nat, NEW f, NEW h, NEW t, NEW fr,
           Shared(nx, n, s, m, f, h, t, fr),
           NEW at, IsWalk(Nil, N, h, nx, at), NEW bt, IsWalk(Nil, N, fr, nx, bt)
    PROVE  Walked(nx, n, s, m, f, h, t, at, bt)
<1>1. /\ n \in Nat /\ m \in Nat /\ N \in Nat
      /\ s \in [1 .. n -> Cell] /\ f \in [1 .. m -> Cell]
      /\ Nil \notin Cell
      /\ Chain(nx, n, s) /\ Chain(nx, m, f)
  BY NAssumption DEF Shared, Chain, Nil, Cell
<1>2. n <= N /\ m <= N
  BY <1>1, SharedCount
<1>3. h = Nil <=> n = 0
  BY <1>1 DEF Shared, First
<1>4. ASSUME n > 0
      PROVE  /\ \A i \in 1 .. n : at[i - 1] = s[i]
             /\ StepsTo(at, t) = n - 1
             /\ nx[t] = Nil => \A i \in n .. N : at[i] = Nil
  <2>1. h = s[1]
    BY <1>1, <1>4 DEF Shared, First
  <2>b. t = s[n]
    BY <1>1, <1>4 DEF Shared, Final
  <2>c. Chain(nx, n, s) /\ n > 0 /\ n <= N /\ Nil \notin Cell
    BY <1>1, <1>2, <1>4
  <2>2. Passes(Nil, nx, n, s, at)
    BY <2>c, <2>1, WalkPasses
  <2>4. QED
    BY <2>b, <2>2 DEF Passes
<1>5. {bt[i] : i \in 0 .. N} \ {Nil} = {f[j] : j \in 1 .. m}
  <2>1. CASE m = 0
    <3>1. fr = Nil
      BY <2>1 DEF Shared, First
    <3>a. IsWalk(Nil, N, Nil, nx, bt)
      BY <3>1
    <3>2. \A i \in 0 .. N : bt[i] = Nil
      BY NAssumption, <3>a, WalkOfNil
    <3>3. QED
      BY <2>1, <3>2
  <2>2. CASE m > 0
    <3>1. fr = f[1] /\ nx[f[m]] = Nil
      BY <1>1, <2>2 DEF Shared, First
    <3>2. \A i \in 1 .. m : bt[i - 1] = f[i]
      BY <1>1, <1>2, <2>2, <3>1, WalkFollows
    <3>3. \A i \in m .. N : bt[i] = Nil
      BY <1>1, <1>2, <2>2, <3>1, WalkFollows
    <3>4. ASSUME NEW i \in 0 .. N, bt[i] # Nil PROVE \E j \in 1 .. m : bt[i] = f[j]
      <4>1. i + 1 \in 1 .. m /\ (i + 1) - 1 = i
        BY <1>1, <1>2, <3>2, <3>3, <3>4
      <4>2. QED
        BY <3>2, <3>3, <4>1
    <3>5. ASSUME NEW j \in 1 .. m
          PROVE  f[j] # Nil /\ j - 1 \in 0 .. N /\ bt[j - 1] = f[j]
      BY <1>1, <1>2, <3>2, <3>3
    <3>6. QED
      BY <3>4, <3>5
  <2>3. m = 0 \/ m > 0
    BY <1>1
  <2>4. QED
    BY <2>1, <2>2, <2>3
<1>6. QED
  BY <1>3, <1>4, <1>5 DEF Walked

\* The last cell of the list says so.
Ended(nx, n, t) == n > 0 => nx[t] = Nil

\* The cells s hold the k items C.
Holds(it, n, s, k, C) ==
    n = k /\ it \in [Cell -> Item] /\ \A i \in 1 .. n : it[s[i]] = C[i]

LEMMA HoldsOneMoreLast ==
    ASSUME NEW n \in Nat, NEW s, NEW it, NEW k, NEW C, Holds(it, n, s, k, C),
           NEW c \in Cell, NEW x \in Item, NEW K, NEW E, AddsLast(k, C, x, K, E),
           s \in [1 .. n -> Cell], \A i \in 1 .. n : s[i] # c,
           NEW jt, jt = [it EXCEPT ![c] = x]
    PROVE  Holds(jt, n + 1, WithLast(n, s, c), K, E)
<1> DEFINE g == WithLast(n, s, c)
<1>1. \A i \in 1 .. n : s[i] \in Cell /\ s[i] # c /\ it[s[i]] = C[i] /\ g[i] = s[i]
  BY DEF Holds, WithLast
<1>2. g[n + 1] = c
  BY DEF WithLast
<1>3. it \in [Cell -> Item] /\ jt \in [Cell -> Item]
  BY DEF Holds
<1>4. K = n + 1 /\ \A i \in 1 .. n + 1 : E[i] = IF i = n + 1 THEN x ELSE C[i]
  BY DEF Holds, AddsLast
<1> HIDE DEF g
<1>5. ASSUME NEW i \in 1 .. n + 1 PROVE jt[g[i]] = E[i]
  <2>1. CASE i = n + 1
    BY <1>2, <1>3, <1>4, <2>1
  <2>2. CASE i # n + 1
    <3>1. i \in 1 .. n
      BY <2>2
    <3>2. QED
      BY <1>1, <1>3, <1>4, <2>2, <3>1
  <2>3. QED
    BY <2>1, <2>2
<1>6. Holds(jt, n + 1, g, K, E)
  BY <1>3, <1>4, <1>5 DEF Holds
<1>7. QED
  BY <1>6 DEF g

LEMMA HoldsOneMoreFirst ==
    ASSUME NEW n \in Nat, NEW s, NEW it, NEW k, NEW C, Holds(it, n, s, k, C),
           NEW c \in Cell, NEW x \in Item, NEW K, NEW E, AddsFirst(k, C, x, K, E),
           s \in [1 .. n -> Cell], \A i \in 1 .. n : s[i] # c,
           NEW jt, jt = [it EXCEPT ![c] = x]
    PROVE  Holds(jt, n + 1, WithFirst(n, s, c), K, E)
<1> DEFINE g == WithFirst(n, s, c)
<1>1. \A i \in 1 .. n : s[i] \in Cell /\ s[i] # c /\ it[s[i]] = C[i]
  BY DEF Holds
<1>2. g[1] = c /\ \A i \in 2 .. n + 1 : g[i] = s[i - 1]
  BY DEF WithFirst
<1>3. it \in [Cell -> Item] /\ jt \in [Cell -> Item]
  BY DEF Holds
<1>4. K = n + 1 /\ \A i \in 1 .. n + 1 : E[i] = IF i = 1 THEN x ELSE C[i - 1]
  BY DEF Holds, AddsFirst
<1> HIDE DEF g
<1>5. ASSUME NEW i \in 1 .. n + 1 PROVE jt[g[i]] = E[i]
  <2>1. CASE i = 1
    BY <1>2, <1>3, <1>4, <2>1
  <2>2. CASE i # 1
    <3>1. i - 1 \in 1 .. n /\ i \in 2 .. n + 1
      BY <2>2
    <3>2. QED
      BY <1>1, <1>2, <1>3, <1>4, <2>2, <3>1
  <2>3. QED
    BY <2>1, <2>2
<1>6. Holds(jt, n + 1, g, K, E)
  BY <1>3, <1>4, <1>5 DEF Holds
<1>7. QED
  BY <1>6 DEF g

LEMMA HoldsOneLess ==
    ASSUME NEW n \in Nat, NEW s, NEW it, NEW k, NEW C, Holds(it, n, s, k, C),
           NEW K, NEW E
    PROVE  /\ DropsLast(k, C, K, E) => Holds(it, n - 1, ButLast(n, s), K, E)
           /\ DropsFirst(k, C, K, E) => Holds(it, n - 1, ButFirst(n, s), K, E)
<1>1. n = k /\ it \in [Cell -> Item] /\ \A i \in 1 .. n : it[s[i]] = C[i]
  BY DEF Holds
<1>2. ASSUME DropsLast(k, C, K, E) PROVE Holds(it, n - 1, ButLast(n, s), K, E)
  <2>1. \A i \in 1 .. n - 1 : i \in 1 .. n /\ ButLast(n, s)[i] = s[i] /\ E[i] = C[i]
    BY <1>1, <1>2 DEF DropsLast, ButLast
  <2>2. QED
    BY <1>1, <1>2, <2>1 DEF Holds, DropsLast
<1>3. ASSUME DropsFirst(k, C, K, E) PROVE Holds(it, n - 1, ButFirst(n, s), K, E)
  <2>1. \A i \in 1 .. n - 1 :
          i + 1 \in 1 .. n /\ ButFirst(n, s)[i] = s[i + 1] /\ E[i] = C[i + 1]
    BY <1>1, <1>3 DEF DropsFirst, ButFirst
  <2>2. QED
    BY <1>1, <1>3, <2>1 DEF Holds, DropsFirst
<1>4. QED
  BY <1>2, <1>3

LEMMA HoldsWritten ==
    ASSUME NEW n \in Nat, NEW s, NEW it, NEW k, NEW C, Holds(it, n, s, k, C),
           NEW j \in 1 .. n, NEW x \in Item, NEW K, NEW E, Writes(k, C, j, x, K, E),
           s \in [1 .. n -> Cell], \A i, l \in 1 .. n : s[i] = s[l] => i = l,
           NEW jt, jt = [it EXCEPT ![s[j]] = x]
    PROVE  Holds(jt, n, s, K, E)
<1>1. n = k /\ it \in [Cell -> Item] /\ \A i \in 1 .. n : it[s[i]] = C[i]
  BY DEF Holds
<1>2. K = n /\ \A i \in 1 .. n : E[i] = IF i = j THEN x ELSE C[i]
  BY <1>1 DEF Writes
<1>3. jt \in [Cell -> Item]
  BY <1>1
<1>4. ASSUME NEW i \in 1 .. n PROVE jt[s[i]] = E[i]
  BY <1>1, <1>2
<1>5. Holds(jt, n, s, K, E)
  BY <1>2, <1>3, <1>4 DEF Holds
<1>6. QED
  BY <1>5

LEMMA SharedMeans ==
    ASSUME NEW nx, NEW n, NEW s, NEW m, NEW f, NEW h, NEW t, NEW fr,
           Shared(nx, n, s, m, f, h, t, fr)
    PROVE  /\ n \in Nat /\ m \in Nat
           /\ s \in [1 .. n -> Cell] /\ f \in [1 .. m -> Cell]
           /\ \A i, j \in 1 .. n : s[i] = s[j] => i = j
           /\ nx \in [Cell -> Cell \cup {Nil}]
           /\ Nil \notin Cell
           /\ h \in Cell \cup {Nil} /\ t \in Cell \cup {Nil} /\ fr \in Cell \cup {Nil}
           /\ h = Nil <=> n = 0
           /\ n > 0 => h = s[1] /\ t = s[n] /\ h \in Cell /\ t \in Cell
           /\ n = 0 => t = Nil
           /\ n > 1 => nx[h] = s[2] /\ s[2] \in Cell /\ s[n - 1] \in Cell /\ s[n - 1] # t
<1>1. /\ n \in Nat /\ m \in Nat
      /\ s \in [1 .. n -> Cell] /\ f \in [1 .. m -> Cell]
      /\ \A i, j \in 1 .. n : s[i] = s[j] => i = j
      /\ nx \in [Cell -> Cell \cup {Nil}]
      /\ Nil \notin Cell
  BY DEF Shared, Chain, Nil, Cell
<1>2. n > 0 => h = s[1] /\ t = s[n] /\ h \in Cell /\ t \in Cell
  BY <1>1 DEF Shared, First, Final
<1>3. n = 0 => h = Nil /\ t = Nil
  BY DEF Shared, First, Final
<1>4. fr \in Cell \cup {Nil}
  BY <1>1 DEF Shared, First
<1>5. n > 1 => nx[h] = s[2] /\ s[2] \in Cell /\ s[n - 1] \in Cell /\ s[n - 1] # t
  <2> SUFFICES ASSUME n > 1
               PROVE nx[h] = s[2] /\ s[2] \in Cell /\ s[n - 1] \in Cell /\ s[n - 1] # t
    OBVIOUS
  <2>1. 1 \in 1 .. n - 1 /\ 2 \in 1 .. n /\ n - 1 \in 1 .. n /\ n \in 1 .. n /\ n - 1 # n
    BY <1>1
  <2>2. nx[s[1]] = s[1 + 1]
    BY <2>1 DEF Shared, Chain
  <2>3. QED
    BY <1>1, <1>2, <2>1, <2>2
<1>6. QED
  BY <1>1, <1>2, <1>3, <1>4, <1>5

-----------------------------------------------------------------------------
(* mono::slist.                                                            *)

LEMMA SlistWalk ==
    ASSUME NEW n
    PROVE  IsWalk(Nil, N, n, sl_next, S!After(n))
<1>1. PICK g : IsWalk(Nil, N, n, sl_next, g)
  BY NAssumption, WalkExists
<1>2. S!After(n) = CHOOSE e : IsWalk(Nil, N, n, sl_next, e)
  BY DEF IsWalk, S!After, S!nil, Nil
<1>3. QED
  BY <1>1, <1>2

LEMMA SlistReads ==
    ASSUME NEW n \in Nat, NEW s, NEW m \in Nat, NEW f,
           Shared(sl_next, n, s, m, f, sl_head, sl_tail, sl_free_list)
    PROVE  /\ S!size = n
           /\ S!Nodes = s
           /\ S!empty <=> n = 0
           /\ S!Live = {s[i] : i \in 1 .. n}
           /\ S!Free = {f[j] : j \in 1 .. m}
<1> DEFINE at == S!After(sl_head)
           bt == S!After(sl_free_list)
<1>1. IsWalk(Nil, N, sl_head, sl_next, at) /\ IsWalk(Nil, N, sl_free_list, sl_next, bt)
  BY SlistWalk
<1> HIDE DEF at, bt
<1>3. Walked(sl_next, n, s, m, f, sl_head, sl_tail, at, bt)
  BY <1>1, WalksOfShared
<1>4. S!empty <=> n = 0
  BY <1>3 DEF Walked, S!empty, S!nil, Nil
<1>5. S!size = n
  <2>1. CASE n = 0
    BY <1>4, <2>1 DEF S!size
  <2>2. CASE n # 0
    <3> DEFINE r == {i \in 0 .. N - 1 : at[i] = sl_tail} \cup {N}
    <3>1. S!size = 1 + S!Min(r)
      BY <1>4, <2>2 DEF S!size, at
    <3>2. S!Min(r) = StepsTo(at, sl_tail)
      BY DEF S!Min, StepsTo
    <3> HIDE DEF r
    <3>3. S!Min(r) = n - 1
      BY <1>3, <2>2, <3>2 DEF Walked
    <3>4. QED
      BY <3>1, <3>3
  <2>3. QED
    BY <2>1, <2>2
<1>6. S!Nodes = s
  <2>1. s = [i \in 1 .. n |-> s[i]]
    BY DEF Shared, Chain
  <2>2. S!Nodes = [i \in 1 .. n |-> at[i - 1]]
    BY <1>5 DEF S!Nodes, at
  <2>3. \A i \in 1 .. n : at[i - 1] = s[i]
    BY <1>3 DEF Walked
  <2>4. QED
    BY <2>1, <2>2, <2>3
<1>7. S!Live = {s[i] : i \in 1 .. n}
  BY <1>5, <1>6 DEF S!Live
<1>8. S!Free = {f[j] : j \in 1 .. m}
  BY <1>3 DEF Walked, S!Free, S!nil, Nil, bt
<1>9. QED
  BY <1>4, <1>5, <1>6, <1>7, <1>8

SlistInv ==
    /\ sl_ret = ret
    /\ \E n, s, m, f :
         /\ Shared(sl_next, n, s, m, f, sl_head, sl_tail, sl_free_list)
         /\ Ended(sl_next, n, sl_tail)
         /\ Holds(sl_item, n, s, count, Contents)

\* find_prev(_tail) finds the cell before the last one.
LEMMA SlistFindsPrev ==
    ASSUME NEW n \in Nat, NEW s, NEW m \in Nat, NEW f,
           Shared(sl_next, n, s, m, f, sl_head, sl_tail, sl_free_list),
           Ended(sl_next, n, sl_tail), n > 0
    PROVE  S!find_prev = IF n = 1 THEN Nil ELSE s[n - 1]
<1> DEFINE g == S!After(sl_head)
           e == S!After(sl_free_list)
<1>1. IsWalk(Nil, N, sl_head, sl_next, g) /\ IsWalk(Nil, N, sl_free_list, sl_next, e)
  BY SlistWalk
<1>2. sl_next[sl_tail] = Nil
  BY DEF Ended
<1> HIDE DEF g, e
<1>3. Walked(sl_next, n, s, m, f, sl_head, sl_tail, g, e)
  BY <1>1, WalksOfShared
<1>4. /\ \A i \in 1 .. n : g[i - 1] = s[i]
      /\ \A i \in n .. N : g[i] = Nil
  BY <1>2, <1>3 DEF Walked
<1>5. /\ s \in [1 .. n -> Cell] /\ Nil \notin Cell /\ sl_tail = s[n]
      /\ \A i, j \in 1 .. n : s[i] = s[j] => i = j
  BY SharedMeans
<1>6. n + m = N /\ N \in Nat
  BY SharedCount, NAssumption
<1> DEFINE before == {i \in 0 .. N - 1 : g[i] # Nil /\ g[i + 1] = sl_tail}
<1>7. S!find_prev = IF before = {} THEN Nil ELSE g[S!Min(before)]
  BY DEF S!find_prev, S!nil, Nil, g
<1>8. ASSUME NEW i \in 0 .. N - 1 PROVE i \in before <=> i = n - 2 /\ n > 1
  <2>1. CASE i + 1 < n
    <3>1. i + 2 \in 1 .. n /\ i + 1 \in 1 .. n /\ (i + 2) - 1 = i + 1 /\ (i + 1) - 1 = i /\ n \in 1 .. n
      BY <2>1
    <3>2. g[i + 1] = s[i + 2] /\ g[i] = s[i + 1] /\ s[i + 1] # Nil
      BY <1>4, <1>5, <3>1
    <3>3. g[i + 1] = sl_tail <=> i + 2 = n
      BY <1>5, <3>1, <3>2
    <3>4. QED
      BY <2>1, <3>2, <3>3
  <2>2. CASE ~(i + 1 < n)
    <3>1. i + 1 \in n .. N
      BY <1>6, <2>2
    <3>2. g[i + 1] = Nil /\ sl_tail # Nil /\ i # n - 2
      BY <1>4, <1>5, <2>2, <3>1
    <3>3. QED
      BY <3>2
  <2>3. QED
    BY <2>1, <2>2
<1>9. CASE n = 1
  <2>1. before = {}
    BY <1>8, <1>9
  <2>2. QED
    BY <1>7, <1>9, <2>1
<1>10. CASE n # 1
  <2>1. n - 2 \in 0 .. N - 1
    BY <1>6, <1>10
  <2>2. before = {n - 2}
    BY <1>8, <1>10, <2>1
  <2>3. S!Min({n - 2}) = n - 2
    BY DEF S!Min
  <2>4. n - 1 \in 1 .. n /\ (n - 1) - 1 = n - 2
    BY <1>10
  <2>5. g[n - 2] = s[n - 1]
    BY <1>4, <2>4
  <2> HIDE DEF before
  <2>6. QED
    BY <1>7, <1>10, <2>2, <2>3, <2>5
<1>11. QED
  BY <1>9, <1>10

LEMMA SlistPushesBack ==
    ASSUME SlistInv, NEW x \in Item, S!push_back(x),
           AddsLast(count, Contents, x, count', Contents'), ret' = None
    PROVE  SlistInv'
<1>1. PICK n, s, m, f :
        /\ Shared(sl_next, n, s, m, f, sl_head, sl_tail, sl_free_list)
        /\ Ended(sl_next, n, sl_tail)
        /\ Holds(sl_item, n, s, count, Contents)
  BY DEF SlistInv
<1>2. /\ n \in Nat /\ m \in Nat
      /\ s \in [1 .. n -> Cell] /\ sl_next \in [Cell -> Cell \cup {Nil}]
      /\ n > 0 => sl_tail \in Cell /\ sl_tail = s[n]
      /\ sl_head = Nil <=> n = 0
  BY <1>1, SharedMeans
<1>3. /\ sl_free_list # Nil
      /\ sl_next' = IF n = 0 THEN [sl_next EXCEPT ![sl_free_list] = Nil]
                    ELSE [sl_next EXCEPT ![sl_free_list] = Nil, ![sl_tail] = sl_free_list]
      /\ sl_head' = IF n = 0 THEN sl_free_list ELSE sl_head
      /\ sl_tail' = sl_free_list
      /\ sl_free_list' = sl_next[sl_free_list]
      /\ sl_item' = [sl_item EXCEPT ![sl_free_list] = x]
      /\ sl_ret' = None
  BY <1>2 DEF S!push_back, S!PushFirst, S!Take, S!full, S!empty, S!nil, Nil
<1>4. sl_free_list \in Cell /\ \A i \in 1 .. n : s[i] # sl_free_list
  BY <1>1, <1>3, FreeCell
<1>5. Shared(sl_next', n + 1, WithLast(n, s, sl_free_list), m - 1, ButFirst(m, f),
             sl_head', sl_tail', sl_free_list')
  BY <1>1, <1>3, TookLast
<1>6. Ended(sl_next', n + 1, sl_tail')
  <2>1. CASE n = 0
    BY <1>2, <1>3, <1>4, <2>1 DEF Ended
  <2>2. CASE n # 0
    BY <1>2, <1>3, <1>4, <2>2 DEF Ended
  <2>3. QED
    BY <2>1, <2>2
<1>7. Holds(sl_item', n + 1, WithLast(n, s, sl_free_list), count', Contents')
  BY <1>1, <1>2, <1>3, <1>4, HoldsOneMoreLast
<1>8. QED
  BY <1>3, <1>5, <1>6, <1>7 DEF SlistInv

LEMMA SlistPushesFront ==
    ASSUME SlistInv, NEW x \in Item, S!push_front(x),
           AddsFirst(count, Contents, x, count', Contents'), ret' = None
    PROVE  SlistInv'
<1>1. PICK n, s, m, f :
        /\ Shared(sl_next, n, s, m, f, sl_head, sl_tail, sl_free_list)
        /\ Ended(sl_next, n, sl_tail)
        /\ Holds(sl_item, n, s, count, Contents)
  BY DEF SlistInv
<1>2. /\ n \in Nat /\ m \in Nat
      /\ s \in [1 .. n -> Cell] /\ sl_next \in [Cell -> Cell \cup {Nil}]
      /\ n > 0 => sl_tail \in Cell /\ sl_tail = s[n]
      /\ sl_head = Nil <=> n = 0
      /\ sl_head \in Cell \cup {Nil}
  BY <1>1, SharedMeans
<1>3. /\ sl_free_list # Nil
      /\ sl_next' = [sl_next EXCEPT ![sl_free_list] = sl_head]
      /\ sl_head' = sl_free_list
      /\ sl_tail' = IF n = 0 THEN sl_free_list ELSE sl_tail
      /\ sl_free_list' = sl_next[sl_free_list]
      /\ sl_item' = [sl_item EXCEPT ![sl_free_list] = x]
      /\ sl_ret' = None
  BY <1>2 DEF S!push_front, S!PushFirst, S!Take, S!full, S!empty, S!nil, Nil
<1>4. sl_free_list \in Cell /\ \A i \in 1 .. n : s[i] # sl_free_list
  BY <1>1, <1>3, FreeCell
<1>5. Shared(sl_next', n + 1, WithFirst(n, s, sl_free_list), m - 1, ButFirst(m, f),
             sl_head', sl_tail', sl_free_list')
  BY <1>1, <1>3, TookFirst
<1>6. Ended(sl_next', n + 1, sl_tail')
  <2>1. CASE n = 0
    BY <1>2, <1>3, <1>4, <2>1 DEF Ended
  <2>2. CASE n # 0
    BY <1>1, <1>2, <1>3, <1>4, <2>2 DEF Ended
  <2>3. QED
    BY <2>1, <2>2
<1>7. Holds(sl_item', n + 1, WithFirst(n, s, sl_free_list), count', Contents')
  BY <1>1, <1>2, <1>3, <1>4, HoldsOneMoreFirst
<1>8. QED
  BY <1>3, <1>5, <1>6, <1>7 DEF SlistInv

LEMMA SlistPopsBack ==
    ASSUME SlistInv, S!pop_back,
           DropsLast(count, Contents, count', Contents'), ret' = Contents[count]
    PROVE  SlistInv'
<1>1. PICK n, s, m, f :
        /\ Shared(sl_next, n, s, m, f, sl_head, sl_tail, sl_free_list)
        /\ Ended(sl_next, n, sl_tail)
        /\ Holds(sl_item, n, s, count, Contents)
  BY DEF SlistInv
<1>2. /\ n \in Nat /\ m \in Nat
      /\ s \in [1 .. n -> Cell] /\ sl_next \in [Cell -> Cell \cup {Nil}]
      /\ n > 0 => sl_tail \in Cell /\ sl_tail = s[n]
      /\ sl_head = Nil <=> n = 0
      /\ Nil \notin Cell /\ sl_free_list \in Cell \cup {Nil}
      /\ n > 1 => s[n - 1] \in Cell /\ s[n - 1] # sl_tail
  BY <1>1, SharedMeans
<1>3. n > 0
  BY <1>2 DEF S!pop_back, S!empty, S!nil, Nil
<1>4. S!find_prev = IF n = 1 THEN Nil ELSE s[n - 1]
  BY <1>1, <1>2, <1>3, SlistFindsPrev
<1>5. /\ sl_next' = IF n = 1 THEN [sl_next EXCEPT ![sl_tail] = sl_free_list]
                    ELSE [sl_next EXCEPT ![s[n - 1]] = Nil, ![sl_tail] = sl_free_list]
      /\ sl_head' = IF n = 1 THEN Nil ELSE sl_head
      /\ sl_tail' = IF n = 1 THEN Nil ELSE s[n - 1]
      /\ sl_free_list' = sl_tail
      /\ sl_item' = sl_item
      /\ sl_ret' = sl_item[sl_tail]
  <2>1. n # 1 => S!find_prev # Nil
    BY <1>2, <1>3, <1>4
  <2> HIDE DEF S!find_prev
  <2>2. QED
    BY <1>4, <2>1 DEF S!pop_back, S!nil, Nil
<1>6. /\ sl_next' \in [Cell -> Cell \cup {Nil}]
      /\ sl_next'[sl_tail] = sl_free_list
      /\ n > 1 => sl_next'[s[n - 1]] = Nil
      /\ \A c \in Cell : c # sl_tail /\ (n > 1 => c # s[n - 1]) => sl_next'[c] = sl_next[c]
  <2>1. CASE n = 1
    BY <1>2, <1>5, <2>1
  <2>2. CASE n > 1
    BY <1>2, <1>5, <2>2
  <2>3. QED
    BY <1>2, <1>3, <2>1, <2>2
<1>7. Shared(sl_next', n - 1, ButLast(n, s), m + 1, WithFirst(m, f, sl_tail),
             sl_head', sl_tail', sl_free_list')
  BY <1>1, <1>3, <1>5, <1>6, GaveLast
<1>8. Ended(sl_next', n - 1, sl_tail')
  BY <1>2, <1>5, <1>6 DEF Ended
<1>9. Holds(sl_item', n - 1, ButLast(n, s), count', Contents')
  BY <1>1, <1>2, <1>5, HoldsOneLess
<1>10. sl_ret' = ret'
  BY <1>1, <1>2, <1>3, <1>5 DEF Holds
<1>11. QED
  BY <1>7, <1>8, <1>9, <1>10 DEF SlistInv

LEMMA SlistPopsFront ==
    ASSUME SlistInv, S!pop_front,
           DropsFirst(count, Contents, count', Contents'), ret' = Contents[1]
    PROVE  SlistInv'
<1>1. PICK n, s, m, f :
        /\ Shared(sl_next, n, s, m, f, sl_head, sl_tail, sl_free_list)
        /\ Ended(sl_next, n, sl_tail)
        /\ Holds(sl_item, n, s, count, Contents)
  BY DEF SlistInv
<1>2. /\ n \in Nat /\ m \in Nat
      /\ s \in [1 .. n -> Cell] /\ sl_next \in [Cell -> Cell \cup {Nil}]
      /\ n > 0 => /\ sl_tail \in Cell /\ sl_tail = s[n]
                  /\ sl_head \in Cell /\ sl_head = s[1]
      /\ sl_head = Nil <=> n = 0
      /\ Nil \notin Cell /\ sl_free_list \in Cell \cup {Nil}
      /\ n > 1 => sl_next[sl_head] = s[2] /\ s[2] \in Cell
      /\ \A i, j \in 1 .. n : s[i] = s[j] => i = j
  BY <1>1, SharedMeans
<1>3. n > 0
  BY <1>2 DEF S!pop_front, S!empty, S!nil, Nil
<1>4. sl_next[sl_head] = IF n = 1 THEN Nil ELSE s[2]
  BY <1>1, <1>2, <1>3 DEF Ended
<1>5. /\ sl_next' = [sl_next EXCEPT ![sl_head] = sl_free_list]
      /\ sl_head' = IF n = 1 THEN Nil ELSE s[2]
      /\ sl_tail' = IF n = 1 THEN Nil ELSE sl_tail
      /\ sl_free_list' = sl_head
      /\ sl_item' = sl_item
      /\ sl_ret' = sl_item[sl_head]
  BY <1>2, <1>3, <1>4 DEF S!pop_front, S!nil, Nil
<1>7. Shared(sl_next', n - 1, ButFirst(n, s), m + 1, WithFirst(m, f, sl_head),
             sl_head', sl_tail', sl_free_list')
  BY <1>1, <1>3, <1>5, GaveFirst
<1>8. Ended(sl_next', n - 1, sl_tail')
  <2>1. n - 1 > 0 => sl_tail # sl_head
    BY <1>2
  <2>2. QED
    BY <1>1, <1>2, <1>5, <2>1 DEF Ended
<1>9. Holds(sl_item', n - 1, ButFirst(n, s), count', Contents')
  BY <1>1, <1>2, <1>5, HoldsOneLess
<1>10. sl_ret' = ret'
  BY <1>1, <1>2, <1>3, <1>5 DEF Holds
<1>11. QED
  BY <1>7, <1>8, <1>9, <1>10 DEF SlistInv

LEMMA SlistWrites ==
    ASSUME SlistInv, NEW x \in Item, ret' = None
    PROVE  /\ S!write_front(x) /\ Writes(count, Contents, 1, x, count', Contents')
              => SlistInv'
           /\ S!write_back(x) /\ Writes(count, Contents, count, x, count', Contents')
              => SlistInv'
<1>1. PICK n, s, m, f :
        /\ Shared(sl_next, n, s, m, f, sl_head, sl_tail, sl_free_list)
        /\ Ended(sl_next, n, sl_tail)
        /\ Holds(sl_item, n, s, count, Contents)
  BY DEF SlistInv
<1>2. /\ n \in Nat /\ m \in Nat
      /\ s \in [1 .. n -> Cell]
      /\ n > 0 => sl_tail = s[n] /\ sl_head = s[1]
      /\ sl_head = Nil <=> n = 0
      /\ \A i, j \in 1 .. n : s[i] = s[j] => i = j
  BY <1>1, SharedMeans
<1>3. n = count
  BY <1>1 DEF Holds
<1>4. ASSUME NEW j \in 1 .. n, Writes(count, Contents, j, x, count', Contents'),
             sl_item' = [sl_item EXCEPT ![s[j]] = x], sl_ret' = None,
             UNCHANGED <<sl_next, sl_free_list, sl_head, sl_tail>>
      PROVE  SlistInv'
  <2>1. Holds(sl_item', n, s, count', Contents')
    <3>1. /\ Holds(sl_item, n, s, count, Contents)
          /\ n \in Nat /\ s \in [1 .. n -> Cell]
      BY <1>1, <1>2
    <3>2. \A i, l \in 1 .. n : s[i] = s[l] => i = l
      BY <1>2
    <3>3. j \in 1 .. n /\ Writes(count, Contents, j, x, count', Contents')
          /\ sl_item' = [sl_item EXCEPT ![s[j]] = x]
      BY <1>4
    <3>4. QED
      BY <3>1, <3>2, <3>3, HoldsWritten
  <2>2. /\ Shared(sl_next', n, s, m, f, sl_head', sl_tail', sl_free_list')
        /\ Ended(sl_next', n, sl_tail')
    BY <1>1, <1>4
  <2>3. QED
    BY <1>4, <2>1, <2>2 DEF SlistInv
<1>5. ASSUME S!write_front(x), Writes(count, Contents, 1, x, count', Contents')
      PROVE  SlistInv'
  <2>1. 1 \in 1 .. n /\ sl_head = s[1]
    BY <1>2, <1>5 DEF S!write_front, S!empty, S!nil, Nil
  <2>2. /\ sl_item' = [sl_item EXCEPT ![s[1]] = x] /\ sl_ret' = None
        /\ UNCHANGED <<sl_next, sl_free_list, sl_head, sl_tail>>
    BY <1>5, <2>1 DEF S!write_front
  <2>3. QED
    BY <1>4, <1>5, <2>1, <2>2
<1>6. ASSUME S!write_back(x), Writes(count, Contents, count, x, count', Contents')
      PROVE  SlistInv'
  <2>1. n \in 1 .. n /\ sl_tail = s[n]
    BY <1>2, <1>6 DEF S!write_back, S!empty, S!nil, Nil
  <2>2. /\ sl_item' = [sl_item EXCEPT ![s[n]] = x] /\ sl_ret' = None
        /\ UNCHANGED <<sl_next, sl_free_list, sl_head, sl_tail>>
    BY <1>6, <2>1 DEF S!write_back
  <2>3. QED
    BY <1>3, <1>4, <1>6, <2>1, <2>2
<1>7. QED
  BY <1>5, <1>6

LEMMA SlistClears ==
    ASSUME SlistInv, S!clear, count' = 0, ret' = None
    PROVE  SlistInv'
<1>1. PICK n, s, m, f :
        /\ Shared(sl_next, n, s, m, f, sl_head, sl_tail, sl_free_list)
        /\ Ended(sl_next, n, sl_tail)
        /\ Holds(sl_item, n, s, count, Contents)
  BY DEF SlistInv
<1>2. n \in Nat /\ m \in Nat /\ (sl_head = Nil <=> n = 0)
  BY <1>1, SharedMeans
<1>3. sl_item' = sl_item /\ sl_ret' = None
  BY DEF S!clear
<1>4. CASE n = 0
  <2>1. UNCHANGED <<sl_next, sl_free_list, sl_head, sl_tail>>
    BY <1>2, <1>4 DEF S!clear, S!empty, S!nil, Nil
  <2>2. /\ Shared(sl_next', n, s, m, f, sl_head', sl_tail', sl_free_list')
        /\ Ended(sl_next', n, sl_tail')
    BY <1>1, <2>1
  <2>3. Holds(sl_item', n, s, count', Contents')
    BY <1>1, <1>3, <1>4 DEF Holds
  <2>4. QED
    BY <1>3, <2>2, <2>3 DEF SlistInv
<1>5. CASE n > 0
  <2>1. /\ sl_next' = [sl_next EXCEPT ![sl_tail] = sl_free_list]
        /\ sl_free_list' = sl_head /\ sl_head' = Nil /\ sl_tail' = Nil
    BY <1>2, <1>5 DEF S!clear, S!empty, S!nil, Nil
  <2>2. Shared(sl_next', 0, NoCells, n + m, InARow(n, s, m, f),
               sl_head', sl_tail', sl_free_list')
    BY <1>1, <1>2, <1>5, <2>1, GaveAll
  <2>3. Ended(sl_next', 0, sl_tail')
    BY DEF Ended
  <2>4. Holds(sl_item', 0, NoCells, count', Contents')
    BY <1>1, <1>3 DEF Holds
  <2>5. QED
    BY <1>3, <2>2, <2>3, <2>4 DEF SlistInv
<1>6. QED
  BY <1>2, <1>4, <1>5

LEMMA SlistStays ==
    ASSUME SlistInv, UNCHANGED <<slist, vars>>
    PROVE  SlistInv'
<1>1. Contents' = Contents
  BY DEF vars, Contents
<1>2. QED
  BY <1>1 DEF SlistInv, slist, vars

\* At first no cell is in the list, and all are free in their order.
LEMMA FirstChain ==
    ASSUME NEW z, NEW nx, nx = [c \in Cell |-> IF c = N - 1 THEN z ELSE c + 1]
    PROVE  Chain(nx, N, [i \in 1 .. N |-> i - 1])
<1> DEFINE f == [i \in 1 .. N |-> i - 1]
<1>1. N \in Nat /\ N > 0
  BY NAssumption
<1>2. \A i \in 1 .. N : f[i] = i - 1 /\ f[i] \in Cell
  BY <1>1 DEF Cell
<1>3. \A i, j \in 1 .. N : f[i] = f[j] => i = j
  BY <1>2
<1>4. ASSUME NEW i \in 1 .. N - 1 PROVE nx[f[i]] = f[i + 1]
  <2>1. i \in 1 .. N /\ i + 1 \in 1 .. N /\ f[i] # N - 1
    BY <1>1, <1>2
  <2>2. f[i] \in Cell /\ f[i] = i - 1 /\ f[i + 1] = (i + 1) - 1
    BY <1>2, <2>1
  <2>3. QED
    BY <2>1, <2>2
<1>5. f \in [1 .. N -> Cell]
  BY <1>2
<1> HIDE DEF f
<1>6. Chain(nx, N, f)
  BY <1>3, <1>4, <1>5 DEF Chain
<1>7. QED
  BY <1>6 DEF f

LEMMA FirstShared ==
    ASSUME NEW nx, nx = [c \in Cell |-> IF c = N - 1 THEN Nil ELSE c + 1]
    PROVE  Shared(nx, 0, NoCells, N, [i \in 1 .. N |-> i - 1], Nil, Nil, 0)
<1> DEFINE f == [i \in 1 .. N |-> i - 1]
<1>1. N \in Nat /\ N > 0
  BY NAssumption
<1>2. Chain(nx, N, f)
  BY FirstChain
<1>3. Chain(nx, 0, NoCells)
  BY DEF Chain, NoCells
<1>4. \A c \in Cell : \E j \in 1 .. N : f[j] = c
  <2> SUFFICES ASSUME NEW c \in Cell PROVE \E j \in 1 .. N : f[j] = c
    OBVIOUS
  <2>1. c + 1 \in 1 .. N /\ f[c + 1] = c
    BY <1>1 DEF Cell
  <2>2. QED
    BY <2>1
<1>5. nx \in [Cell -> Cell \cup {Nil}]
  BY <1>1 DEF Cell
<1>6. f[1] = 0 /\ nx[f[N]] = Nil
  BY <1>1 DEF Cell
<1> HIDE DEF f
<1>7. Shared(nx, 0, NoCells, N, f, Nil, Nil, 0)
  BY <1>1, <1>2, <1>3, <1>4, <1>5, <1>6 DEF Shared, First, Final
<1>8. QED
  BY <1>7 DEF f

LEMMA SlistStarts == Init /\ S!Init => SlistInv
<1> SUFFICES ASSUME Init, S!Init PROVE SlistInv
  OBVIOUS
<1>1. /\ sl_next = [c \in Cell |-> IF c = N - 1 THEN Nil ELSE c + 1]
      /\ sl_head = Nil /\ sl_tail = Nil /\ sl_free_list = 0
      /\ sl_item \in [Cell -> Item] /\ sl_ret = ret /\ count = 0
  BY DEF Init, S!Init, S!nil, Nil, S!Node, Cell
<1>2. Shared(sl_next, 0, NoCells, N, [i \in 1 .. N |-> i - 1], sl_head, sl_tail, sl_free_list)
  BY <1>1, FirstShared
<1>3. Ended(sl_next, 0, sl_tail) /\ Holds(sl_item, 0, NoCells, count, Contents)
  BY <1>1 DEF Ended, Holds
<1>4. QED
  BY <1>1, <1>2, <1>3 DEF SlistInv

LEMMA SlistSound ==
    ASSUME SlistInv, Inv
    PROVE  S!TypeOK /\ S!EveryNodeInOneList /\ S!Contents = Contents /\ sl_ret = ret
<1>1. PICK n, s, m, f :
        /\ Shared(sl_next, n, s, m, f, sl_head, sl_tail, sl_free_list)
        /\ Holds(sl_item, n, s, count, Contents)
  BY DEF SlistInv
<1>2. /\ n \in Nat /\ m \in Nat
      /\ s \in [1 .. n -> Cell]
      /\ sl_next \in [Cell -> Cell \cup {Nil}]
      /\ Nil \notin Cell
      /\ {sl_head, sl_tail, sl_free_list} \subseteq Cell \cup {Nil}
  BY <1>1, SharedMeans
<1>3. /\ S!size = n
      /\ S!Nodes = s
      /\ S!Live = {s[i] : i \in 1 .. n}
      /\ S!Free = {f[j] : j \in 1 .. m}
  BY <1>1, <1>2, SlistReads
<1>4. S!EveryNodeInOneList
  <2>1. /\ \A i \in 1 .. n, j \in 1 .. m : s[i] # f[j]
        /\ \A c \in Cell : (\E i \in 1 .. n : s[i] = c) \/ (\E j \in 1 .. m : f[j] = c)
        /\ f \in [1 .. m -> Cell]
    BY <1>1 DEF Shared, Chain
  <2>2. S!Live \cup S!Free = Cell
    BY <1>2, <1>3, <2>1
  <2>3. S!Live \cap S!Free = {}
    BY <1>3, <2>1
  <2>4. QED
    BY <2>2, <2>3 DEF S!EveryNodeInOneList, S!Node, Cell
<1>5. S!Contents = Contents
  <2>1. /\ n = count /\ \A i \in 1 .. n : sl_item[s[i]] = Contents[i]
    BY <1>1 DEF Holds
  <2>2. S!Contents = [i \in 1 .. n |-> IF s[i] = Nil THEN None ELSE sl_item[s[i]]]
    BY <1>3 DEF S!Contents, S!nil, Nil
  <2>3. \A i \in 1 .. n : (IF s[i] = Nil THEN None ELSE sl_item[s[i]]) = Contents[i]
    BY <1>2, <2>1
  <2>4. Contents = [i \in 1 .. n |-> Contents[i]]
    BY <2>1 DEF Contents
  <2>5. QED
    BY <2>2, <2>3, <2>4
<1>6. S!TypeOK
  <2>1. sl_ret = ret /\ ret \in Item \cup {None} /\ sl_item \in [Cell -> Item]
    BY <1>1 DEF SlistInv, Inv, TypeOK, Holds
  <2>2. QED
    BY <1>2, <2>1 DEF S!TypeOK, S!Node, S!nil, Cell, Nil
<1>7. QED
  BY <1>4, <1>5, <1>6 DEF SlistInv

-----------------------------------------------------------------------------
(* mono::list.                                                             *)

LEMMA ListWalk ==
    ASSUME NEW n
    PROVE  IsWalk(Nil, N, n, l_next, L!After(n))
<1>1. PICK g : IsWalk(Nil, N, n, l_next, g)
  BY NAssumption, WalkExists
<1>2. L!After(n) = CHOOSE e : IsWalk(Nil, N, n, l_next, e)
  BY DEF IsWalk, L!After, L!nil, Nil
<1>3. QED
  BY <1>1, <1>2

LEMMA ListReads ==
    ASSUME NEW n \in Nat, NEW s, NEW m \in Nat, NEW f,
           Shared(l_next, n, s, m, f, l_head, l_tail, l_free_list)
    PROVE  /\ L!size = n
           /\ L!Nodes = s
           /\ L!empty <=> n = 0
           /\ L!Live = {s[i] : i \in 1 .. n}
           /\ L!Free = {f[j] : j \in 1 .. m}
<1> DEFINE at == L!After(l_head)
           bt == L!After(l_free_list)
<1>1. IsWalk(Nil, N, l_head, l_next, at) /\ IsWalk(Nil, N, l_free_list, l_next, bt)
  BY ListWalk
<1> HIDE DEF at, bt
<1>3. Walked(l_next, n, s, m, f, l_head, l_tail, at, bt)
  BY <1>1, WalksOfShared
<1>4. L!empty <=> n = 0
  BY <1>3 DEF Walked, L!empty, L!nil, Nil
<1>5. L!size = n
  <2>1. CASE n = 0
    BY <1>4, <2>1 DEF L!size
  <2>2. CASE n # 0
    <3> DEFINE r == {i \in 0 .. N - 1 : at[i] = l_tail} \cup {N}
    <3>1. L!size = 1 + L!Min(r)
      BY <1>4, <2>2 DEF L!size, at
    <3>2. L!Min(r) = StepsTo(at, l_tail)
      BY DEF L!Min, StepsTo
    <3> HIDE DEF r
    <3>3. L!Min(r) = n - 1
      BY <1>3, <2>2, <3>2 DEF Walked
    <3>4. QED
      BY <3>1, <3>3
  <2>3. QED
    BY <2>1, <2>2
<1>6. L!Nodes = s
  <2>1. s = [i \in 1 .. n |-> s[i]]
    BY DEF Shared, Chain
  <2>2. L!Nodes = [i \in 1 .. n |-> at[i - 1]]
    BY <1>5 DEF L!Nodes, at
  <2>3. \A i \in 1 .. n : at[i - 1] = s[i]
    BY <1>3 DEF Walked
  <2>4. QED
    BY <2>1, <2>2, <2>3
<1>7. L!Live = {s[i] : i \in 1 .. n}
  BY <1>5, <1>6 DEF L!Live
<1>8. L!Free = {f[j] : j \in 1 .. m}
  BY <1>3 DEF Walked, L!Free, L!nil, Nil, bt
<1>9. QED
  BY <1>4, <1>5, <1>6, <1>7, <1>8

\* The links back.
BackLinks(pv, n, s) ==
    pv \in [Cell -> Cell \cup {Nil}] /\ \A i \in 2 .. n : pv[s[i]] = s[i - 1]

LEMMA BackLinksLast ==
    ASSUME NEW n \in Nat, NEW s, NEW pv, BackLinks(pv, n, s),
           s \in [1 .. n -> Cell], NEW c \in Cell, \A i \in 1 .. n : s[i] # c,
           NEW t, n > 0 => t = s[n], NEW pw,
           pw = IF n = 0 THEN [pv EXCEPT ![c] = Nil] ELSE [pv EXCEPT ![c] = t]
    PROVE  BackLinks(pw, n + 1, WithLast(n, s, c))
<1> DEFINE g == WithLast(n, s, c)
<1>1. pv \in [Cell -> Cell \cup {Nil}] /\ \A i \in 2 .. n : pv[s[i]] = s[i - 1]
  BY DEF BackLinks
<1>2. /\ \A i \in 1 .. n : g[i] = s[i] /\ s[i] \in Cell /\ s[i] # c
      /\ g[n + 1] = c
  BY DEF WithLast
<1>3. /\ pw \in [Cell -> Cell \cup {Nil}]
      /\ n > 0 => pw[c] = s[n]
      /\ \A d \in Cell : d # c => pw[d] = pv[d]
  <2>1. CASE n = 0
    BY <1>1, <2>1
  <2>2. CASE n > 0
    <3>1. n \in 1 .. n /\ t = s[n]
      BY <2>2
    <3>2. t \in Cell
      BY <1>2, <3>1
    <3>3. pw = [pv EXCEPT ![c] = t]
      BY <2>2
    <3>4. QED
      BY <1>1, <3>1, <3>2, <3>3
  <2>3. QED
    BY <2>1, <2>2
<1> HIDE DEF g
<1>4. ASSUME NEW i \in 2 .. n + 1 PROVE pw[g[i]] = g[i - 1]
  <2>1. CASE i = n + 1
    <3>1. n > 0 /\ n \in 1 .. n /\ i - 1 = n
      BY <2>1
    <3>2. QED
      BY <1>2, <1>3, <2>1, <3>1
  <2>2. CASE i # n + 1
    <3>1. i \in 2 .. n /\ i \in 1 .. n /\ i - 1 \in 1 .. n
      BY <2>2
    <3>2. QED
      BY <1>1, <1>2, <1>3, <3>1
  <2>3. QED
    BY <2>1, <2>2
<1>5. BackLinks(pw, n + 1, g)
  BY <1>3, <1>4 DEF BackLinks
<1>6. QED
  BY <1>5 DEF g

LEMMA BackLinksFirst ==
    ASSUME NEW n \in Nat, NEW s, NEW pv, BackLinks(pv, n, s),
           s \in [1 .. n -> Cell], NEW c \in Cell, \A i \in 1 .. n : s[i] # c,
           \A i, j \in 1 .. n : s[i] = s[j] => i = j,
           NEW h, n > 0 => h = s[1], NEW pw,
           pw = IF n = 0 THEN [pv EXCEPT ![c] = Nil]
                ELSE [pv EXCEPT ![c] = Nil, ![h] = c]
    PROVE  BackLinks(pw, n + 1, WithFirst(n, s, c))
<1> DEFINE g == WithFirst(n, s, c)
<1>1. pv \in [Cell -> Cell \cup {Nil}] /\ \A i \in 2 .. n : pv[s[i]] = s[i - 1]
  BY DEF BackLinks
<1>2. /\ \A i \in 1 .. n : s[i] \in Cell /\ s[i] # c
      /\ g[1] = c /\ \A i \in 2 .. n + 1 : g[i] = s[i - 1]
  BY DEF WithFirst
<1>3. /\ pw \in [Cell -> Cell \cup {Nil}] /\ pw[c] = Nil
      /\ n > 0 => pw[s[1]] = c
      /\ \A d \in Cell : d # c /\ (n > 0 => d # s[1]) => pw[d] = pv[d]
  <2>1. CASE n = 0
    BY <1>1, <2>1
  <2>2. CASE n > 0
    <3>1. 1 \in 1 .. n /\ h = s[1]
      BY <2>2
    <3>2. h \in Cell /\ h # c
      BY <1>2, <3>1
    <3>3. pw = [pv EXCEPT ![c] = Nil, ![h] = c]
      BY <2>2
    <3>4. QED
      BY <1>1, <3>1, <3>2, <3>3
  <2>3. QED
    BY <2>1, <2>2
<1> HIDE DEF g
<1>4. ASSUME NEW i \in 2 .. n + 1 PROVE pw[g[i]] = g[i - 1]
  <2>1. CASE i = 2
    <3>1. n > 0 /\ g[2] = s[1] /\ i - 1 = 1
      BY <1>2, <2>1
    <3>2. QED
      BY <1>2, <1>3, <2>1, <3>1
  <2>2. CASE i # 2
    <3>1. i - 1 \in 2 .. n /\ i - 1 \in 1 .. n /\ 1 \in 1 .. n /\ i - 1 # 1
      BY <2>2
    <3>2. s[i - 1] # s[1] /\ s[i - 1] # c /\ s[i - 1] \in Cell
      BY <1>2, <3>1
    <3>3. pw[s[i - 1]] = pv[s[i - 1]] /\ pv[s[i - 1]] = s[(i - 1) - 1]
      BY <1>1, <1>3, <3>1, <3>2
    <3>4. g[i] = s[i - 1] /\ g[i - 1] = s[(i - 1) - 1]
      BY <1>2, <3>1
    <3>5. QED
      BY <3>3, <3>4
  <2>3. QED
    BY <2>1, <2>2
<1>5. BackLinks(pw, n + 1, g)
  BY <1>3, <1>4 DEF BackLinks
<1>6. QED
  BY <1>5 DEF g

LEMMA BackLinksLess ==
    ASSUME NEW n \in Nat, NEW s, NEW pv, BackLinks(pv, n, s)
    PROVE  BackLinks(pv, n - 1, ButLast(n, s)) /\ BackLinks(pv, n - 1, ButFirst(n, s))
<1>1. \A i \in 2 .. n - 1 :
        /\ i \in 2 .. n /\ i + 1 \in 2 .. n
        /\ ButLast(n, s)[i] = s[i] /\ ButLast(n, s)[i - 1] = s[i - 1]
        /\ ButFirst(n, s)[i] = s[i + 1] /\ ButFirst(n, s)[i - 1] = s[(i + 1) - 1]
  BY DEF ButLast, ButFirst
<1>2. QED
  BY <1>1 DEF BackLinks

\* The end that the program does not pop from has no stale link: the link of
\* the tail in a program that pops from the front, the link back of the head
\* in one that pops from the back.
FarEnd(p, nx, pv, n, h, t) ==
    /\ p = "front" => Ended(nx, n, t)
    /\ p = "back" /\ n > 0 => pv[h] = Nil

ListInv ==
    /\ UsesList => l_ret = ret
    /\ \E n, s, m, f :
         /\ Shared(l_next, n, s, m, f, l_head, l_tail, l_free_list)
         /\ BackLinks(l_prev, n, s)
         /\ FarEnd(program, l_next, l_prev, n, l_head, l_tail)
         /\ Holds(l_item, n, s, IF UsesList THEN count ELSE 0, Contents)
    /\ l_ret \in Item \cup {None}

LEMMA ListPushesBack ==
    ASSUME ListInv, UsesList, program' = program, NEW x \in Item, L!push_back(x),
           AddsLast(count, Contents, x, count', Contents'), ret' = None
    PROVE  ListInv'
<1>1. PICK n, s, m, f :
        /\ Shared(l_next, n, s, m, f, l_head, l_tail, l_free_list)
        /\ BackLinks(l_prev, n, s)
        /\ FarEnd(program, l_next, l_prev, n, l_head, l_tail)
        /\ Holds(l_item, n, s, count, Contents)
  BY DEF ListInv
<1>2. /\ n \in Nat /\ m \in Nat
      /\ s \in [1 .. n -> Cell] /\ l_next \in [Cell -> Cell \cup {Nil}]
      /\ n > 0 => l_tail \in Cell /\ l_tail = s[n] /\ l_head \in Cell /\ l_head = s[1]
      /\ l_head = Nil <=> n = 0
  BY <1>1, SharedMeans
<1>3. /\ l_free_list # Nil
      /\ l_next' = IF n = 0 THEN [l_next EXCEPT ![l_free_list] = Nil]
                   ELSE [l_next EXCEPT ![l_free_list] = Nil, ![l_tail] = l_free_list]
      /\ l_prev' = IF n = 0 THEN [l_prev EXCEPT ![l_free_list] = Nil]
                   ELSE [l_prev EXCEPT ![l_free_list] = l_tail]
      /\ l_head' = IF n = 0 THEN l_free_list ELSE l_head
      /\ l_tail' = l_free_list
      /\ l_free_list' = l_next[l_free_list]
      /\ l_item' = [l_item EXCEPT ![l_free_list] = x]
      /\ l_ret' = None
  BY <1>2 DEF L!push_back, L!PushFirst, L!Take, L!full, L!empty, L!nil, Nil
<1>4. l_free_list \in Cell /\ \A i \in 1 .. n : s[i] # l_free_list
  BY <1>1, <1>3, FreeCell
<1>5. Shared(l_next', n + 1, WithLast(n, s, l_free_list), m - 1, ButFirst(m, f),
             l_head', l_tail', l_free_list')
  BY <1>1, <1>3, TookLast
<1>6. BackLinks(l_prev', n + 1, WithLast(n, s, l_free_list))
  BY <1>1, <1>2, <1>3, <1>4, BackLinksLast
<1>7. FarEnd(program', l_next', l_prev', n + 1, l_head', l_tail')
  <2>1. l_prev \in [Cell -> Cell \cup {Nil}]
    BY <1>1 DEF BackLinks
  <2>2. CASE n = 0
    BY <1>2, <1>3, <1>4, <2>1, <2>2 DEF FarEnd, Ended
  <2>3. CASE n > 0
    <3>1. l_tail # l_free_list /\ l_head # l_free_list
      BY <1>2, <1>4, <2>3
    <3>2. l_next'[l_tail'] = Nil
      BY <1>2, <1>3, <1>4, <2>3, <3>1
    <3>3. l_prev'[l_head'] = l_prev[l_head]
      BY <1>2, <1>3, <1>4, <2>1, <2>3, <3>1
    <3>4. QED
      BY <1>1, <2>3, <3>2, <3>3 DEF FarEnd, Ended
  <2>4. QED
    BY <1>2, <2>2, <2>3
<1>8. Holds(l_item', n + 1, WithLast(n, s, l_free_list), count', Contents')
  BY <1>1, <1>2, <1>3, <1>4, HoldsOneMoreLast
<1>9. UsesList'
  BY DEF UsesList
<1>10. QED
  BY <1>3, <1>5, <1>6, <1>7, <1>8, <1>9 DEF ListInv

LEMMA ListPushesFront ==
    ASSUME ListInv, UsesList, program' = program, NEW x \in Item, L!push_front(x),
           AddsFirst(count, Contents, x, count', Contents'), ret' = None
    PROVE  ListInv'
<1>1. PICK n, s, m, f :
        /\ Shared(l_next, n, s, m, f, l_head, l_tail, l_free_list)
        /\ BackLinks(l_prev, n, s)
        /\ FarEnd(program, l_next, l_prev, n, l_head, l_tail)
        /\ Holds(l_item, n, s, count, Contents)
  BY DEF ListInv
<1>2. /\ n \in Nat /\ m \in Nat
      /\ s \in [1 .. n -> Cell] /\ l_next \in [Cell -> Cell \cup {Nil}]
      /\ n > 0 => l_tail \in Cell /\ l_tail = s[n] /\ l_head \in Cell /\ l_head = s[1]
      /\ l_head = Nil <=> n = 0
      /\ l_head \in Cell \cup {Nil}
      /\ \A i, j \in 1 .. n : s[i] = s[j] => i = j
  BY <1>1, SharedMeans
<1>3. /\ l_free_list # Nil
      /\ l_next' = [l_next EXCEPT ![l_free_list] = l_head]
      /\ l_prev' = IF n = 0 THEN [l_prev EXCEPT ![l_free_list] = Nil]
                   ELSE [l_prev EXCEPT ![l_free_list] = Nil, ![l_head] = l_free_list]
      /\ l_head' = l_free_list
      /\ l_tail' = IF n = 0 THEN l_free_list ELSE l_tail
      /\ l_free_list' = l_next[l_free_list]
      /\ l_item' = [l_item EXCEPT ![l_free_list] = x]
      /\ l_ret' = None
  BY <1>2 DEF L!push_front, L!PushFirst, L!Take, L!full, L!empty, L!nil, Nil
<1>4. l_free_list \in Cell /\ \A i \in 1 .. n : s[i] # l_free_list
  BY <1>1, <1>3, FreeCell
<1>5. Shared(l_next', n + 1, WithFirst(n, s, l_free_list), m - 1, ButFirst(m, f),
             l_head', l_tail', l_free_list')
  BY <1>1, <1>3, TookFirst
<1>6. BackLinks(l_prev', n + 1, WithFirst(n, s, l_free_list))
  BY <1>1, <1>2, <1>3, <1>4, BackLinksFirst
<1>a. l_prev'[l_free_list] = Nil
  BY <1>1, <1>2, <1>3, <1>4 DEF BackLinks
<1>7. FarEnd(program', l_next', l_prev', n + 1, l_head', l_tail')
  <2>1. program = "front" => l_next'[l_tail'] = Nil
    <3>1. CASE n = 0
      BY <1>2, <1>3, <1>4, <3>1
    <3>2. CASE n > 0
      <4>1. l_tail # l_free_list
        BY <1>2, <1>4, <3>2
      <4>2. QED
        BY <1>1, <1>2, <1>3, <3>2, <4>1 DEF FarEnd, Ended
    <3>3. QED
      BY <1>2, <3>1, <3>2
  <2>2. l_prev'[l_head'] = Nil
    BY <1>3, <1>a
  <2>3. QED
    BY <2>1, <2>2 DEF FarEnd, Ended
<1>8. Holds(l_item', n + 1, WithFirst(n, s, l_free_list), count', Contents')
  BY <1>1, <1>2, <1>3, <1>4, HoldsOneMoreFirst
<1>9. UsesList'
  BY DEF UsesList
<1>10. QED
  BY <1>3, <1>5, <1>6, <1>7, <1>8, <1>9 DEF ListInv

LEMMA ListPopsBack ==
    ASSUME ListInv, program = "back", program' = program, L!pop_back,
           DropsLast(count, Contents, count', Contents'), ret' = Contents[count],
           ret' \in Item
    PROVE  ListInv'
<1>0. UsesList /\ UsesList'
  BY DEF UsesList
<1>1. PICK n, s, m, f :
        /\ Shared(l_next, n, s, m, f, l_head, l_tail, l_free_list)
        /\ BackLinks(l_prev, n, s)
        /\ FarEnd(program, l_next, l_prev, n, l_head, l_tail)
        /\ Holds(l_item, n, s, count, Contents)
  BY <1>0 DEF ListInv
<1>2. /\ n \in Nat /\ m \in Nat
      /\ s \in [1 .. n -> Cell] /\ l_next \in [Cell -> Cell \cup {Nil}]
      /\ n > 0 => l_tail \in Cell /\ l_tail = s[n] /\ l_head \in Cell /\ l_head = s[1]
      /\ l_head = Nil <=> n = 0
      /\ Nil \notin Cell /\ l_free_list \in Cell \cup {Nil}
      /\ n > 1 => s[n - 1] \in Cell /\ s[n - 1] # l_tail
  BY <1>1, SharedMeans
<1>3. n > 0
  BY <1>2 DEF L!pop_back, L!empty, L!nil, Nil
<1>4. l_prev[l_tail] = IF n = 1 THEN Nil ELSE s[n - 1]
  <2>1. CASE n = 1
    BY <1>1, <1>2, <2>1 DEF FarEnd
  <2>2. CASE n > 1
    BY <1>1, <1>2, <2>2 DEF BackLinks
  <2>3. QED
    BY <1>2, <1>3, <2>1, <2>2
<1>5. /\ l_next' = [l_next EXCEPT ![l_tail] = l_free_list]
      /\ l_prev' = l_prev
      /\ l_head' = IF n = 1 THEN Nil ELSE l_head
      /\ l_tail' = IF n = 1 THEN Nil ELSE s[n - 1]
      /\ l_free_list' = l_tail
      /\ l_item' = l_item
      /\ l_ret' = l_item[l_tail]
  <2>1. n # 1 => l_prev[l_tail] # Nil
    BY <1>2, <1>3, <1>4
  <2>2. QED
    BY <1>4, <2>1 DEF L!pop_back, L!Give, L!nil, Nil
<1>6. /\ l_next' \in [Cell -> Cell \cup {Nil}]
      /\ l_next'[l_tail] = l_free_list
      /\ \A c \in Cell : c # l_tail /\ (n > 1 => c # s[n - 1]) => l_next'[c] = l_next[c]
  BY <1>2, <1>3, <1>5
<1>7. Shared(l_next', n - 1, ButLast(n, s), m + 1, WithFirst(m, f, l_tail),
             l_head', l_tail', l_free_list')
  BY <1>1, <1>3, <1>5, <1>6, GaveLast
<1>8. BackLinks(l_prev', n - 1, ButLast(n, s))
  BY <1>1, <1>2, <1>5, BackLinksLess
<1>9. FarEnd(program', l_next', l_prev', n - 1, l_head', l_tail')
  BY <1>1, <1>2, <1>5 DEF FarEnd
<1>10. Holds(l_item', n - 1, ButLast(n, s), count', Contents')
  BY <1>1, <1>2, <1>5, HoldsOneLess
<1>11. l_ret' = ret'
  BY <1>1, <1>2, <1>3, <1>5 DEF Holds
<1>12. QED
  BY <1>0, <1>7, <1>8, <1>9, <1>10, <1>11 DEF ListInv

LEMMA ListPopsFront ==
    ASSUME ListInv, program = "front", program' = program, L!pop_front,
           DropsFirst(count, Contents, count', Contents'), ret' = Contents[1],
           ret' \in Item
    PROVE  ListInv'
<1>0. UsesList /\ UsesList'
  BY DEF UsesList
<1>1. PICK n, s, m, f :
        /\ Shared(l_next, n, s, m, f, l_head, l_tail, l_free_list)
        /\ BackLinks(l_prev, n, s)
        /\ FarEnd(program, l_next, l_prev, n, l_head, l_tail)
        /\ Holds(l_item, n, s, count, Contents)
  BY <1>0 DEF ListInv
<1>2. /\ n \in Nat /\ m \in Nat
      /\ s \in [1 .. n -> Cell] /\ l_next \in [Cell -> Cell \cup {Nil}]
      /\ n > 0 => l_tail \in Cell /\ l_tail = s[n] /\ l_head \in Cell /\ l_head = s[1]
      /\ l_head = Nil <=> n = 0
      /\ Nil \notin Cell /\ l_free_list \in Cell \cup {Nil}
      /\ n > 1 => l_next[l_head] = s[2] /\ s[2] \in Cell
      /\ \A i, j \in 1 .. n : s[i] = s[j] => i = j
  BY <1>1, SharedMeans
<1>3. n > 0
  BY <1>2 DEF L!pop_front, L!empty, L!nil, Nil
<1>a. l_next[l_tail] = Nil
  BY <1>1, <1>3 DEF FarEnd, Ended
<1>4. l_next[l_head] = IF n = 1 THEN Nil ELSE s[2]
  BY <1>2, <1>3, <1>a
<1>5. /\ l_next' = [l_next EXCEPT ![l_head] = l_free_list]
      /\ l_prev' = l_prev
      /\ l_head' = IF n = 1 THEN Nil ELSE s[2]
      /\ l_tail' = IF n = 1 THEN Nil ELSE l_tail
      /\ l_free_list' = l_head
      /\ l_item' = l_item
      /\ l_ret' = l_item[l_head]
  BY <1>2, <1>3, <1>4 DEF L!pop_front, L!Give, L!nil, Nil
<1>7. Shared(l_next', n - 1, ButFirst(n, s), m + 1, WithFirst(m, f, l_head),
             l_head', l_tail', l_free_list')
  BY <1>1, <1>3, <1>5, GaveFirst
<1>8. BackLinks(l_prev', n - 1, ButFirst(n, s))
  BY <1>1, <1>2, <1>5, BackLinksLess
<1>9. FarEnd(program', l_next', l_prev', n - 1, l_head', l_tail')
  <2>1. n - 1 > 0 => l_tail # l_head
    BY <1>2
  <2>2. QED
    BY <1>2, <1>5, <1>a, <2>1 DEF FarEnd, Ended
<1>10. Holds(l_item', n - 1, ButFirst(n, s), count', Contents')
  BY <1>1, <1>2, <1>5, HoldsOneLess
<1>11. l_ret' = ret'
  BY <1>1, <1>2, <1>3, <1>5 DEF Holds
<1>12. QED
  BY <1>0, <1>7, <1>8, <1>9, <1>10, <1>11 DEF ListInv

LEMMA ListWrites ==
    ASSUME ListInv, UsesList, program' = program, NEW x \in Item, ret' = None
    PROVE  /\ L!write_front(x) /\ Writes(count, Contents, 1, x, count', Contents')
              => ListInv'
           /\ L!write_back(x) /\ Writes(count, Contents, count, x, count', Contents')
              => ListInv'
<1>1. PICK n, s, m, f :
        /\ Shared(l_next, n, s, m, f, l_head, l_tail, l_free_list)
        /\ BackLinks(l_prev, n, s)
        /\ FarEnd(program, l_next, l_prev, n, l_head, l_tail)
        /\ Holds(l_item, n, s, count, Contents)
  BY DEF ListInv
<1>2. /\ n \in Nat /\ m \in Nat
      /\ s \in [1 .. n -> Cell]
      /\ n > 0 => l_tail = s[n] /\ l_head = s[1]
      /\ l_head = Nil <=> n = 0
      /\ \A i, j \in 1 .. n : s[i] = s[j] => i = j
  BY <1>1, SharedMeans
<1>3. n = count /\ UsesList'
  BY <1>1 DEF Holds, UsesList
<1>4. ASSUME NEW j \in 1 .. n, Writes(count, Contents, j, x, count', Contents'),
             l_item' = [l_item EXCEPT ![s[j]] = x], l_ret' = None,
             UNCHANGED <<l_next, l_prev, l_free_list, l_head, l_tail>>
      PROVE  ListInv'
  <2>1. Holds(l_item', n, s, count', Contents')
    BY <1>1, <1>2, <1>4, HoldsWritten
  <2>2. /\ Shared(l_next', n, s, m, f, l_head', l_tail', l_free_list')
        /\ BackLinks(l_prev', n, s)
        /\ FarEnd(program', l_next', l_prev', n, l_head', l_tail')
    BY <1>1, <1>4
  <2>3. QED
    BY <1>3, <1>4, <2>1, <2>2 DEF ListInv
<1>5. ASSUME L!write_front(x), Writes(count, Contents, 1, x, count', Contents')
      PROVE  ListInv'
  <2>1. 1 \in 1 .. n /\ l_head = s[1]
    BY <1>2, <1>5 DEF L!write_front, L!empty, L!nil, Nil
  <2>2. /\ l_item' = [l_item EXCEPT ![s[1]] = x] /\ l_ret' = None
        /\ UNCHANGED <<l_next, l_prev, l_free_list, l_head, l_tail>>
    BY <1>5, <2>1 DEF L!write_front
  <2>3. QED
    BY <1>4, <1>5, <2>1, <2>2
<1>6. ASSUME L!write_back(x), Writes(count, Contents, count, x, count', Contents')
      PROVE  ListInv'
  <2>1. n \in 1 .. n /\ l_tail = s[n]
    BY <1>2, <1>6 DEF L!write_back, L!empty, L!nil, Nil
  <2>2. /\ l_item' = [l_item EXCEPT ![s[n]] = x] /\ l_ret' = None
        /\ UNCHANGED <<l_next, l_prev, l_free_list, l_head, l_tail>>
    BY <1>6, <2>1 DEF L!write_back
  <2>3. QED
    BY <1>3, <1>4, <1>6, <2>1, <2>2
<1>7. QED
  BY <1>5, <1>6

LEMMA ListClears ==
    ASSUME ListInv, UsesList, program' = program, L!clear, count' = 0, ret' = None
    PROVE  ListInv'
<1>1. PICK n, s, m, f :
        /\ Shared(l_next, n, s, m, f, l_head, l_tail, l_free_list)
        /\ BackLinks(l_prev, n, s)
        /\ FarEnd(program, l_next, l_prev, n, l_head, l_tail)
        /\ Holds(l_item, n, s, count, Contents)
  BY DEF ListInv
<1>2. n \in Nat /\ m \in Nat /\ (l_head = Nil <=> n = 0)
  BY <1>1, SharedMeans
<1>3. l_item' = l_item /\ l_ret' = None /\ l_prev' = l_prev /\ UsesList'
  BY DEF L!clear, UsesList
<1>4. CASE n = 0
  <2>1. UNCHANGED <<l_next, l_free_list, l_head, l_tail>>
    BY <1>2, <1>4 DEF L!clear, L!empty, L!nil, Nil
  <2>2. /\ Shared(l_next', n, s, m, f, l_head', l_tail', l_free_list')
        /\ BackLinks(l_prev', n, s)
        /\ FarEnd(program', l_next', l_prev', n, l_head', l_tail')
    BY <1>1, <1>3, <2>1
  <2>3. Holds(l_item', n, s, count', Contents')
    BY <1>1, <1>3, <1>4 DEF Holds
  <2>4. QED
    BY <1>3, <2>2, <2>3 DEF ListInv
<1>5. CASE n > 0
  <2>1. /\ l_next' = [l_next EXCEPT ![l_tail] = l_free_list]
        /\ l_free_list' = l_head /\ l_head' = Nil /\ l_tail' = Nil
    BY <1>2, <1>5 DEF L!clear, L!empty, L!nil, Nil
  <2>2. Shared(l_next', 0, NoCells, n + m, InARow(n, s, m, f),
               l_head', l_tail', l_free_list')
    BY <1>1, <1>2, <1>5, <2>1, GaveAll
  <2>3. FarEnd(program', l_next', l_prev', 0, l_head', l_tail')
    BY DEF FarEnd, Ended
  <2>4. Holds(l_item', 0, NoCells, count', Contents') /\ BackLinks(l_prev', 0, NoCells)
    BY <1>1, <1>3 DEF Holds, BackLinks
  <2>5. QED
    BY <1>3, <2>2, <2>3, <2>4 DEF ListInv
<1>6. QED
  BY <1>2, <1>4, <1>5

\* A program that does not use the list leaves it empty.
LEMMA ListStays ==
    ASSUME ListInv, program' = program, UNCHANGED list,
           UsesList => UNCHANGED vars
    PROVE  ListInv'
<1>1. PICK n, s, m, f :
        /\ Shared(l_next, n, s, m, f, l_head, l_tail, l_free_list)
        /\ BackLinks(l_prev, n, s)
        /\ FarEnd(program, l_next, l_prev, n, l_head, l_tail)
        /\ Holds(l_item, n, s, IF UsesList THEN count ELSE 0, Contents)
  BY DEF ListInv
<1>2. UsesList' <=> UsesList
  BY DEF UsesList
<1>3. Holds(l_item', n, s, IF UsesList' THEN count' ELSE 0, Contents')
  <2>1. CASE UsesList
    <3>1. Contents' = Contents /\ count' = count /\ l_item' = l_item
      BY <2>1 DEF vars, Contents, list
    <3>2. QED
      BY <1>1, <1>2, <2>1, <3>1
  <2>2. CASE ~UsesList
    BY <1>1, <1>2, <2>2 DEF Holds, list
  <2>3. QED
    BY <2>1, <2>2
<1>4. /\ Shared(l_next', n, s, m, f, l_head', l_tail', l_free_list')
      /\ BackLinks(l_prev', n, s)
      /\ FarEnd(program', l_next', l_prev', n, l_head', l_tail')
  BY <1>1 DEF list
<1>5. /\ UsesList' => l_ret' = ret'
      /\ l_ret' \in Item \cup {None}
  BY <1>2 DEF ListInv, list, vars
<1>6. QED
  BY <1>3, <1>4, <1>5 DEF ListInv

LEMMA ListStarts ==
    ASSUME Init, L!Init
    PROVE  ListInv
<1>1. /\ l_next = [c \in Cell |-> IF c = N - 1 THEN Nil ELSE c + 1]
      /\ l_prev \in [Cell -> Cell \cup {Nil}]
      /\ l_head = Nil /\ l_tail = Nil /\ l_free_list = 0
      /\ l_item \in [Cell -> Item] /\ l_ret = None /\ ret = None /\ count = 0
  BY DEF Init, L!Init, L!nil, Nil, L!Node, Cell
<1>2. Shared(l_next, 0, NoCells, N, [i \in 1 .. N |-> i - 1], l_head, l_tail, l_free_list)
  BY <1>1, FirstShared
<1>3. /\ BackLinks(l_prev, 0, NoCells)
      /\ FarEnd(program, l_next, l_prev, 0, l_head, l_tail)
      /\ Holds(l_item, 0, NoCells, IF UsesList THEN count ELSE 0, Contents)
  BY <1>1 DEF FarEnd, Ended, Holds, BackLinks
<1>4. QED
  BY <1>1, <1>2, <1>3 DEF ListInv

LEMMA ListSound ==
    ASSUME ListInv
    PROVE  /\ L!TypeOK /\ L!EveryNodeInOneList
           /\ UsesList => L!Contents = Contents /\ l_ret = ret
<1>1. PICK n, s, m, f :
        /\ Shared(l_next, n, s, m, f, l_head, l_tail, l_free_list)
        /\ BackLinks(l_prev, n, s)
        /\ Holds(l_item, n, s, IF UsesList THEN count ELSE 0, Contents)
  BY DEF ListInv
<1>2. /\ n \in Nat /\ m \in Nat
      /\ s \in [1 .. n -> Cell]
      /\ l_next \in [Cell -> Cell \cup {Nil}]
      /\ Nil \notin Cell
      /\ {l_head, l_tail, l_free_list} \subseteq Cell \cup {Nil}
  BY <1>1, SharedMeans
<1>3. /\ L!size = n
      /\ L!Nodes = s
      /\ L!Live = {s[i] : i \in 1 .. n}
      /\ L!Free = {f[j] : j \in 1 .. m}
  <2>1. Shared(l_next, n, s, m, f, l_head, l_tail, l_free_list)
    BY <1>1
  <2>2. QED
    <3>1. n \in Nat /\ m \in Nat
      BY <1>2
    <3>2. QED
      BY <2>1, <3>1, ListReads
<1>4. L!EveryNodeInOneList
  <2>1. /\ \A i \in 1 .. n, j \in 1 .. m : s[i] # f[j]
        /\ \A c \in Cell : (\E i \in 1 .. n : s[i] = c) \/ (\E j \in 1 .. m : f[j] = c)
        /\ f \in [1 .. m -> Cell]
    BY <1>1 DEF Shared, Chain
  <2>2. L!Live \cup L!Free = Cell
    BY <1>2, <1>3, <2>1
  <2>3. L!Live \cap L!Free = {}
    BY <1>3, <2>1
  <2>4. QED
    BY <2>2, <2>3 DEF L!EveryNodeInOneList, L!Node, Cell
<1>5. ASSUME UsesList PROVE L!Contents = Contents
  <2>1. /\ n = count /\ \A i \in 1 .. n : l_item[s[i]] = Contents[i]
    BY <1>1, <1>5 DEF Holds
  <2>2. L!Contents = [i \in 1 .. n |-> IF s[i] = Nil THEN None ELSE l_item[s[i]]]
    BY <1>3 DEF L!Contents, L!nil, Nil
  <2>3. \A i \in 1 .. n : (IF s[i] = Nil THEN None ELSE l_item[s[i]]) = Contents[i]
    BY <1>2, <2>1
  <2>4. Contents = [i \in 1 .. n |-> Contents[i]]
    BY <2>1 DEF Contents
  <2>5. QED
    BY <2>2, <2>3, <2>4
<1>6. L!TypeOK
  <2>1. l_ret \in Item \cup {None} /\ l_item \in [Cell -> Item]
        /\ l_prev \in [Cell -> Cell \cup {Nil}]
    BY <1>1 DEF ListInv, Holds, BackLinks
  <2>2. QED
    BY <1>2, <2>1 DEF L!TypeOK, L!Node, L!nil, Cell, Nil
<1>7. QED
  BY <1>4, <1>5, <1>6 DEF ListInv

-----------------------------------------------------------------------------
(* The exclusive or of offsets.                                            *)

Offset == 0 .. MaxOffset

\* The exclusive or of a and b, from that of their halves.
Halved(g, a, b) ==
    IF a = 0 /\ b = 0 THEN 0 ELSE ((a + b) % 2) + 2 * g[a \div 2][b \div 2]
IsXor(k, g) == g = [a \in 0 .. k |-> [b \in 0 .. k |-> Halved(g, a, b)]]

LEMMA HalfIsLess ==
    ASSUME NEW a \in Nat
    PROVE  /\ a \div 2 \in Nat /\ a % 2 \in {0, 1} /\ a = (2 * (a \div 2)) + (a % 2)
           /\ a > 0 => a \div 2 < a
           /\ a \div 2 <= a
OBVIOUS

LEMMA XorHalves ==
    ASSUME NEW k, NEW g, IsXor(k, g), NEW a \in 0 .. k, NEW b \in 0 .. k
    PROVE  g[a][b] = Halved(g, a, b)
<1> DEFINE e(c, d) == Halved(g, c, d)
           r(c) == [d \in 0 .. k |-> e(c, d)]
<1>1. g = [c \in 0 .. k |-> r(c)]
  BY DEF IsXor
<1> HIDE DEF e
<1>2. r(a)[b] = e(a, b)
  OBVIOUS
<1> HIDE DEF r
<1>3. g[a] = r(a)
  BY <1>1
<1>4. QED
  BY <1>2, <1>3 DEF e

LEMMA XorExists == \E g : IsXor(MaxOffset, g)
<1> DEFINE bad == {k \in Nat : ~\E g : IsXor(k, g)}
<1>1. SUFFICES ASSUME bad # {} PROVE FALSE
  BY MaxOffsetAssumption
<1>2. PICK k \in bad : \A j \in bad : k <= j
  BY <1>1, LeastExists
<1>3. CASE k = 0
  <2> DEFINE h == [a \in 0 .. 0 |-> [b \in 0 .. 0 |-> 0]]
  <2>1. \A a, b \in 0 .. 0 : Halved(h, a, b) = 0
    BY DEF Halved
  <2>2. IsXor(0, h)
    BY <2>1 DEF IsXor
  <2>3. QED
    BY <1>2, <1>3, <2>2
<1>4. CASE k # 0
  <2>1. k \in Nat /\ k - 1 \in Nat /\ k - 1 \notin bad
    BY <1>2, <1>4
  <2>2. PICK g : IsXor(k - 1, g)
    BY <2>1
  <2> DEFINE e(a, b) == IF a < k /\ b < k THEN g[a][b] ELSE Halved(g, a, b)
             h == [a \in 0 .. k |-> [b \in 0 .. k |-> e(a, b)]]
  <2>3. \A a, b \in 0 .. k - 1 : g[a][b] = Halved(g, a, b)
    BY <2>2, XorHalves
  <2>4. \A a \in 0 .. k : a \div 2 \in 0 .. k - 1 /\ a \div 2 < k
    <3> SUFFICES ASSUME NEW a \in 0 .. k PROVE a \div 2 \in 0 .. k - 1 /\ a \div 2 < k
      OBVIOUS
    <3>1. /\ a \div 2 \in Nat /\ (a > 0 => a \div 2 < a)
          /\ a \div 2 <= a
      BY <2>1, HalfIsLess
    <3> DEFINE q == a \div 2
    <3> HIDE DEF q
    <3>2. q \in Nat /\ (a > 0 => q < a) /\ q <= a
      BY <3>1 DEF q
    <3>3. q \in 0 .. k - 1 /\ q < k
      BY <1>4, <2>1, <3>2
    <3>4. QED
      BY <3>3 DEF q
  <2> HIDE DEF e
  <2>5. \A a, b \in 0 .. k : h[a][b] = e(a, b)
    OBVIOUS
  <2>6. ASSUME NEW a \in 0 .. k, NEW b \in 0 .. k
        PROVE  h[a \div 2][b \div 2] = g[a \div 2][b \div 2]
    <3> DEFINE p == a \div 2
               q == b \div 2
    <3>1. p \in 0 .. k - 1 /\ q \in 0 .. k - 1 /\ p < k /\ q < k
      BY <2>4
    <3> HIDE DEF p, q, h
    <3>2. p \in 0 .. k /\ q \in 0 .. k
      BY <2>1, <3>1
    <3>3. h[p][q] = g[p][q]
      BY <2>5, <3>1, <3>2 DEF e
    <3>4. QED
      BY <3>3 DEF p, q
  <2>7. ASSUME NEW a \in 0 .. k, NEW b \in 0 .. k
        PROVE  e(a, b) = Halved(h, a, b)
    <3> HIDE DEF h
    <3>1. Halved(h, a, b) = Halved(g, a, b)
      BY <2>6 DEF Halved
    <3>2. CASE a < k /\ b < k
      <4>1. a \in 0 .. k - 1 /\ b \in 0 .. k - 1
        BY <2>1, <3>2
      <4>2. QED
        BY <2>3, <3>1, <3>2, <4>1 DEF e
    <3>3. CASE ~(a < k /\ b < k)
      BY <3>1, <3>3 DEF e
    <3>4. QED
      BY <3>2, <3>3
  <2> DEFINE d == [a \in 0 .. k |-> [b \in 0 .. k |-> Halved(h, a, b)]]
  <2>8. h = d
    <3>1. ASSUME NEW a \in 0 .. k
          PROVE  [b \in 0 .. k |-> e(a, b)] = [b \in 0 .. k |-> Halved(h, a, b)]
      <4> HIDE DEF h
      <4>1. QED
        BY <2>7
    <3> DEFINE r(a) == [b \in 0 .. k |-> e(a, b)]
               u(a) == [b \in 0 .. k |-> Halved(h, a, b)]
    <3>2. \A a \in 0 .. k : r(a) = u(a)
      BY <3>1
    <3>3. h = [a \in 0 .. k |-> r(a)] /\ d = [a \in 0 .. k |-> u(a)]
      OBVIOUS
    <3> HIDE DEF h, d, r, u
    <3>4. QED
      BY <3>2, <3>3
  <2> HIDE DEF h
  <2>9. IsXor(k, h)
    BY <2>8 DEF IsXor
  <2>10. QED
    BY <1>2, <2>9
<1>5. QED
  BY <1>3, <1>4

LEMMA XorIs == IsXor(MaxOffset, X!Xor)
<1>1. PICK g : IsXor(MaxOffset, g)
  BY XorExists
<1>2. X!Xor = CHOOSE e : IsXor(MaxOffset, e)
  BY DEF IsXor, Halved, X!Xor
<1>3. QED
  BY <1>1, <1>2

\* It is the exclusive or bit by bit, however many bits there are.
LEMMA XorOf ==
    ASSUME NEW a \in Offset, NEW b \in Offset
    PROVE  X!Xor[a][b] = Halved(X!Xor, a, b)
BY XorIs, XorHalves DEF Offset

LEMMA HalfIsOffset ==
    ASSUME NEW a \in Offset
    PROVE  /\ a \in Nat /\ a \div 2 \in Offset /\ a \div 2 \in Nat
           /\ a % 2 \in {0, 1} /\ a = (2 * (a \div 2)) + (a % 2)
           /\ a > 0 => a \div 2 < a
BY MaxOffsetAssumption DEF Offset

LEMMA XorNat == \A a, b \in Offset : X!Xor[a][b] \in Offset /\ X!Xor[a][b] \in Nat
BY OffsetAssumption, MaxOffsetAssumption DEF Offset

\* A property of all pairs of offsets that the pairs of halves pass on.
LEMMA XorCommutes ==
    ASSUME NEW a \in Offset, NEW b \in Offset
    PROVE  X!Xor[a][b] = X!Xor[b][a]
<1> DEFINE bad == {n \in Nat : \E c, d \in Offset : c + d = n /\ X!Xor[c][d] # X!Xor[d][c]}
<1>1. SUFFICES ASSUME bad # {} PROVE FALSE
  <2>1. a \in Nat /\ b \in Nat
    BY HalfIsOffset
  <2>2. a + b \in Nat
    BY <2>1
  <2>3. QED
    BY <2>2
<1>2. PICK n \in bad : \A k \in bad : n <= k
  BY <1>1, LeastExists
<1>3. PICK c \in Offset, d \in Offset : c + d = n /\ X!Xor[c][d] # X!Xor[d][c]
  BY <1>2
<1> DEFINE p == c \div 2
           q == d \div 2
<1>4. /\ c \in Nat /\ p \in Offset /\ p \in Nat /\ (c > 0 => p < c) /\ p <= c
      /\ d \in Nat /\ q \in Offset /\ q \in Nat /\ (d > 0 => q < d) /\ q <= d
  BY HalfIsOffset
<1>5. /\ X!Xor[c][d] = IF c = 0 /\ d = 0 THEN 0 ELSE ((c + d) % 2) + 2 * X!Xor[p][q]
      /\ X!Xor[d][c] = IF d = 0 /\ c = 0 THEN 0 ELSE ((d + c) % 2) + 2 * X!Xor[q][p]
  BY XorOf DEF Halved
<1> HIDE DEF p, q, bad
<1>6. c > 0 \/ d > 0
  BY <1>3, <1>4, <1>5
<1>7. p + q < c + d /\ p + q \in Nat
  BY <1>4, <1>6
<1>8. p + q \notin bad
  BY <1>2, <1>3, <1>7 DEF bad
<1>9. X!Xor[p][q] = X!Xor[q][p]
  BY <1>4, <1>7, <1>8 DEF bad
<1>10. QED
  BY <1>3, <1>4, <1>5, <1>9

LEMMA XorZero ==
    ASSUME NEW a \in Offset
    PROVE  X!Xor[a][0] = a
<1> DEFINE bad == {n \in Offset : X!Xor[n][0] # n}
<1>1. SUFFICES ASSUME bad # {} PROVE FALSE
  OBVIOUS
<1>2. bad \in SUBSET Nat
  BY HalfIsOffset
<1>3. PICK n \in bad : \A k \in bad : n <= k
  BY <1>1, <1>2, LeastExists
<1> DEFINE p == n \div 2
<1>4. 0 \in Offset /\ 0 \div 2 = 0
  BY MaxOffsetAssumption DEF Offset
<1>5. /\ n \in Offset /\ n \in Nat /\ p \in Offset /\ p \in Nat /\ (n > 0 => p < n)
      /\ n = (2 * p) + (n % 2) /\ n % 2 \in {0, 1}
  BY HalfIsOffset
<1>6. X!Xor[n][0] = IF n = 0 THEN 0 ELSE ((n + 0) % 2) + 2 * X!Xor[p][0]
  BY <1>4, <1>5, XorOf DEF Halved
<1>7. n + 0 = n
  BY <1>5
<1> HIDE DEF p, bad
<1>8. n > 0
  BY <1>3, <1>5, <1>6 DEF bad
<1>9. p \notin bad
  BY <1>3, <1>5, <1>8
<1>10. X!Xor[p][0] = p
  BY <1>5, <1>9 DEF bad
<1>11. X!Xor[n][0] = (n % 2) + 2 * p
  BY <1>6, <1>7, <1>8, <1>10
<1>12. QED
  BY <1>3, <1>5, <1>11 DEF bad

LEMMA XorUndoes ==
    ASSUME NEW a \in Offset, NEW b \in Offset
    PROVE  X!Xor[X!Xor[a][b]][b] = a
<1> DEFINE bad == {n \in Nat : \E c, d \in Offset : c + d = n /\ X!Xor[X!Xor[c][d]][d] # c}
<1>1. SUFFICES ASSUME bad # {} PROVE FALSE
  <2>1. a \in Nat /\ b \in Nat
    BY HalfIsOffset
  <2>2. a + b \in Nat
    BY <2>1
  <2>3. QED
    BY <2>2
<1>2. PICK n \in bad : \A k \in bad : n <= k
  BY <1>1, LeastExists
<1>3. PICK c \in Offset, d \in Offset : c + d = n /\ X!Xor[X!Xor[c][d]][d] # c
  BY <1>2
<1> DEFINE p == c \div 2
           q == d \div 2
           e == X!Xor[c][d]
           g == X!Xor[p][q]
<1>4. /\ c \in Nat /\ p \in Offset /\ p \in Nat /\ (c > 0 => p < c)
      /\ c = (2 * p) + (c % 2) /\ c % 2 \in {0, 1}
      /\ d \in Nat /\ q \in Offset /\ q \in Nat /\ (d > 0 => q < d)
      /\ d = (2 * q) + (d % 2) /\ d % 2 \in {0, 1}
  BY HalfIsOffset
<1>5. e \in Offset /\ e \in Nat
  BY XorNat
<1>6. g \in Offset /\ g \in Nat
  BY <1>4, XorNat
<1>7. e = IF c = 0 /\ d = 0 THEN 0 ELSE ((c + d) % 2) + 2 * g
  BY XorOf DEF Halved
<1>8. X!Xor[e][d] = IF e = 0 /\ d = 0 THEN 0
                    ELSE ((e + d) % 2) + 2 * X!Xor[e \div 2][q]
  BY <1>5, XorOf DEF Halved
<1>9. X!Xor[X!Xor[c][d]][d] = X!Xor[e][d]
  OBVIOUS
<1> HIDE DEF p, q, e, g, bad
<1>10. CASE c = 0 /\ d = 0
  <2>1. e = 0
    BY <1>7, <1>10
  <2>2. QED
    BY <1>3, <1>8, <1>9, <1>10, <2>1
<1>11. CASE c > 0 \/ d > 0
  <2>1. p + q < c + d /\ p + q \in Nat
    BY <1>4, <1>11
  <2>2. p + q \notin bad
    BY <1>2, <1>3, <2>1 DEF bad
  <2>3. X!Xor[g][q] = p
    BY <1>4, <2>1, <2>2 DEF bad, g
  <2>4. e = ((c + d) % 2) + 2 * g
    BY <1>4, <1>7, <1>11
  <2>5. e \div 2 = g
    BY <1>4, <1>6, <2>4
  <2>6. (e + d) % 2 = c % 2
    BY <1>4, <1>6, <2>4
  <2>7. CASE e = 0 /\ d = 0
    <3>1. X!Xor[c][0] = c
      BY XorZero
    <3>2. QED
      BY <1>4, <1>11, <2>7, <3>1 DEF e
  <2>8. CASE ~(e = 0 /\ d = 0)
    <3>1. X!Xor[e][d] = (c % 2) + 2 * p
      BY <1>8, <2>3, <2>5, <2>6, <2>8
    <3>2. QED
      BY <1>3, <1>4, <1>9, <3>1
  <2>9. QED
    BY <2>7, <2>8
<1>12. QED
  BY <1>4, <1>10, <1>11

-----------------------------------------------------------------------------
(* mono::xorlist.                                                          *)

Before(s, i) == IF i = 1 THEN 0 ELSE s[i - 1]
Behind(n, s, i) == IF i = n THEN 0 ELSE s[i + 1]

\* The n cells s, each linked to both of its neighbours.
TwoWay(lk, n, s) ==
    /\ s \in [1 .. n -> Cell]
    /\ \A i, j \in 1 .. n : s[i] = s[j] => i = j
    /\ \A i \in 1 .. n : lk[s[i]] = X!Xor[Before(s, i)][Behind(n, s, i)]

\* The m free cells f, from fr on.
FreeCells(lk, m, f, fr) ==
    /\ m \in Nat
    /\ Chain(lk, m, f)
    /\ fr = IF m = 0 THEN MaxOffset ELSE f[1]
    /\ m > 0 => lk[f[m]] = MaxOffset

\* A list from h to t and the free cells.  Other cells may be in neither.
Apart(lk, n, s, m, f, h, t, fr) ==
    /\ n \in Nat
    /\ TwoWay(lk, n, s) /\ FreeCells(lk, m, f, fr)
    /\ \A i \in 1 .. n, j \in 1 .. m : s[i] # f[j]
    /\ h = IF n = 0 THEN MaxOffset ELSE s[1]
    /\ t = IF n = 0 THEN MaxOffset ELSE s[n]
    /\ lk \in [Cell -> Offset]

\* The list read from its other end.
Flip(n, s) == [i \in 1 .. n |-> s[(n - i) + 1]]

LEMMA CellIsOffset ==
    /\ Cell \subseteq Offset /\ 0 \in Offset /\ MaxOffset \in Offset
    /\ MaxOffset \notin Cell
BY NAssumption, MaxOffsetAssumption DEF Cell, Offset

LEMMA FlipTwoWay ==
    ASSUME NEW n \in Nat, NEW lk, NEW s, TwoWay(lk, n, s)
    PROVE  TwoWay(lk, n, Flip(n, s))
<1> DEFINE g == Flip(n, s)
<1>1. \A i \in 1 .. n : g[i] = s[(n - i) + 1] /\ (n - i) + 1 \in 1 .. n
  BY DEF Flip
<1>2. /\ s \in [1 .. n -> Cell]
      /\ \A i, j \in 1 .. n : s[i] = s[j] => i = j
      /\ \A i \in 1 .. n : lk[s[i]] = X!Xor[Before(s, i)][Behind(n, s, i)]
  BY DEF TwoWay
<1>3. g = [i \in 1 .. n |-> g[i]]
  BY DEF Flip
<1> HIDE DEF g
<1>4. g \in [1 .. n -> Cell]
  BY <1>1, <1>2, <1>3
<1>5. \A i, j \in 1 .. n : g[i] = g[j] => i = j
  BY <1>1, <1>2
<1>6. ASSUME NEW i \in 1 .. n PROVE lk[g[i]] = X!Xor[Before(g, i)][Behind(n, g, i)]
  <2> DEFINE j == (n - i) + 1
  <2>1. j \in 1 .. n /\ (i = n <=> j = 1) /\ (i = 1 <=> j = n)
    OBVIOUS
  <2>2. Before(g, i) = Behind(n, s, j)
    <3>1. CASE i = 1
      BY <2>1, <3>1 DEF Before, Behind
    <3>2. CASE i # 1
      <4>1. i - 1 \in 1 .. n /\ (n - (i - 1)) + 1 = j + 1
        BY <3>2
      <4>2. QED
        BY <1>1, <2>1, <3>2, <4>1 DEF Before, Behind
    <3>3. QED
      BY <3>1, <3>2
  <2>3. Behind(n, g, i) = Before(s, j)
    <3>1. CASE i = n
      BY <2>1, <3>1 DEF Before, Behind
    <3>2. CASE i # n
      <4>1. i + 1 \in 1 .. n /\ (n - (i + 1)) + 1 = j - 1
        BY <3>2
      <4>2. QED
        BY <1>1, <2>1, <3>2, <4>1 DEF Before, Behind
    <3>3. QED
      BY <3>1, <3>2
  <2>4. g[i] = s[j]
    BY <1>1
  <2> HIDE DEF j
  <2>5. Before(s, j) \in Offset /\ Behind(n, s, j) \in Offset
    BY <1>2, <2>1, CellIsOffset DEF Before, Behind
  <2>6. X!Xor[Before(s, j)][Behind(n, s, j)] = X!Xor[Behind(n, s, j)][Before(s, j)]
    BY <2>5, XorCommutes
  <2>7. QED
    BY <1>2, <2>1, <2>2, <2>3, <2>4, <2>6
<1>7. TwoWay(lk, n, g)
  BY <1>4, <1>5, <1>6 DEF TwoWay
<1>8. QED
  BY <1>7 DEF g

LEMMA FlipApart ==
    ASSUME NEW lk, NEW n, NEW s, NEW m, NEW f, NEW h, NEW t, NEW fr,
           Apart(lk, n, s, m, f, h, t, fr)
    PROVE  Apart(lk, n, Flip(n, s), m, f, t, h, fr)
<1> DEFINE g == Flip(n, s)
<1>1. n \in Nat /\ TwoWay(lk, n, s)
  BY DEF Apart
<1>2. TwoWay(lk, n, g)
  BY <1>1, FlipTwoWay
<1>3. \A i \in 1 .. n : g[i] = s[(n - i) + 1] /\ (n - i) + 1 \in 1 .. n
  BY <1>1 DEF Flip
<1>4. n > 0 => g[1] = s[n] /\ g[n] = s[1]
  BY <1>1, <1>3
<1> HIDE DEF g
<1>5. \A i \in 1 .. n, j \in 1 .. m : g[i] # f[j]
  BY <1>3 DEF Apart
<1>6. Apart(lk, n, g, m, f, t, h, fr)
  BY <1>1, <1>2, <1>4, <1>5 DEF Apart
<1>7. QED
  BY <1>6 DEF g

LEMMA FlipsBack ==
    ASSUME NEW n \in Nat, NEW s, NEW c
    PROVE  /\ Flip(n + 1, WithLast(n, Flip(n, s), c)) = WithFirst(n, s, c)
           /\ Flip(n - 1, ButLast(n, Flip(n, s))) = ButFirst(n, s)
<1>1. ASSUME NEW i \in 1 .. n + 1
      PROVE  WithLast(n, Flip(n, s), c)[((n + 1) - i) + 1] = IF i = 1 THEN c ELSE s[i - 1]
  <2> DEFINE j == ((n + 1) - i) + 1
  <2>1. j \in 1 .. n + 1 /\ (j <= n <=> i # 1)
    OBVIOUS
  <2>2. WithLast(n, Flip(n, s), c)[j] = IF j <= n THEN Flip(n, s)[j] ELSE c
    BY <2>1 DEF WithLast
  <2>3. i # 1 => j \in 1 .. n /\ (n - j) + 1 = i - 1
    OBVIOUS
  <2>4. i # 1 => Flip(n, s)[j] = s[i - 1]
    BY <2>3 DEF Flip
  <2>5. QED
    BY <2>1, <2>2, <2>4
<1>2. Flip(n + 1, WithLast(n, Flip(n, s), c)) = WithFirst(n, s, c)
  BY <1>1 DEF Flip, WithFirst
<1>3. ASSUME NEW i \in 1 .. n - 1
      PROVE  ButLast(n, Flip(n, s))[((n - 1) - i) + 1] = s[i + 1]
  <2> DEFINE j == ((n - 1) - i) + 1
  <2>1. j \in 1 .. n - 1 /\ j \in 1 .. n /\ (n - j) + 1 = i + 1
    OBVIOUS
  <2>2. ButLast(n, Flip(n, s))[j] = Flip(n, s)[j]
    BY <2>1 DEF ButLast
  <2>3. Flip(n, s)[j] = s[i + 1]
    BY <2>1 DEF Flip
  <2>4. QED
    BY <2>2, <2>3
<1>4. Flip(n - 1, ButLast(n, Flip(n, s))) = ButFirst(n, s)
  BY <1>3 DEF Flip, ButFirst
<1>5. QED
  BY <1>2, <1>4

\* alloc() takes the first free cell ...
LEMMA FreeFirst ==
    ASSUME NEW lk, NEW m, NEW f, NEW fr, FreeCells(lk, m, f, fr), fr # MaxOffset
    PROVE  fr \in Cell /\ m > 0 /\ fr = f[1]
BY DEF FreeCells, Chain

LEMMA FreeTaken ==
    ASSUME NEW lk, NEW m, NEW f, NEW fr, FreeCells(lk, m, f, fr), fr # MaxOffset,
           NEW ny, \A j \in 2 .. m : ny[f[j]] = lk[f[j]], NEW fy, fy = lk[fr]
    PROVE  FreeCells(ny, m - 1, ButFirst(m, f), fy)
<1> DEFINE e == ButFirst(m, f)
<1>1. /\ m \in Nat /\ f \in [1 .. m -> Cell]
      /\ \A i, j \in 1 .. m : f[i] = f[j] => i = j
      /\ \A i \in 1 .. m - 1 : lk[f[i]] = f[i + 1]
  BY DEF FreeCells, Chain
<1>2. m > 0 /\ fr = f[1] /\ fr \in Cell
  BY FreeFirst
<1>3. /\ e \in [1 .. m - 1 -> Cell]
      /\ \A i \in 1 .. m - 1 : e[i] = f[i + 1] /\ i + 1 \in 2 .. m /\ i + 1 \in 1 .. m
  BY <1>1 DEF ButFirst
<1> HIDE DEF e
<1>4. \A i, j \in 1 .. m - 1 : e[i] = e[j] => i = j
  BY <1>1, <1>3
<1>5. ASSUME NEW i \in 1 .. (m - 1) - 1 PROVE ny[e[i]] = e[i + 1]
  <2>1. i \in 1 .. m - 1 /\ i + 1 \in 1 .. m - 1
    BY <1>1
  <2>2. QED
    BY <1>1, <1>3, <2>1
<1>6. Chain(ny, m - 1, e)
  BY <1>3, <1>4, <1>5 DEF Chain
<1>7. fy = IF m - 1 = 0 THEN MaxOffset ELSE e[1]
  <2>1. CASE m = 1
    BY <1>2, <2>1 DEF FreeCells
  <2>2. CASE m > 1
    <3>1. 1 \in 1 .. m - 1
      BY <1>1, <2>2
    <3>2. QED
      BY <1>1, <1>2, <1>3, <2>2, <3>1
  <2>3. QED
    BY <1>1, <1>2, <2>1, <2>2
<1>8. m - 1 > 0 => ny[e[m - 1]] = MaxOffset
  <2> SUFFICES ASSUME m - 1 > 0 PROVE ny[e[m - 1]] = MaxOffset
    OBVIOUS
  <2>1. m - 1 \in 1 .. m - 1 /\ (m - 1) + 1 = m /\ m \in 2 .. m
    BY <1>1
  <2>2. QED
    BY <1>2, <1>3, <2>1 DEF FreeCells
<1>9. FreeCells(ny, m - 1, e, fy)
  BY <1>1, <1>2, <1>6, <1>7, <1>8 DEF FreeCells
<1>10. QED
  BY <1>9 DEF e

\* ... and free() puts one before it.
LEMMA FreeGiven ==
    ASSUME NEW lk, NEW m, NEW f, NEW fr, FreeCells(lk, m, f, fr),
           NEW c \in Cell, \A j \in 1 .. m : f[j] # c,
           NEW ny, ny[c] = fr, \A j \in 1 .. m : ny[f[j]] = lk[f[j]]
    PROVE  FreeCells(ny, m + 1, WithFirst(m, f, c), c)
<1> DEFINE e == WithFirst(m, f, c)
<1>1. /\ m \in Nat /\ f \in [1 .. m -> Cell]
      /\ \A i, j \in 1 .. m : f[i] = f[j] => i = j
      /\ \A i \in 1 .. m - 1 : lk[f[i]] = f[i + 1]
  BY DEF FreeCells, Chain
<1>2. /\ e \in [1 .. m + 1 -> Cell]
      /\ e[1] = c
      /\ \A i \in 2 .. m + 1 : e[i] = f[i - 1] /\ i - 1 \in 1 .. m
  BY <1>1 DEF WithFirst
<1> HIDE DEF e
<1>3. ASSUME NEW i \in 1 .. m + 1, NEW j \in 1 .. m + 1, e[i] = e[j] PROVE i = j
  <2>1. (i = 1 \/ i \in 2 .. m + 1) /\ (j = 1 \/ j \in 2 .. m + 1)
    BY <1>1
  <2>2. QED
    BY <1>1, <1>2, <1>3, <2>1
<1>4. ASSUME NEW i \in 1 .. (m + 1) - 1 PROVE ny[e[i]] = e[i + 1]
  <2>1. CASE i = 1
    <3>1. m > 0 /\ e[i + 1] = f[1]
      BY <1>1, <1>2, <2>1
    <3>2. QED
      BY <1>2, <2>1, <3>1 DEF FreeCells
  <2>2. CASE i # 1
    <3>1. i \in 2 .. m + 1 /\ i + 1 \in 2 .. m + 1 /\ i - 1 \in 1 .. m - 1 /\ i - 1 \in 1 .. m
          /\ (i - 1) + 1 = (i + 1) - 1
      BY <1>1, <2>2
    <3>2. QED
      BY <1>1, <1>2, <3>1
  <2>3. QED
    BY <2>1, <2>2
<1>5. Chain(ny, m + 1, e)
  BY <1>2, <1>3, <1>4 DEF Chain
<1>6. ny[e[m + 1]] = MaxOffset
  <2>1. CASE m = 0
    BY <1>2, <2>1 DEF FreeCells
  <2>2. CASE m > 0
    <3>1. m + 1 \in 2 .. m + 1 /\ (m + 1) - 1 = m /\ m \in 1 .. m
      BY <1>1, <2>2
    <3>2. QED
      BY <1>2, <2>2, <3>1 DEF FreeCells
  <2>3. QED
    BY <1>1, <2>1, <2>2
<1>7. FreeCells(ny, m + 1, e, c)
  BY <1>1, <1>2, <1>5, <1>6 DEF FreeCells
<1>8. QED
  BY <1>7 DEF e

LEMMA ApartMeans ==
    ASSUME NEW lk, NEW n, NEW s, NEW m, NEW f, NEW h, NEW t, NEW fr,
           Apart(lk, n, s, m, f, h, t, fr)
    PROVE  /\ n \in Nat /\ m \in Nat
           /\ s \in [1 .. n -> Cell] /\ f \in [1 .. m -> Cell]
           /\ \A i, j \in 1 .. n : s[i] = s[j] => i = j
           /\ \A i \in 1 .. n, j \in 1 .. m : s[i] # f[j]
           /\ \A i \in 1 .. n : lk[s[i]] = X!Xor[Before(s, i)][Behind(n, s, i)]
           /\ \A i \in 1 .. n : Before(s, i) \in Offset /\ Behind(n, s, i) \in Offset
           /\ lk \in [Cell -> Offset]
           /\ n > 0 => t = s[n] /\ h = s[1] /\ t \in Cell /\ h \in Cell
           /\ n = 0 => t = MaxOffset /\ h = MaxOffset
           /\ h = MaxOffset <=> n = 0
           /\ fr \in Offset
<1>1. /\ n \in Nat /\ m \in Nat
      /\ s \in [1 .. n -> Cell] /\ f \in [1 .. m -> Cell]
      /\ \A i, j \in 1 .. n : s[i] = s[j] => i = j
      /\ \A i \in 1 .. n, j \in 1 .. m : s[i] # f[j]
      /\ \A i \in 1 .. n : lk[s[i]] = X!Xor[Before(s, i)][Behind(n, s, i)]
      /\ lk \in [Cell -> Offset]
  BY DEF Apart, TwoWay, FreeCells, Chain
<1>2. \A i \in 1 .. n : Before(s, i) \in Offset /\ Behind(n, s, i) \in Offset
  BY <1>1, CellIsOffset DEF Before, Behind
<1>3. /\ n > 0 => t = s[n] /\ h = s[1] /\ t \in Cell /\ h \in Cell
      /\ n = 0 => t = MaxOffset /\ h = MaxOffset
  BY <1>1 DEF Apart
<1>4. h = MaxOffset <=> n = 0
  BY <1>1, <1>3, CellIsOffset
<1>5. fr \in Offset
  BY <1>1, CellIsOffset DEF Apart, FreeCells
<1>6. QED
  BY <1>1, <1>2, <1>3, <1>4, <1>5

\* The links of the two ends name their neighbours.
LEMMA EndLinks ==
    ASSUME NEW lk, NEW n, NEW s, NEW m, NEW f, NEW h, NEW t, NEW fr,
           Apart(lk, n, s, m, f, h, t, fr), n > 0
    PROVE  lk[t] = (IF n = 1 THEN 0 ELSE s[n - 1]) /\ lk[h] = (IF n = 1 THEN 0 ELSE s[2])
<1>1. /\ n \in Nat /\ 1 \in 1 .. n /\ n \in 1 .. n
      /\ t = s[n] /\ h = s[1]
      /\ \A i \in 1 .. n : lk[s[i]] = X!Xor[Before(s, i)][Behind(n, s, i)]
      /\ \A i \in 1 .. n : Before(s, i) \in Offset /\ Behind(n, s, i) \in Offset
  BY ApartMeans
<1>2. lk[t] = Before(s, n)
  <2>1. lk[t] = X!Xor[Before(s, n)][0]
    BY <1>1 DEF Behind
  <2>2. QED
    BY <1>1, <2>1, XorZero
<1>3. lk[h] = Behind(n, s, 1)
  <2>1. lk[h] = X!Xor[0][Behind(n, s, 1)]
    BY <1>1 DEF Before
  <2>2. X!Xor[0][Behind(n, s, 1)] = X!Xor[Behind(n, s, 1)][0]
    BY <1>1, CellIsOffset, XorCommutes
  <2>3. QED
    BY <1>1, <2>1, <2>2, XorZero
<1>4. QED
  BY <1>1, <1>2, <1>3 DEF Before, Behind

\* The link of the tail once c is behind it.
LEMMA TailLink ==
    ASSUME NEW lk, NEW n, NEW s, NEW m, NEW f, NEW h, NEW t, NEW fr,
           Apart(lk, n, s, m, f, h, t, fr), n > 0
    PROVE  lk[t] = Before(s, n)
<1>1. /\ n \in Nat /\ 1 \in 1 .. n /\ n \in 1 .. n
  BY ApartMeans
<1>2. QED
  BY <1>1, EndLinks DEF Before

\* alloc() takes a cell that is not in the list.
LEMMA ApartFree ==
    ASSUME NEW lk, NEW n, NEW s, NEW m, NEW f, NEW h, NEW t, NEW fr,
           Apart(lk, n, s, m, f, h, t, fr), fr # MaxOffset
    PROVE  fr \in Cell /\ m > 0 /\ \A i \in 1 .. n : s[i] # fr
<1>1. /\ m \in Nat /\ s \in [1 .. n -> Cell]
      /\ \A i \in 1 .. n, j \in 1 .. m : s[i] # f[j]
      /\ FreeCells(lk, m, f, fr)
  BY ApartMeans DEF Apart
<1>2. fr \in Cell /\ m > 0 /\ fr = f[1]
  BY <1>1, FreeFirst
<1>3. QED
  BY <1>1, <1>2

\* alloc(), and the new cell becomes the last one.
LEMMA XTookLast ==
    ASSUME NEW lk, NEW n, NEW s, NEW m, NEW f, NEW h, NEW t, NEW fr,
           Apart(lk, n, s, m, f, h, t, fr), fr # MaxOffset, NEW ny,
           ny = IF n = 0 THEN [lk EXCEPT ![fr] = 0]
                ELSE [lk EXCEPT ![fr] = t, ![t] = X!Xor[@][fr]],
           NEW hy, hy = IF n = 0 THEN fr ELSE h, NEW ty, ty = fr, NEW fy, fy = lk[fr]
    PROVE  Apart(ny, n + 1, WithLast(n, s, fr), m - 1, ButFirst(m, f), hy, ty, fy)
<1> DEFINE g == WithLast(n, s, fr)
           e == ButFirst(m, f)
<1>1. /\ n \in Nat /\ m \in Nat
      /\ s \in [1 .. n -> Cell] /\ f \in [1 .. m -> Cell]
      /\ \A i, j \in 1 .. n : s[i] = s[j] => i = j
      /\ \A i \in 1 .. n, j \in 1 .. m : s[i] # f[j]
      /\ \A i \in 1 .. n : lk[s[i]] = X!Xor[Before(s, i)][Behind(n, s, i)]
      /\ lk \in [Cell -> Offset]
      /\ n > 0 => t = s[n] /\ h = s[1] /\ t \in Cell /\ h \in Cell
  BY ApartMeans
<1>2. FreeCells(lk, m, f, fr) /\ \A i, j \in 1 .. m : f[i] = f[j] => i = j
  BY DEF Apart, FreeCells, Chain
<1>3. fr \in Cell /\ m > 0 /\ fr = f[1]
  BY <1>2, FreeFirst
<1>4. \A i \in 1 .. n : s[i] # fr /\ s[i] \in Cell
  BY <1>1, ApartFree
<1>5. /\ ny \in [Cell -> Offset]
      /\ ny[fr] = IF n = 0 THEN 0 ELSE s[n]
      /\ n > 0 => ny[s[n]] = X!Xor[Before(s, n)][fr]
      /\ \A c \in Cell : c # fr /\ (n > 0 => c # s[n]) => ny[c] = lk[c]
  <2>1. CASE n = 0
    BY <1>1, <1>3, <2>1, CellIsOffset
  <2>2. CASE n > 0
    <3>1. t = s[n] /\ t \in Cell /\ t # fr /\ t \in Offset /\ fr \in Offset
      BY <1>1, <1>3, <1>4, <2>2, CellIsOffset
    <3>2. lk[t] = Before(s, n)
      BY <2>2, TailLink
    <3>3. X!Xor[lk[t]][fr] \in Offset
      BY <1>1, <3>1, XorNat
    <3>4. ny = [lk EXCEPT ![fr] = t, ![t] = X!Xor[lk[t]][fr]]
      BY <1>1, <1>3, <2>2, <3>1
    <3>5. QED
      BY <1>1, <1>3, <2>2, <3>1, <3>2, <3>3, <3>4
  <2>3. QED
    BY <1>1, <2>1, <2>2
<1>6. FreeCells(ny, m - 1, e, fy)
  <2>1. \A j \in 2 .. m : ny[f[j]] = lk[f[j]]
    <3> SUFFICES ASSUME NEW j \in 2 .. m PROVE ny[f[j]] = lk[f[j]]
      OBVIOUS
    <3>1. j \in 1 .. m /\ 1 \in 1 .. m /\ j # 1 /\ f[j] \in Cell /\ (n > 0 => n \in 1 .. n)
      BY <1>1
    <3>2. f[j] # fr /\ (n > 0 => f[j] # s[n])
      BY <1>1, <1>2, <1>3, <3>1
    <3>3. QED
      BY <1>5, <3>1, <3>2
  <2>2. FreeCells(ny, m - 1, ButFirst(m, f), fy)
    BY <1>2, <2>1, FreeTaken
  <2>3. QED
    BY <2>2
<1>7. /\ \A i \in 1 .. n : g[i] = s[i]
      /\ g[n + 1] = fr /\ g \in [1 .. n + 1 -> Cell]
  BY <1>1, <1>3 DEF WithLast
<1>8. \A i \in 1 .. m - 1 : e[i] = f[i + 1] /\ i + 1 \in 1 .. m /\ f[i + 1] # fr
  <2> SUFFICES ASSUME NEW i \in 1 .. m - 1
               PROVE e[i] = f[i + 1] /\ i + 1 \in 1 .. m /\ f[i + 1] # fr
    OBVIOUS
  <2>1. i + 1 \in 1 .. m /\ 1 \in 1 .. m /\ i + 1 # 1
    BY <1>1
  <2>2. QED
    BY <1>2, <1>3, <2>1 DEF ButFirst
<1> HIDE DEF g, e
<1>9. \A i, j \in 1 .. n + 1 : g[i] = g[j] => i = j
  <2>1. \A i \in 1 .. n + 1 : i \in 1 .. n \/ i = n + 1
    BY <1>1
  <2>2. QED
    BY <1>1, <1>4, <1>7, <2>1
<1>10. ASSUME NEW i \in 1 .. n + 1
       PROVE  ny[g[i]] = X!Xor[Before(g, i)][Behind(n + 1, g, i)]
  <2>1. CASE i = n + 1
    <3>1. Before(g, i) = (IF n = 0 THEN 0 ELSE s[n]) /\ Behind(n + 1, g, i) = 0
      BY <1>1, <1>7, <2>1 DEF Before, Behind
    <3>2. Before(g, i) \in Offset
      BY <1>1, <3>1, CellIsOffset
    <3>3. QED
      BY <1>5, <1>7, <2>1, <3>1, <3>2, XorZero
  <2>2. CASE i = n
    <3>1. n > 0 /\ n \in 1 .. n /\ Before(g, i) = Before(s, n) /\ Behind(n + 1, g, i) = fr
      BY <1>1, <1>7, <2>2 DEF Before, Behind
    <3>2. QED
      BY <1>5, <1>7, <2>2, <3>1
  <2>3. CASE i < n
    <3>1. i \in 1 .. n /\ n \in 1 .. n /\ i + 1 \in 1 .. n /\ i # n + 1
      BY <1>1, <2>3
    <3>2. Before(g, i) = Before(s, i) /\ Behind(n + 1, g, i) = Behind(n, s, i)
      BY <1>7, <2>3, <3>1 DEF Before, Behind
    <3>3. ny[s[i]] = lk[s[i]]
      BY <1>1, <1>4, <1>5, <2>3, <3>1
    <3>4. QED
      BY <1>1, <1>7, <3>1, <3>2, <3>3
  <2>4. QED
    BY <1>1, <2>1, <2>2, <2>3
<1>11. TwoWay(ny, n + 1, g)
  BY <1>7, <1>9, <1>10 DEF TwoWay
<1>12. \A i \in 1 .. n + 1, j \in 1 .. m - 1 : g[i] # e[j]
  <2>1. \A i \in 1 .. n + 1 : i \in 1 .. n \/ i = n + 1
    BY <1>1
  <2>2. QED
    BY <1>1, <1>7, <1>8, <2>1
<1>13. hy = g[1] /\ ty = g[n + 1] /\ n + 1 \in Nat /\ n + 1 # 0
  BY <1>1, <1>7
<1>14. Apart(ny, n + 1, g, m - 1, e, hy, ty, fy)
  BY <1>5, <1>6, <1>11, <1>12, <1>13 DEF Apart
<1>15. QED
  BY <1>14 DEF g, e

\* alloc(), and the new cell becomes the first one.
LEMMA XTookFirst ==
    ASSUME NEW lk, NEW n, NEW s, NEW m, NEW f, NEW h, NEW t, NEW fr,
           Apart(lk, n, s, m, f, h, t, fr), fr # MaxOffset, NEW ny,
           ny = IF n = 0 THEN [lk EXCEPT ![fr] = 0]
                ELSE [lk EXCEPT ![fr] = h, ![h] = X!Xor[@][fr]],
           NEW hy, hy = fr, NEW ty, ty = IF n = 0 THEN fr ELSE t, NEW fy, fy = lk[fr]
    PROVE  Apart(ny, n + 1, WithFirst(n, s, fr), m - 1, ButFirst(m, f), hy, ty, fy)
<1> DEFINE g == Flip(n, s)
<1>1. Apart(lk, n, g, m, f, t, h, fr) /\ n \in Nat
  BY FlipApart, ApartMeans
<1> HIDE DEF g
<1>3. Apart(ny, n + 1, WithLast(n, g, fr), m - 1, ButFirst(m, f), ty, hy, fy)
  BY <1>1, XTookLast
<1>4. Apart(ny, n + 1, Flip(n + 1, WithLast(n, g, fr)), m - 1, ButFirst(m, f), hy, ty, fy)
  BY <1>3, FlipApart
<1>5. Flip(n + 1, WithLast(n, g, fr)) = WithFirst(n, s, fr)
  BY <1>1, FlipsBack DEF g
<1>6. QED
  BY <1>4, <1>5

\* free() of the last cell of two or more.
LEMMA XGaveLast ==
    ASSUME NEW lk, NEW n, NEW s, NEW m, NEW f, NEW h, NEW t, NEW fr,
           Apart(lk, n, s, m, f, h, t, fr), n > 1, NEW ny,
           ny = [lk EXCEPT ![lk[t]] = X!Xor[@][t], ![t] = fr],
           NEW hy, hy = h, NEW ty, ty = lk[t], NEW fy, fy = t
    PROVE  Apart(ny, n - 1, ButLast(n, s), m + 1, WithFirst(m, f, t), hy, ty, fy)
<1> DEFINE g == ButLast(n, s)
           e == WithFirst(m, f, t)
<1>1. /\ n \in Nat /\ m \in Nat
      /\ s \in [1 .. n -> Cell] /\ f \in [1 .. m -> Cell]
      /\ \A i, j \in 1 .. n : s[i] = s[j] => i = j
      /\ \A i \in 1 .. n, j \in 1 .. m : s[i] # f[j]
      /\ \A i \in 1 .. n : lk[s[i]] = X!Xor[Before(s, i)][Behind(n, s, i)]
      /\ \A i \in 1 .. n : Before(s, i) \in Offset /\ Behind(n, s, i) \in Offset
      /\ lk \in [Cell -> Offset]
      /\ t = s[n] /\ h = s[1] /\ t \in Cell /\ h \in Cell
      /\ fr \in Offset
  BY ApartMeans
<1>2. n - 1 \in 1 .. n /\ n \in 1 .. n /\ lk[t] = s[n - 1] /\ ty = s[n - 1]
  BY <1>1, EndLinks
<1> DEFINE p == s[n - 1]
<1>3. p \in Cell /\ p # t /\ p \in Offset /\ t \in Offset
  BY <1>1, <1>2, CellIsOffset
<1>4. X!Xor[lk[p]][t] = Before(s, n - 1)
  <2>1. lk[p] = X!Xor[Before(s, n - 1)][t]
    BY <1>1, <1>2 DEF Behind
  <2>2. QED
    BY <1>1, <1>2, <1>3, <2>1, XorUndoes
<1> HIDE DEF p
<1>5. /\ ny \in [Cell -> Offset] /\ ny[t] = fr /\ ny[p] = Before(s, n - 1)
      /\ \A c \in Cell : c # t /\ c # p => ny[c] = lk[c]
  <2>1. ny = [lk EXCEPT ![p] = Before(s, n - 1), ![t] = fr]
    BY <1>1, <1>2, <1>3, <1>4 DEF p
  <2>2. Before(s, n - 1) \in Offset
    BY <1>1, <1>2
  <2>3. QED
    BY <1>1, <1>3, <2>1, <2>2
<1>6. FreeCells(ny, m + 1, e, fy)
  <2>0. \A j \in 1 .. m : f[j] # t /\ f[j] # p /\ f[j] \in Cell
    BY <1>1, <1>2 DEF p
  <2>1. \A j \in 1 .. m : f[j] # t /\ ny[f[j]] = lk[f[j]]
    BY <1>5, <2>0
  <2> HIDE DEF e
  <2>2. FreeCells(lk, m, f, fr)
    BY DEF Apart
  <2>3. FreeCells(ny, m + 1, WithFirst(m, f, t), t)
    BY <1>1, <1>5, <2>1, <2>2, FreeGiven
  <2>4. QED
    BY <2>3 DEF e
<1>7. /\ \A i \in 1 .. n - 1 : g[i] = s[i] /\ i \in 1 .. n /\ s[i] # t /\ s[i] \in Cell
      /\ g \in [1 .. n - 1 -> Cell]
  <2>1. \A i \in 1 .. n - 1 : g[i] = s[i] /\ i \in 1 .. n /\ i # n
    BY <1>1 DEF ButLast
  <2>2. g = [i \in 1 .. n - 1 |-> s[i]]
    BY DEF ButLast
  <2>3. QED
    BY <1>1, <1>2, <2>1, <2>2
<1>8. \A j \in 1 .. m + 1 : e[j] = t \/ \E k \in 1 .. m : e[j] = f[k]
  <2>1. \A j \in 1 .. m + 1 : e[j] = IF j = 1 THEN t ELSE f[j - 1]
    BY DEF WithFirst
  <2>2. \A j \in 1 .. m + 1 : j # 1 => j - 1 \in 1 .. m
    BY <1>1
  <2>3. QED
    BY <2>1, <2>2
<1> HIDE DEF g, e
<1>9. \A i, j \in 1 .. n - 1 : g[i] = g[j] => i = j
  BY <1>1, <1>7
<1>10. ASSUME NEW i \in 1 .. n - 1
       PROVE  ny[g[i]] = X!Xor[Before(g, i)][Behind(n - 1, g, i)]
  <2>1. CASE i = n - 1
    <3>1. Before(g, i) = Before(s, n - 1) /\ Behind(n - 1, g, i) = 0
      BY <1>1, <1>7, <2>1 DEF Before, Behind
    <3>2. ny[g[i]] = Before(s, n - 1)
      BY <1>5, <1>7, <2>1 DEF p
    <3>3. Before(s, n - 1) \in Offset
      BY <1>1, <1>2
    <3>4. X!Xor[Before(s, n - 1)][0] = Before(s, n - 1)
      BY <3>3, XorZero
    <3>5. QED
      BY <3>1, <3>2, <3>4
  <2>2. CASE i # n - 1
    <3>1. i \in 1 .. n /\ i + 1 \in 1 .. n - 1 /\ i # n
      BY <1>1, <2>2
    <3>2. Before(g, i) = Before(s, i) /\ Behind(n - 1, g, i) = Behind(n, s, i)
      BY <1>1, <1>7, <2>2, <3>1 DEF Before, Behind
    <3>3. s[i] # p
      BY <1>1, <1>2, <2>2, <3>1 DEF p
    <3>4. ny[s[i]] = lk[s[i]]
      BY <1>5, <1>7, <3>3
    <3>5. QED
      BY <1>1, <1>7, <3>1, <3>2, <3>4
  <2>3. QED
    BY <2>1, <2>2
<1>11. TwoWay(ny, n - 1, g)
  BY <1>7, <1>9, <1>10 DEF TwoWay
<1>12. \A i \in 1 .. n - 1, j \in 1 .. m + 1 : g[i] # e[j]
  BY <1>1, <1>7, <1>8
<1>13. n - 1 \in Nat /\ n - 1 # 0 /\ hy = g[1] /\ ty = g[n - 1]
  BY <1>1, <1>2, <1>7
<1>14. Apart(ny, n - 1, g, m + 1, e, hy, ty, fy)
  BY <1>5, <1>6, <1>11, <1>12, <1>13 DEF Apart
<1>15. QED
  BY <1>14 DEF g, e

\* ... and of the first.
LEMMA XGaveFirst ==
    ASSUME NEW lk, NEW n, NEW s, NEW m, NEW f, NEW h, NEW t, NEW fr,
           Apart(lk, n, s, m, f, h, t, fr), n > 1, NEW ny,
           ny = [lk EXCEPT ![lk[h]] = X!Xor[@][h], ![h] = fr],
           NEW hy, hy = lk[h], NEW ty, ty = t, NEW fy, fy = h
    PROVE  Apart(ny, n - 1, ButFirst(n, s), m + 1, WithFirst(m, f, h), hy, ty, fy)
<1> DEFINE g == Flip(n, s)
<1>1. Apart(lk, n, g, m, f, t, h, fr) /\ n \in Nat
  BY FlipApart, ApartMeans
<1> HIDE DEF g
<1>3. Apart(ny, n - 1, ButLast(n, g), m + 1, WithFirst(m, f, h), ty, hy, fy)
  BY <1>1, XGaveLast
<1>4. Apart(ny, n - 1, Flip(n - 1, ButLast(n, g)), m + 1, WithFirst(m, f, h), hy, ty, fy)
  BY <1>3, FlipApart
<1>5. Flip(n - 1, ButLast(n, g)) = ButFirst(n, s)
  BY <1>1, FlipsBack DEF g
<1>6. QED
  BY <1>4, <1>5

\* free() of one cell, of a list that becomes empty.  The others are lost.
LEMMA XGaveOnly ==
    ASSUME NEW lk, NEW n, NEW s, NEW m, NEW f, NEW h, NEW t, NEW fr,
           Apart(lk, n, s, m, f, h, t, fr), NEW j \in 1 .. n, NEW ny,
           ny = [lk EXCEPT ![s[j]] = fr],
           NEW hy, hy = MaxOffset, NEW ty, ty = MaxOffset, NEW fy, fy = s[j]
    PROVE  Apart(ny, 0, NoCells, m + 1, WithFirst(m, f, s[j]), hy, ty, fy)
<1>1. /\ n \in Nat /\ m \in Nat
      /\ s \in [1 .. n -> Cell] /\ f \in [1 .. m -> Cell]
      /\ \A i \in 1 .. n, k \in 1 .. m : s[i] # f[k]
      /\ lk \in [Cell -> Offset]
      /\ fr \in Offset
  BY ApartMeans
<1> DEFINE c == s[j]
<1>2. /\ c \in Cell /\ ny[c] = fr /\ ny \in [Cell -> Offset]
      /\ \A k \in 1 .. m : f[k] # c /\ ny[f[k]] = lk[f[k]]
  BY <1>1
<1>3. FreeCells(lk, m, f, fr)
  BY DEF Apart
<1> HIDE DEF c
<1>4. FreeCells(ny, m + 1, WithFirst(m, f, c), c)
  BY <1>2, <1>3, FreeGiven
<1>5. TwoWay(ny, 0, NoCells)
  BY DEF TwoWay, NoCells
<1>6. Apart(ny, 0, NoCells, m + 1, WithFirst(m, f, c), hy, ty, fy)
  BY <1>2, <1>4, <1>5 DEF Apart, c
<1>7. QED
  BY <1>6 DEF c

\* clear() of a list of one or two.
LEMMA XGaveAll ==
    ASSUME NEW lk, NEW n, NEW s, NEW m, NEW f, NEW h, NEW t, NEW fr,
           Apart(lk, n, s, m, f, h, t, fr), n \in {1, 2}, NEW ny,
           ny = [lk EXCEPT ![t] = fr],
           NEW hy, hy = MaxOffset, NEW ty, ty = MaxOffset, NEW fy, fy = h
    PROVE  \E k, e : Apart(ny, 0, NoCells, k, e, hy, ty, fy)
<1>1. /\ n \in Nat /\ m \in Nat
      /\ s \in [1 .. n -> Cell] /\ f \in [1 .. m -> Cell]
      /\ \A i, j \in 1 .. n : s[i] = s[j] => i = j
      /\ \A i \in 1 .. n, k \in 1 .. m : s[i] # f[k]
      /\ lk \in [Cell -> Offset]
      /\ t = s[n] /\ h = s[1] /\ n > 0
  <2>1. n > 0
    OBVIOUS
  <2>2. QED
    <3>1. Apart(lk, n, s, m, f, h, t, fr)
      OBVIOUS
    <3>2. QED
      BY <2>1, <3>1, ApartMeans
<1>2. n \in 1 .. n /\ 1 \in 1 .. n
  OBVIOUS
<1>3. Apart(ny, 0, NoCells, m + 1, WithFirst(m, f, t), hy, ty, t)
  BY <1>1, <1>2, XGaveOnly
<1>4. CASE n = 1
  BY <1>1, <1>3, <1>4
<1>5. CASE n = 2
  <2> DEFINE e == WithFirst(m, f, t)
  <2>1. FreeCells(ny, m + 1, e, t)
    BY <1>3 DEF Apart
  <2>2. \A j \in 1 .. m + 1 : e[j] # h
    <3>1. \A j \in 1 .. m + 1 : e[j] = (IF j = 1 THEN t ELSE f[j - 1]) /\ (j # 1 => j - 1 \in 1 .. m)
      BY <1>1 DEF WithFirst
    <3>2. t # h
      BY <1>1, <1>5
    <3> HIDE DEF e
    <3>3. QED
      BY <1>1, <1>2, <3>1, <3>2
  <2> HIDE DEF e
  <2>3. ny[h] = t /\ h \in Cell
    <3>1. lk[h] = s[2]
      BY <1>5, EndLinks
    <3>2. h # t /\ h \in Cell
      BY <1>1, <1>5
    <3>3. QED
      BY <1>1, <1>5, <3>1, <3>2
  <2>4. FreeCells(ny, (m + 1) + 1, WithFirst(m + 1, e, h), h)
    BY <2>1, <2>2, <2>3, FreeGiven
  <2>5. Apart(ny, 0, NoCells, (m + 1) + 1, WithFirst(m + 1, e, h), hy, ty, fy)
    BY <1>3, <2>4 DEF Apart
  <2>6. QED
    BY <2>5
<1>6. QED
  BY <1>4, <1>5

\* The walk of size(), for at most k steps.
IsSteps(k, first, lk, st) ==
    st = [i \in 0 .. k |->
            IF i = 0 THEN [cur |-> first, prev |-> 0]
            ELSE IF st[i - 1].cur \notin Cell THEN st[i - 1]
            ELSE [cur  |-> X!Xor[lk[st[i - 1].cur]][st[i - 1].prev],
                  prev |-> st[i - 1].cur]]

LEMMA StepsExist ==
    ASSUME NEW first, NEW lk, NEW n \in Nat
    PROVE  \E st : IsSteps(n, first, lk, st)
<1> DEFINE bad == {k \in Nat : ~\E st : IsSteps(k, first, lk, st)}
<1>1. SUFFICES ASSUME bad # {} PROVE FALSE
  OBVIOUS
<1>2. PICK k \in bad : \A j \in bad : k <= j
  BY <1>1, LeastExists
<1>3. CASE k = 0
  <2>1. IsSteps(0, first, lk, [i \in 0 .. 0 |-> [cur |-> first, prev |-> 0]])
    BY DEF IsSteps
  <2>2. QED
    BY <1>3, <2>1
<1>4. CASE k # 0
  <2>1. k \in Nat /\ k - 1 \in Nat /\ k - 1 \notin bad
    BY <1>2, <1>4
  <2>2. PICK g : IsSteps(k - 1, first, lk, g)
    BY <2>1
  <2> DEFINE more(p) == IF p.cur \notin Cell THEN p
                        ELSE [cur |-> X!Xor[lk[p.cur]][p.prev], prev |-> p.cur]
             one(e, i) == IF i = 0 THEN [cur |-> first, prev |-> 0] ELSE more(e[i - 1])
             r == [i \in 0 .. k |-> IF i = k THEN more(g[k - 1]) ELSE g[i]]
  <2>a. g = [i \in 0 .. k - 1 |-> one(g, i)]
    BY <2>2 DEF IsSteps
  <2> HIDE DEF more
  <2>3. \A i \in 0 .. k - 1 : r[i] = g[i]
    BY <2>1
  <2>b. \A i \in 0 .. k - 1 : g[i] = IF i = 0 THEN [cur |-> first, prev |-> 0] ELSE more(g[i - 1])
    BY <2>a
  <2>4. ASSUME NEW i \in 0 .. k PROVE r[i] = one(r, i)
    <3>1. CASE i = 0
      BY <1>4, <2>1, <2>b, <2>3, <3>1
    <3>2. CASE i = k
      <4>1. r[i] = more(g[k - 1]) /\ r[i - 1] = g[k - 1]
        BY <2>1, <2>3, <3>2
      <4>2. QED
        BY <1>4, <3>2, <4>1
    <3>3. CASE i # 0 /\ i # k
      <4>1. i \in 0 .. k - 1 /\ i - 1 \in 0 .. k - 1
        BY <2>1, <3>3
      <4>2. r[i] = g[i] /\ r[i - 1] = g[i - 1]
        BY <2>3, <4>1
      <4>3. g[i] = more(g[i - 1])
        BY <2>b, <3>3, <4>1
      <4>4. QED
        BY <3>3, <4>2, <4>3
    <3>4. QED
      BY <3>1, <3>2, <3>3
  <2>5. r = [i \in 0 .. k |-> r[i]]
    OBVIOUS
  <2> HIDE DEF r
  <2>6. r = [i \in 0 .. k |-> one(r, i)]
    <3> HIDE DEF one
    <3>1. QED
      BY <2>4, <2>5
  <2>7. IsSteps(k, first, lk, r)
    BY <2>6 DEF IsSteps, more
  <2>8. QED
    BY <1>2, <2>7
<1>5. QED
  BY <1>3, <1>4

\* The walk passes the cells of the list one by one.
LEMMA StepsPass ==
    ASSUME NEW lk, NEW n \in Nat, NEW s, TwoWay(lk, n, s), n > 0, n <= N,
           NEW first, first = s[1], NEW st, IsSteps(N, first, lk, st)
    PROVE  \A i \in 1 .. n : st[i - 1] = [cur |-> s[i], prev |-> Before(s, i)]
<1>0. N \in Nat
  BY NAssumption
<1> DEFINE more(p) == IF p.cur \notin Cell THEN p
                      ELSE [cur |-> X!Xor[lk[p.cur]][p.prev], prev |-> p.cur]
           zero == [cur |-> first, prev |-> 0]
<1>a. st = [i \in 0 .. N |-> IF i = 0 THEN zero ELSE more(st[i - 1])]
  BY DEF IsSteps
<1> HIDE DEF more, zero
<1>1. /\ st[0] = [cur |-> first, prev |-> 0]
      /\ \A i \in 1 .. N : st[i] = more(st[i - 1])
  <2>1. \A i \in 0 .. N : st[i] = IF i = 0 THEN zero ELSE more(st[i - 1])
    BY <1>a
  <2>2. st[0] = zero
    BY <1>0, <2>1
  <2>3. \A i \in 1 .. N : st[i] = more(st[i - 1])
    BY <1>0, <2>1
  <2>4. QED
    BY <2>2, <2>3 DEF zero
<1>2. /\ s \in [1 .. n -> Cell]
      /\ \A i \in 1 .. n : lk[s[i]] = X!Xor[Before(s, i)][Behind(n, s, i)]
  BY DEF TwoWay
<1> DEFINE wrong == {i \in 1 .. n : st[i - 1] # [cur |-> s[i], prev |-> Before(s, i)]}
<1>3. SUFFICES ASSUME wrong # {} PROVE FALSE
  OBVIOUS
<1>4. wrong \in SUBSET Nat
  OBVIOUS
<1>5. PICK i \in wrong : \A j \in wrong : i <= j
  BY <1>3, <1>4, LeastExists
<1>6. i # 1 /\ i \in 1 .. n
  BY <1>1, <1>5 DEF Before
<1> DEFINE k == i - 1
<1>7. k \in 1 .. n /\ k \notin wrong /\ k \in 1 .. N /\ k # n /\ k + 1 = i
  BY <1>0, <1>5, <1>6
<1>8. st[k - 1] = [cur |-> s[k], prev |-> Before(s, k)]
  BY <1>7
<1>9. st[k] = [cur |-> X!Xor[lk[s[k]]][Before(s, k)], prev |-> s[k]]
  <2>1. st[k] = more(st[k - 1])
    BY <1>1, <1>7
  <2>2. s[k] \in Cell
    BY <1>2, <1>7
  <2>3. QED
    BY <1>8, <2>1, <2>2 DEF more
<1>10. X!Xor[lk[s[k]]][Before(s, k)] = s[i]
  <2> HIDE DEF k
  <2>1. Before(s, k) \in Offset /\ Behind(n, s, k) \in Offset /\ Behind(n, s, k) = s[i]
    BY <1>2, <1>7, CellIsOffset DEF Before, Behind
  <2>2. lk[s[k]] = X!Xor[Before(s, k)][Behind(n, s, k)]
    BY <1>2, <1>7
  <2>3. lk[s[k]] = X!Xor[Behind(n, s, k)][Before(s, k)]
    BY <2>1, <2>2, XorCommutes
  <2>4. QED
    BY <2>1, <2>3, XorUndoes
<1>11. st[i - 1] = [cur |-> s[i], prev |-> Before(s, i)]
  BY <1>6, <1>9, <1>10 DEF Before
<1>12. QED
  BY <1>5, <1>11

\* No more cells than there are.
LEMMA ApartCount ==
    ASSUME NEW lk, NEW n, NEW s, NEW m, NEW f, NEW h, NEW t, NEW fr,
           Apart(lk, n, s, m, f, h, t, fr)
    PROVE  n + m <= N
<1>1. /\ n \in Nat /\ m \in Nat
      /\ s \in [1 .. n -> Cell] /\ f \in [1 .. m -> Cell]
      /\ \A i, j \in 1 .. n : s[i] = s[j] => i = j
      /\ \A i \in 1 .. n, j \in 1 .. m : s[i] # f[j]
  BY ApartMeans
<1>2. \A i, j \in 1 .. m : f[i] = f[j] => i = j
  BY DEF Apart, FreeCells, Chain
<1> DEFINE g == InARow(n, s, m, f)
<1>3. ASSUME NEW i \in 1 .. n + m
      PROVE  /\ i <= n => i \in 1 .. n /\ g[i] = s[i]
             /\ ~(i <= n) => i - n \in 1 .. m /\ g[i] = f[i - n]
  BY <1>1 DEF InARow
<1>4. g \in [1 .. n + m -> Cell]
  BY <1>1 DEF InARow
<1> HIDE DEF g
<1>5. ASSUME NEW i \in 1 .. n + m, NEW j \in 1 .. n + m, g[i] = g[j] PROVE i = j
  BY <1>1, <1>2, <1>3, <1>5
<1>6. g \in Injection(1 .. n + m, Cell)
  BY <1>4, <1>5, Fun_IsInj, Zenon
<1>7. IsFiniteSet(Cell) /\ Cardinality(Cell) = N
  BY NAssumption, FS_Interval DEF Cell
<1>8. Cardinality(1 .. n + m) <= Cardinality(Cell)
  BY <1>6, <1>7, FS_Injection
<1>9. Cardinality(1 .. n + m) = n + m
  <2>1. 1 \in Int /\ n + m \in Int /\ n + m \in Nat
    BY <1>1
  <2>2. Cardinality(1 .. n + m) = IF 1 > n + m THEN 0 ELSE (n + m) - 1 + 1
    BY <2>1, FS_Interval
  <2>3. QED
    BY <2>1, <2>2
<1>10. QED
  BY <1>7, <1>8, <1>9

\* Between its ends the walk is the list.
LEMMA WalkIs ==
    ASSUME NEW n \in Nat, NEW s, TwoWay(x_link, n, s), n <= N,
           NEW h, h = IF n = 0 THEN MaxOffset ELSE s[1],
           NEW t, t = IF n = 0 THEN MaxOffset ELSE s[n]
    PROVE  X!Walk(h, t) = s
<1>1. s \in [1 .. n -> Cell] /\ \A i, j \in 1 .. n : s[i] = s[j] => i = j
  BY DEF TwoWay
<1>2. CASE n = 0
  <2>1. X!Walk(h, t) = << >>
    BY <1>2 DEF X!Walk
  <2>2. s \in [1 .. 0 -> Cell]
    BY <1>1, <1>2
  <2>3. s \in Seq(Cell) /\ Len(s) = 0
    BY <2>2, SeqDef, LenProperties
  <2>4. QED
    BY <2>1, <2>3, EmptySeq
<1>3. CASE n # 0
  <2> DEFINE st == CHOOSE e : IsSteps(N, h, x_link, e)
  <2>1. \E e : IsSteps(N, h, x_link, e)
    BY NAssumption, StepsExist
  <2>2. IsSteps(N, h, x_link, st)
    BY <2>1
  <2> DEFINE arrivals == {i \in 0 .. N - 1 : st[i].cur = t}
  <2>3. h # MaxOffset
    BY <1>1, <1>3, CellIsOffset
  <2>4. X!Walk(h, t) = [i \in 1 .. X!Min(arrivals \cup {N}) + 1 |-> st[i - 1].cur]
    BY <2>3 DEF X!Walk, IsSteps, X!Node, Cell
  <2> HIDE DEF st
  <2> DEFINE at == [i \in 0 .. N |-> st[i].cur]
             r == {i \in 0 .. N - 1 : at[i] = t} \cup {N}
  <2>5. \A i \in 1 .. n : st[i - 1] = [cur |-> s[i], prev |-> Before(s, i)]
    BY <1>3, <2>2, StepsPass
  <2>a. \A i \in 1 .. n : st[i - 1].cur = s[i]
    <3> SUFFICES ASSUME NEW i \in 1 .. n PROVE st[i - 1].cur = s[i]
      OBVIOUS
    <3>1. st[i - 1] = [cur |-> s[i], prev |-> Before(s, i)]
      BY <2>5
    <3>2. [cur |-> s[i], prev |-> Before(s, i)].cur = s[i]
      OBVIOUS
    <3>3. QED
      BY <3>1, <3>2
  <2>b. \A i \in 0 .. N : at[i] = st[i].cur
    OBVIOUS
  <2>6. \A i \in 1 .. n : at[i - 1] = s[i]
    <3> SUFFICES ASSUME NEW i \in 1 .. n PROVE at[i - 1] = s[i]
      OBVIOUS
    <3>1. i - 1 \in 0 .. N
      BY NAssumption
    <3> HIDE DEF at
    <3>2. QED
      BY <2>a, <2>b, <3>1
  <2>7. arrivals \cup {N} = r
    <3>1. \A i \in 0 .. N - 1 : i \in 0 .. N
      BY NAssumption
    <3>2. \A i \in 0 .. N - 1 : at[i] = st[i].cur
      BY <2>b, <3>1
    <3> HIDE DEF at
    <3>3. QED
      BY <3>2
  <2>8. X!Min(r) = StepsTo(at, t)
    BY DEF X!Min, StepsTo
  <2> HIDE DEF at, arrivals, r
  <2>c. StepsTo(at, t) = n - 1
    BY <1>1, <1>3, <2>6, StepsToEnd
  <2>9. X!Min(arrivals \cup {N}) = n - 1
    BY <2>7, <2>8, <2>c
  <2>10. X!Walk(h, t) = [i \in 1 .. n |-> st[i - 1].cur]
    <3>1. (n - 1) + 1 = n
      OBVIOUS
    <3>2. X!Walk(h, t) = [i \in 1 .. (n - 1) + 1 |-> st[i - 1].cur]
      BY <2>4, <2>9, Zenon
    <3>3. QED
      BY <3>1, <3>2, Zenon
  <2>11. s = [i \in 1 .. n |-> s[i]]
    BY <1>1
  <2>12. QED
    BY <2>a, <2>10, <2>11
<1>4. QED
  BY <1>2, <1>3

XShape(n, s, m, f) ==
    /\ Apart(x_link, n, s, m, f, x_head, x_tail, x_free_list)
    /\ x_item \in [Cell -> Item]

XInv == x_ret \in Item \cup {None} /\ \E n, s, m, f : XShape(n, s, m, f)

LEMMA CountedSeq ==
    ASSUME NEW n \in Nat, NEW A, NEW C \in [1 .. n -> A]
    PROVE  C \in Seq(A) /\ Len(C) = n /\ DOMAIN C = 1 .. n
<1>1. C \in Seq(A) /\ DOMAIN C = 1 .. n
  BY SeqDef
<1>2. DOMAIN C = 1 .. Len(C) /\ Len(C) \in Nat
  BY <1>1, LenProperties
<1>3. QED
  BY <1>1, <1>2

\* What the list reads as.
XAre(n, s) ==
    /\ X!Nodes = s /\ Len(X!Nodes) = n
    /\ XContents \in Seq(Item) /\ Len(XContents) = n
    /\ \A i \in 1 .. n : XContents[i] = x_item[s[i]]

XReadsAs == \A n, s, m, f : XShape(n, s, m, f) => XAre(n, s)

LEMMA XReads == XReadsAs
<1> SUFFICES ASSUME NEW n, NEW s, NEW m, NEW f, XShape(n, s, m, f) PROVE XAre(n, s)
  BY DEF XReadsAs
<1>1. Apart(x_link, n, s, m, f, x_head, x_tail, x_free_list)
  BY DEF XShape
<1>2. n \in Nat /\ m \in Nat /\ s \in [1 .. n -> Cell]
  BY <1>1, ApartMeans
<1>3. n <= N
  <2>1. n + m <= N
    BY <1>1, ApartCount
  <2>2. QED
    BY <1>2, <2>1, NAssumption
<1>4. X!Nodes = s
  <2>1. /\ TwoWay(x_link, n, s)
        /\ x_head = IF n = 0 THEN MaxOffset ELSE s[1]
        /\ x_tail = IF n = 0 THEN MaxOffset ELSE s[n]
    BY <1>1 DEF Apart
  <2>2. X!Walk(x_head, x_tail) = s
    BY <1>2, <1>3, <2>1, WalkIs
  <2>3. QED
    BY <2>2 DEF X!Nodes
<1>5. s \in Seq(Cell) /\ Len(s) = n /\ DOMAIN s = 1 .. n
  BY <1>2, CountedSeq
<1>6. XContents = [i \in 1 .. n |-> x_item[s[i]]]
  BY <1>4, <1>5 DEF XContents
<1>7. \A i \in 1 .. n : x_item[s[i]] \in Item
  BY <1>2 DEF XShape
<1>8. XContents \in [1 .. n -> Item]
  BY <1>6, <1>7
<1>9. XContents \in Seq(Item) /\ Len(XContents) = n
  BY <1>2, <1>8, CountedSeq
<1>10. QED
  BY <1>4, <1>5, <1>6, <1>9 DEF XAre

LEMMA XReadsNow ==
    ASSUME NEW n, NEW s, NEW m, NEW f, XShape(n, s, m, f) PROVE XAre(n, s)
BY XReads DEF XReadsAs

LEMMA XReadsNext ==
    ASSUME NEW n, NEW s, NEW m, NEW f, XShape(n, s, m, f)' PROVE XAre(n, s)'
<1>1. XReadsAs'
  BY XReads, PTL
<1>2. QED
  BY <1>1 DEF XReadsAs

\* The free cells of an xorlist are those that alloc() would hand out.
LEMMA XFree ==
    ASSUME NEW n, NEW s, NEW m, NEW f, XShape(n, s, m, f)
    PROVE  X!FreeFrom[N] = MaxOffset /\ \A i \in 1 .. n : s[i] \notin X!Free
<1> DEFINE at == X!FreeFrom
<1>1. IsWalk(MaxOffset, N, x_free_list, x_link, at)
  <2>1. PICK g : IsWalk(MaxOffset, N, x_free_list, x_link, g)
    BY NAssumption, WalkExists
  <2>2. X!FreeFrom = CHOOSE e : IsWalk(MaxOffset, N, x_free_list, x_link, e)
    BY DEF IsWalk, X!FreeFrom
  <2>3. QED
    BY <2>1, <2>2
<1>2. /\ Apart(x_link, n, s, m, f, x_head, x_tail, x_free_list)
      /\ FreeCells(x_link, m, f, x_free_list)
  BY DEF XShape, Apart
<1>3. /\ n \in Nat /\ m \in Nat /\ s \in [1 .. n -> Cell] /\ f \in [1 .. m -> Cell]
      /\ \A i \in 1 .. n, j \in 1 .. m : s[i] # f[j]
  BY <1>2, ApartMeans
<1>4. m <= N /\ N \in Nat
  <2>1. n + m <= N
    BY <1>2, ApartCount
  <2>2. QED
    BY <1>3, <2>1, NAssumption
<1>5. X!Free = {at[i] : i \in 0 .. N} \ {MaxOffset}
  BY DEF X!Free
<1> HIDE DEF at
<1>6. CASE m = 0
  <2>1. IsWalk(MaxOffset, N, MaxOffset, x_link, at)
    BY <1>1, <1>2, <1>6 DEF FreeCells
  <2>2. \A i \in 0 .. N : at[i] = MaxOffset
    BY <1>4, <2>1, WalkOfNil
  <2>3. QED
    BY <1>4, <1>5, <2>2 DEF at
<1>7. CASE m > 0
  <2>1. Chain(x_link, m, f) /\ x_free_list = f[1] /\ x_link[f[m]] = MaxOffset
    BY <1>2, <1>7 DEF FreeCells
  <2>2. Passes(MaxOffset, x_link, m, f, at)
    BY <1>1, <1>3, <1>4, <1>7, <2>1, CellIsOffset, WalkPasses
  <2>3. /\ \A i \in 1 .. m : at[i - 1] = f[i]
        /\ \A i \in m .. N : at[i] = MaxOffset
    BY <2>1, <2>2 DEF Passes
  <2>4. ASSUME NEW i \in 0 .. N PROVE at[i] = MaxOffset \/ \E j \in 1 .. m : at[i] = f[j]
    <3>1. CASE i < m
      <4>1. i + 1 \in 1 .. m /\ (i + 1) - 1 = i
        BY <1>3, <3>1
      <4>2. QED
        BY <2>3, <4>1
    <3>2. CASE ~(i < m)
      BY <1>3, <1>4, <2>3, <3>2
    <3>3. QED
      BY <3>1, <3>2
  <2>5. at[N] = MaxOffset
    BY <1>3, <1>4, <2>3
  <2>6. \A i \in 1 .. n : s[i] \notin X!Free
    BY <1>3, <1>5, <2>4
  <2>7. QED
    BY <2>5, <2>6 DEF at
<1>8. QED
  BY <1>3, <1>6, <1>7

LEMMA XorlistSound ==
    ASSUME XInv
    PROVE  X!TypeOK /\ X!ReadsBothWays /\ X!FreeNodesHoldNoItem
<1>1. PICK n, s, m, f : XShape(n, s, m, f)
  BY DEF XInv
<1>2. Apart(x_link, n, s, m, f, x_head, x_tail, x_free_list)
  BY <1>1 DEF XShape
<1>3. /\ n \in Nat /\ m \in Nat /\ s \in [1 .. n -> Cell]
      /\ x_link \in [Cell -> Offset] /\ x_free_list \in Offset
      /\ f \in [1 .. m -> Cell]
  BY <1>2, ApartMeans
<1>4. {x_free_list, x_head, x_tail} \subseteq Cell \cup {MaxOffset}
  BY <1>2, <1>3 DEF Apart, FreeCells
<1>5. X!TypeOK
  BY <1>1, <1>3, <1>4 DEF X!TypeOK, XInv, XShape, X!Node, Cell, Offset
<1>6. X!Nodes = s /\ Len(s) = n
  BY <1>1, XReadsNow DEF XAre
<1>7. X!ReadsBothWays
  <2>1. Apart(x_link, n, Flip(n, s), m, f, x_tail, x_head, x_free_list)
    BY <1>2, FlipApart
  <2>2. n + m <= N
    BY <1>2, ApartCount
  <2>3. n <= N
    BY <1>3, <2>2, NAssumption
  <2> DEFINE g == Flip(n, s)
  <2> HIDE DEF g
  <2>4. /\ TwoWay(x_link, n, g)
        /\ x_tail = IF n = 0 THEN MaxOffset ELSE g[1]
        /\ x_head = IF n = 0 THEN MaxOffset ELSE g[n]
    BY <2>1 DEF Apart, g
  <2>5. X!Walk(x_tail, x_head) = g
    BY <1>3, <2>3, <2>4, WalkIs
  <2>6. X!Reverse(s) = Flip(n, s)
    BY <1>6 DEF X!Reverse, Flip
  <2>7. QED
    BY <1>6, <2>5, <2>6 DEF X!ReadsBothWays, g
<1>8. X!FreeNodesHoldNoItem
  <2>1. X!FreeFrom[N] = MaxOffset /\ \A i \in 1 .. n : s[i] \notin X!Free
    BY <1>1, XFree
  <2>2. QED
    BY <1>6, <2>1 DEF X!FreeNodesHoldNoItem
<1>9. QED
  BY <1>5, <1>7, <1>8

LEMMA XorlistStarts ==
    ASSUME X!Init
    PROVE  XInv /\ XD!Init
<1>1. /\ x_item \in [Cell -> Item]
      /\ x_link = [c \in Cell |-> IF c = N - 1 THEN MaxOffset ELSE c + 1]
      /\ x_free_list = 0 /\ x_head = MaxOffset /\ x_tail = MaxOffset
      /\ x_ret = None
  BY DEF X!Init, X!Node, Cell
<1>2. x_link \in [Cell -> Offset]
  BY <1>1, NAssumption, MaxOffsetAssumption DEF Cell, Offset
<1> DEFINE f == [i \in 1 .. N |-> i - 1]
<1>3. FreeCells(x_link, N, f, 0)
  <2>1. Chain(x_link, N, f)
    BY <1>1, FirstChain
  <2>2. f[1] = 0 /\ x_link[f[N]] = MaxOffset /\ N \in Nat /\ N > 0
    BY <1>1, NAssumption DEF Cell
  <2> HIDE DEF f
  <2>3. QED
    BY <2>1, <2>2 DEF FreeCells
<1> HIDE DEF f
<1>4. TwoWay(x_link, 0, NoCells)
  BY DEF TwoWay, NoCells
<1>5. XShape(0, NoCells, N, f)
  BY <1>1, <1>2, <1>3, <1>4 DEF XShape, Apart
<1>6. XContents \in Seq(Item) /\ Len(XContents) = 0
  BY <1>5, XReadsNow DEF XAre
<1>7. XContents = << >>
  BY <1>6, EmptySeq
<1>8. QED
  BY <1>1, <1>5, <1>7 DEF XInv, XD!Init

\* What an end that gained or lost an item reads as.
LEMMA ReadsOneMoreLast ==
    ASSUME NEW n \in Nat, NEW s, NEW it, NEW C, Holds(it, n, s, n, C),
           s \in [1 .. n -> Cell], NEW c \in Cell, \A i \in 1 .. n : s[i] # c,
           NEW x \in Item, NEW jt, jt = [it EXCEPT ![c] = x],
           NEW E, Holds(jt, n + 1, WithLast(n, s, c), n + 1, E)
    PROVE  AddsLast(n, C, x, n + 1, E)
<1>1. /\ jt[c] = x /\ \A i \in 1 .. n : jt[s[i]] = C[i]
      /\ \A i \in 1 .. n + 1 : E[i] = jt[WithLast(n, s, c)[i]]
  BY DEF Holds
<1>2. ASSUME NEW i \in 1 .. n + 1 PROVE E[i] = IF i = n + 1 THEN x ELSE C[i]
  <2>1. E[i] = jt[IF i <= n THEN s[i] ELSE c]
    BY <1>1 DEF WithLast
  <2>2. i = n + 1 \/ i \in 1 .. n
    OBVIOUS
  <2>3. QED
    BY <1>1, <2>1, <2>2
<1>3. QED
  BY <1>2 DEF AddsLast

LEMMA ReadsOneMoreFirst ==
    ASSUME NEW n \in Nat, NEW s, NEW it, NEW C, Holds(it, n, s, n, C),
           s \in [1 .. n -> Cell], NEW c \in Cell, \A i \in 1 .. n : s[i] # c,
           NEW x \in Item, NEW jt, jt = [it EXCEPT ![c] = x],
           NEW E, Holds(jt, n + 1, WithFirst(n, s, c), n + 1, E)
    PROVE  AddsFirst(n, C, x, n + 1, E)
<1>1. /\ jt[c] = x /\ \A i \in 1 .. n : jt[s[i]] = C[i]
      /\ \A i \in 1 .. n + 1 : E[i] = jt[WithFirst(n, s, c)[i]]
  BY DEF Holds
<1>2. ASSUME NEW i \in 1 .. n + 1 PROVE E[i] = IF i = 1 THEN x ELSE C[i - 1]
  <2>1. E[i] = jt[IF i = 1 THEN c ELSE s[i - 1]]
    BY <1>1 DEF WithFirst
  <2>2. i = 1 \/ i - 1 \in 1 .. n
    OBVIOUS
  <2>3. QED
    BY <1>1, <2>1, <2>2
<1>3. QED
  BY <1>2 DEF AddsFirst

\* What a call does to the deque.
XDone == XInv' /\ (XD!Next \/ X!PopDropsItems)

LEMMA XPushes ==
    ASSUME XInv, NEW x \in Item
    PROVE  /\ X!push_back(x) => XDone
           /\ X!push_front(x) => XDone
<1>1. PICK n, s, m, f : XShape(n, s, m, f)
  BY DEF XInv
<1>2. PICK c : c = x_free_list
  OBVIOUS
<1>3. Apart(x_link, n, s, m, f, x_head, x_tail, c) /\ x_item \in [Cell -> Item]
  BY <1>1, <1>2 DEF XShape
<1>4. /\ n \in Nat /\ m \in Nat /\ s \in [1 .. n -> Cell]
      /\ x_head = MaxOffset <=> n = 0
  BY <1>3, ApartMeans
<1>5. n + m <= N /\ N \in Nat
  BY <1>3, ApartCount, NAssumption
<1>6. XAre(n, s)
  BY <1>1, XReadsNow
<1>7. ASSUME X!push_back(x) PROVE XDone
  <2>1. /\ c # MaxOffset
        /\ x_link' = IF n = 0 THEN [x_link EXCEPT ![c] = 0]
                     ELSE [x_link EXCEPT ![c] = x_tail, ![x_tail] = X!Xor[@][c]]
        /\ x_head' = IF n = 0 THEN c ELSE x_head
        /\ x_tail' = c
        /\ x_free_list' = x_link[c]
        /\ x_item' = [x_item EXCEPT ![c] = x]
        /\ x_ret' = None
    BY <1>2, <1>4, <1>7 DEF X!push_back, X!PushFirst, X!Take, X!full, X!empty
  <2>2. c \in Cell /\ m > 0 /\ \A i \in 1 .. n : s[i] # c
    BY <1>3, <2>1, ApartFree
  <2>a. Apart(x_link', n + 1, WithLast(n, s, c), m - 1, ButFirst(m, f),
              x_head', x_tail', x_free_list')
    BY <1>3, <2>1, XTookLast
  <2>3. x_item' \in [Cell -> Item]
    BY <1>3, <2>1, <2>2
  <2>4. XShape(n + 1, WithLast(n, s, c), m - 1, ButFirst(m, f))'
    BY <2>3, <2>a DEF XShape
  <2>5. XAre(n + 1, WithLast(n, s, c))'
    BY <2>4, XReadsNext
  <2>b. /\ Holds(x_item, n, s, n, XContents)
        /\ Holds(x_item', n + 1, WithLast(n, s, c), n + 1, XContents')
    BY <1>3, <1>6, <2>3, <2>5 DEF XAre, Holds
  <2>6. AddsLast(n, XContents, x, n + 1, XContents')
    BY <1>3, <1>4, <2>1, <2>2, <2>b, ReadsOneMoreLast
  <2>7. AddsLast(Len(XContents), XContents, x, Len(XContents'), XContents')
    BY <1>6, <2>5, <2>6 DEF XAre
  <2>8. XContents' = Append(XContents, x)
    BY <1>6, <2>5, <2>7, SeqAdded DEF XAre
  <2>9. Len(XContents) < N
    BY <1>4, <1>5, <1>6, <2>2 DEF XAre
  <2>10. XD!PushBack(x)
    BY <2>1, <2>8, <2>9 DEF XD!PushBack
  <2>11. QED
    BY <2>1, <2>4, <2>10 DEF XDone, XInv, XD!Next
<1>8. ASSUME X!push_front(x) PROVE XDone
  <2>1. /\ c # MaxOffset
        /\ x_link' = IF n = 0 THEN [x_link EXCEPT ![c] = 0]
                     ELSE [x_link EXCEPT ![c] = x_head, ![x_head] = X!Xor[@][c]]
        /\ x_head' = c
        /\ x_tail' = IF n = 0 THEN c ELSE x_tail
        /\ x_free_list' = x_link[c]
        /\ x_item' = [x_item EXCEPT ![c] = x]
        /\ x_ret' = None
    BY <1>2, <1>4, <1>8 DEF X!push_front, X!PushFirst, X!Take, X!full, X!empty
  <2>2. c \in Cell /\ m > 0 /\ \A i \in 1 .. n : s[i] # c
    BY <1>3, <2>1, ApartFree
  <2>a. Apart(x_link', n + 1, WithFirst(n, s, c), m - 1, ButFirst(m, f),
              x_head', x_tail', x_free_list')
    BY <1>3, <2>1, XTookFirst
  <2>3. x_item' \in [Cell -> Item]
    BY <1>3, <2>1, <2>2
  <2>4. XShape(n + 1, WithFirst(n, s, c), m - 1, ButFirst(m, f))'
    BY <2>3, <2>a DEF XShape
  <2>5. XAre(n + 1, WithFirst(n, s, c))'
    BY <2>4, XReadsNext
  <2>b. /\ Holds(x_item, n, s, n, XContents)
        /\ Holds(x_item', n + 1, WithFirst(n, s, c), n + 1, XContents')
    BY <1>3, <1>6, <2>3, <2>5 DEF XAre, Holds
  <2>6. AddsFirst(n, XContents, x, n + 1, XContents')
    BY <1>3, <1>4, <2>1, <2>2, <2>b, ReadsOneMoreFirst
  <2>7. AddsFirst(Len(XContents), XContents, x, Len(XContents'), XContents')
    BY <1>6, <2>5, <2>6 DEF XAre
  <2>8. XContents' = <<x>> \o XContents
    BY <1>6, <2>5, <2>7, SeqAdded DEF XAre
  <2>9. Len(XContents) < N
    BY <1>4, <1>5, <1>6, <2>2 DEF XAre
  <2>10. XD!PushFront(x)
    BY <2>1, <2>8, <2>9 DEF XD!PushFront
  <2>11. QED
    BY <2>1, <2>4, <2>10 DEF XDone, XInv, XD!Next
<1>9. QED
  BY <1>7, <1>8

\* A pop of a node whose link is 0.
LEMMA XPopsLast ==
    ASSUME XInv, NEW j, NEW n, NEW s, NEW m, NEW f, XShape(n, s, m, f),
           j \in 1 .. n, X!PopLast(s[j])
    PROVE  XInv' /\ (n = 1 => XD!PopBack) /\ n = Len(X!Nodes)
<1>3. Apart(x_link, n, s, m, f, x_head, x_tail, x_free_list) /\ x_item \in [Cell -> Item]
  BY DEF XShape
<1>4. n \in Nat /\ s \in [1 .. n -> Cell]
  BY <1>3, ApartMeans
<1>5. /\ x_link' = [x_link EXCEPT ![s[j]] = x_free_list]
      /\ x_head' = MaxOffset /\ x_tail' = MaxOffset
      /\ x_free_list' = s[j]
      /\ x_item' = x_item
      /\ x_ret' = x_item[s[j]]
  BY DEF X!PopLast
<1>6. Apart(x_link', 0, NoCells, m + 1, WithFirst(m, f, s[j]), x_head', x_tail', x_free_list')
  BY <1>3, <1>5, XGaveOnly
<1>7. XShape(0, NoCells, m + 1, WithFirst(m, f, s[j]))'
  BY <1>3, <1>5, <1>6 DEF XShape
<1>8. XAre(n, s)
  BY XReadsNow
<1>9. XAre(0, NoCells)'
  BY <1>7, XReadsNext
<1>10. x_ret' \in Item
  BY <1>3, <1>4, <1>5
<1>11. ASSUME n = 1 PROVE XD!PopBack
  <2>1. DropsLast(Len(XContents), XContents, Len(XContents'), XContents')
    BY <1>8, <1>9, <1>11 DEF XAre, DropsLast
  <2>2. XContents' = SubSeq(XContents, 1, Len(XContents) - 1)
    BY <1>8, <1>9, <2>1, SeqDropped DEF XAre
  <2>3. x_ret' = XContents[Len(XContents)] /\ Len(XContents) > 0
    BY <1>5, <1>8, <1>11 DEF XAre
  <2>4. QED
    BY <2>2, <2>3 DEF XD!PopBack
<1>12. QED
  BY <1>7, <1>8, <1>10, <1>11 DEF XInv, XAre

LEMMA XPopsBack ==
    ASSUME XInv, X!pop_back
    PROVE  XDone
<1>1. PICK n, s, m, f : XShape(n, s, m, f)
  BY DEF XInv
<1>3. Apart(x_link, n, s, m, f, x_head, x_tail, x_free_list) /\ x_item \in [Cell -> Item]
  BY <1>1 DEF XShape
<1>4. /\ n \in Nat /\ m \in Nat /\ s \in [1 .. n -> Cell]
      /\ x_head = MaxOffset <=> n = 0
      /\ n > 0 => x_tail = s[n]
  BY <1>3, ApartMeans
<1>5. n > 0 /\ n \in 1 .. n
  BY <1>4 DEF X!pop_back, X!PopLast, X!empty
<1>6. XAre(n, s)
  BY <1>1, XReadsNow
<1>7. CASE X!PopLast(x_tail)
  <2>1. X!PopLast(s[n])
    BY <1>4, <1>5, <1>7
  <2>2. XInv' /\ (n = 1 => XD!PopBack) /\ n = Len(X!Nodes)
    BY <1>1, <1>5, <2>1, XPopsLast
  <2>3. x_link[x_tail] = 0
    BY <1>7 DEF X!PopLast
  <2>4. QED
    BY <1>5, <2>2, <2>3 DEF XDone, XD!Next, X!PopDropsItems
<1>8. CASE ~X!PopLast(x_tail)
  <2>1. /\ x_link[x_tail] # 0
        /\ x_ret' = x_item[x_tail]
        /\ x_tail' = x_link[x_tail]
        /\ x_link' = [x_link EXCEPT ![x_link[x_tail]] = X!Xor[@][x_tail], ![x_tail] = x_free_list]
        /\ x_free_list' = x_tail
        /\ x_item' = x_item /\ x_head' = x_head
    BY <1>8 DEF X!pop_back
  <2>2. n > 1
    <3>1. x_link[x_tail] = IF n = 1 THEN 0 ELSE s[n - 1]
      BY <1>3, <1>5, EndLinks
    <3>2. QED
      BY <1>4, <1>5, <2>1, <3>1
  <2>3. PICK c : c = x_tail
    OBVIOUS
  <2>4. Apart(x_link', n - 1, ButLast(n, s), m + 1, WithFirst(m, f, x_tail),
              x_head', x_tail', x_free_list')
    BY <1>3, <2>1, <2>2, XGaveLast
  <2>5. XShape(n - 1, ButLast(n, s), m + 1, WithFirst(m, f, c))'
    BY <1>3, <2>1, <2>3, <2>4 DEF XShape
  <2>6. XAre(n - 1, ButLast(n, s))'
    BY <2>5, XReadsNext
  <2>7. DropsLast(n, XContents, n - 1, XContents')
    <3>1. \A i \in 1 .. n - 1 : i \in 1 .. n /\ ButLast(n, s)[i] = s[i]
      BY <1>4 DEF ButLast
    <3>2. QED
      BY <1>5, <1>6, <2>1, <2>6, <3>1 DEF XAre, DropsLast
  <2>8. DropsLast(Len(XContents), XContents, Len(XContents'), XContents')
    BY <1>6, <2>6, <2>7 DEF XAre
  <2>9. XContents' = SubSeq(XContents, 1, Len(XContents) - 1)
    BY <1>6, <2>6, <2>8, SeqDropped DEF XAre
  <2>10. x_ret' = XContents[Len(XContents)] /\ Len(XContents) > 0
    BY <1>4, <1>5, <1>6, <2>1 DEF XAre
  <2>11. x_ret' \in Item
    BY <1>3, <1>4, <1>5, <2>1
  <2>12. QED
    BY <2>5, <2>9, <2>10, <2>11 DEF XDone, XInv, XD!Next, XD!PopBack
<1>9. QED
  BY <1>7, <1>8

LEMMA XPopsFront ==
    ASSUME XInv, X!pop_front
    PROVE  XDone
<1>1. PICK n, s, m, f : XShape(n, s, m, f)
  BY DEF XInv
<1>3. Apart(x_link, n, s, m, f, x_head, x_tail, x_free_list) /\ x_item \in [Cell -> Item]
  BY <1>1 DEF XShape
<1>4. /\ n \in Nat /\ m \in Nat /\ s \in [1 .. n -> Cell]
      /\ x_head = MaxOffset <=> n = 0
      /\ n > 0 => x_head = s[1]
  BY <1>3, ApartMeans
<1>5. n > 0 /\ 1 \in 1 .. n
  BY <1>4 DEF X!pop_front, X!PopLast, X!empty
<1>6. XAre(n, s)
  BY <1>1, XReadsNow
<1>7. CASE X!PopLast(x_head)
  <2>1. X!PopLast(s[1])
    BY <1>4, <1>5, <1>7
  <2>2. XInv' /\ (n = 1 => XD!PopBack) /\ n = Len(X!Nodes)
    BY <1>1, <1>5, <2>1, XPopsLast
  <2>3. x_link[x_head] = 0
    BY <1>7 DEF X!PopLast
  <2>4. QED
    BY <1>5, <2>2, <2>3 DEF XDone, XD!Next, X!PopDropsItems
<1>8. CASE ~X!PopLast(x_head)
  <2>1. /\ x_link[x_head] # 0
        /\ x_ret' = x_item[x_head]
        /\ x_head' = x_link[x_head]
        /\ x_link' = [x_link EXCEPT ![x_link[x_head]] = X!Xor[@][x_head], ![x_head] = x_free_list]
        /\ x_free_list' = x_head
        /\ x_item' = x_item /\ x_tail' = x_tail
    BY <1>8 DEF X!pop_front
  <2>2. n > 1
    <3>1. x_link[x_head] = IF n = 1 THEN 0 ELSE s[2]
      BY <1>3, <1>5, EndLinks
    <3>2. QED
      BY <1>4, <1>5, <2>1, <3>1
  <2>3. PICK c : c = x_head
    OBVIOUS
  <2>4. Apart(x_link', n - 1, ButFirst(n, s), m + 1, WithFirst(m, f, x_head),
              x_head', x_tail', x_free_list')
    BY <1>3, <2>1, <2>2, XGaveFirst
  <2>5. XShape(n - 1, ButFirst(n, s), m + 1, WithFirst(m, f, c))'
    BY <1>3, <2>1, <2>3, <2>4 DEF XShape
  <2>6. XAre(n - 1, ButFirst(n, s))'
    BY <2>5, XReadsNext
  <2>7. DropsFirst(n, XContents, n - 1, XContents')
    <3>1. \A i \in 1 .. n - 1 : i + 1 \in 1 .. n /\ ButFirst(n, s)[i] = s[i + 1]
      BY <1>4 DEF ButFirst
    <3>2. QED
      BY <1>5, <1>6, <2>1, <2>6, <3>1 DEF XAre, DropsFirst
  <2>8. DropsFirst(Len(XContents), XContents, Len(XContents'), XContents')
    BY <1>6, <2>6, <2>7 DEF XAre
  <2>9. XContents' = SubSeq(XContents, 2, Len(XContents))
    BY <1>6, <2>6, <2>8, SeqDropped DEF XAre
  <2>10. x_ret' = XContents[1] /\ Len(XContents) > 0
    BY <1>4, <1>5, <1>6, <2>1 DEF XAre
  <2>11. x_ret' \in Item
    BY <1>3, <1>4, <1>5, <2>1
  <2>12. QED
    BY <2>5, <2>9, <2>10, <2>11 DEF XDone, XInv, XD!Next, XD!PopFront
<1>9. QED
  BY <1>7, <1>8

LEMMA XWrites ==
    ASSUME XInv, NEW x \in Item
    PROVE  /\ X!write_back(x) => XDone
           /\ X!write_front(x) => XDone
<1>1. PICK n, s, m, f : XShape(n, s, m, f)
  BY DEF XInv
<1>3. Apart(x_link, n, s, m, f, x_head, x_tail, x_free_list) /\ x_item \in [Cell -> Item]
  BY <1>1 DEF XShape
<1>4. /\ n \in Nat /\ m \in Nat /\ s \in [1 .. n -> Cell]
      /\ x_head = MaxOffset <=> n = 0
      /\ n > 0 => x_tail = s[n] /\ x_head = s[1]
      /\ \A i, j \in 1 .. n : s[i] = s[j] => i = j
  BY <1>3, ApartMeans
<1>6. XAre(n, s)
  BY <1>1, XReadsNow
<1>7. ASSUME NEW j \in 1 .. n, x_item' = [x_item EXCEPT ![s[j]] = x], x_ret' = None,
             UNCHANGED <<x_link, x_free_list, x_head, x_tail>>
      PROVE  XDone
  <2>1. XShape(n, s, m, f)'
    BY <1>3, <1>7 DEF XShape
  <2>2. XAre(n, s)'
    BY <2>1, XReadsNext
  <2>3. \A i \in 1 .. n : x_item'[s[i]] = IF i = j THEN x ELSE x_item[s[i]]
    BY <1>3, <1>4, <1>7
  <2>4. Writes(Len(XContents), XContents, j, x, Len(XContents'), XContents')
    BY <1>6, <2>2, <2>3 DEF XAre, Writes
  <2>5. j \in 1 .. Len(XContents)
    BY <1>6 DEF XAre
  <2>6. XContents' = [XContents EXCEPT ![j] = x]
    BY <1>6, <2>2, <2>4, <2>5, SeqWritten DEF XAre
  <2>7. XD!Next
    BY <1>7, <2>5, <2>6 DEF XD!Next, XD!Write
  <2>8. QED
    BY <1>7, <2>1, <2>7 DEF XDone, XInv
<1>8. ASSUME X!write_back(x) PROVE XDone
  <2>1. n \in 1 .. n /\ x_tail = s[n]
    BY <1>4, <1>8 DEF X!write_back, X!empty
  <2>2. x_item' = [x_item EXCEPT ![s[n]] = x]
    BY <1>8, <2>1 DEF X!write_back
  <2>3. QED
    BY <1>7, <1>8, <2>1, <2>2 DEF X!write_back
<1>9. ASSUME X!write_front(x) PROVE XDone
  <2>1. 1 \in 1 .. n /\ x_head = s[1]
    BY <1>4, <1>9 DEF X!write_front, X!empty
  <2>2. x_item' = [x_item EXCEPT ![s[1]] = x]
    BY <1>9, <2>1 DEF X!write_front
  <2>3. QED
    BY <1>7, <1>9, <2>1, <2>2 DEF X!write_front
<1>10. QED
  BY <1>8, <1>9

LEMMA XClears ==
    ASSUME XInv, X!clear, Len(X!Nodes) <= 2
    PROVE  XDone
<1>1. PICK n, s, m, f : XShape(n, s, m, f)
  BY DEF XInv
<1>3. Apart(x_link, n, s, m, f, x_head, x_tail, x_free_list) /\ x_item \in [Cell -> Item]
  BY <1>1 DEF XShape
<1>4. n \in Nat /\ (x_head = MaxOffset <=> n = 0)
  BY <1>3, ApartMeans
<1>5. XAre(n, s)
  BY <1>1, XReadsNow
<1>6. x_ret' = None /\ x_item' = x_item
  BY DEF X!clear
<1>7. \E k, g, l, e : XShape(k, g, l, e)' /\ k = 0
  <2>1. CASE n = 0
    <3>1. UNCHANGED <<x_link, x_free_list, x_head, x_tail>>
      BY <1>4, <2>1 DEF X!clear, X!empty
    <3>2. XShape(n, s, m, f)'
      BY <1>3, <1>6, <3>1 DEF XShape
    <3>3. QED
      BY <2>1, <3>2
  <2>2. CASE n # 0
    <3>1. n \in {1, 2}
      BY <1>4, <1>5, <2>2 DEF XAre
    <3>2. /\ x_link' = [x_link EXCEPT ![x_tail] = x_free_list]
          /\ x_free_list' = x_head
          /\ x_head' = MaxOffset /\ x_tail' = MaxOffset
      BY <1>4, <2>2 DEF X!clear, X!empty
    <3>3. PICK l, e : Apart(x_link', 0, NoCells, l, e, x_head', x_tail', x_free_list')
      BY <1>3, <3>1, <3>2, XGaveAll
    <3>4. XShape(0, NoCells, l, e)'
      BY <1>3, <1>6, <3>3 DEF XShape
    <3>5. QED
      BY <3>4
  <2>3. QED
    BY <2>1, <2>2
<1>8. PICK g, l, e : XShape(0, g, l, e)'
  BY <1>7
<1>9. XAre(0, g)'
  BY <1>8, XReadsNext
<1>10. XContents' = << >>
  BY <1>9, EmptySeq DEF XAre
<1>11. XD!Next
  BY <1>6, <1>10 DEF XD!Next, XD!Clear
<1>12. QED
  BY <1>6, <1>8, <1>11 DEF XDone, XInv

-----------------------------------------------------------------------------
(* All lists in arrays.                                                    *)

SameInv == Inv /\ SlistInv /\ ListInv

\* A call of the queue, of which it keeps its promise.

LEMMA CallIsNext ==
    ASSUME Inv, Next
    PROVE  Ring /\ Inv'
BY RingPlaces, NextInv

LEMMA PushBackKeeps ==
    ASSUME SameInv, NEW x \in Item, push_back(x) \/ (emplace_back /\ x = data[tail]),
           Calls(push_back(x) \/ emplace_back, S!push_back(x), L!push_back(x))
    PROVE  SameInv'
<1>1. Ring /\ Inv'
  BY CallIsNext DEF SameInv, Next
<1>2. AddsLast(count, Contents, x, count', Contents') /\ ret' = None
  <2>1. CASE push_back(x)
    BY <1>1, <2>1, QueueAddsLast DEF push_back
  <2>2. CASE emplace_back /\ x = data[tail]
    BY <1>1, <2>2, QueueEmplacesLast DEF emplace_back
  <2>3. QED
    BY <2>1, <2>2
<1>3. SlistInv'
  BY <1>2, SlistPushesBack DEF SameInv, Calls
<1>4. ListInv'
  <2>1. CASE UsesList
    BY <1>2, <2>1, ListPushesBack DEF SameInv, Calls
  <2>2. CASE ~UsesList
    BY <2>2, ListStays DEF SameInv, Calls
  <2>3. QED
    BY <2>1, <2>2
<1>5. QED
  BY <1>1, <1>3, <1>4 DEF SameInv

LEMMA PushFrontKeeps ==
    ASSUME SameInv, NEW x \in Item,
           push_front(x) \/ (emplace_front /\ x = data[move_backward(head)]),
           Calls(push_front(x) \/ emplace_front, S!push_front(x), L!push_front(x))
    PROVE  SameInv'
<1>1. Ring /\ Inv'
  BY CallIsNext DEF SameInv, Next
<1>2. AddsFirst(count, Contents, x, count', Contents') /\ ret' = None
  <2>1. CASE push_front(x)
    BY <1>1, <2>1, QueueAddsFirst DEF push_front
  <2>2. CASE emplace_front /\ x = data[move_backward(head)]
    BY <1>1, <2>2, QueueEmplacesFirst DEF emplace_front
  <2>3. QED
    BY <2>1, <2>2
<1>3. SlistInv'
  BY <1>2, SlistPushesFront DEF SameInv, Calls
<1>4. ListInv'
  <2>1. CASE UsesList
    BY <1>2, <2>1, ListPushesFront DEF SameInv, Calls
  <2>2. CASE ~UsesList
    BY <2>2, ListStays DEF SameInv, Calls
  <2>3. QED
    BY <2>1, <2>2
<1>5. QED
  BY <1>1, <1>3, <1>4 DEF SameInv

LEMMA WriteBackKeeps ==
    ASSUME SameInv, NEW x \in Item, WriteBack(x)
    PROVE  SameInv'
<1>1. Ring /\ Inv'
  BY CallIsNext DEF SameInv, Next, WriteBack, Calls
<1>2. Writes(count, Contents, count, x, count', Contents') /\ ret' = None
  BY <1>1, QueueWritesLast DEF WriteBack, Calls, write_back
<1>3. SlistInv'
  BY <1>2, SlistWrites DEF SameInv, WriteBack, Calls
<1>4. ListInv'
  <2>1. CASE UsesList
    BY <1>2, <2>1, ListWrites DEF SameInv, WriteBack, Calls
  <2>2. CASE ~UsesList
    BY <2>2, ListStays DEF SameInv, WriteBack, Calls
  <2>3. QED
    BY <2>1, <2>2
<1>5. QED
  BY <1>1, <1>3, <1>4 DEF SameInv

LEMMA WriteFrontKeeps ==
    ASSUME SameInv, NEW x \in Item, WriteFront(x)
    PROVE  SameInv'
<1>1. Ring /\ Inv'
  BY CallIsNext DEF SameInv, Next, WriteFront, Calls
<1>2. Writes(count, Contents, 1, x, count', Contents') /\ ret' = None
  BY <1>1, QueueWritesFirst DEF WriteFront, Calls, write_front
<1>3. SlistInv'
  BY <1>2, SlistWrites DEF SameInv, WriteFront, Calls
<1>4. ListInv'
  <2>1. CASE UsesList
    BY <1>2, <2>1, ListWrites DEF SameInv, WriteFront, Calls
  <2>2. CASE ~UsesList
    BY <2>2, ListStays DEF SameInv, WriteFront, Calls
  <2>3. QED
    BY <2>1, <2>2
<1>5. QED
  BY <1>1, <1>3, <1>4 DEF SameInv

\* What a pop returns is an item.
LEMMA PopsItem ==
    ASSUME Ring, NEW j, j \in 1 .. count
    PROVE  Contents[j] \in Item
BY DEF Ring, ContentsOK

LEMMA PopBackKeeps ==
    ASSUME SameInv, PopBack
    PROVE  SameInv'
<1>0. pop_back
  BY DEF PopBack, Calls
<1>1. Ring /\ Inv'
  BY <1>0, CallIsNext DEF SameInv, Next
<1>2. DropsLast(count, Contents, count', Contents') /\ ret' = Contents[count]
  BY <1>0, <1>1, QueueDropsLast
<1>3. ret' \in Item
  <2>1. count \in 1 .. count
    BY <1>1, <1>2 DEF DropsLast, Ring, Inv, TypeOK
  <2>2. QED
    BY <1>1, <1>2, <2>1, PopsItem
<1>4. SlistInv'
  BY <1>2, SlistPopsBack DEF SameInv, PopBack, Calls
<1>5. ListInv'
  <2>1. CASE UsesList
    <3>1. program = "back"
      BY <2>1 DEF UsesList, PopBack
    <3>2. QED
      BY <1>2, <1>3, <2>1, <3>1, ListPopsBack DEF SameInv, PopBack, Calls
  <2>2. CASE ~UsesList
    BY <2>2, ListStays DEF SameInv, PopBack, Calls
  <2>3. QED
    BY <2>1, <2>2
<1>6. QED
  BY <1>1, <1>4, <1>5 DEF SameInv

LEMMA PopFrontKeeps ==
    ASSUME SameInv, PopFront
    PROVE  SameInv'
<1>0. pop_front
  BY DEF PopFront, Calls
<1>1. Ring /\ Inv'
  BY <1>0, CallIsNext DEF SameInv, Next
<1>2. DropsFirst(count, Contents, count', Contents') /\ ret' = Contents[1]
  BY <1>0, <1>1, QueueDropsFirst
<1>3. ret' \in Item
  <2>1. 1 \in 1 .. count
    BY <1>1, <1>2 DEF DropsFirst, Ring, Inv, TypeOK
  <2>2. QED
    BY <1>1, <1>2, <2>1, PopsItem
<1>4. SlistInv'
  BY <1>2, SlistPopsFront DEF SameInv, PopFront, Calls
<1>5. ListInv'
  <2>1. CASE UsesList
    <3>1. program = "front"
      BY <2>1 DEF UsesList, PopFront
    <3>2. QED
      BY <1>2, <1>3, <2>1, <3>1, ListPopsFront DEF SameInv, PopFront, Calls
  <2>2. CASE ~UsesList
    BY <2>2, ListStays DEF SameInv, PopFront, Calls
  <2>3. QED
    BY <2>1, <2>2
<1>6. QED
  BY <1>1, <1>4, <1>5 DEF SameInv

LEMMA ClearKeeps ==
    ASSUME SameInv, Clear
    PROVE  SameInv'
<1>0. clear
  BY DEF Clear, Calls
<1>1. Ring /\ Inv'
  BY <1>0, CallIsNext DEF SameInv, Next
<1>2. count' = 0 /\ ret' = None
  BY <1>0 DEF clear
<1>3. SlistInv'
  BY <1>2, SlistClears DEF SameInv, Clear, Calls
<1>4. ListInv'
  <2>1. CASE UsesList
    BY <1>2, <2>1, ListClears DEF SameInv, Clear, Calls
  <2>2. CASE ~UsesList
    BY <2>2, ListStays DEF SameInv, Clear, Calls
  <2>3. QED
    BY <2>1, <2>2
<1>5. QED
  BY <1>1, <1>3, <1>4 DEF SameInv

LEMMA OthersKeep ==
    ASSUME SameInv, UNCHANGED <<program, vars, slist, list>>
    PROVE  SameInv'
<1>1. Inv'
  BY NextInv DEF SameInv
<1>2. SlistInv'
  BY SlistStays DEF SameInv
<1>3. ListInv'
  BY ListStays DEF SameInv
<1>4. QED
  BY <1>1, <1>2, <1>3 DEF SameInv

LEMMA SameInvStep == SameInv /\ [ListsNext]_listVars => SameInv'
<1> SUFFICES ASSUME SameInv, [ListsNext]_listVars PROVE SameInv'
  OBVIOUS
<1>1. ASSUME NEW x \in Item, PushBack(x) PROVE SameInv'
  BY <1>1, PushBackKeeps DEF PushBack, Calls
<1>2. ASSUME NEW x \in Item, PushFront(x) PROVE SameInv'
  BY <1>2, PushFrontKeeps DEF PushFront, Calls
<1>3. ASSUME NEW x \in Item, WriteBack(x) PROVE SameInv'
  BY <1>3, WriteBackKeeps
<1>4. ASSUME NEW x \in Item, WriteFront(x) PROVE SameInv'
  BY <1>4, WriteFrontKeeps
<1>5. CASE EmplaceBack
  <2>1. emplace_back /\ data[tail] \in Item
    BY <1>5, CallIsNext, QueueEmplacesLast DEF SameInv, Next, EmplaceBack, Calls
  <2>2. PICK x \in Item : x = data[tail]
    BY <2>1
  <2>3. Calls(push_back(x) \/ emplace_back, S!push_back(x), L!push_back(x))
    BY <1>5, <2>2 DEF EmplaceBack, Calls
  <2>4. QED
    BY <2>1, <2>2, <2>3, PushBackKeeps
<1>6. CASE EmplaceFront
  <2>1. emplace_front /\ data[move_backward(head)] \in Item
    BY <1>6, CallIsNext, QueueEmplacesFirst DEF SameInv, Next, EmplaceFront, Calls
  <2>2. PICK x \in Item : x = data[move_backward(head)]
    BY <2>1
  <2>3. Calls(push_front(x) \/ emplace_front, S!push_front(x), L!push_front(x))
    BY <1>6, <2>2 DEF EmplaceFront, Calls
  <2>4. QED
    BY <2>1, <2>2, <2>3, PushFrontKeeps
<1>7. CASE PopBack
  BY <1>7, PopBackKeeps
<1>8. CASE PopFront
  BY <1>8, PopFrontKeeps
<1>9. CASE Clear
  BY <1>9, ClearKeeps
<1>10. CASE XorlistCall
  BY <1>10, OthersKeep DEF XorlistCall
<1>11. CASE IntrusiveListCall
  BY <1>11, OthersKeep DEF IntrusiveListCall, arrays
<1>12. CASE HeapListCall
  BY <1>12, OthersKeep DEF HeapListCall, arrays
<1>13. CASE DuoCall
  BY <1>13, OthersKeep DEF DuoCall, arrays
<1>14. CASE UNCHANGED listVars
  BY <1>14, OthersKeep DEF listVars, arrays
<1>15. QED
  BY <1>1, <1>2, <1>3, <1>4, <1>5, <1>6, <1>7, <1>8, <1>9, <1>10, <1>11, <1>12, <1>13, <1>14
     DEF ListsNext

LEMMA SameInvStarts == ListsInit => SameInv
<1> SUFFICES ASSUME ListsInit PROVE SameInv
  OBVIOUS
<1>1. Init /\ S!Init /\ L!Init
  BY DEF ListsInit
<1>2. QED
  BY <1>1, InitInv, SlistStarts, ListStarts DEF SameInv

\* The queue, the slist and the list hold the same items in the same order and
\* return the same, for every number of nodes and whatever calls are made,
\* although they put the items in different places, search the predecessor of
\* the tail (mono::slist) or never reset the links of a new end (mono::list).
THEOREM ListsGiveSameAnswers == ListsSpec => []SameAnswers
<1>1. ListsSpec => []SameInv
  BY SameInvStarts, SameInvStep, PTL DEF ListsSpec
<1>2. SameInv => SameAnswers
  BY SlistSound, ListSound DEF SameInv, SameAnswers
<1>3. QED
  BY <1>1, <1>2, PTL

LEMMA XInvStays ==
    ASSUME XInv, UNCHANGED xorlist
    PROVE  XInv' /\ UNCHANGED <<XContents, x_ret>>
<1>1. PICK n, s, m, f : XShape(n, s, m, f)
  BY DEF XInv
<1>2. XShape(n, s, m, f)'
  BY <1>1 DEF XShape, xorlist
<1>3. XAre(n, s)
  BY <1>1, XReadsNow
<1>4. XAre(n, s)'
  BY <1>2, XReadsNext
<1>5. XContents' = XContents
  BY <1>3, <1>4, SeqEqual DEF XAre, xorlist
<1>6. QED
  BY <1>2, <1>5 DEF XInv, xorlist

LEMMA XInvStep ==
    ASSUME MaxCleared <= 2, XInv, [ListsNext]_listVars
    PROVE  XInv' /\ [XD!Next \/ X!PopDropsItems]_<<XContents, x_ret>>
<1>1. CASE XorlistCall
  <2>1. ASSUME NEW x \in Item,
               X!push_back(x) \/ X!push_front(x) \/ X!write_back(x) \/ X!write_front(x)
        PROVE  XDone
    BY <2>1, XPushes, XWrites
  <2>2. ASSUME Len(X!Nodes) <= MaxCleared, X!clear PROVE XDone
    <3>1. Len(X!Nodes) \in Nat
      <4>1. PICK n, s, m, f : XShape(n, s, m, f)
        BY DEF XInv
      <4>2. Apart(x_link, n, s, m, f, x_head, x_tail, x_free_list) /\ XAre(n, s)
        BY <4>1, XReadsNow DEF XShape
      <4>3. QED
        BY <4>2, ApartMeans DEF XAre
    <3>2. Len(X!Nodes) <= 2
      BY <2>2, <3>1, MaxClearedAssumption
    <3>3. QED
      BY <2>2, <3>2, XClears
  <2>3. XDone
    BY <1>1, <2>1, <2>2, XPopsBack, XPopsFront DEF XorlistCall
  <2>4. QED
    BY <2>3 DEF XDone
<1>2. CASE UNCHANGED xorlist
  BY <1>2, XInvStays
<1>3. XorlistCall \/ UNCHANGED xorlist
  BY DEF ListsNext, PushBack, PushFront, WriteBack, WriteFront, EmplaceBack, EmplaceFront,
         PopBack, PopFront, Clear, Calls, IntrusiveListCall, HeapListCall, DuoCall,
         arrays, listVars
<1>4. QED
  BY <1>1, <1>2, <1>3

LEMMA XInvStarts == ListsInit => XInv
BY XorlistStarts DEF ListsInit

\* However many nodes there are, each is in exactly one of the two lists
\* that run through the array of an slist or list, so that a push never takes a
\* node that holds an item and none is lost; an xorlist reads the same from
\* both ends and has no free node in its list, in a program that clears it
\* while it holds at most two items.
THEOREM NodesOfListsAreSound == MaxCleared <= 2 => (ListsSpec => []NodesAreSound)
<1> SUFFICES ASSUME MaxCleared <= 2 PROVE ListsSpec => []NodesAreSound
  OBVIOUS
<1>1. ListsSpec => []SameInv
  BY SameInvStarts, SameInvStep, PTL DEF ListsSpec
<1>2. XInv /\ [ListsNext]_listVars => XInv'
  BY XInvStep
<1>3. ListsSpec => []XInv
  BY <1>2, XInvStarts, PTL DEF ListsSpec
<1>4. SameInv /\ XInv => NodesAreSound
  BY SlistSound, ListSound, XorlistSound
     DEF SameInv, Inv, NodesAreSound, ListsTypeOK
<1>5. QED
  BY <1>1, <1>3, <1>4, PTL

\* Whatever the exclusive ors of its links are, every call of an xorlist is
\* that of a deque of its items, but for the pop at an end whose neighbour is the
\* node 0, which drops the items of the others.
THEOREM XorlistImplementsDeque == MaxCleared <= 2 => (ListsSpec => XorlistIsDeque)
<1> SUFFICES ASSUME MaxCleared <= 2 PROVE ListsSpec => XorlistIsDeque
  OBVIOUS
<1>1. XInv /\ [ListsNext]_listVars => XInv'
  BY XInvStep
<1>2. XInv /\ [ListsNext]_listVars => [XD!Next \/ X!PopDropsItems]_<<XContents, x_ret>>
  BY XInvStep
<1>3. ListsSpec => []XInv
  BY <1>1, XInvStarts, PTL DEF ListsSpec
<1>4. QED
  BY <1>2, <1>3, PTL DEF ListsSpec, XorlistIsDeque

-----------------------------------------------------------------------------
(* intrusive_list and list: the links along a sequence of nodes.           *)

\* The links lead along the nodes of s both ways, to its ends h and t.
Strung(s, h, t, nx, pv) ==
    /\ h = IF Len(s) = 0 THEN Null ELSE s[1]
    /\ t = IF Len(s) = 0 THEN Null ELSE s[Len(s)]
    /\ \A i \in 1 .. Len(s) :
          /\ nx[s[i]] = IF i = Len(s) THEN Null ELSE s[i + 1]
          /\ pv[s[i]] = IF i = 1 THEN Null ELSE s[i - 1]

NoRepeat(s) == \A i, j \in 1 .. Len(s) : s[i] = s[j] => i = j

\* r is the nodes of s and then those of u, or s without its k-th node.
Joined(s, u, r) ==
    /\ r \in Seq(ListNode) /\ Len(r) = Len(s) + Len(u)
    /\ \A i \in 1 .. Len(s) : r[i] = s[i]
    /\ \A i \in 1 .. Len(u) : r[Len(s) + i] = u[i]
Without(s, k, r) ==
    /\ r \in Seq(ListNode) /\ Len(r) = Len(s) - 1
    /\ \A i \in 1 .. Len(s) - 1 : r[i] = IF i < k THEN s[i] ELSE s[i + 1]

LEMMA JoinedSeqs ==
    ASSUME NEW s \in Seq(ListNode), NEW u \in Seq(ListNode)
    PROVE  Joined(s, u, s \o u)
BY ConcatProperties DEF Joined

LEMMA JoinedLast ==
    ASSUME NEW s \in Seq(ListNode), NEW n \in ListNode
    PROVE  Joined(s, <<n>>, Append(s, n))
BY AppendProperties DEF Joined

LEMMA WithoutAt ==
    ASSUME NEW s \in Seq(ListNode), NEW k \in 1 .. Len(s)
    PROVE  Without(s, k, H!RemoveAt(s, k))
<1> DEFINE a == SubSeq(s, 1, k - 1)
           b == SubSeq(s, k + 1, Len(s))
<1>1. Len(s) \in Nat
  OBVIOUS
<1>2. a \in Seq(ListNode) /\ Len(a) = k - 1 /\ \A i \in 1 .. k - 1 : a[i] = s[i]
  BY <1>1
<1>3. b \in Seq(ListNode) /\ Len(b) = Len(s) - k /\ \A i \in 1 .. Len(s) - k : b[i] = s[k + i]
  BY <1>1
<1> HIDE DEF a, b
<1>4. Joined(a, b, a \o b)
  BY <1>2, <1>3, JoinedSeqs
<1>5. ASSUME NEW i \in 1 .. Len(s) - 1 PROVE (a \o b)[i] = IF i < k THEN s[i] ELSE s[i + 1]
  <2>1. CASE i < k
    <3>1. i \in 1 .. k - 1
      BY <1>1, <2>1
    <3>2. QED
      BY <1>2, <1>4, <2>1, <3>1 DEF Joined
  <2>2. CASE ~(i < k)
    <3> DEFINE j == i - (k - 1)
    <3>1. j \in 1 .. Len(s) - k /\ (k - 1) + j = i /\ k + j = i + 1
      BY <1>1, <2>2
    <3> HIDE DEF j
    <3>2. (a \o b)[(k - 1) + j] = b[j]
      BY <1>2, <1>3, <1>4, <3>1 DEF Joined
    <3>3. QED
      BY <1>3, <2>2, <3>1, <3>2
  <2>3. QED
    BY <2>1, <2>2
<1>6. H!RemoveAt(s, k) = a \o b
  BY DEF H!RemoveAt, a, b
<1>7. a \o b \in Seq(ListNode) /\ Len(a \o b) = Len(s) - 1
  BY <1>1, <1>2, <1>3, <1>4 DEF Joined
<1>8. QED
  BY <1>5, <1>6, <1>7 DEF Without

LEMMA WithoutLast ==
    ASSUME NEW s \in Seq(ListNode), Len(s) > 0
    PROVE  Without(s, Len(s), SubSeq(s, 1, Len(s) - 1))
<1> DEFINE r == SubSeq(s, 1, Len(s) - 1)
<1>1. Len(s) \in Nat /\ Len(s) > 0
  OBVIOUS
<1>2. r \in Seq(ListNode) /\ Len(r) = Len(s) - 1
  <2>1. 1 \in Int /\ Len(s) - 1 \in Int /\ \A i \in 1 .. Len(s) - 1 : s[i] \in ListNode
    BY <1>1, ElementOfSeq
  <2>2. /\ r \in Seq(ListNode)
        /\ Len(r) = IF 1 <= Len(s) - 1 THEN (Len(s) - 1) - 1 + 1 ELSE 0
    BY <2>1, SubSeqProperties
  <2> HIDE DEF r
  <2>3. PICK n \in Nat : n = Len(s) /\ n > 0
    BY <1>1
  <2>4. (IF 1 <= n - 1 THEN (n - 1) - 1 + 1 ELSE 0) = n - 1
    BY ONLY <2>3, n \in Nat
  <2>5. QED
    BY <2>2, <2>3, <2>4
<1>3. \A i \in 1 .. Len(s) - 1 : r[i] = s[i] /\ i < Len(s)
  BY <1>1
<1>4. QED
  BY <1>2, <1>3 DEF Without

LEMMA WithoutFirst ==
    ASSUME NEW s \in Seq(ListNode), Len(s) > 0
    PROVE  Without(s, 1, Tail(s))
BY DEF Without

\* The end of one list is linked to the first node of another.
LEMMA StrungJoined ==
    ASSUME NEW s \in Seq(ListNode), NEW u \in Seq(ListNode), NEW r, Joined(s, u, r),
           Len(s) > 0, Len(u) > 0, NEW nx, NEW pv,
           \A i \in 1 .. Len(s) :
              /\ nx[s[i]] = IF i = Len(s) THEN u[1] ELSE s[i + 1]
              /\ pv[s[i]] = IF i = 1 THEN Null ELSE s[i - 1],
           \A i \in 1 .. Len(u) :
              /\ nx[u[i]] = IF i = Len(u) THEN Null ELSE u[i + 1]
              /\ pv[u[i]] = IF i = 1 THEN s[Len(s)] ELSE u[i - 1]
    PROVE  Strung(r, s[1], u[Len(u)], nx, pv)
<1> DEFINE n == Len(s)
           m == Len(u)
<1>1. n \in Nat /\ m \in Nat /\ n > 0 /\ m > 0 /\ Len(r) = n + m
  BY DEF Joined
<1>2. \A i \in 1 .. n : r[i] = s[i]
  BY DEF Joined
<1>3. \A i \in 1 .. m : r[n + i] = u[i]
  BY DEF Joined
<1>4. \A i \in 1 .. n : /\ nx[s[i]] = IF i = n THEN u[1] ELSE s[i + 1]
                        /\ pv[s[i]] = IF i = 1 THEN Null ELSE s[i - 1]
  OBVIOUS
<1>5. \A i \in 1 .. m : /\ nx[u[i]] = IF i = m THEN Null ELSE u[i + 1]
                        /\ pv[u[i]] = IF i = 1 THEN s[n] ELSE u[i - 1]
  OBVIOUS
<1>6. r[1] = s[1] /\ r[n + m] = u[m]
  BY <1>1, <1>2, <1>3
<1> HIDE DEF n, m
<1>7. ASSUME NEW i \in 1 .. n + m
      PROVE  /\ nx[r[i]] = IF i = n + m THEN Null ELSE r[i + 1]
             /\ pv[r[i]] = IF i = 1 THEN Null ELSE r[i - 1]
  <2>1. CASE i \in 1 .. n
    <3>1. i # n + m
      BY ONLY <1>1, <2>1
    <3>2. r[i] = s[i] /\ i # n + m
      BY <1>2, <2>1, <3>1
    <3>3. i = n => r[i + 1] = u[1]
      BY <1>1, <1>3
    <3>4. i # n => r[i + 1] = s[i + 1]
      BY <1>1, <1>2, <2>1
    <3>5. i # 1 => r[i - 1] = s[i - 1]
      BY <1>1, <1>2, <2>1
    <3>6. QED
      BY <1>4, <2>1, <3>2, <3>3, <3>4, <3>5
  <2>2. CASE i \notin 1 .. n
    <3>1. PICK j \in 1 .. m : i = n + j
      <4>1. i - n \in 1 .. m /\ i = n + (i - n)
        BY <1>1, <2>2
      <4>2. QED
        BY <4>1
    <3>2. r[i] = u[j] /\ i # 1
      BY <1>1, <1>3, <3>1
    <3>3. j # m => i # n + m /\ i + 1 = n + (j + 1) /\ j + 1 \in 1 .. m
      BY <1>1, <3>1
    <3>4. j # m => r[i + 1] = u[j + 1]
      BY <1>3, <3>3
    <3>5. j # 1 => i - 1 = n + (j - 1) /\ j - 1 \in 1 .. m
      BY <1>1, <3>1
    <3>6. j # 1 => r[i - 1] = u[j - 1]
      BY <1>3, <3>5
    <3>7. j = 1 => i - 1 = n /\ n \in 1 .. n
      BY <1>1, <3>1
    <3>8. j = 1 => r[i - 1] = s[n]
      BY <1>2, <3>7
    <3>9. j = m => i = n + m
      BY <3>1
    <3>10. QED
      BY <1>5, <3>2, <3>3, <3>4, <3>6, <3>8, <3>9
  <2>3. QED
    BY <2>1, <2>2
<1>8. n + m # 0
  BY <1>1
<1>9. QED
  BY <1>1, <1>6, <1>7, <1>8 DEF Strung, n, m

\* The links ny and pw of the nodes of s lead past the k-th one.
LeadPast(s, k, nx, pv, p, q, ny, pw) ==
    \A i \in 1 .. Len(s) : i # k =>
        /\ ny[s[i]] = IF i = k - 1 THEN q ELSE nx[s[i]]
        /\ pw[s[i]] = IF i = k + 1 THEN p ELSE pv[s[i]]

\* A node is taken out from between its neighbours.
LEMMA StrungWithout ==
    ASSUME NEW s \in Seq(ListNode), NEW k \in 1 .. Len(s), NEW r, Without(s, k, r),
           NEW h, NEW t, NEW nx, NEW pv, Strung(s, h, t, nx, pv),
           NEW p, p = pv[s[k]], NEW q, q = nx[s[k]], NEW ny, NEW pw,
           LeadPast(s, k, nx, pv, p, q, ny, pw)
    PROVE  Strung(r, IF k = 1 THEN q ELSE h, IF k = Len(s) THEN p ELSE t, ny, pw)
<1> DEFINE n == Len(s)
<1>1. n \in Nat /\ n > 0 /\ k \in 1 .. n /\ Len(r) = n - 1
  BY DEF Without
<1>2. \A i \in 1 .. n - 1 : r[i] = IF i < k THEN s[i] ELSE s[i + 1]
  BY DEF Without
<1>3. h = s[1] /\ t = s[n]
  BY <1>1 DEF Strung
<1>4. \A i \in 1 .. n : /\ nx[s[i]] = IF i = n THEN Null ELSE s[i + 1]
                        /\ pv[s[i]] = IF i = 1 THEN Null ELSE s[i - 1]
  BY DEF Strung
<1>5. \A i \in 1 .. n : i # k =>
              /\ ny[s[i]] = IF i = k - 1 THEN q ELSE nx[s[i]]
              /\ pw[s[i]] = IF i = k + 1 THEN p ELSE pv[s[i]]
  BY DEF LeadPast
<1>6. /\ q = IF k = n THEN Null ELSE s[k + 1]
      /\ p = IF k = 1 THEN Null ELSE s[k - 1]
  BY <1>1, <1>4
<1> HIDE DEF n
<1>7. (IF k = 1 THEN q ELSE h) = IF n - 1 = 0 THEN Null ELSE r[1]
  <2>1. CASE n = 1
    BY <1>1, <1>6, <2>1
  <2>2. CASE n # 1
    <3>1. 1 \in 1 .. n - 1 /\ n - 1 # 0
      BY <1>1, <2>2
    <3>2. k = 1 => r[1] = s[2] /\ q = s[2]
      BY <1>2, <1>6, <2>2, <3>1
    <3>3. k # 1 => r[1] = s[1]
      BY <1>1, <1>2, <3>1
    <3>4. QED
      BY <1>3, <3>1, <3>2, <3>3
  <2>3. QED
    BY <2>1, <2>2
<1>8. (IF k = n THEN p ELSE t) = IF n - 1 = 0 THEN Null ELSE r[n - 1]
  <2>1. CASE n = 1
    BY <1>1, <1>6, <2>1
  <2>2. CASE n # 1
    <3>1. n - 1 \in 1 .. n - 1 /\ n - 1 # 0 /\ (n - 1) + 1 = n
      BY <1>1, <2>2
    <3>2. k = n => r[n - 1] = s[n - 1] /\ p = s[n - 1]
      BY <1>1, <1>2, <1>6, <2>2, <3>1
    <3>3. k # n => r[n - 1] = s[n]
      BY <1>1, <1>2, <3>1
    <3>4. QED
      BY <1>3, <3>1, <3>2, <3>3
  <2>3. QED
    BY <2>1, <2>2
<1>9. ASSUME NEW i \in 1 .. n - 1
      PROVE  /\ ny[r[i]] = IF i = n - 1 THEN Null ELSE r[i + 1]
             /\ pw[r[i]] = IF i = 1 THEN Null ELSE r[i - 1]
  <2>1. i \in Nat /\ k \in Nat
    BY <1>1
  <2>2. CASE i < k
    <3>1. r[i] = s[i] /\ i \in 1 .. n /\ i # k /\ i # n /\ i # k + 1
      BY <1>1, <1>2, <2>2, <2>1
    <3>2. ny[s[i]] = IF i = k - 1 THEN q ELSE s[i + 1]
      BY <1>4, <1>5, <3>1
    <3>3. pw[s[i]] = IF i = 1 THEN Null ELSE s[i - 1]
      BY <1>4, <1>5, <3>1
    <3>4. i # 1 => r[i - 1] = s[i - 1]
      <4>1. i # 1 => i - 1 \in 1 .. n - 1 /\ i - 1 < k
        BY <1>1, <2>2, <2>1
      <4>2. QED
        BY <1>2, <4>1
    <3>5. i = k - 1 => q = IF i = n - 1 THEN Null ELSE s[i + 2]
      BY <1>1, <1>6, <2>1
    <3>6. i # n - 1 => i + 1 \in 1 .. n - 1 /\ (i + 1) + 1 = i + 2
      BY <1>1, <2>1
    <3>7. i = k - 1 /\ i # n - 1 => r[i + 1] = s[i + 2]
      <4>1. i = k - 1 => ~(i + 1 < k)
        BY <2>1
      <4>2. QED
        BY <1>2, <3>6, <4>1
    <3>8. i # k - 1 => i + 1 < k /\ i # n - 1
      BY <1>1, <2>1, <2>2
    <3>9. i # k - 1 => r[i + 1] = s[i + 1]
      BY <1>2, <3>6, <3>8
    <3>10. QED
      BY <3>1, <3>2, <3>3, <3>4, <3>5, <3>7, <3>8, <3>9
  <2>3. CASE ~(i < k)
    <3> DEFINE j == i + 1
    <3>1. r[i] = s[j] /\ j \in 1 .. n /\ j # k /\ j # 1 /\ j # k - 1 /\ j - 1 = i
      BY <1>1, <1>2, <2>3, <2>1
    <3>2. j = n <=> i = n - 1
      BY <1>1, <2>1
    <3>3. i # n - 1 => j \in 1 .. n - 1 /\ ~(j < k)
      BY <1>1, <2>1, <2>3
    <3>4. i # n - 1 => r[j] = s[j + 1]
      BY <1>2, <3>3
    <3>5. j = k + 1 <=> i = k
      BY <2>1
    <3>6. i = k => i - 1 = k - 1
      OBVIOUS
    <3>7. i = k /\ i # 1 => r[i - 1] = s[k - 1] /\ k # 1
      <4>1. i = k /\ i # 1 => i - 1 \in 1 .. n - 1 /\ i - 1 < k
        BY <1>1, <2>1
      <4>2. QED
        BY <1>2, <4>1
    <3>8. i # k => i # 1 /\ i - 1 \in 1 .. n - 1 /\ ~(i - 1 < k) /\ (i - 1) + 1 = i
      BY <1>1, <2>1, <2>3
    <3>9. i # k => r[i - 1] = s[i]
      BY <1>2, <3>8
    <3> HIDE DEF j
    <3>10. ny[s[j]] = IF j = n THEN Null ELSE s[j + 1]
      BY <1>4, <1>5, <3>1
    <3>11. pw[s[j]] = IF j = k + 1 THEN p ELSE s[i]
      BY <1>4, <1>5, <3>1
    <3>12. ny[r[i]] = IF i = n - 1 THEN Null ELSE r[i + 1]
      BY <3>1, <3>2, <3>4, <3>10 DEF j
    <3>13. pw[r[i]] = IF i = 1 THEN Null ELSE r[i - 1]
      BY <1>6, <3>1, <3>5, <3>7, <3>8, <3>9, <3>11
    <3>14. QED
      BY <3>12, <3>13
  <2>4. QED
    BY <2>2, <2>3
<1>10. QED
  BY <1>1, <1>7, <1>8, <1>9 DEF Strung, n

\* No node is twice in the lists.
OnceEach(I) ==
    \A l, m \in List : \A i \in 1 .. Len(I[l]), j \in 1 .. Len(I[m]) :
        I[l][i] = I[m][j] => l = m /\ i = j

\* The nodes of every list are strung on its links.
Woven(I, h, t, nx, pv) ==
    /\ I \in [List -> Seq(ListNode)]
    /\ h \in [List -> H!Pointer] /\ t \in [List -> H!Pointer]
    /\ nx \in [ListNode -> H!Pointer] /\ pv \in [ListNode -> H!Pointer]
    /\ \A l \in List : Strung(I[l], h[l], t[l], nx, pv)
    /\ OnceEach(I)

\* What a list becomes that has the nodes of s.
Restrung(I, l, s, nx, pv, ny, pw) ==
    /\ s \in Seq(ListNode) /\ NoRepeat(s)
    /\ \A m \in List : m # l => \A j \in 1 .. Len(I[m]) :
          /\ ny[I[m][j]] = nx[I[m][j]] /\ pw[I[m][j]] = pv[I[m][j]]
          /\ \A i \in 1 .. Len(s) : s[i] # I[m][j]

LEMMA StrungFrame ==
    ASSUME NEW s, NEW h, NEW t, NEW nx, NEW pv, Strung(s, h, t, nx, pv), NEW ny, NEW pw,
           \A i \in 1 .. Len(s) : ny[s[i]] = nx[s[i]] /\ pw[s[i]] = pv[s[i]]
    PROVE  Strung(s, h, t, ny, pw)
BY DEF Strung

LEMMA WovenOne ==
    ASSUME NEW I, NEW h, NEW t, NEW nx, NEW pv, Woven(I, h, t, nx, pv), NEW l \in List,
           NEW s, NEW ny \in [ListNode -> H!Pointer], NEW pw \in [ListNode -> H!Pointer],
           Restrung(I, l, s, nx, pv, ny, pw),
           NEW a \in H!Pointer, NEW b \in H!Pointer, Strung(s, a, b, ny, pw)
    PROVE  Woven([I EXCEPT ![l] = s], [h EXCEPT ![l] = a], [t EXCEPT ![l] = b], ny, pw)
<1> DEFINE J == [I EXCEPT ![l] = s]
           g == [h EXCEPT ![l] = a]
           u == [t EXCEPT ![l] = b]
<1>1. I \in [List -> Seq(ListNode)] /\ h \in [List -> H!Pointer] /\ t \in [List -> H!Pointer]
  BY DEF Woven
<1>2. s \in Seq(ListNode)
  BY DEF Restrung
<1>3. J \in [List -> Seq(ListNode)] /\ g \in [List -> H!Pointer] /\ u \in [List -> H!Pointer]
  BY <1>1, <1>2
<1>4. J[l] = s /\ g[l] = a /\ u[l] = b
  BY <1>1
<1>5. \A m \in List : m # l => J[m] = I[m] /\ g[m] = h[m] /\ u[m] = t[m]
  BY <1>1
<1> HIDE DEF J, g, u
<1>6. ASSUME NEW m \in List PROVE Strung(J[m], g[m], u[m], ny, pw)
  <2>1. CASE m = l
    BY <1>4, <2>1
  <2>2. CASE m # l
    <3>1. Strung(I[m], h[m], t[m], nx, pv)
      BY DEF Woven
    <3>2. \A j \in 1 .. Len(I[m]) : ny[I[m][j]] = nx[I[m][j]] /\ pw[I[m][j]] = pv[I[m][j]]
      BY <2>2 DEF Restrung
    <3>3. Strung(I[m], h[m], t[m], ny, pw)
      BY <3>1, <3>2, StrungFrame
    <3>4. QED
      BY <1>5, <2>2, <3>3
  <2>3. QED
    BY <2>1, <2>2
<1>7. ASSUME NEW k \in List, NEW m \in List, NEW i \in 1 .. Len(J[k]), NEW j \in 1 .. Len(J[m]),
             J[k][i] = J[m][j]
      PROVE  k = m /\ i = j
  <2>1. CASE k = l /\ m = l
    BY <1>4, <1>7, <2>1 DEF Restrung, NoRepeat
  <2>2. CASE k # l /\ m # l
    BY <1>5, <1>7, <2>2 DEF Woven, OnceEach
  <2>3. CASE k = l /\ m # l
    BY <1>4, <1>5, <1>7, <2>3 DEF Restrung
  <2>4. CASE k # l /\ m = l
    BY <1>4, <1>5, <1>7, <2>4 DEF Restrung
  <2>5. QED
    BY <2>1, <2>2, <2>3, <2>4
<1>8. OnceEach(J)
  BY <1>7 DEF OnceEach
<1>9. Woven(J, g, u, ny, pw)
  BY <1>3, <1>6, <1>8 DEF Woven
<1>10. QED
  BY <1>9 DEF J, g, u

\* The links lead past the node x, from p to q.
Past(x, p, q, nx, pv, ny, pw) ==
    \A i \in ListNode : i # x =>
        /\ ny[i] = IF i = p THEN q ELSE nx[i]
        /\ pw[i] = IF i = q THEN p ELSE pv[i]

\* x is between p and q; the list l has the nodes of r, and p or q at its end
\* if it lost its last or first node.
IsBetween(x, p, q, nx, pv) == p = pv[x] /\ q = nx[x]
Shortened(I, h, t, l, r, p, q, J, g, u) ==
    /\ J = [I EXCEPT ![l] = r]
    /\ g = [h EXCEPT ![l] = IF p = Null THEN q ELSE h[l]]
    /\ u = [t EXCEPT ![l] = IF q = Null THEN p ELSE t[l]]

\* The list is without its k-th node.
LEMMA WovenWithout ==
    ASSUME NEW I, NEW h, NEW t, NEW nx, NEW pv, Woven(I, h, t, nx, pv), NEW l \in List,
           NEW k \in 1 .. Len(I[l]), NEW r, Without(I[l], k, r), NEW x, x = I[l][k],
           NEW p, NEW q, IsBetween(x, p, q, nx, pv),
           NEW ny \in [ListNode -> H!Pointer], NEW pw \in [ListNode -> H!Pointer],
           Past(x, p, q, nx, pv, ny, pw),
           NEW J, NEW g, NEW u, Shortened(I, h, t, l, r, p, q, J, g, u)
    PROVE  Woven(J, g, u, ny, pw)
<1> DEFINE s == I[l]
           a == IF p = Null THEN q ELSE h[l]
           b == IF q = Null THEN p ELSE t[l]
<1>1. s \in Seq(ListNode) /\ h[l] \in H!Pointer /\ t[l] \in H!Pointer
  BY DEF Woven
<1>2. \A i \in ListNode : i # x =>
              /\ ny[i] = IF i = p THEN q ELSE nx[i]
              /\ pw[i] = IF i = q THEN p ELSE pv[i]
  BY DEF Past
<1>3. p = pv[x] /\ q = nx[x]
  BY DEF IsBetween
<1>4. Strung(s, h[l], t[l], nx, pv)
  BY DEF Woven
<1>5. \A m \in List : \A i \in 1 .. Len(s), j \in 1 .. Len(I[m]) : s[i] = I[m][j] => l = m /\ i = j
  BY DEF Woven, OnceEach
<1>6. \A m \in List : \A j \in 1 .. Len(I[m]) : I[m][j] \in ListNode
  <2>1. \A m \in List : I[m] \in Seq(ListNode)
    BY DEF Woven
  <2>2. QED
    BY <2>1, ElementOfSeq
<1>7. k \in 1 .. Len(s) /\ x = s[k] /\ Len(s) \in Nat
  BY <1>1
<1>8. /\ q = IF k = Len(s) THEN Null ELSE s[k + 1]
      /\ p = IF k = 1 THEN Null ELSE s[k - 1]
  BY <1>4, <1>7, <1>3 DEF Strung
<1>9. \A j \in 1 .. Len(s) : s[j] \in ListNode /\ s[j] # Null
  BY <1>6, NodeAssumption
<1>10. (p = Null <=> k = 1) /\ (q = Null <=> k = Len(s))
  <2>1. k # 1 => k - 1 \in 1 .. Len(s)
    BY <1>7
  <2>2. k # Len(s) => k + 1 \in 1 .. Len(s)
    BY <1>7
  <2>3. QED
    BY <1>8, <1>9, <2>1, <2>2
<1>11. p \in H!Pointer /\ q \in H!Pointer /\ a \in H!Pointer /\ b \in H!Pointer
  <2>1. x \in ListNode
    BY <1>7, <1>9
  <2>2. p \in H!Pointer /\ q \in H!Pointer
    BY <1>3, <2>1 DEF Woven
  <2>3. QED
    BY <1>1, <2>2
<1>12. \A m \in List : m # l => \A j \in 1 .. Len(I[m]) : I[m][j] # x /\ I[m][j] # p /\ I[m][j] # q
  <2>1. k # 1 => k - 1 \in 1 .. Len(s)
    BY <1>7
  <2>2. k # Len(s) => k + 1 \in 1 .. Len(s)
    BY <1>7
  <2>3. \A m \in List : m # l => \A j \in 1 .. Len(I[m]) : \A i \in 1 .. Len(s) : I[m][j] # s[i]
    BY <1>5
  <2>4. \A m \in List : \A j \in 1 .. Len(I[m]) : I[m][j] # Null
    BY <1>6, NodeAssumption
  <2>5. QED
    BY <1>7, <1>8, <2>1, <2>2, <2>3, <2>4
<1>13. \A i \in 1 .. Len(s) : i # k =>
              /\ ny[s[i]] = IF i = k - 1 THEN q ELSE nx[s[i]]
              /\ pw[s[i]] = IF i = k + 1 THEN p ELSE pv[s[i]]
  <2> SUFFICES ASSUME NEW i \in 1 .. Len(s), i # k
               PROVE  /\ ny[s[i]] = IF i = k - 1 THEN q ELSE nx[s[i]]
                      /\ pw[s[i]] = IF i = k + 1 THEN p ELSE pv[s[i]]
    OBVIOUS
  <2>1. \A j \in 1 .. Len(s) : s[i] = s[j] => i = j
    BY <1>5
  <2>2. s[i] # x /\ s[i] \in ListNode /\ s[i] # Null
    BY <1>7, <1>9, <2>1
  <2>3. s[i] = p <=> i = k - 1
    <3>1. i = k - 1 => k # 1
      OBVIOUS
    <3>2. k # 1 => k - 1 \in 1 .. Len(s)
      BY <1>7
    <3>3. QED
      BY <1>8, <2>1, <2>2, <3>1, <3>2
  <2>4. s[i] = q <=> i = k + 1
    <3>1. i = k + 1 => k # Len(s)
      BY <1>7
    <3>2. k # Len(s) => k + 1 \in 1 .. Len(s)
      BY <1>7
    <3>3. QED
      BY <1>8, <2>1, <2>2, <3>1, <3>2
  <2>5. QED
    BY <1>2, <2>2, <2>3, <2>4
<1>14. LeadPast(s, k, nx, pv, p, q, ny, pw)
  BY <1>13 DEF LeadPast
<1>15. \A i, j \in 1 .. Len(s) : s[i] = s[j] => i = j
  BY <1>5
<1> HIDE DEF s
<1>16. Without(s, k, r)
  BY DEF s
<1>17. p = pv[s[k]] /\ q = nx[s[k]]
  BY <1>7, <1>3
<1>18. Strung(r, IF k = 1 THEN q ELSE h[l], IF k = Len(s) THEN p ELSE t[l], ny, pw)
  BY <1>1, <1>4, <1>7, <1>14, <1>16, <1>17, StrungWithout
<1>19. Strung(r, a, b, ny, pw)
  BY <1>10, <1>18
<1>20. \A i \in 1 .. Len(r) : \E e \in 1 .. Len(s) : r[i] = s[e] /\ e = IF i < k THEN i ELSE i + 1
  <2> SUFFICES ASSUME NEW i \in 1 .. Len(r)
               PROVE  \E e \in 1 .. Len(s) : r[i] = s[e] /\ e = IF i < k THEN i ELSE i + 1
    OBVIOUS
  <2>1. Len(r) = Len(s) - 1 /\ r[i] = IF i < k THEN s[i] ELSE s[i + 1]
    BY <1>16 DEF Without
  <2>2. i \in 1 .. Len(s) /\ i + 1 \in 1 .. Len(s)
    BY <1>7, <2>1
  <2>3. QED
    BY <2>1, <2>2
<1>21. NoRepeat(r)
  <2> SUFFICES ASSUME NEW i \in 1 .. Len(r), NEW j \in 1 .. Len(r), r[i] = r[j] PROVE i = j
    BY DEF NoRepeat
  <2>1. PICK e \in 1 .. Len(s) : r[i] = s[e] /\ e = IF i < k THEN i ELSE i + 1
    BY <1>20
  <2>2. PICK f \in 1 .. Len(s) : r[j] = s[f] /\ f = IF j < k THEN j ELSE j + 1
    BY <1>20
  <2>3. s[e] = s[f]
    BY <2>1, <2>2
  <2>4. e = f
    BY <1>15, <2>3
  <2>5. i \in Int /\ j \in Int /\ k \in Int
    OBVIOUS
  <2>6. QED
    BY <2>1, <2>2, <2>4, <2>5
<1>22. \A m \in List : m # l => \A j \in 1 .. Len(I[m]) :
          /\ ny[I[m][j]] = nx[I[m][j]] /\ pw[I[m][j]] = pv[I[m][j]]
          /\ \A i \in 1 .. Len(r) : r[i] # I[m][j]
  <2> SUFFICES ASSUME NEW m \in List, m # l, NEW j \in 1 .. Len(I[m])
               PROVE  /\ ny[I[m][j]] = nx[I[m][j]] /\ pw[I[m][j]] = pv[I[m][j]]
                      /\ \A i \in 1 .. Len(r) : r[i] # I[m][j]
    OBVIOUS
  <2>1. I[m][j] \in ListNode /\ I[m][j] # x /\ I[m][j] # p /\ I[m][j] # q
    BY <1>6, <1>12
  <2>2. \A i \in 1 .. Len(r) : r[i] # I[m][j]
    BY <1>5, <1>20
  <2>3. QED
    BY <1>2, <2>1, <2>2
<1>23. r \in Seq(ListNode)
  BY <1>16 DEF Without
<1>24. Restrung(I, l, r, nx, pv, ny, pw)
  BY <1>21, <1>22, <1>23 DEF Restrung
<1>25. J = [I EXCEPT ![l] = r] /\ g = [h EXCEPT ![l] = a] /\ u = [t EXCEPT ![l] = b]
  BY DEF Shortened
<1> HIDE DEF a, b
<1>26. Woven([I EXCEPT ![l] = r], [h EXCEPT ![l] = a], [t EXCEPT ![l] = b], ny, pw)
  BY <1>11, <1>19, <1>24, WovenOne
<1>27. QED
  BY <1>26, <1>25

LEMMA WovenEmptied ==
    ASSUME NEW I, NEW h, NEW t, NEW nx, NEW pv, Woven(I, h, t, nx, pv), NEW l \in List
    PROVE  Woven([I EXCEPT ![l] = <<>>], [h EXCEPT ![l] = Null], [t EXCEPT ![l] = Null], nx, pv)
<1>1. nx \in [ListNode -> H!Pointer] /\ pv \in [ListNode -> H!Pointer] /\ Null \in H!Pointer
  BY DEF Woven, H!Pointer
<1>2. Len(<<>>) = 0 /\ <<>> \in Seq(ListNode)
  OBVIOUS
<1>3. Strung(<<>>, Null, Null, nx, pv)
  BY <1>2 DEF Strung
<1>4. Restrung(I, l, <<>>, nx, pv, nx, pv)
  BY <1>2 DEF Restrung, NoRepeat
<1>5. QED
  BY <1>1, <1>3, <1>4, WovenOne

\* The nodes of u are in no list.
Unlinked(I, u) ==
    \A l \in List : \A i \in 1 .. Len(u), j \in 1 .. Len(I[l]) : u[i] # I[l][j]

\* The links of the nodes of u, the first of which comes after p and the last
\* before q.
Between(u, p, q, nx, pv) ==
    \A i \in 1 .. Len(u) :
        /\ nx[u[i]] = IF i = Len(u) THEN q ELSE u[i + 1]
        /\ pv[u[i]] = IF i = 1 THEN p ELSE u[i - 1]

\* The links of the nodes that are not in u: x is before d now, y behind e.
Others(u, x, d, y, e, nx, pv, ny, pw) ==
    \A c \in ListNode : (\A i \in 1 .. Len(u) : c # u[i]) =>
        /\ ny[c] = IF c = x THEN d ELSE nx[c]
        /\ pw[c] = IF c = y THEN e ELSE pv[c]

\* An empty list gets nodes.
LEMMA WovenOnly ==
    ASSUME NEW I, NEW h, NEW t, NEW nx, NEW pv, Woven(I, h, t, nx, pv), NEW l \in List,
           NEW u \in Seq(ListNode), Len(u) > 0, NoRepeat(u), Unlinked(I, u),
           NEW ny \in [ListNode -> H!Pointer], NEW pw \in [ListNode -> H!Pointer],
           Between(u, Null, Null, ny, pw),
           Others(u, Null, Null, Null, Null, nx, pv, ny, pw)
    PROVE  Woven([I EXCEPT ![l] = u], [h EXCEPT ![l] = u[1]], [t EXCEPT ![l] = u[Len(u)]], ny, pw)
<1>1. u[1] \in H!Pointer /\ u[Len(u)] \in H!Pointer
  BY ElementOfSeq DEF H!Pointer
<1>2. Strung(u, u[1], u[Len(u)], ny, pw)
  BY DEF Strung, Between
<1>3. \A m \in List : \A j \in 1 .. Len(I[m]) : I[m][j] \in ListNode
  <2>1. \A m \in List : I[m] \in Seq(ListNode)
    BY DEF Woven
  <2>2. QED
    BY <2>1, ElementOfSeq
<1>4. \A c \in ListNode : (\A i \in 1 .. Len(u) : c # u[i]) => ny[c] = nx[c] /\ pw[c] = pv[c]
  BY NodeAssumption DEF Others
<1>5. \A m \in List : m # l => \A j \in 1 .. Len(I[m]) :
          /\ ny[I[m][j]] = nx[I[m][j]] /\ pw[I[m][j]] = pv[I[m][j]]
          /\ \A i \in 1 .. Len(u) : u[i] # I[m][j]
  BY <1>3, <1>4 DEF Unlinked
<1>6. Restrung(I, l, u, nx, pv, ny, pw)
  BY <1>5 DEF Restrung
<1>7. QED
  BY <1>1, <1>2, <1>6, WovenOne

\* A list that is not empty gets nodes at its end.
LEMMA WovenJoined ==
    ASSUME NEW I, NEW h, NEW t, NEW nx, NEW pv, Woven(I, h, t, nx, pv), NEW l \in List,
           Len(I[l]) > 0,
           NEW u \in Seq(ListNode), Len(u) > 0, NoRepeat(u), Unlinked(I, u),
           NEW ny \in [ListNode -> H!Pointer], NEW pw \in [ListNode -> H!Pointer],
           Between(u, t[l], Null, ny, pw),
           Others(u, t[l], u[1], Null, Null, nx, pv, ny, pw),
           NEW r, Joined(I[l], u, r)
    PROVE  Woven([I EXCEPT ![l] = r], h, [t EXCEPT ![l] = u[Len(u)]], ny, pw)
<1> DEFINE s == I[l]
<1>1. s \in Seq(ListNode) /\ h \in [List -> H!Pointer] /\ Len(s) \in Nat /\ Len(s) > 0 /\ Len(u) \in Nat
  BY DEF Woven
<1>2. Strung(s, h[l], t[l], nx, pv)
  BY DEF Woven
<1>3. h[l] = s[1] /\ t[l] = s[Len(s)]
  BY <1>1, <1>2 DEF Strung
<1>4. \A m \in List : \A j \in 1 .. Len(I[m]) : I[m][j] \in ListNode
  <2>1. \A m \in List : I[m] \in Seq(ListNode)
    BY DEF Woven
  <2>2. QED
    BY <2>1, ElementOfSeq
<1>5. \A m \in List : \A j \in 1 .. Len(I[m]) : \A i \in 1 .. Len(u) : I[m][j] # u[i]
  BY DEF Unlinked
<1>6. \A m \in List : \A i \in 1 .. Len(s), j \in 1 .. Len(I[m]) : s[i] = I[m][j] => l = m /\ i = j
  BY DEF Woven, OnceEach
<1>7. \A i, j \in 1 .. Len(s) : s[i] = s[j] => i = j
  BY <1>6
<1>8. \A c \in ListNode : (\A i \in 1 .. Len(u) : c # u[i]) =>
              ny[c] = (IF c = t[l] THEN u[1] ELSE nx[c]) /\ pw[c] = pv[c]
  BY NodeAssumption DEF Others
<1>9. \A i \in 1 .. Len(s) :
              /\ ny[s[i]] = IF i = Len(s) THEN u[1] ELSE s[i + 1]
              /\ pw[s[i]] = IF i = 1 THEN Null ELSE s[i - 1]
  <2> SUFFICES ASSUME NEW i \in 1 .. Len(s)
               PROVE  /\ ny[s[i]] = IF i = Len(s) THEN u[1] ELSE s[i + 1]
                      /\ pw[s[i]] = IF i = 1 THEN Null ELSE s[i - 1]
    OBVIOUS
  <2>1. s[i] \in ListNode /\ \A j \in 1 .. Len(u) : s[i] # u[j]
    BY <1>4, <1>5
  <2>2. ny[s[i]] = (IF s[i] = t[l] THEN u[1] ELSE nx[s[i]]) /\ pw[s[i]] = pv[s[i]]
    BY <1>8, <2>1
  <2>3. Len(s) \in 1 .. Len(s)
    BY <1>1
  <2>4. s[i] = t[l] <=> i = Len(s)
    BY <1>3, <1>7, <2>3
  <2>5. /\ nx[s[i]] = IF i = Len(s) THEN Null ELSE s[i + 1]
        /\ pv[s[i]] = IF i = 1 THEN Null ELSE s[i - 1]
    BY <1>2 DEF Strung
  <2>6. QED
    BY <2>2, <2>4, <2>5
<1>10. \A i \in 1 .. Len(u) :
              /\ ny[u[i]] = IF i = Len(u) THEN Null ELSE u[i + 1]
              /\ pw[u[i]] = IF i = 1 THEN s[Len(s)] ELSE u[i - 1]
  BY <1>3 DEF Between
<1>11. \A m \in List : m # l => \A j \in 1 .. Len(I[m]) :
          /\ ny[I[m][j]] = nx[I[m][j]] /\ pw[I[m][j]] = pv[I[m][j]]
          /\ I[m][j] # s[Len(s)]
  <2> SUFFICES ASSUME NEW m \in List, m # l, NEW j \in 1 .. Len(I[m])
               PROVE  /\ ny[I[m][j]] = nx[I[m][j]] /\ pw[I[m][j]] = pv[I[m][j]]
                      /\ I[m][j] # s[Len(s)]
    OBVIOUS
  <2>1. Len(s) \in 1 .. Len(s)
    BY <1>1
  <2>2. I[m][j] # s[Len(s)]
    BY <1>6, <2>1
  <2>3. I[m][j] \in ListNode /\ \A i \in 1 .. Len(u) : I[m][j] # u[i]
    BY <1>4, <1>5
  <2>4. QED
    BY <1>3, <1>8, <2>2, <2>3
<1>12. \A i \in 1 .. Len(s), j \in 1 .. Len(u) : s[i] # u[j]
  BY <1>5
<1>13. \A m \in List : m # l => \A j \in 1 .. Len(I[m]) : \A i \in 1 .. Len(s) : s[i] # I[m][j]
  BY <1>6
<1>14. Joined(s, u, r)
  OBVIOUS
<1> HIDE DEF s
<1>15. Strung(r, h[l], u[Len(u)], ny, pw)
  <2>1. Strung(r, s[1], u[Len(u)], ny, pw)
    BY <1>1, <1>9, <1>10, <1>14, StrungJoined
  <2>2. QED
    BY <1>3, <2>1
<1>16. \A i \in 1 .. Len(r) : \/ i \in 1 .. Len(s) /\ r[i] = s[i]
                              \/ i - Len(s) \in 1 .. Len(u) /\ r[i] = u[i - Len(s)]
  <2> SUFFICES ASSUME NEW i \in 1 .. Len(r)
               PROVE  \/ i \in 1 .. Len(s) /\ r[i] = s[i]
                      \/ i - Len(s) \in 1 .. Len(u) /\ r[i] = u[i - Len(s)]
    OBVIOUS
  <2>1. Len(r) = Len(s) + Len(u)
    BY <1>14 DEF Joined
  <2>2. CASE i \in 1 .. Len(s)
    BY <1>14, <2>2 DEF Joined
  <2>3. CASE i \notin 1 .. Len(s)
    <3> DEFINE j == i - Len(s)
    <3>1. j \in 1 .. Len(u) /\ Len(s) + j = i
      BY <1>1, <2>1, <2>3
    <3> HIDE DEF j
    <3>2. r[Len(s) + j] = u[j]
      BY <1>14, <3>1 DEF Joined
    <3>3. QED
      BY <3>1, <3>2 DEF j
  <2>4. QED
    BY <2>2, <2>3
<1>17. NoRepeat(r)
  <2> SUFFICES ASSUME NEW i \in 1 .. Len(r), NEW j \in 1 .. Len(r), r[i] = r[j] PROVE i = j
    BY DEF NoRepeat
  <2>1. CASE i \in 1 .. Len(s) /\ r[i] = s[i]
    <3>1. ~(j - Len(s) \in 1 .. Len(u) /\ r[j] = u[j - Len(s)])
      BY <1>12, <2>1
    <3>2. j \in 1 .. Len(s) /\ r[j] = s[j]
      BY <1>16, <3>1
    <3>3. QED
      BY <1>7, <2>1, <3>2
  <2>2. CASE i - Len(s) \in 1 .. Len(u) /\ r[i] = u[i - Len(s)]
    <3>1. ~(j \in 1 .. Len(s) /\ r[j] = s[j])
      BY <1>12, <2>2
    <3>2. j - Len(s) \in 1 .. Len(u) /\ r[j] = u[j - Len(s)]
      BY <1>16, <3>1
    <3>3. i - Len(s) = j - Len(s)
      BY <2>2, <3>2 DEF NoRepeat
    <3>4. QED
      BY <1>1, <3>3
  <2>3. QED
    BY <1>16, <2>1, <2>2
<1>18. \A m \in List : m # l => \A j \in 1 .. Len(I[m]) : \A i \in 1 .. Len(r) : r[i] # I[m][j]
  BY <1>5, <1>16, <1>13
<1>19. r \in Seq(ListNode)
  BY <1>14 DEF Joined
<1>20. Restrung(I, l, r, nx, pv, ny, pw)
  BY <1>11, <1>17, <1>18, <1>19 DEF Restrung
<1>21. u[Len(u)] \in H!Pointer /\ h[l] \in H!Pointer /\ h = [h EXCEPT ![l] = h[l]]
  BY <1>1, ElementOfSeq DEF H!Pointer
<1>22. Woven([I EXCEPT ![l] = r], [h EXCEPT ![l] = h[l]], [t EXCEPT ![l] = u[Len(u)]], ny, pw)
  BY <1>15, <1>20, <1>21, WovenOne
<1>23. QED
  BY <1>21, <1>22

\* A list that is not empty gets a node in front.
LEMMA WovenFirst ==
    ASSUME NEW I, NEW h, NEW t, NEW nx, NEW pv, Woven(I, h, t, nx, pv), NEW l \in List,
           Len(I[l]) > 0,
           NEW n \in ListNode, Unlinked(I, <<n>>),
           NEW ny \in [ListNode -> H!Pointer], NEW pw \in [ListNode -> H!Pointer],
           ny[n] = h[l], pw[n] = Null,
           Others(<<n>>, Null, Null, h[l], n, nx, pv, ny, pw),
           NEW r, Joined(<<n>>, I[l], r)
    PROVE  Woven([I EXCEPT ![l] = r], [h EXCEPT ![l] = n], t, ny, pw)
<1> DEFINE s == I[l]
<1>1. s \in Seq(ListNode) /\ t \in [List -> H!Pointer] /\ Len(s) \in Nat /\ Len(s) > 0
  BY DEF Woven
<1>2. Strung(s, h[l], t[l], nx, pv)
  BY DEF Woven
<1>3. h[l] = s[1] /\ t[l] = s[Len(s)]
  BY <1>1, <1>2 DEF Strung
<1>4. \A m \in List : \A j \in 1 .. Len(I[m]) : I[m][j] \in ListNode
  <2>1. \A m \in List : I[m] \in Seq(ListNode)
    BY DEF Woven
  <2>2. QED
    BY <2>1, ElementOfSeq
<1>5. \A m \in List : \A j \in 1 .. Len(I[m]) : I[m][j] # n
  <2>1. Len(<<n>>) = 1 /\ <<n>>[1] = n
    OBVIOUS
  <2>2. QED
    BY <2>1 DEF Unlinked
<1>6. \A m \in List : \A i \in 1 .. Len(s), j \in 1 .. Len(I[m]) : s[i] = I[m][j] => l = m /\ i = j
  BY DEF Woven, OnceEach
<1>7. \A i, j \in 1 .. Len(s) : s[i] = s[j] => i = j
  BY <1>6
<1>8. \A c \in ListNode : c # n =>
              ny[c] = nx[c] /\ pw[c] = IF c = h[l] THEN n ELSE pv[c]
  <2>1. \A c \in ListNode : (\A i \in 1 .. Len(<<n>>) : c # <<n>>[i]) <=> c # n
    BY DEF Others
  <2>2. QED
    BY <2>1, NodeAssumption DEF Others
<1>9. \A i \in 1 .. Len(s) :
              /\ ny[s[i]] = IF i = Len(s) THEN Null ELSE s[i + 1]
              /\ pw[s[i]] = IF i = 1 THEN n ELSE s[i - 1]
  <2> SUFFICES ASSUME NEW i \in 1 .. Len(s)
               PROVE  /\ ny[s[i]] = IF i = Len(s) THEN Null ELSE s[i + 1]
                      /\ pw[s[i]] = IF i = 1 THEN n ELSE s[i - 1]
    OBVIOUS
  <2>1. s[i] \in ListNode /\ s[i] # n
    BY <1>4, <1>5
  <2>2. ny[s[i]] = nx[s[i]] /\ pw[s[i]] = IF s[i] = h[l] THEN n ELSE pv[s[i]]
    BY <1>8, <2>1
  <2>3. s[i] = h[l] <=> i = 1
    BY <1>1, <1>3, <1>7
  <2>4. /\ nx[s[i]] = IF i = Len(s) THEN Null ELSE s[i + 1]
        /\ pv[s[i]] = IF i = 1 THEN Null ELSE s[i - 1]
    BY <1>2 DEF Strung
  <2>5. QED
    BY <2>2, <2>3, <2>4
<1>10. \A m \in List : m # l => \A j \in 1 .. Len(I[m]) :
          /\ ny[I[m][j]] = nx[I[m][j]] /\ pw[I[m][j]] = pv[I[m][j]]
          /\ \A i \in 1 .. Len(s) : s[i] # I[m][j]
  <2> SUFFICES ASSUME NEW m \in List, m # l, NEW j \in 1 .. Len(I[m])
               PROVE  /\ ny[I[m][j]] = nx[I[m][j]] /\ pw[I[m][j]] = pv[I[m][j]]
                      /\ \A i \in 1 .. Len(s) : s[i] # I[m][j]
    OBVIOUS
  <2>1. \A i \in 1 .. Len(s) : s[i] # I[m][j]
    BY <1>6
  <2>2. I[m][j] \in ListNode /\ I[m][j] # n /\ I[m][j] # h[l]
    BY <1>1, <1>3, <1>4, <1>5, <2>1
  <2>3. QED
    BY <1>8, <2>1, <2>2
<1>11. Joined(<<n>>, s, r)
  OBVIOUS
<1>12. \A i \in 1 .. Len(s) : s[i] # n
  BY <1>5
<1> HIDE DEF s
<1> DEFINE u == <<n>>
<1>13. u \in Seq(ListNode) /\ Len(u) = 1 /\ Len(u) > 0 /\ u[1] = n
  OBVIOUS
<1> HIDE DEF u
<1>14. Joined(u, s, r)
  BY <1>11 DEF u
<1>15. \A i \in 1 .. Len(u) :
              /\ ny[u[i]] = IF i = Len(u) THEN s[1] ELSE u[i + 1]
              /\ pw[u[i]] = IF i = 1 THEN Null ELSE u[i - 1]
  BY <1>3, <1>13
<1>16. \A i \in 1 .. Len(s) :
              /\ ny[s[i]] = IF i = Len(s) THEN Null ELSE s[i + 1]
              /\ pw[s[i]] = IF i = 1 THEN u[Len(u)] ELSE s[i - 1]
  BY <1>9, <1>13
<1>17. Strung(r, n, t[l], ny, pw)
  <2>1. Strung(r, u[1], s[Len(s)], ny, pw)
    BY <1>1, <1>13, <1>14, <1>15, <1>16, StrungJoined
  <2>2. QED
    BY <1>3, <1>13, <2>1
<1>18. \A i \in 1 .. Len(r) : \/ i = 1 /\ r[i] = n
                              \/ i - 1 \in 1 .. Len(s) /\ r[i] = s[i - 1]
  <2> SUFFICES ASSUME NEW i \in 1 .. Len(r)
               PROVE  \/ i = 1 /\ r[i] = n
                      \/ i - 1 \in 1 .. Len(s) /\ r[i] = s[i - 1]
    OBVIOUS
  <2>1. Len(r) = 1 + Len(s)
    BY <1>13, <1>14 DEF Joined
  <2>2. CASE i = 1
    BY <1>13, <1>14, <2>2 DEF Joined
  <2>3. CASE i # 1
    <3> DEFINE j == i - 1
    <3>1. j \in 1 .. Len(s) /\ 1 + j = i
      BY <1>1, <2>1, <2>3
    <3> HIDE DEF j
    <3>2. r[1 + j] = s[j]
      BY <1>13, <1>14, <3>1 DEF Joined
    <3>3. QED
      BY <3>1, <3>2 DEF j
  <2>4. QED
    BY <2>2, <2>3
<1>19. NoRepeat(r)
  <2> SUFFICES ASSUME NEW i \in 1 .. Len(r), NEW j \in 1 .. Len(r), r[i] = r[j] PROVE i = j
    BY DEF NoRepeat
  <2>1. CASE i = 1 /\ r[i] = n
    BY <1>18, <1>12, <2>1
  <2>2. CASE i - 1 \in 1 .. Len(s) /\ r[i] = s[i - 1]
    <3>1. j - 1 \in 1 .. Len(s) /\ r[j] = s[j - 1]
      BY <1>18, <1>12, <2>2
    <3>2. i - 1 = j - 1
      BY <1>7, <2>2, <3>1 DEF s
    <3>3. QED
      BY <3>2
  <2>3. QED
    BY <1>18, <2>1, <2>2
<1>20. \A m \in List : m # l => \A j \in 1 .. Len(I[m]) : \A i \in 1 .. Len(r) : r[i] # I[m][j]
  BY <1>5, <1>10, <1>18
<1>21. r \in Seq(ListNode)
  BY <1>11 DEF Joined
<1>22. Restrung(I, l, r, nx, pv, ny, pw)
  BY <1>10, <1>19, <1>20, <1>21 DEF Restrung
<1>23. n \in H!Pointer /\ t[l] \in H!Pointer /\ t = [t EXCEPT ![l] = t[l]]
  BY <1>1 DEF H!Pointer
<1>24. Woven([I EXCEPT ![l] = r], [h EXCEPT ![l] = n], [t EXCEPT ![l] = t[l]], ny, pw)
  BY <1>17, <1>22, <1>23, WovenOne
<1>25. QED
  BY <1>23, <1>24

LinkedInv == Woven(items, il_head, il_tail, next, prev)

LEMMA WovenEnds ==
    ASSUME NEW I, NEW h, NEW t, NEW nx, NEW pv, Woven(I, h, t, nx, pv), NEW l \in List
    PROVE  /\ I[l] \in Seq(ListNode) /\ Len(I[l]) \in Nat
           /\ \A i \in 1 .. Len(I[l]) : I[l][i] \in ListNode /\ I[l][i] # Null
           /\ h[l] = Null <=> Len(I[l]) = 0
           /\ t[l] = Null <=> Len(I[l]) = 0
           /\ Len(I[l]) > 0 => h[l] = I[l][1] /\ t[l] = I[l][Len(I[l])]
<1>1. I[l] \in Seq(ListNode) /\ Len(I[l]) \in Nat
  BY DEF Woven
<1>2. \A i \in 1 .. Len(I[l]) : I[l][i] \in ListNode /\ I[l][i] # Null
  BY <1>1, ElementOfSeq, NodeAssumption
<1>3. Strung(I[l], h[l], t[l], nx, pv)
  BY DEF Woven
<1>4. Len(I[l]) = 0 => h[l] = Null /\ t[l] = Null
  BY <1>3 DEF Strung
<1>5. Len(I[l]) > 0 => h[l] = I[l][1] /\ t[l] = I[l][Len(I[l])]
  BY <1>3 DEF Strung
<1>6. Len(I[l]) # 0 => Len(I[l]) > 0 /\ 1 \in 1 .. Len(I[l]) /\ Len(I[l]) \in 1 .. Len(I[l])
  BY <1>1
<1>7. QED
  BY <1>1, <1>2, <1>4, <1>5, <1>6

\* The node n alone.
LEMMA Alone ==
    ASSUME NEW n \in ListNode
    PROVE  /\ <<n>> \in Seq(ListNode) /\ Len(<<n>>) = 1 /\ <<n>>[1] = n /\ NoRepeat(<<n>>)
           /\ \A p, q, nx, pv : nx[n] = q /\ pv[n] = p => Between(<<n>>, p, q, nx, pv)
           /\ \A c : (\A i \in 1 .. 1 : c # <<n>>[i]) <=> c # n
<1>1. <<n>> \in Seq(ListNode) /\ Len(<<n>>) = 1 /\ <<n>>[1] = n
  OBVIOUS
<1>2. NoRepeat(<<n>>)
  BY <1>1 DEF NoRepeat
<1>3. ASSUME NEW p, NEW q, NEW nx, NEW pv, nx[n] = q, pv[n] = p
      PROVE  Between(<<n>>, p, q, nx, pv)
  BY <1>1, <1>3 DEF Between
<1>4. \A c : (\A i \in 1 .. 1 : c # <<n>>[i]) <=> c # n
  BY <1>1
<1>5. QED
  BY <1>1, <1>2, <1>3, <1>4

LEMMA NotLinked ==
    ASSUME LinkedInv, NEW n \in ListNode, n \notin H!Linked
    PROVE  Unlinked(items, <<n>>) /\ \A l \in List : \A j \in 1 .. Len(items[l]) : items[l][j] # n
<1>1. \A l \in List : items[l] \in Seq(ListNode)
  BY DEF LinkedInv, Woven
<1>2. ASSUME NEW l \in List, NEW j \in 1 .. Len(items[l]) PROVE items[l][j] # n
  <2>1. j \in DOMAIN items[l]
    BY <1>1
  <2>2. items[l][j] \in H!Range(items[l])
    BY <2>1 DEF H!Range
  <2>3. items[l][j] \in H!Linked
    BY <2>2 DEF H!Linked
  <2>4. QED
    BY <2>3
<1>3. Len(<<n>>) = 1 /\ <<n>>[1] = n
  OBVIOUS
<1>4. QED
  BY <1>2, <1>3 DEF Unlinked

LEMMA LinksOnly ==
    ASSUME LinkedInv, NEW l \in List, NEW n \in ListNode, n \notin H!Linked,
           H!LinkOnly(l, n), Len(items[l]) = 0, items' = [items EXCEPT ![l] = <<n>>]
    PROVE  LinkedInv'
<1>1. Woven(items, il_head, il_tail, next, prev)
  BY DEF LinkedInv
<1>2. /\ il_head' = [il_head EXCEPT ![l] = n] /\ il_tail' = [il_tail EXCEPT ![l] = n]
      /\ prev' = [prev EXCEPT ![n] = Null] /\ next' = [next EXCEPT ![n] = Null]
  BY DEF H!LinkOnly
<1>3. next \in [ListNode -> H!Pointer] /\ prev \in [ListNode -> H!Pointer] /\ Null \in H!Pointer
  BY <1>1 DEF Woven, H!Pointer
<1>4. next' \in [ListNode -> H!Pointer] /\ prev' \in [ListNode -> H!Pointer]
  BY <1>2, <1>3
<1>5. next'[n] = Null /\ prev'[n] = Null
  BY <1>2, <1>3
<1>6. \A c \in ListNode : c # n => next'[c] = next[c] /\ prev'[c] = prev[c]
  BY <1>2, <1>3
<1>7. Unlinked(items, <<n>>)
  BY NotLinked
<1> DEFINE u == <<n>>
<1>8. u \in Seq(ListNode) /\ Len(u) = 1 /\ Len(u) > 0 /\ u[1] = n /\ NoRepeat(u) /\ u[Len(u)] = n
  BY Alone
<1>9. Between(u, Null, Null, next', prev')
  BY <1>5, Alone
<1> HIDE DEF u
<1>10. Others(u, Null, Null, Null, Null, next, prev, next', prev')
  BY <1>6, <1>8, NodeAssumption DEF Others
<1>11. Unlinked(items, u)
  BY <1>7 DEF u
<1>12. Woven([items EXCEPT ![l] = u], [il_head EXCEPT ![l] = u[1]], [il_tail EXCEPT ![l] = u[Len(u)]],
             next', prev')
  BY <1>1, <1>4, <1>8, <1>9, <1>10, <1>11, WovenOnly
<1>13. items' = [items EXCEPT ![l] = u]
  BY DEF u
<1>14. QED
  BY <1>2, <1>8, <1>12, <1>13 DEF LinkedInv

LEMMA LinksBack ==
    ASSUME LinkedInv, NEW l \in List, NEW n \in ListNode, H!push_back(l, n)
    PROVE  LinkedInv'
<1>1. Woven(items, il_head, il_tail, next, prev)
  BY DEF LinkedInv
<1>2. n \notin H!Linked /\ H!LinkBack(l, n) /\ items' = [items EXCEPT ![l] = Append(items[l], n)]
  BY DEF H!push_back
<1>3. /\ items[l] \in Seq(ListNode) /\ Len(items[l]) \in Nat
      /\ il_head[l] = Null <=> Len(items[l]) = 0
  BY <1>1, WovenEnds
<1>4. CASE Len(items[l]) = 0
  <2>1. items[l] = <<>>
    BY <1>3, <1>4, EmptySeq
  <2>2. Append(items[l], n) = <<n>>
    BY <2>1
  <2>3. H!LinkOnly(l, n)
    BY <1>2, <1>3, <1>4 DEF H!LinkBack, H!empty
  <2>4. QED
    BY <1>2, <1>4, <2>2, <2>3, LinksOnly
<1>5. CASE Len(items[l]) # 0
  <2>1. /\ next' = [next EXCEPT ![il_tail[l]] = n, ![n] = Null]
        /\ prev' = [prev EXCEPT ![n] = il_tail[l]]
        /\ il_tail' = [il_tail EXCEPT ![l] = n]
        /\ il_head' = il_head
    BY <1>2, <1>3, <1>5 DEF H!LinkBack, H!empty
  <2>2. Len(items[l]) > 0 /\ Len(items[l]) \in 1 .. Len(items[l])
    BY <1>3, <1>5
  <2>3. il_tail[l] = items[l][Len(items[l])] /\ il_tail[l] \in ListNode
    BY <1>1, <2>2, WovenEnds
  <2>4. Unlinked(items, <<n>>) /\ il_tail[l] # n
    BY <1>2, <2>2, <2>3, NotLinked
  <2>5. next \in [ListNode -> H!Pointer] /\ prev \in [ListNode -> H!Pointer]
        /\ Null \in H!Pointer /\ n \in H!Pointer /\ il_tail[l] \in H!Pointer
    BY <1>1, <2>3 DEF Woven, H!Pointer
  <2>6. next' \in [ListNode -> H!Pointer] /\ prev' \in [ListNode -> H!Pointer]
    BY <2>1, <2>5
  <2>7. next'[n] = Null /\ prev'[n] = il_tail[l]
    BY <2>1, <2>5
  <2>8. \A c \in ListNode : c # n =>
            next'[c] = (IF c = il_tail[l] THEN n ELSE next[c]) /\ prev'[c] = prev[c]
    BY <2>1, <2>3, <2>4, <2>5
  <2> DEFINE u == <<n>>
  <2>9. u \in Seq(ListNode) /\ Len(u) = 1 /\ Len(u) > 0 /\ u[1] = n /\ NoRepeat(u) /\ u[Len(u)] = n
    BY Alone
  <2>10. Between(u, il_tail[l], Null, next', prev')
    BY <2>7, Alone
  <2>11. Joined(items[l], u, Append(items[l], n))
    BY <1>3, JoinedLast
  <2> HIDE DEF u
  <2>12. Others(u, il_tail[l], u[1], Null, Null, next, prev, next', prev')
    BY <2>8, <2>9, NodeAssumption DEF Others
  <2>13. Unlinked(items, u)
    BY <2>4 DEF u
  <2>14. Woven([items EXCEPT ![l] = Append(items[l], n)], il_head,
               [il_tail EXCEPT ![l] = u[Len(u)]], next', prev')
    BY <1>1, <2>2, <2>6, <2>9, <2>10, <2>11, <2>12, <2>13, WovenJoined
  <2>15. QED
    BY <1>2, <2>1, <2>9, <2>14 DEF LinkedInv
<1>6. QED
  BY <1>4, <1>5

LEMMA LinksFront ==
    ASSUME LinkedInv, NEW l \in List, NEW n \in ListNode, H!push_front(l, n)
    PROVE  LinkedInv'
<1>1. Woven(items, il_head, il_tail, next, prev)
  BY DEF LinkedInv
<1>2. n \notin H!Linked /\ H!LinkFront(l, n) /\ items' = [items EXCEPT ![l] = <<n>> \o items[l]]
  BY DEF H!push_front
<1>3. /\ items[l] \in Seq(ListNode) /\ Len(items[l]) \in Nat
      /\ il_head[l] = Null <=> Len(items[l]) = 0
  BY <1>1, WovenEnds
<1>4. CASE Len(items[l]) = 0
  <2>1. items[l] = <<>>
    BY <1>3, <1>4, EmptySeq
  <2>2. <<n>> \o items[l] = <<n>>
    BY <2>1
  <2>3. H!LinkOnly(l, n)
    BY <1>2, <1>3, <1>4 DEF H!LinkFront, H!empty
  <2>4. QED
    BY <1>2, <1>4, <2>2, <2>3, LinksOnly
<1>5. CASE Len(items[l]) # 0
  <2>1. /\ prev' = [prev EXCEPT ![il_head[l]] = n, ![n] = Null]
        /\ next' = [next EXCEPT ![n] = il_head[l]]
        /\ il_head' = [il_head EXCEPT ![l] = n]
        /\ il_tail' = il_tail
    BY <1>2, <1>3, <1>5 DEF H!LinkFront, H!empty
  <2>2. Len(items[l]) > 0 /\ 1 \in 1 .. Len(items[l])
    BY <1>3, <1>5
  <2>3. il_head[l] = items[l][1] /\ il_head[l] \in ListNode
    BY <1>1, <2>2, WovenEnds
  <2>4. Unlinked(items, <<n>>) /\ il_head[l] # n
    BY <1>2, <2>2, <2>3, NotLinked
  <2>5. next \in [ListNode -> H!Pointer] /\ prev \in [ListNode -> H!Pointer]
        /\ Null \in H!Pointer /\ n \in H!Pointer /\ il_head[l] \in H!Pointer
    BY <1>1, <2>3 DEF Woven, H!Pointer
  <2>6. next' \in [ListNode -> H!Pointer] /\ prev' \in [ListNode -> H!Pointer]
    BY <2>1, <2>5
  <2>7. next'[n] = il_head[l] /\ prev'[n] = Null
    BY <2>1, <2>5
  <2>8. \A c \in ListNode : c # n =>
            next'[c] = next[c] /\ prev'[c] = IF c = il_head[l] THEN n ELSE prev[c]
    BY <2>1, <2>3, <2>4, <2>5
  <2>9. <<n>> \in Seq(ListNode)
    OBVIOUS
  <2>10. Joined(<<n>>, items[l], <<n>> \o items[l])
    BY <1>3, <2>9, JoinedSeqs
  <2>11. Others(<<n>>, Null, Null, il_head[l], n, next, prev, next', prev')
    <3>1. Len(<<n>>) = 1 /\ <<n>>[1] = n
      OBVIOUS
    <3>2. QED
      BY <2>8, <3>1, NodeAssumption DEF Others
  <2>12. Woven([items EXCEPT ![l] = <<n>> \o items[l]], [il_head EXCEPT ![l] = n], il_tail,
               next', prev')
    BY <1>1, <2>2, <2>4, <2>6, <2>7, <2>10, <2>11, WovenFirst
  <2>13. QED
    BY <1>2, <2>1, <2>12 DEF LinkedInv
<1>6. QED
  BY <1>4, <1>5

LEMMA ExceptTwo ==
    ASSUME NEW A, NEW B, NEW f \in [A -> B], NEW l \in A, NEW m \in A, l # m, NEW x, NEW y
    PROVE  [f EXCEPT ![l] = x, ![m] = y] = [[f EXCEPT ![m] = y] EXCEPT ![l] = x]
OBVIOUS

\* m gives its nodes to l, which has none or loses its own.
LEMMA LinksTaken ==
    ASSUME LinkedInv, NEW l \in List, NEW m \in List, H!TakeAll(l, m),
           items' = [items EXCEPT ![l] = items[m], ![m] = <<>>]
    PROVE  LinkedInv'
<1>1. Woven(items, il_head, il_tail, next, prev)
  BY DEF LinkedInv
<1>2. /\ il_head' = [il_head EXCEPT ![l] = il_head[m], ![m] = Null]
      /\ il_tail' = [il_tail EXCEPT ![l] = il_tail[m], ![m] = Null]
      /\ next' = next /\ prev' = prev
  BY DEF H!TakeAll
<1>3. /\ items \in [List -> Seq(ListNode)] /\ il_head \in [List -> H!Pointer]
      /\ il_tail \in [List -> H!Pointer]
      /\ next \in [ListNode -> H!Pointer] /\ prev \in [ListNode -> H!Pointer]
  BY <1>1 DEF Woven
<1> DEFINE I == [items EXCEPT ![m] = <<>>]
           h == [il_head EXCEPT ![m] = Null]
           t == [il_tail EXCEPT ![m] = Null]
<1>4. Woven(I, h, t, next, prev)
  BY <1>1, WovenEmptied
<1>5. CASE l = m
  <2>1. items' = I /\ il_head' = h /\ il_tail' = t
    BY <1>2, <1>3, <1>5
  <2>2. QED
    BY <1>2, <1>4, <2>1 DEF LinkedInv
<1>6. CASE l # m
  <2>1. /\ items' = [I EXCEPT ![l] = items[m]]
        /\ il_head' = [h EXCEPT ![l] = il_head[m]]
        /\ il_tail' = [t EXCEPT ![l] = il_tail[m]]
    <3>1. [items EXCEPT ![l] = items[m], ![m] = <<>>] = [I EXCEPT ![l] = items[m]]
      BY <1>3, <1>6, ExceptTwo
    <3>2. [il_head EXCEPT ![l] = il_head[m], ![m] = Null] = [h EXCEPT ![l] = il_head[m]]
      BY <1>3, <1>6, ExceptTwo
    <3>3. [il_tail EXCEPT ![l] = il_tail[m], ![m] = Null] = [t EXCEPT ![l] = il_tail[m]]
      BY <1>3, <1>6, ExceptTwo
    <3>4. QED
      BY <1>2, <3>1, <3>2, <3>3
  <2>2. I[m] = <<>> /\ \A k \in List : k # m => I[k] = items[k]
    BY <1>3
  <2> HIDE DEF I, h, t
  <2>3. Strung(items[m], il_head[m], il_tail[m], next, prev)
    BY <1>1 DEF Woven
  <2>4. \A j, k \in List : \A i \in 1 .. Len(items[j]), e \in 1 .. Len(items[k]) :
           items[j][i] = items[k][e] => j = k /\ i = e
    BY <1>1 DEF Woven, OnceEach
  <2>5. NoRepeat(items[m])
    BY <2>4 DEF NoRepeat
  <2>6. \A k \in List : \A j \in 1 .. Len(I[k]) : k # m /\ I[k][j] = items[k][j] /\ j \in 1 .. Len(items[k])
    <3>1. Len(<<>>) = 0
      OBVIOUS
    <3>2. QED
      BY <2>2, <3>1
  <2>7. \A k \in List : \A j \in 1 .. Len(I[k]) : \A i \in 1 .. Len(items[m]) : items[m][i] # I[k][j]
    BY <2>4, <2>6
  <2>8. items[m] \in Seq(ListNode)
    BY <1>3
  <2>9. Restrung(I, l, items[m], next, prev, next, prev)
    BY <2>5, <2>7, <2>8 DEF Restrung
  <2>10. il_head[m] \in H!Pointer /\ il_tail[m] \in H!Pointer
    BY <1>3
  <2>11. Woven([I EXCEPT ![l] = items[m]], [h EXCEPT ![l] = il_head[m]],
               [t EXCEPT ![l] = il_tail[m]], next, prev)
    BY <1>3, <1>4, <2>3, <2>9, <2>10, WovenOne
  <2>12. QED
    BY <1>2, <2>1, <2>11 DEF LinkedInv
<1>7. QED
  BY <1>5, <1>6

LEMMA LinksMoved ==
    ASSUME LinkedInv, NEW l \in List, NEW m \in List, H!MoveAssign(l, m)
    PROVE  LinkedInv'
BY LinksTaken DEF H!MoveAssign

LEMMA LinksSpliced ==
    ASSUME LinkedInv, NEW l \in List, NEW m \in List, H!push_back_list(l, m)
    PROVE  LinkedInv'
<1>1. Woven(items, il_head, il_tail, next, prev)
  BY DEF LinkedInv
<1>2. /\ l # m /\ H!Splice(l, m)
      /\ items' = [items EXCEPT ![l] = items[l] \o items[m], ![m] = <<>>]
  BY DEF H!push_back_list
<1>3. /\ items \in [List -> Seq(ListNode)] /\ il_head \in [List -> H!Pointer]
      /\ il_tail \in [List -> H!Pointer]
      /\ next \in [ListNode -> H!Pointer] /\ prev \in [ListNode -> H!Pointer]
  BY <1>1 DEF Woven
<1>4. /\ items[l] \in Seq(ListNode) /\ Len(items[l]) \in Nat
      /\ il_head[l] = Null <=> Len(items[l]) = 0
      /\ items[m] \in Seq(ListNode) /\ Len(items[m]) \in Nat
      /\ il_head[m] = Null <=> Len(items[m]) = 0
  BY <1>1, WovenEnds
<1>5. CASE Len(items[l]) = 0
  <2>1. items[l] = <<>>
    BY <1>4, <1>5, EmptySeq
  <2>2. items[l] \o items[m] = items[m]
    BY <1>4, <2>1
  <2>3. H!TakeAll(l, m)
    BY <1>2, <1>4, <1>5 DEF H!Splice, H!empty
  <2>4. items' = [items EXCEPT ![l] = items[m], ![m] = <<>>]
    BY <1>2, <2>2
  <2>5. QED
    BY <2>3, <2>4, LinksTaken
<1>6. CASE Len(items[l]) # 0 /\ Len(items[m]) = 0
  <2>1. items[m] = <<>>
    BY <1>4, <1>6, EmptySeq
  <2>2. items[l] \o items[m] = items[l]
    BY <1>4, <2>1
  <2>3. items' = items
    BY <1>2, <1>3, <2>1, <2>2
  <2>4. il_head' = il_head /\ il_tail' = il_tail /\ next' = next /\ prev' = prev
    BY <1>2, <1>4, <1>6 DEF H!Splice, H!empty, H!links
  <2>5. QED
    BY <1>1, <2>3, <2>4 DEF LinkedInv
<1>7. CASE Len(items[l]) # 0 /\ Len(items[m]) # 0
  <2> DEFINE s == items[l]
             u == items[m]
             I == [items EXCEPT ![m] = <<>>]
             h == [il_head EXCEPT ![m] = Null]
             t == [il_tail EXCEPT ![m] = Null]
  <2>1. /\ next' = [next EXCEPT ![il_tail[l]] = il_head[m]]
        /\ prev' = [prev EXCEPT ![il_head[m]] = il_tail[l]]
        /\ il_tail' = [il_tail EXCEPT ![l] = il_tail[m], ![m] = Null]
        /\ il_head' = [il_head EXCEPT ![m] = Null]
    BY <1>2, <1>4, <1>7 DEF H!Splice, H!empty
  <2>2. /\ s \in Seq(ListNode) /\ u \in Seq(ListNode)
        /\ Len(s) \in Nat /\ Len(s) > 0 /\ Len(u) \in Nat /\ Len(u) > 0
    BY <1>4, <1>7
  <2>3. /\ il_tail[l] = s[Len(s)] /\ il_head[m] = u[1] /\ il_tail[m] = u[Len(u)]
    BY <1>1, <2>2, WovenEnds
  <2>4. /\ \A i \in 1 .. Len(s) : s[i] \in ListNode
        /\ \A i \in 1 .. Len(u) : u[i] \in ListNode
    BY <1>1, WovenEnds
  <2>5. Woven(I, h, t, next, prev)
    BY <1>1, WovenEmptied
  <2>6. /\ items' = [I EXCEPT ![l] = s \o u]
        /\ il_head' = h
        /\ il_tail' = [t EXCEPT ![l] = il_tail[m]]
    <3>1. [items EXCEPT ![l] = s \o u, ![m] = <<>>] = [I EXCEPT ![l] = s \o u]
      BY <1>2, <1>3, ExceptTwo
    <3>2. [il_tail EXCEPT ![l] = il_tail[m], ![m] = Null] = [t EXCEPT ![l] = il_tail[m]]
      BY <1>2, <1>3, ExceptTwo
    <3>3. QED
      BY <1>2, <2>1, <3>1, <3>2
  <2>7. I[m] = <<>> /\ (\A k \in List : k # m => I[k] = items[k]) /\ I[l] = s /\ t[l] = il_tail[l]
    BY <1>2, <1>3
  <2>8. \A j, k \in List : \A i \in 1 .. Len(items[j]), e \in 1 .. Len(items[k]) :
           items[j][i] = items[k][e] => j = k /\ i = e
    BY <1>1 DEF Woven, OnceEach
  <2>9. NoRepeat(u)
    BY <2>8 DEF NoRepeat
  <2>10. \A i, e \in 1 .. Len(u) : u[i] = u[e] => i = e
    BY <2>8
  <2>11. \A i \in 1 .. Len(s), e \in 1 .. Len(u) : s[i] # u[e]
    BY <1>2, <2>8
  <2>12. Unlinked(I, u)
    <3>1. Len(<<>>) = 0
      OBVIOUS
    <3>2. \A k \in List : \A j \in 1 .. Len(I[k]) : k # m /\ I[k][j] = items[k][j] /\ j \in 1 .. Len(items[k])
      BY <2>7, <3>1
    <3>3. \A k \in List : \A i \in 1 .. Len(u), j \in 1 .. Len(I[k]) : u[i] # I[k][j]
      BY <2>8, <3>2
    <3>4. QED
      BY <3>3 DEF Unlinked
  <2>13. Strung(u, il_head[m], il_tail[m], next, prev)
    BY <1>1 DEF Woven
  <2>14. Joined(s, u, s \o u)
    BY <2>2, JoinedSeqs
  <2> HIDE DEF s, u, I, h, t
  <2>15. 1 \in 1 .. Len(u) /\ Len(s) \in 1 .. Len(s) /\ Len(u) \in 1 .. Len(u)
    BY <2>2
  <2>16. il_tail[l] \in ListNode /\ il_head[m] \in ListNode /\ ListNode \subseteq H!Pointer
    BY <2>3, <2>4, <2>15 DEF H!Pointer
  <2>17. next' \in [ListNode -> H!Pointer] /\ prev' \in [ListNode -> H!Pointer]
    BY <1>3, <2>1, <2>16
  <2>18. \A c \in ListNode : /\ next'[c] = IF c = il_tail[l] THEN il_head[m] ELSE next[c]
                             /\ prev'[c] = IF c = il_head[m] THEN il_tail[l] ELSE prev[c]
    BY <1>3, <2>1
  <2>19. Between(u, il_tail[l], Null, next', prev')
    <3> SUFFICES ASSUME NEW i \in 1 .. Len(u)
                 PROVE  /\ next'[u[i]] = IF i = Len(u) THEN Null ELSE u[i + 1]
                        /\ prev'[u[i]] = IF i = 1 THEN il_tail[l] ELSE u[i - 1]
      BY DEF Between
    <3>1. u[i] \in ListNode /\ u[i] # il_tail[l] /\ (u[i] = il_head[m] <=> i = 1)
      BY <2>3, <2>4, <2>10, <2>11, <2>15
    <3>2. /\ next[u[i]] = IF i = Len(u) THEN Null ELSE u[i + 1]
          /\ prev[u[i]] = IF i = 1 THEN Null ELSE u[i - 1]
      BY <2>13 DEF Strung
    <3>3. QED
      BY <2>18, <3>1, <3>2
  <2>20. Others(u, il_tail[l], u[1], Null, Null, next, prev, next', prev')
    <3> SUFFICES ASSUME NEW c \in ListNode, \A i \in 1 .. Len(u) : c # u[i]
                 PROVE  /\ next'[c] = IF c = il_tail[l] THEN u[1] ELSE next[c]
                        /\ prev'[c] = IF c = Null THEN Null ELSE prev[c]
      BY DEF Others
    <3>1. c # Null /\ c # il_head[m]
      BY <2>3, <2>15, NodeAssumption
    <3>2. QED
      BY <2>3, <2>18, <3>1
  <2>21. Woven([I EXCEPT ![l] = s \o u], h, [t EXCEPT ![l] = u[Len(u)]], next', prev')
    <3>1. Joined(I[l], u, s \o u) /\ Len(I[l]) > 0
      BY <2>2, <2>7, <2>14
    <3>2. Between(u, t[l], Null, next', prev') /\ Others(u, t[l], u[1], Null, Null, next, prev, next', prev')
      BY <2>7, <2>19, <2>20
    <3>3. QED
      BY <2>2, <2>5, <2>9, <2>12, <2>17, <3>1, <3>2, WovenJoined
  <2>22. QED
    BY <2>3, <2>6, <2>21 DEF LinkedInv
<1>8. QED
  BY <1>5, <1>6, <1>7

\* A node at place k is unlinked; both pops do what erase() does there.
LinksWithout(l, k, p, q) ==
    /\ next' \in [ListNode -> H!Pointer] /\ prev' \in [ListNode -> H!Pointer]
    /\ IsBetween(items[l][k], p, q, next, prev)
    /\ Past(items[l][k], p, q, next, prev, next', prev')
    /\ il_head' = [il_head EXCEPT ![l] = IF p = Null THEN q ELSE il_head[l]]
    /\ il_tail' = [il_tail EXCEPT ![l] = IF q = Null THEN p ELSE il_tail[l]]

LEMMA LinksLess ==
    ASSUME LinkedInv, NEW l \in List, NEW k \in 1 .. Len(items[l]), NEW p, NEW q,
           LinksWithout(l, k, p, q),
           NEW r, Without(items[l], k, r), items' = [items EXCEPT ![l] = r]
    PROVE  LinkedInv'
<1>1. Woven(items, il_head, il_tail, next, prev)
  BY DEF LinkedInv
<1>2. /\ IsBetween(items[l][k], p, q, next, prev)
      /\ Past(items[l][k], p, q, next, prev, next', prev')
      /\ next' \in [ListNode -> H!Pointer] /\ prev' \in [ListNode -> H!Pointer]
  BY DEF LinksWithout
<1>3. Shortened(items, il_head, il_tail, l, r, p, q, items', il_head', il_tail')
  BY DEF LinksWithout, Shortened
<1>4. Woven(items', il_head', il_tail', next', prev')
  BY <1>1, <1>2, <1>3, WovenWithout
<1>5. QED
  BY <1>4 DEF LinkedInv

LEMMA LinksErased ==
    ASSUME LinkedInv, NEW l \in List, NEW n \in ListNode, H!erase(l, n)
    PROVE  LinkedInv'
<1>1. Woven(items, il_head, il_tail, next, prev)
  BY DEF LinkedInv
<1>2. PICK k \in DOMAIN items[l] :
          /\ items[l][k] = n /\ H!Unlink(l, n)
          /\ items' = [items EXCEPT ![l] = H!RemoveAt(items[l], k)]
  BY DEF H!erase
<1>3. items[l] \in Seq(ListNode) /\ k \in 1 .. Len(items[l]) /\ Len(items[l]) \in Nat
  BY <1>1, WovenEnds
<1>4. Without(items[l], k, H!RemoveAt(items[l], k))
  BY <1>3, WithoutAt
<1>5. /\ il_head \in [List -> H!Pointer] /\ il_tail \in [List -> H!Pointer]
      /\ next \in [ListNode -> H!Pointer] /\ prev \in [ListNode -> H!Pointer]
      /\ Strung(items[l], il_head[l], il_tail[l], next, prev)
  BY <1>1 DEF Woven
<1> DEFINE p == prev[n]
           q == next[n]
<1>6. /\ IF p = Null /\ q = Null THEN H!Forget(l)
         ELSE /\ il_head' = IF p = Null THEN [il_head EXCEPT ![l] = q] ELSE il_head
              /\ il_tail' = IF q = Null THEN [il_tail EXCEPT ![l] = p] ELSE il_tail
      /\ next' = [i \in ListNode |-> IF i = n THEN Null
                                      ELSE IF i = p THEN q ELSE next[i]]
      /\ prev' = [i \in ListNode |-> IF i = n THEN Null
                                      ELSE IF i = q THEN p ELSE prev[i]]
  BY <1>2 DEF H!Unlink
<1>7. p \in H!Pointer /\ q \in H!Pointer /\ Null \in H!Pointer
  BY <1>5 DEF H!Pointer
<1> HIDE DEF p, q
<1>8. next' \in [ListNode -> H!Pointer] /\ prev' \in [ListNode -> H!Pointer]
  BY <1>5, <1>6, <1>7
<1>9. IsBetween(items[l][k], p, q, next, prev)
  BY <1>2 DEF IsBetween, p, q
<1>10. Past(items[l][k], p, q, next, prev, next', prev')
  BY <1>2, <1>6 DEF Past
<1>11. /\ il_head' = [il_head EXCEPT ![l] = IF p = Null THEN q ELSE il_head[l]]
       /\ il_tail' = [il_tail EXCEPT ![l] = IF q = Null THEN p ELSE il_tail[l]]
  <2>1. CASE p = Null /\ q = Null
    BY <1>6, <2>1 DEF H!Forget
  <2>2. CASE ~(p = Null /\ q = Null)
    <3>1. il_head = [il_head EXCEPT ![l] = il_head[l]] /\ il_tail = [il_tail EXCEPT ![l] = il_tail[l]]
      BY <1>5
    <3>2. QED
      BY <1>6, <2>2, <3>1
  <2>3. QED
    BY <2>1, <2>2
<1>12. LinksWithout(l, k, p, q)
  BY <1>8, <1>9, <1>10, <1>11 DEF LinksWithout
<1>13. QED
  BY <1>2, <1>3, <1>4, <1>12, LinksLess

LEMMA LinksPoppedBack ==
    ASSUME LinkedInv, NEW l \in List, H!pop_back(l)
    PROVE  LinkedInv'
<1>1. Woven(items, il_head, il_tail, next, prev)
  BY DEF LinkedInv
<1> DEFINE s == items[l]
           k == Len(items[l])
           n == il_tail[l]
           p == prev[n]
<1>2. n # Null /\ H!UnlinkBack(l) /\ items' = [items EXCEPT ![l] = SubSeq(items[l], 1, Len(items[l]) - 1)]
  BY DEF H!pop_back
<1>3. s \in Seq(ListNode) /\ k > 0 /\ k \in 1 .. k /\ n = s[k] /\ n \in ListNode
  BY <1>1, <1>2, WovenEnds
<1>4. Without(s, k, SubSeq(s, 1, k - 1))
  BY <1>3, WithoutLast
<1>5. /\ il_head \in [List -> H!Pointer] /\ il_tail \in [List -> H!Pointer]
      /\ next \in [ListNode -> H!Pointer] /\ prev \in [ListNode -> H!Pointer]
      /\ Strung(s, il_head[l], il_tail[l], next, prev)
  BY <1>1 DEF Woven
<1>6. next[n] = Null
  BY <1>3, <1>5 DEF Strung
<1>7. p \in H!Pointer /\ Null \in H!Pointer
  BY <1>3, <1>5 DEF H!Pointer
<1>8. /\ p # Null => /\ next' = [next EXCEPT ![p] = Null]
                     /\ il_tail' = [il_tail EXCEPT ![l] = p]
                     /\ il_head' = il_head
      /\ p = Null => /\ il_head' = [il_head EXCEPT ![l] = Null]
                     /\ il_tail' = [il_tail EXCEPT ![l] = Null]
                     /\ next' = next
      /\ prev' = [prev EXCEPT ![n] = Null]
  BY <1>2 DEF H!UnlinkBack, H!Forget
<1>9. p = prev[n]
  OBVIOUS
<1>10. items' = [items EXCEPT ![l] = SubSeq(s, 1, k - 1)] /\ s = items[l]
  BY <1>2
<1>11. k \in 1 .. Len(items[l])
  BY <1>3
<1> HIDE DEF p, n, s, k
<1>12. next' \in [ListNode -> H!Pointer] /\ prev' \in [ListNode -> H!Pointer]
  BY <1>5, <1>7, <1>8
<1>13. IsBetween(s[k], p, Null, next, prev)
  BY <1>3, <1>6, <1>9 DEF IsBetween
<1>14. Past(s[k], p, Null, next, prev, next', prev')
  <2> SUFFICES ASSUME NEW i \in ListNode, i # n
               PROVE  /\ next'[i] = IF i = p THEN Null ELSE next[i]
                      /\ prev'[i] = IF i = Null THEN p ELSE prev[i]
    BY <1>3 DEF Past
  <2>1. i # Null
    BY NodeAssumption
  <2>2. prev'[i] = prev[i]
    BY <1>5, <1>8
  <2>3. next'[i] = IF i = p THEN Null ELSE next[i]
    BY <1>5, <1>8, <2>1
  <2>4. QED
    BY <2>1, <2>2, <2>3
<1>15. /\ il_head' = [il_head EXCEPT ![l] = IF p = Null THEN Null ELSE il_head[l]]
       /\ il_tail' = [il_tail EXCEPT ![l] = p]
  <2>1. il_head = [il_head EXCEPT ![l] = il_head[l]]
    BY <1>5
  <2>2. CASE p = Null
    BY <1>8, <2>2
  <2>3. CASE p # Null
    BY <1>8, <2>1, <2>3
  <2>4. QED
    BY <2>2, <2>3
<1>16. LinksWithout(l, k, p, Null)
  BY <1>12, <1>13, <1>14, <1>15, <1>10 DEF LinksWithout
<1>17. QED
  BY <1>4, <1>16, <1>10, <1>11, LinksLess

LEMMA LinksPoppedFront ==
    ASSUME LinkedInv, NEW l \in List, H!pop_front(l)
    PROVE  LinkedInv'
<1>1. Woven(items, il_head, il_tail, next, prev)
  BY DEF LinkedInv
<1> DEFINE s == items[l]
           n == il_head[l]
           q == next[n]
<1>2. n # Null /\ H!UnlinkFront(l) /\ items' = [items EXCEPT ![l] = Tail(items[l])]
  BY DEF H!pop_front
<1>3. s \in Seq(ListNode) /\ Len(s) > 0 /\ 1 \in 1 .. Len(s) /\ n = s[1] /\ n \in ListNode
  BY <1>1, <1>2, WovenEnds
<1>4. Without(s, 1, Tail(s))
  BY <1>3, WithoutFirst
<1>5. /\ il_head \in [List -> H!Pointer] /\ il_tail \in [List -> H!Pointer]
      /\ next \in [ListNode -> H!Pointer] /\ prev \in [ListNode -> H!Pointer]
      /\ Strung(s, il_head[l], il_tail[l], next, prev)
  BY <1>1 DEF Woven
<1>6. prev[n] = Null
  BY <1>3, <1>5 DEF Strung
<1>7. q \in H!Pointer /\ Null \in H!Pointer
  BY <1>3, <1>5 DEF H!Pointer
<1>8. /\ q # Null => /\ prev' = [prev EXCEPT ![q] = Null]
                     /\ il_head' = [il_head EXCEPT ![l] = q]
                     /\ il_tail' = il_tail
      /\ q = Null => /\ il_head' = [il_head EXCEPT ![l] = Null]
                     /\ il_tail' = [il_tail EXCEPT ![l] = Null]
                     /\ prev' = prev
      /\ next' = [next EXCEPT ![n] = Null]
  BY <1>2 DEF H!UnlinkFront, H!Forget
<1>9. q = next[n]
  OBVIOUS
<1>10. items' = [items EXCEPT ![l] = Tail(s)] /\ s = items[l]
  BY <1>2
<1>11. 1 \in 1 .. Len(items[l])
  BY <1>3
<1> HIDE DEF q, n, s
<1>12. next' \in [ListNode -> H!Pointer] /\ prev' \in [ListNode -> H!Pointer]
  BY <1>5, <1>7, <1>8
<1>13. IsBetween(s[1], Null, q, next, prev)
  BY <1>3, <1>6, <1>9 DEF IsBetween
<1>14. Past(s[1], Null, q, next, prev, next', prev')
  <2> SUFFICES ASSUME NEW i \in ListNode, i # n
               PROVE  /\ next'[i] = IF i = Null THEN q ELSE next[i]
                      /\ prev'[i] = IF i = q THEN Null ELSE prev[i]
    BY <1>3 DEF Past
  <2>1. i # Null
    BY NodeAssumption
  <2>2. next'[i] = next[i]
    BY <1>5, <1>8
  <2>3. prev'[i] = IF i = q THEN Null ELSE prev[i]
    BY <1>5, <1>8, <2>1
  <2>4. QED
    BY <2>1, <2>2, <2>3
<1>15. /\ il_head' = [il_head EXCEPT ![l] = q]
       /\ il_tail' = [il_tail EXCEPT ![l] = IF q = Null THEN Null ELSE il_tail[l]]
  <2>1. il_tail = [il_tail EXCEPT ![l] = il_tail[l]]
    BY <1>5
  <2>2. CASE q = Null
    BY <1>8, <2>2
  <2>3. CASE q # Null
    BY <1>8, <2>1, <2>3
  <2>4. QED
    BY <2>2, <2>3
<1>16. LinksWithout(l, 1, Null, q)
  BY <1>12, <1>13, <1>14, <1>15, <1>10 DEF LinksWithout
<1>17. QED
  BY <1>4, <1>16, <1>10, <1>11, LinksLess

LEMMA LinksCleared ==
    ASSUME LinkedInv, NEW l \in List, H!clear(l)
    PROVE  LinkedInv'
BY WovenEmptied DEF H!clear, H!Forget, LinkedInv

-----------------------------------------------------------------------------
(* list: who owns the nodes.                                               *)

Nodes(s) == {s[i] : i \in 1 .. Len(s)}

\* The nodes in a are those of the lists in e; the other lists have none.
Owns(I, a, e) ==
    /\ a \subseteq ListNode /\ e \subseteq List
    /\ \A n \in ListNode : n \in a <=> \E l \in e : n \in Nodes(I[l])
    /\ \A l \in List \ e : Nodes(I[l]) = {}

LEMMA NodesJoined ==
    ASSUME NEW s \in Seq(ListNode), NEW u \in Seq(ListNode), NEW r, Joined(s, u, r)
    PROVE  Nodes(r) = Nodes(s) \cup Nodes(u)
<1>1. Len(s) \in Nat /\ Len(u) \in Nat /\ Len(r) = Len(s) + Len(u)
  BY DEF Joined
<1>2. \A i \in 1 .. Len(s) : r[i] = s[i] /\ i \in 1 .. Len(r)
  BY <1>1 DEF Joined
<1>3. \A i \in 1 .. Len(u) : r[Len(s) + i] = u[i] /\ Len(s) + i \in 1 .. Len(r)
  BY <1>1 DEF Joined
<1>4. \A i \in 1 .. Len(r) : i \in 1 .. Len(s) \/ \E j \in 1 .. Len(u) : i = Len(s) + j
  <2> SUFFICES ASSUME NEW i \in 1 .. Len(r), i \notin 1 .. Len(s)
               PROVE  \E j \in 1 .. Len(u) : i = Len(s) + j
    OBVIOUS
  <2>1. i - Len(s) \in 1 .. Len(u) /\ i = Len(s) + (i - Len(s))
    BY <1>1
  <2>2. QED
    BY <2>1
<1>5. ASSUME NEW x PROVE x \in Nodes(r) <=> x \in Nodes(s) \/ x \in Nodes(u)
  <2>1. x \in Nodes(s) => x \in Nodes(r)
    BY <1>2 DEF Nodes
  <2>2. x \in Nodes(u) => x \in Nodes(r)
    BY <1>3 DEF Nodes
  <2>3. ASSUME NEW i \in 1 .. Len(r), x = r[i] PROVE x \in Nodes(s) \/ x \in Nodes(u)
    BY <1>2, <1>3, <1>4, <2>3 DEF Nodes
  <2>4. QED
    BY <2>1, <2>2, <2>3 DEF Nodes
<1>6. QED
  BY <1>5

LEMMA NodesWithout ==
    ASSUME NEW s \in Seq(ListNode), NoRepeat(s), NEW k \in 1 .. Len(s), NEW r, Without(s, k, r)
    PROVE  Nodes(r) = Nodes(s) \ {s[k]}
<1>1. Len(s) \in Nat /\ Len(r) = Len(s) - 1 /\ k \in Int
  BY DEF Without
<1>2. \A i \in 1 .. Len(r) : r[i] = IF i < k THEN s[i] ELSE s[i + 1]
  BY <1>1 DEF Without
<1>3. \A i \in 1 .. Len(r) : i \in 1 .. Len(s) /\ i + 1 \in 1 .. Len(s)
  BY <1>1
<1>4. ASSUME NEW x \in Nodes(r) PROVE x \in Nodes(s) /\ x # s[k]
  <2>1. PICK i \in 1 .. Len(r) : x = r[i]
    BY DEF Nodes
  <2>2. i + 1 # k \/ i < k
    BY <1>1
  <2>3. \A j \in 1 .. Len(s) : s[j] = s[k] => j = k
    BY DEF NoRepeat
  <2>4. CASE i < k
    <3>1. x = s[i] /\ i # k
      BY <1>1, <1>2, <2>1, <2>4
    <3>2. QED
      BY <1>3, <2>3, <3>1 DEF Nodes
  <2>5. CASE ~(i < k)
    <3>1. x = s[i + 1] /\ i + 1 # k
      BY <1>2, <2>1, <2>2, <2>5
    <3>2. QED
      BY <1>3, <2>3, <3>1 DEF Nodes
  <2>6. QED
    BY <2>4, <2>5
<1>5. ASSUME NEW x \in Nodes(s), x # s[k] PROVE x \in Nodes(r)
  <2>1. PICK j \in 1 .. Len(s) : x = s[j]
    BY DEF Nodes
  <2>2. j # k /\ j \in Int
    BY <1>5, <2>1
  <2>3. CASE j < k
    <3>1. j \in 1 .. Len(r)
      BY <1>1, <2>3
    <3>2. r[j] = s[j]
      BY <1>2, <2>3, <3>1
    <3>3. QED
      BY <2>1, <3>1, <3>2 DEF Nodes
  <2>4. CASE ~(j < k)
    <3> DEFINE i == j - 1
    <3>1. i \in 1 .. Len(r) /\ ~(i < k) /\ i + 1 = j
      BY <1>1, <2>2, <2>4
    <3> HIDE DEF i
    <3>2. r[i] = s[j]
      BY <1>2, <3>1
    <3>3. QED
      BY <2>1, <3>1, <3>2 DEF Nodes
  <2>5. QED
    BY <2>3, <2>4
<1>6. QED
  BY <1>4, <1>5

\* Sequences of nodes without repetition are no longer than there are nodes.
LEMMA FewNodes ==
    ASSUME NEW s \in Seq(ListNode), NoRepeat(s)
    PROVE  Cardinality(ListNode) \in Nat /\ Len(s) <= Cardinality(ListNode)
<1>1. Len(s) \in Nat /\ s \in [1 .. Len(s) -> ListNode]
  OBVIOUS
<1>2. \A i, j \in 1 .. Len(s) : s[i] = s[j] => i = j
  BY DEF NoRepeat
<1>3. s \in Injection(1 .. Len(s), ListNode)
  BY <1>1, <1>2, Fun_IsInj, Zenon
<1>4. Cardinality(1 .. Len(s)) <= Cardinality(ListNode)
  BY <1>3, NodeAssumption, FS_Injection
<1>5. Cardinality(1 .. Len(s)) = Len(s)
  <2>1. 1 \in Int /\ Len(s) \in Int
    BY <1>1
  <2>2. Cardinality(1 .. Len(s)) = IF 1 > Len(s) THEN 0 ELSE Len(s) - 1 + 1
    BY <2>1, FS_Interval
  <2>3. QED
    BY <1>1, <2>2
<1>6. Cardinality(ListNode) \in Nat
  BY NodeAssumption, FS_CardinalityType
<1>7. QED
  BY <1>4, <1>5, <1>6

\* clear() walks back along the nodes of the list and stops before its first.
LEMMA WalksBack ==
    ASSUME NEW s \in Seq(ListNode), NoRepeat(s), NEW h, NEW t, NEW nx, NEW pv,
           Strung(s, h, t, nx, pv), NEW k \in Nat, Len(s) <= k,
           NEW at, IsWalk(Null, k, t, pv, at)
    PROVE  {at[i] : i \in 0 .. k} \ {Null} = Nodes(s)
<1> DEFINE n == Len(s)
<1>1. n \in Nat
  OBVIOUS
<1>2. /\ at[0] = t
      /\ \A i \in 1 .. k : at[i] = IF at[i - 1] = Null THEN Null ELSE pv[at[i - 1]]
  <2>1. \A i \in 0 .. k : at[i] = IF i = 0 THEN t ELSE IF at[i - 1] = Null THEN Null ELSE pv[at[i - 1]]
    BY DEF IsWalk
  <2>2. 0 \in 0 .. k /\ \A i \in 1 .. k : i \in 0 .. k /\ i # 0
    OBVIOUS
  <2>3. QED
    BY <2>1, <2>2
<1>3. \A i \in 1 .. n : s[i] \in ListNode /\ s[i] # Null
  BY ElementOfSeq, NodeAssumption
<1>4. /\ t = IF n = 0 THEN Null ELSE s[n]
      /\ \A i \in 1 .. n : pv[s[i]] = IF i = 1 THEN Null ELSE s[i - 1]
  BY DEF Strung
<1> HIDE DEF n
<1>5. \A i \in 0 .. k : at[i] = IF i < n THEN s[n - i] ELSE Null
  <2> DEFINE bad == {i \in 0 .. k : at[i] # IF i < n THEN s[n - i] ELSE Null}
  <2>1. SUFFICES ASSUME bad # {} PROVE FALSE
    OBVIOUS
  <2>2. bad \in SUBSET Nat
    OBVIOUS
  <2>3. PICK i \in bad : \A j \in bad : i <= j
    BY <2>1, <2>2, LeastExists
  <2>4. i # 0
    <3>1. at[0] = IF 0 < n THEN s[n - 0] ELSE Null
      BY <1>1, <1>2, <1>4
    <3>2. QED
      BY <2>3, <3>1
  <2>5. i \in 1 .. k /\ i - 1 \in 0 .. k /\ i - 1 \notin bad
    BY <2>3, <2>4
  <2>6. at[i - 1] = IF i - 1 < n THEN s[n - (i - 1)] ELSE Null
    BY <2>5
  <2>7. at[i] = IF at[i - 1] = Null THEN Null ELSE pv[at[i - 1]]
    BY <1>2, <2>5
  <2>8. at[i] # IF i < n THEN s[n - i] ELSE Null
    BY <2>3
  <2> HIDE DEF bad
  <2>9. CASE i - 1 < n
    <3> DEFINE j == n - (i - 1)
    <3>1. j \in 1 .. n /\ (j = 1 <=> ~(i < n)) /\ j - 1 = n - i
      BY <1>1, <2>5, <2>9
    <3>2. at[i - 1] = s[j]
      BY <2>6, <2>9
    <3> HIDE DEF j
    <3>3. at[i] = IF j = 1 THEN Null ELSE s[j - 1]
      BY <1>3, <1>4, <2>7, <3>1, <3>2
    <3>4. QED
      BY <2>8, <3>1, <3>3
  <2>10. CASE ~(i - 1 < n)
    <3>1. ~(i < n)
      BY <1>1, <2>5, <2>10
    <3>2. QED
      BY <2>6, <2>7, <2>8, <2>10, <3>1
  <2>11. QED
    BY <2>9, <2>10
<1>6. ASSUME NEW x, x \in {at[i] : i \in 0 .. k}, x # Null PROVE x \in Nodes(s)
  <2>1. PICK i \in 0 .. k : x = at[i]
    BY <1>6
  <2>2. i < n /\ x = s[n - i]
    BY <1>5, <1>6, <2>1
  <2>3. n - i \in 1 .. n
    BY <1>1, <2>2
  <2>4. QED
    BY <2>2, <2>3 DEF Nodes, n
<1>7. ASSUME NEW x \in Nodes(s) PROVE x \in {at[i] : i \in 0 .. k} /\ x # Null
  <2>1. PICK j \in 1 .. n : x = s[j]
    BY DEF Nodes, n
  <2> DEFINE i == n - j
  <2>2. i \in 0 .. k /\ i < n /\ n - i = j
    BY <1>1 DEF n
  <2> HIDE DEF i
  <2>3. at[i] = s[j]
    BY <1>5, <2>2
  <2>4. QED
    BY <1>3, <2>1, <2>2, <2>3
<1>8. QED
  BY <1>6, <1>7

LEMMA CardinalityIsOne == H!Cardinality(ListNode) = Cardinality(ListNode)
BY DEF H!Cardinality, Cardinality

LEMMA FromIsNodes ==
    ASSUME LinkedInv, NEW l \in List
    PROVE  H!From(il_tail[l]) = Nodes(items[l])
<1>1. /\ items[l] \in Seq(ListNode)
      /\ Strung(items[l], il_head[l], il_tail[l], next, prev)
  BY DEF LinkedInv, Woven
<1>2. NoRepeat(items[l])
  BY DEF LinkedInv, Woven, OnceEach, NoRepeat
<1> DEFINE k == Cardinality(ListNode)
           t == il_tail[l]
           f == CHOOSE at : IsWalk(Null, k, t, prev, at)
<1>3. k \in Nat /\ Len(items[l]) <= k
  BY <1>1, <1>2, FewNodes
<1> HIDE DEF k, t
<1>4. \E at : IsWalk(Null, k, t, prev, at)
  BY <1>3, WalkExists
<1>5. IsWalk(Null, k, t, prev, f)
  BY <1>4
<1>6. DOMAIN f = 0 .. k
  BY <1>5 DEF IsWalk
<1>7. H!From(t) = {f[i] : i \in DOMAIN f} \ {Null}
  BY CardinalityIsOne DEF H!From, IsWalk, k
<1> HIDE DEF f
<1>8. {f[i] : i \in 0 .. k} \ {Null} = Nodes(items[l])
  BY <1>1, <1>2, <1>3, <1>5, WalksBack DEF t
<1>9. QED
  BY <1>6, <1>7, <1>8 DEF t

\* Every node that was created is in one list that exists, or deleted.
OwnedInv ==
    /\ allocated \subseteq ListNode /\ exists \subseteq List
    /\ program = "list" => Owns(items, allocated, exists)

\* One list gets or loses nodes, which are created or deleted.
LEMMA OwnsChanged ==
    ASSUME NEW I, NEW a, NEW e, Owns(I, a, e), NEW l \in e, NEW s, NEW b,
           I \in [List -> Seq(ListNode)], OnceEach(I),
           Nodes(s) \subseteq ListNode, b \subseteq ListNode,
           \A n \in ListNode : n \in b <=> (n \in a /\ n \notin Nodes(I[l])) \/ n \in Nodes(s)
    PROVE  Owns([I EXCEPT ![l] = s], b, e)
<1> DEFINE J == [I EXCEPT ![l] = s]
<1>1. l \in List /\ e \subseteq List
  BY DEF Owns
<1>2. J[l] = s /\ \A k \in List : k # l => J[k] = I[k]
  BY <1>1
<1>3. \A j, k \in List : \A n \in Nodes(I[j]) : n \in Nodes(I[k]) => j = k
  BY DEF OnceEach, Nodes
<1> HIDE DEF J
<1>4. ASSUME NEW n \in ListNode PROVE n \in b <=> \E k \in e : n \in Nodes(J[k])
  <2>1. n \in a <=> \E k \in e : n \in Nodes(I[k])
    BY DEF Owns
  <2>2. n \in a /\ n \notin Nodes(I[l]) => \E k \in e : k # l /\ n \in Nodes(I[k])
    BY <2>1
  <2>3. ASSUME NEW k \in e, k # l, n \in Nodes(I[k]) PROVE n \in a /\ n \notin Nodes(I[l])
    BY <1>1, <1>3, <2>1, <2>3
  <2>4. n \in b <=> n \in Nodes(s) \/ \E k \in e : k # l /\ n \in Nodes(I[k])
    BY <2>2, <2>3
  <2>5. (\E k \in e : n \in Nodes(J[k])) <=> n \in Nodes(s) \/ \E k \in e : k # l /\ n \in Nodes(I[k])
    BY <1>1, <1>2
  <2>6. QED
    BY <2>4, <2>5
<1>5. \A k \in List \ e : Nodes(J[k]) = {}
  BY <1>2 DEF Owns
<1>6. QED
  BY <1>1, <1>4, <1>5 DEF Owns, J

\* A list that has no nodes begins or ends to exist.
LEMMA OwnsEmpty ==
    ASSUME NEW I, NEW a, NEW e, Owns(I, a, e), NEW l \in List, Nodes(I[l]) = {}
    PROVE  Owns(I, a, e \cup {l}) /\ Owns(I, a, e \ {l})
BY DEF Owns

\* Nodes go from one list to another.
LEMMA OwnsMoved ==
    ASSUME NEW I, NEW a, NEW e, Owns(I, a, e), NEW l \in e, NEW m \in e, l # m,
           I \in [List -> Seq(ListNode)], NEW s, Nodes(s) = Nodes(I[l]) \cup Nodes(I[m])
    PROVE  Owns([I EXCEPT ![l] = s, ![m] = <<>>], a, e)
<1> DEFINE J == [I EXCEPT ![l] = s, ![m] = <<>>]
<1>1. l \in List /\ m \in List /\ e \subseteq List
  BY DEF Owns
<1>2. J[l] = s /\ J[m] = <<>> /\ \A k \in List : k # l /\ k # m => J[k] = I[k]
  BY <1>1
<1>3. Nodes(<<>>) = {}
  BY DEF Nodes
<1> HIDE DEF J
<1>4. ASSUME NEW n PROVE (\E k \in e : n \in Nodes(I[k])) <=> \E k \in e : n \in Nodes(J[k])
  <2>1. ASSUME NEW k \in e, n \in Nodes(I[k]) PROVE \E j \in e : n \in Nodes(J[j])
    BY <1>1, <1>2, <2>1
  <2>2. ASSUME NEW k \in e, n \in Nodes(J[k]) PROVE \E j \in e : n \in Nodes(I[j])
    BY <1>1, <1>2, <1>3, <2>2
  <2>3. QED
    BY <2>1, <2>2
<1>5. \A k \in List \ e : Nodes(J[k]) = {}
  BY <1>2 DEF Owns
<1>6. QED
  BY <1>1, <1>4, <1>5 DEF Owns, J

\* What the lists and their nodes are to the proofs that follow.
LEMMA NodesOf ==
    ASSUME LinkedInv
    PROVE  /\ items \in [List -> Seq(ListNode)] /\ OnceEach(items)
           /\ \A l \in List : items[l] \in Seq(ListNode) /\ NoRepeat(items[l])
           /\ \A l \in List : Nodes(items[l]) \subseteq ListNode
           /\ \A l, m \in List : \A n \in Nodes(items[l]) : n \in Nodes(items[m]) => l = m
           /\ Nodes(<<>>) = {} /\ \A n : Nodes(<<n>>) = {n}
<1>1. items \in [List -> Seq(ListNode)] /\ OnceEach(items)
  BY DEF LinkedInv, Woven
<1>2. \A l \in List : items[l] \in Seq(ListNode) /\ NoRepeat(items[l])
  BY <1>1 DEF OnceEach, NoRepeat
<1>3. \A l \in List : Nodes(items[l]) \subseteq ListNode
  BY <1>2, ElementOfSeq DEF Nodes
<1>4. \A l, m \in List : \A n \in Nodes(items[l]) : n \in Nodes(items[m]) => l = m
  BY <1>1 DEF OnceEach, Nodes
<1>5. Nodes(<<>>) = {} /\ \A n : Nodes(<<n>>) = {n}
  BY DEF Nodes
<1>6. QED
  BY <1>1, <1>2, <1>3, <1>4, <1>5

LEMMA OwnsPushed ==
    ASSUME LinkedInv, Owns(items, allocated, exists), NEW l \in List, H!PushNew(l)
    PROVE  LinkedInv' /\ Owns(items, allocated, exists)'
<1>1. l \in exists /\ exists' = exists
  BY DEF H!PushNew
<1>2. PICK n \in ListNode \ allocated :
        (H!push_back(l, n) \/ H!push_front(l, n)) /\ allocated' = allocated \cup {n}
  BY DEF H!PushNew
<1>3. LinkedInv'
  BY <1>2, LinksBack, LinksFront
<1>4. /\ items \in [List -> Seq(ListNode)] /\ OnceEach(items) /\ items[l] \in Seq(ListNode)
      /\ Nodes(items[l]) \subseteq ListNode /\ Nodes(<<n>>) = {n} /\ <<n>> \in Seq(ListNode)
  BY NodesOf
<1>5. PICK s : items' = [items EXCEPT ![l] = s] /\ Nodes(s) = Nodes(items[l]) \cup {n}
  <2>1. CASE H!push_back(l, n)
    <3>1. Nodes(Append(items[l], n)) = Nodes(items[l]) \cup Nodes(<<n>>)
      BY <1>4, JoinedLast, NodesJoined
    <3>2. items' = [items EXCEPT ![l] = Append(items[l], n)]
      BY <2>1 DEF H!push_back
    <3>3. QED
      BY <1>4, <3>1, <3>2
  <2>2. CASE H!push_front(l, n)
    <3>1. Nodes(<<n>> \o items[l]) = Nodes(<<n>>) \cup Nodes(items[l])
      BY <1>4, JoinedSeqs, NodesJoined
    <3>2. items' = [items EXCEPT ![l] = <<n>> \o items[l]]
      BY <2>2 DEF H!push_front
    <3>3. QED
      BY <1>4, <3>1, <3>2
  <2>3. QED
    BY <1>2, <2>1, <2>2
<1>6. allocated \subseteq ListNode /\ \A x \in Nodes(items[l]) : x \in allocated
  BY <1>1, <1>4 DEF Owns
<1>7. \A x \in ListNode : x \in allocated' <=> (x \in allocated /\ x \notin Nodes(items[l])) \/ x \in Nodes(s)
  BY <1>2, <1>5, <1>6
<1>8. Nodes(s) \subseteq ListNode /\ allocated' \subseteq ListNode
  BY <1>2, <1>4, <1>5, <1>6
<1>9. Owns([items EXCEPT ![l] = s], allocated', exists)
  BY <1>1, <1>4, <1>7, <1>8, OwnsChanged
<1>10. QED
  BY <1>1, <1>3, <1>5, <1>9

LEMMA OwnsPopped ==
    ASSUME LinkedInv, Owns(items, allocated, exists), NEW l \in List, H!PopDelete(l)
    PROVE  LinkedInv' /\ Owns(items, allocated, exists)'
<1>1. l \in exists /\ exists' = exists
  BY DEF H!PopDelete
<1>2. \/ H!pop_back(l) /\ allocated' = allocated \ {il_tail[l]}
      \/ H!pop_front(l) /\ allocated' = allocated \ {il_head[l]}
  BY DEF H!PopDelete
<1>3. LinkedInv'
  BY <1>2, LinksPoppedBack, LinksPoppedFront
<1>4. /\ items \in [List -> Seq(ListNode)] /\ OnceEach(items) /\ items[l] \in Seq(ListNode)
      /\ Nodes(items[l]) \subseteq ListNode /\ NoRepeat(items[l])
  BY NodesOf
<1>5. PICK s, x : /\ items' = [items EXCEPT ![l] = s] /\ Nodes(s) = Nodes(items[l]) \ {x}
                  /\ x \in Nodes(items[l]) /\ allocated' = allocated \ {x}
  <2>1. Woven(items, il_head, il_tail, next, prev)
    BY DEF LinkedInv
  <2>2. CASE H!pop_back(l) /\ allocated' = allocated \ {il_tail[l]}
    <3>1. il_tail[l] # Null /\ items' = [items EXCEPT ![l] = SubSeq(items[l], 1, Len(items[l]) - 1)]
      BY <2>2 DEF H!pop_back
    <3>2. /\ Len(items[l]) > 0 /\ Len(items[l]) \in 1 .. Len(items[l])
          /\ il_tail[l] = items[l][Len(items[l])]
      BY <2>1, <3>1, WovenEnds
    <3>3. Nodes(SubSeq(items[l], 1, Len(items[l]) - 1)) = Nodes(items[l]) \ {il_tail[l]}
      BY <1>4, <3>2, WithoutLast, NodesWithout
    <3>4. il_tail[l] \in Nodes(items[l])
      BY <3>2 DEF Nodes
    <3>5. QED
      BY <2>2, <3>1, <3>3, <3>4
  <2>3. CASE H!pop_front(l) /\ allocated' = allocated \ {il_head[l]}
    <3>1. il_head[l] # Null /\ items' = [items EXCEPT ![l] = Tail(items[l])]
      BY <2>3 DEF H!pop_front
    <3>2. /\ Len(items[l]) > 0 /\ 1 \in 1 .. Len(items[l])
          /\ il_head[l] = items[l][1]
      BY <2>1, <3>1, WovenEnds
    <3>3. Nodes(Tail(items[l])) = Nodes(items[l]) \ {il_head[l]}
      BY <1>4, <3>2, WithoutFirst, NodesWithout
    <3>4. il_head[l] \in Nodes(items[l])
      BY <3>2 DEF Nodes
    <3>5. QED
      BY <2>3, <3>1, <3>3, <3>4
  <2>4. QED
    BY <1>2, <2>2, <2>3
<1>6. allocated \subseteq ListNode /\ \A y \in Nodes(items[l]) : y \in allocated
  BY <1>1, <1>4 DEF Owns
<1>7. \A y \in ListNode : y \in allocated' <=> (y \in allocated /\ y \notin Nodes(items[l])) \/ y \in Nodes(s)
  BY <1>5, <1>6
<1>8. Nodes(s) \subseteq ListNode /\ allocated' \subseteq ListNode
  BY <1>4, <1>5, <1>6
<1>9. Owns([items EXCEPT ![l] = s], allocated', exists)
  BY <1>1, <1>4, <1>7, <1>8, OwnsChanged
<1>10. QED
  BY <1>1, <1>3, <1>5, <1>9

\* What clear() leaves.
LEMMA OwnsCleared ==
    ASSUME LinkedInv, Owns(items, allocated, exists), NEW l \in exists,
           NEW b, b = allocated \ H!From(il_tail[l])
    PROVE  Owns([items EXCEPT ![l] = <<>>], b, exists)
<1>1. l \in List /\ allocated \subseteq ListNode
  BY DEF Owns
<1>2. /\ items \in [List -> Seq(ListNode)] /\ OnceEach(items)
      /\ Nodes(items[l]) \subseteq ListNode /\ Nodes(<<>>) = {}
  BY <1>1, NodesOf
<1>3. b = allocated \ Nodes(items[l])
  BY <1>1, FromIsNodes
<1>4. \A n \in ListNode : n \in b <=> (n \in allocated /\ n \notin Nodes(items[l])) \/ n \in Nodes(<<>>)
  BY <1>2, <1>3
<1>5. b \subseteq ListNode /\ Nodes(<<>>) \subseteq ListNode
  BY <1>1, <1>2, <1>3
<1>6. QED
  BY <1>2, <1>4, <1>5, OwnsChanged

LEMMA OwnsOthers ==
    ASSUME LinkedInv, Owns(items, allocated, exists), NEW l \in List,
           H!Construct(l) \/ H!Clear(l) \/ H!Destroy(l)
    PROVE  LinkedInv' /\ Owns(items, allocated, exists)'
<1>1. CASE H!Construct(l)
  <2>1. /\ l \notin exists /\ exists' = exists \cup {l} /\ allocated' = allocated
        /\ items' = items /\ il_head' = il_head /\ il_tail' = il_tail
        /\ next' = next /\ prev' = prev
    BY <1>1 DEF H!Construct, H!vars, H!links
  <2>2. Nodes(items[l]) = {}
    BY <2>1 DEF Owns
  <2>3. Owns(items, allocated, exists \cup {l})
    BY <2>2, OwnsEmpty
  <2>4. QED
    BY <2>1, <2>3 DEF LinkedInv
<1>2. CASE H!Clear(l)
  <2>1. l \in exists /\ H!clear(l) /\ allocated' = allocated \ H!From(il_tail[l]) /\ exists' = exists
    BY <1>2 DEF H!Clear, H!Delete
  <2>2. items' = [items EXCEPT ![l] = <<>>]
    BY <2>1 DEF H!clear
  <2>3. Owns([items EXCEPT ![l] = <<>>], allocated', exists)
    BY <2>1, OwnsCleared
  <2>4. QED
    BY <2>1, <2>2, <2>3, LinksCleared
<1>3. CASE H!Destroy(l)
  <2>1. l \in exists /\ H!clear(l) /\ allocated' = allocated \ H!From(il_tail[l]) /\ exists' = exists \ {l}
    BY <1>3 DEF H!Destroy, H!Delete
  <2>2. items' = [items EXCEPT ![l] = <<>>]
    BY <2>1 DEF H!clear
  <2>3. Owns([items EXCEPT ![l] = <<>>], allocated', exists)
    BY <2>1, OwnsCleared
  <2>4. items'[l] = <<>> /\ Nodes(<<>>) = {}
    BY <2>2, NodesOf
  <2>5. Owns(items', allocated', exists \ {l})
    BY <2>2, <2>3, <2>4, OwnsEmpty
  <2>6. QED
    BY <2>1, <2>5, LinksCleared
<1>4. QED
  BY <1>1, <1>2, <1>3

LEMMA OwnsTwo ==
    ASSUME LinkedInv, Owns(items, allocated, exists), NEW l \in List, NEW m \in List,
           H!MoveConstruct(l, m) \/ H!PushList(l, m) \/ H!Assign(l, m)
    PROVE  LinkedInv' /\ Owns(items, allocated, exists)'
<1>1. /\ items \in [List -> Seq(ListNode)] /\ items[l] \in Seq(ListNode)
      /\ items[m] \in Seq(ListNode) /\ Nodes(<<>>) = {}
  BY NodesOf
<1>2. CASE H!MoveConstruct(l, m)
  <2>1. /\ l \notin exists /\ m \in exists /\ H!MoveAssign(l, m)
        /\ exists' = exists \cup {l} /\ allocated' = allocated
    BY <1>2 DEF H!MoveConstruct
  <2>2. items' = [items EXCEPT ![l] = items[m], ![m] = <<>>]
    BY <2>1 DEF H!MoveAssign
  <2>3. Nodes(items[l]) = {}
    BY <2>1 DEF Owns
  <2>4. Owns(items, allocated, exists \cup {l}) /\ l \in exists \cup {l} /\ m \in exists \cup {l} /\ l # m
    BY <2>1, <2>3, OwnsEmpty
  <2>5. Nodes(items[m]) = Nodes(items[l]) \cup Nodes(items[m])
    BY <2>3
  <2>6. Owns([items EXCEPT ![l] = items[m], ![m] = <<>>], allocated, exists \cup {l})
    BY <1>1, <2>4, <2>5, OwnsMoved
  <2>7. QED
    BY <2>1, <2>2, <2>6, LinksMoved
<1>3. CASE H!PushList(l, m)
  <2>1. /\ l \in exists /\ m \in exists /\ H!push_back_list(l, m)
        /\ exists' = exists /\ allocated' = allocated
    BY <1>3 DEF H!PushList
  <2>2. l # m /\ items' = [items EXCEPT ![l] = items[l] \o items[m], ![m] = <<>>]
    BY <2>1 DEF H!push_back_list
  <2>3. Nodes(items[l] \o items[m]) = Nodes(items[l]) \cup Nodes(items[m])
    BY <1>1, JoinedSeqs, NodesJoined
  <2>4. Owns([items EXCEPT ![l] = items[l] \o items[m], ![m] = <<>>], allocated, exists)
    BY <1>1, <2>1, <2>2, <2>3, OwnsMoved
  <2>5. QED
    BY <2>1, <2>2, <2>4, LinksSpliced
<1>4. CASE H!Assign(l, m)
  <2>1. /\ l \in exists /\ m \in exists /\ exists' = exists
        /\ allocated' = allocated \ H!From(il_tail[l])
        /\ IF l = m THEN H!clear(l) ELSE H!MoveAssign(l, m)
    BY <1>4 DEF H!Assign, H!ClearAndMove, H!Delete
  <2>2. Owns([items EXCEPT ![l] = <<>>], allocated', exists)
    BY <2>1, OwnsCleared
  <2>3. CASE l = m
    <3>1. items' = [items EXCEPT ![l] = <<>>]
      BY <2>1, <2>3 DEF H!clear
    <3>2. QED
      BY <2>1, <2>2, <2>3, <3>1, LinksCleared
  <2>4. CASE l # m
    <3> DEFINE I == [items EXCEPT ![l] = <<>>]
    <3>1. items' = [items EXCEPT ![l] = items[m], ![m] = <<>>]
      BY <2>1, <2>4 DEF H!MoveAssign
    <3>2. I \in [List -> Seq(ListNode)] /\ I[l] = <<>> /\ I[m] = items[m]
      BY <1>1, <2>4
    <3>3. [I EXCEPT ![l] = items[m], ![m] = <<>>] = [items EXCEPT ![l] = items[m], ![m] = <<>>]
      BY <1>1, <2>4
    <3> HIDE DEF I
    <3>4. Nodes(items[m]) = Nodes(I[l]) \cup Nodes(I[m])
      BY <1>1, <3>2
    <3>5. Owns(I, allocated', exists)
      BY <2>2 DEF I
    <3>6. Owns([I EXCEPT ![l] = items[m], ![m] = <<>>], allocated', exists)
      BY <2>1, <2>4, <3>2, <3>4, <3>5, OwnsMoved
    <3>7. QED
      BY <2>1, <2>4, <3>1, <3>3, <3>6, LinksMoved
  <2>5. QED
    BY <2>3, <2>4
<1>5. QED
  BY <1>2, <1>3, <1>4

PointersInv == LinkedInv /\ OwnedInv

LEMMA PointersStart == ListsInit => PointersInv
<1> SUFFICES ASSUME ListsInit PROVE PointersInv
  OBVIOUS
<1>1. /\ il_head = [l \in List |-> Null] /\ il_tail = [l \in List |-> Null]
      /\ prev \in [ListNode -> H!Pointer] /\ next \in [ListNode -> H!Pointer]
      /\ items = [l \in List |-> <<>>]
      /\ allocated = {} /\ exists = {}
  BY DEF ListsInit, H!HeapInit, H!Init
<1>2. <<>> \in Seq(ListNode) /\ Len(<<>>) = 0 /\ Null \in H!Pointer
  BY DEF H!Pointer
<1>3. \A l \in List : Strung(items[l], il_head[l], il_tail[l], next, prev)
  BY <1>1, <1>2 DEF Strung
<1>4. OnceEach(items)
  BY <1>1, <1>2 DEF OnceEach
<1>5. /\ items \in [List -> Seq(ListNode)]
      /\ il_head \in [List -> H!Pointer] /\ il_tail \in [List -> H!Pointer]
  BY <1>1, <1>2
<1>6. LinkedInv
  BY <1>1, <1>3, <1>4, <1>5 DEF LinkedInv, Woven
<1>7. Owns(items, allocated, exists)
  BY <1>1, <1>2 DEF Owns, Nodes
<1>8. QED
  BY <1>1, <1>6, <1>7 DEF PointersInv, OwnedInv

LEMMA PointersStay ==
    ASSUME PointersInv, UNCHANGED <<program, linked>>
    PROVE  PointersInv'
BY DEF PointersInv, LinkedInv, OwnedInv, linked

LEMMA LinkedStep == ASSUME LinkedInv, H!Next PROVE LinkedInv'
<1>1. CASE \E l \in List, n \in ListNode : H!push_back(l, n) \/ H!push_front(l, n) \/ H!erase(l, n)
  BY <1>1, LinksBack, LinksFront, LinksErased
<1>2. CASE \E l \in List : H!pop_back(l) \/ H!pop_front(l) \/ H!clear(l)
  BY <1>2, LinksPoppedBack, LinksPoppedFront, LinksCleared
<1>3. CASE \E l, m \in List : H!push_back_list(l, m) \/ H!MoveAssign(l, m)
  BY <1>3, LinksSpliced, LinksMoved
<1>4. QED
  BY <1>1, <1>2, <1>3 DEF H!Next

LEMMA OwnedStep ==
    ASSUME LinkedInv, Owns(items, allocated, exists), H!HeapNext
    PROVE  LinkedInv' /\ Owns(items, allocated, exists)'
<1>1. CASE \E l \in List : H!Construct(l) \/ H!PushNew(l) \/ H!PopDelete(l) \/ H!Clear(l) \/ H!Destroy(l)
  BY <1>1, OwnsPushed, OwnsPopped, OwnsOthers
<1>2. CASE \E l, m \in List : H!MoveConstruct(l, m) \/ H!PushList(l, m) \/ H!Assign(l, m)
  BY <1>2, OwnsTwo
<1>3. QED
  BY <1>1, <1>2 DEF H!HeapNext

LEMMA PointersStep == PointersInv /\ [ListsNext]_listVars => PointersInv'
<1> SUFFICES ASSUME PointersInv, [ListsNext]_listVars PROVE PointersInv'
  OBVIOUS
<1>1. CASE IntrusiveListCall
  <2>1. /\ program = "intrusive_list" /\ H!Next
        /\ program' = program /\ allocated' = allocated /\ exists' = exists
    BY <1>1 DEF IntrusiveListCall
  <2>2. LinkedInv'
    BY <2>1, LinkedStep DEF PointersInv
  <2>3. QED
    BY <2>1, <2>2 DEF PointersInv, OwnedInv
<1>2. CASE HeapListCall
  <2>1. program = "list" /\ H!HeapNext /\ program' = program
    BY <1>2 DEF HeapListCall
  <2>2. LinkedInv' /\ Owns(items, allocated, exists)'
    BY <2>1, OwnedStep DEF PointersInv, OwnedInv
  <2>3. QED
    BY <2>1, <2>2 DEF PointersInv, OwnedInv, Owns
<1>3. CASE DuoCall
  BY <1>3, PointersStay DEF DuoCall
<1>4. CASE XorlistCall
  BY <1>4, PointersStay DEF XorlistCall
<1>5. CASE UNCHANGED listVars
  BY <1>5, PointersStay DEF listVars
<1>6. ASSUME NEW A, NEW B, NEW C, Calls(A, B, C) PROVE PointersInv'
  BY <1>6, PointersStay DEF Calls
<1>7. CASE \E x \in Item : PushBack(x) \/ PushFront(x) \/ WriteBack(x) \/ WriteFront(x)
  BY <1>7, PointersStay DEF PushBack, PushFront, WriteBack, WriteFront, Calls
<1>8. CASE EmplaceBack \/ EmplaceFront \/ PopBack \/ PopFront \/ Clear
  BY <1>8, PointersStay DEF EmplaceBack, EmplaceFront, PopBack, PopFront, Clear, Calls
<1>9. QED
  BY <1>1, <1>2, <1>3, <1>4, <1>5, <1>7, <1>8 DEF ListsNext

LEMMA PointersSound == PointersInv => LinkedNodesAreItems
<1> SUFFICES ASSUME PointersInv PROVE LinkedNodesAreItems
  OBVIOUS
<1>1. Woven(items, il_head, il_tail, next, prev) /\ LinkedInv /\ OwnedInv
  BY DEF PointersInv, LinkedInv
<1>2. H!TypeOK
  BY <1>1 DEF Woven, H!TypeOK
<1>3. H!HeapTypeOK
  BY <1>1, <1>2 DEF H!HeapTypeOK, OwnedInv
<1>4. H!LinksAreItems
  <2> SUFFICES ASSUME NEW l \in List
               PROVE  /\ il_head[l] = H!At(items[l], 1)
                      /\ il_tail[l] = H!At(items[l], Len(items[l]))
                      /\ \A i \in DOMAIN items[l] :
                            /\ next[items[l][i]] = H!At(items[l], i + 1)
                            /\ prev[items[l][i]] = H!At(items[l], i - 1)
    BY DEF H!LinksAreItems
  <2>1. /\ items[l] \in Seq(ListNode) /\ Strung(items[l], il_head[l], il_tail[l], next, prev)
    BY <1>1 DEF Woven
  <2>2. DOMAIN items[l] = 1 .. Len(items[l]) /\ Len(items[l]) \in Nat
    BY <2>1
  <2>3. \A i : H!At(items[l], i) = IF i \in 1 .. Len(items[l]) THEN items[l][i] ELSE Null
    BY <2>2 DEF H!At
  <2>4. /\ il_head[l] = IF Len(items[l]) = 0 THEN Null ELSE items[l][1]
        /\ il_tail[l] = IF Len(items[l]) = 0 THEN Null ELSE items[l][Len(items[l])]
        /\ \A i \in 1 .. Len(items[l]) :
              /\ next[items[l][i]] = IF i = Len(items[l]) THEN Null ELSE items[l][i + 1]
              /\ prev[items[l][i]] = IF i = 1 THEN Null ELSE items[l][i - 1]
    BY <2>1 DEF Strung
  <2>5. il_head[l] = H!At(items[l], 1) /\ il_tail[l] = H!At(items[l], Len(items[l]))
    BY <2>2, <2>3, <2>4
  <2>6. \A i \in 1 .. Len(items[l]) :
              /\ i + 1 \in 1 .. Len(items[l]) <=> i # Len(items[l])
              /\ i - 1 \in 1 .. Len(items[l]) <=> i # 1
    BY <2>2
  <2>7. \A i \in 1 .. Len(items[l]) :
              /\ next[items[l][i]] = H!At(items[l], i + 1)
              /\ prev[items[l][i]] = H!At(items[l], i - 1)
    BY <2>3, <2>4, <2>6
  <2>8. QED
    BY <2>2, <2>5, <2>7
<1>5. ASSUME program = "list" PROVE H!NodesAreOwned
  <2>1. Owns(items, allocated, exists) /\ exists \subseteq List
    BY <1>1, <1>5 DEF OwnedInv
  <2>2. /\ \A l \in List : items[l] \in Seq(ListNode)
        /\ \A l, m \in List : \A n \in Nodes(items[l]) : n \in Nodes(items[m]) => l = m
        /\ \A l \in List : Nodes(items[l]) \subseteq ListNode
    BY <1>1, NodesOf
  <2>3. \A l \in List : H!Range(items[l]) = Nodes(items[l])
    <3>1. \A l \in List : DOMAIN items[l] = 1 .. Len(items[l])
      BY <2>2
    <3>2. QED
      BY <3>1 DEF H!Range, Nodes
  <2>4. allocated = UNION {H!Range(items[l]) : l \in exists}
    <3>1. \A n : n \in UNION {H!Range(items[l]) : l \in exists} <=> \E l \in exists : n \in Nodes(items[l])
      BY <2>1, <2>3
    <3>2. \A n : n \in allocated <=> \E l \in exists : n \in Nodes(items[l])
      BY <2>1, <2>2 DEF Owns
    <3>3. QED
      BY <3>1, <3>2
  <2>5. \A l \in List \ exists : items[l] = <<>>
    <3> SUFFICES ASSUME NEW l \in List \ exists, items[l] # <<>> PROVE FALSE
      OBVIOUS
    <3>1. Len(items[l]) \in Nat \ {0}
      BY <2>2, EmptySeq
    <3>2. items[l][1] \in Nodes(items[l])
      BY <3>1 DEF Nodes
    <3>3. QED
      BY <2>1, <3>2 DEF Owns
  <2>6. \A l, m \in List : l # m => H!Range(items[l]) \cap H!Range(items[m]) = {}
    <3> SUFFICES ASSUME NEW l \in List, NEW m \in List, l # m,
                        NEW n \in H!Range(items[l]) \cap H!Range(items[m])
                 PROVE  FALSE
      OBVIOUS
    <3>1. H!Range(items[l]) = Nodes(items[l]) /\ H!Range(items[m]) = Nodes(items[m])
      BY <2>3
    <3>2. n \in Nodes(items[l]) /\ n \in Nodes(items[m])
      BY <3>1
    <3>3. QED
      BY <2>2, <3>2
  <2>7. QED
    BY <2>4, <2>5, <2>6 DEF H!NodesAreOwned
<1>6. QED
  BY <1>3, <1>4, <1>5 DEF LinkedNodesAreItems

\* For any lists and nodes, an intrusive_list's head, tail and every node's
\* next and prev pointers lead along the nodes pushed and not yet taken out or
\* erased, no node is ever in two lists, and a list<T> owns exactly the nodes
\* its lists hold (intrusive.h).
THEOREM LinksLeadAlongItems == ListsSpec => []LinkedNodesAreItems
<1>1. ListsSpec => []PointersInv
  BY PointersStart, PointersStep, PTL DEF ListsSpec
<1>2. QED
  BY <1>1, PointersSound, PTL

-----------------------------------------------------------------------------
(* duo::list: chunks that are read one after the other.                    *)

Chunk == {s \in Seq(Item) : Len(s) \in 1 .. ChunkSize}

\* f[i] are the items of the first i chunks.
IsFlat(c, n, f) ==
    f = [i \in 1 .. n |-> IF i = 1 THEN c[i] ELSE f[i - 1] \o c[i]]

LEMMA ChunkIs ==
    ASSUME NEW c \in Seq(Chunk)
    PROVE  /\ Len(c) \in Nat
           /\ DOMAIN c = 1 .. Len(c)
           /\ \A i \in 1 .. Len(c) : /\ c[i] \in Seq(Item)
                                     /\ Len(c[i]) \in 1 .. ChunkSize
<1>1. \A i \in 1 .. Len(c) : c[i] \in Chunk
  BY ElementOfSeq
<1>2. QED
  BY <1>1 DEF Chunk

LEMMA FlatExists ==
    ASSUME NEW c, NEW n \in Nat
    PROVE  \E f : IsFlat(c, n, f)
<1> DEFINE bad == {m \in Nat : ~\E f : IsFlat(c, m, f)}
<1>1. SUFFICES ASSUME bad # {} PROVE FALSE
  OBVIOUS
<1>2. PICK m \in bad : \A k \in bad : m <= k
  <2>1. bad \in SUBSET Nat
    OBVIOUS
  <2> HIDE DEF bad
  <2>2. QED
    BY <1>1, <2>1, LeastExists
<1>3. CASE m = 0
  <2>1. IsFlat(c, 0, [i \in 1 .. 0 |-> c])
    BY DEF IsFlat
  <2>2. QED
    BY <1>3, <2>1
<1>4. CASE m # 0
  <2>1. m \in Nat /\ m - 1 \in Nat /\ m - 1 \notin bad
    BY <1>2, <1>4
  <2>2. PICK g : IsFlat(c, m - 1, g)
    BY <2>1
  <2> DEFINE last == IF m = 1 THEN c[m] ELSE g[m - 1] \o c[m]
             h == [i \in 1 .. m |-> IF i = m THEN last ELSE g[i]]
  <2> HIDE DEF last
  <2>3. \A i \in 1 .. m - 1 : h[i] = g[i]
    BY <2>1
  <2>4. ASSUME NEW i \in 1 .. m
        PROVE  h[i] = IF i = 1 THEN c[i] ELSE h[i - 1] \o c[i]
    <3>1. CASE i = m
      <4>1. h[i] = last
        BY <3>1
      <4>2. m # 1 => h[i - 1] = g[m - 1]
        BY <2>1, <2>3, <3>1
      <4>3. QED
        BY <3>1, <4>1, <4>2 DEF last
    <3>2. CASE i # m
      <4>1. i \in 1 .. m - 1 /\ (i # 1 => i - 1 \in 1 .. m - 1)
        BY <2>1, <3>2
      <4>2. h[i] = g[i] /\ (i # 1 => h[i - 1] = g[i - 1])
        BY <2>3, <4>1
      <4>3. g[i] = IF i = 1 THEN c[i] ELSE g[i - 1] \o c[i]
        BY <2>2, <4>1 DEF IsFlat
      <4>4. QED
        BY <4>2, <4>3
    <3>3. QED
      BY <3>1, <3>2
  <2>5. h = [i \in 1 .. m |-> h[i]]
    OBVIOUS
  <2> HIDE DEF h
  <2>6. IsFlat(c, m, h)
    BY <2>4, <2>5 DEF IsFlat
  <2>7. QED
    BY <1>2, <2>6
<1>5. QED
  BY <1>3, <1>4

LEMMA FlatFollows ==
    ASSUME NEW c, NEW n \in Nat, NEW f, IsFlat(c, n, f), NEW i \in 1 .. n
    PROVE  f[i] = IF i = 1 THEN c[1] ELSE f[i - 1] \o c[i]
BY DEF IsFlat

Alike(c, d, k) == \A i \in 1 .. k : c[i] = d[i]

\* Chunks that begin alike read alike.
LEMMA FlatAgrees ==
    ASSUME NEW c, NEW d, NEW n \in Nat, NEW m \in Nat, NEW k \in Nat, NEW f, NEW g,
           IsFlat(c, n, f), IsFlat(d, m, g), k <= n, k <= m, Alike(c, d, k)
    PROVE  Alike(f, g, k)
<1> DEFINE bad == {i \in 1 .. k : f[i] # g[i]}
<1>1. SUFFICES ASSUME bad # {} PROVE FALSE
  BY DEF Alike
<1>2. PICK i \in bad : \A j \in bad : i <= j
  <2>1. bad \in SUBSET Nat
    OBVIOUS
  <2> HIDE DEF bad
  <2>2. QED
    BY <1>1, <2>1, LeastExists
<1>3. i \in 1 .. k /\ i \in 1 .. n /\ i \in 1 .. m /\ f[i] # g[i]
  BY <1>2
<1>4. i # 1 => f[i - 1] = g[i - 1]
  BY <1>2, <1>3
<1>5. c[i] = d[i]
  BY <1>3 DEF Alike
<1>6. /\ f[i] = IF i = 1 THEN c[1] ELSE f[i - 1] \o c[i]
      /\ g[i] = IF i = 1 THEN d[1] ELSE g[i - 1] \o d[i]
  BY <1>3, FlatFollows
<1>7. QED
  BY <1>3, <1>4, <1>5, <1>6

LEMMA FlatIs ==
    ASSUME NEW c \in Seq(Chunk), c # <<>>
    PROVE  \E f : IsFlat(c, Len(c), f) /\ D!FlattenSeq(c) = f[Len(c)]
<1>1. Len(c) \in Nat /\ Len(c) # 0
  BY EmptySeq
<1> DEFINE f == CHOOSE f : IsFlat(c, Len(c), f)
<1>2. IsFlat(c, Len(c), f)
  BY <1>1, FlatExists
<1>3. D!FlattenSeq(c) = f[Len(c)]
  BY <1>1 DEF D!FlattenSeq, IsFlat
<1>4. QED
  BY <1>2, <1>3

LEMMA FlatOfNone == D!FlattenSeq(<<>>) = <<>>
BY DEF D!FlattenSeq

LEMMA FlatOfOneMore ==
    ASSUME NEW c \in Seq(Chunk), NEW x \in Chunk
    PROVE  D!FlattenSeq(Append(c, x)) = IF c = <<>> THEN x ELSE D!FlattenSeq(c) \o x
<1> DEFINE d == Append(c, x)
           n == Len(c)
<1>1. /\ n \in Nat
      /\ d \in Seq(Chunk) /\ d # <<>> /\ Len(d) = n + 1
      /\ \A i \in 1 .. n : d[i] = c[i]
      /\ d[n + 1] = x
  BY AppendProperties
<1> HIDE DEF d
<1>2. PICK g : IsFlat(d, n + 1, g) /\ D!FlattenSeq(d) = g[n + 1]
  BY <1>1, FlatIs
<1>3. g[n + 1] = IF n = 0 THEN x ELSE g[n] \o x
  <2>1. n + 1 \in Nat /\ n + 1 \in 1 .. n + 1
    BY <1>1
  <2>2. g[n + 1] = IF n + 1 = 1 THEN d[1] ELSE g[n + 1 - 1] \o d[n + 1]
    BY <1>2, <2>1, FlatFollows
  <2>3. (n + 1 = 1 <=> n = 0) /\ n + 1 - 1 = n
    BY <1>1
  <2>4. QED
    BY <1>1, <2>2, <2>3
<1>4. CASE c = <<>>
  <2>1. n = 0
    BY <1>4
  <2>2. QED
    BY <1>2, <1>3, <1>4, <2>1 DEF d
<1>5. CASE c # <<>>
  <2>1. n # 0
    BY <1>5, EmptySeq
  <2>2. PICK f : IsFlat(c, n, f) /\ D!FlattenSeq(c) = f[n]
    BY <1>5, FlatIs
  <2>3. PICK m \in Nat : m = n + 1 /\ n <= m
    BY <1>1
  <2>4. IsFlat(d, m, g) /\ Alike(c, d, n)
    BY <1>1, <1>2, <2>3 DEF Alike
  <2>5. Alike(f, g, n)
    <3>1. n <= n
      BY <1>1
    <3> HIDE DEF n
    <3>2. QED
      BY <1>1, <2>2, <2>3, <2>4, <3>1, FlatAgrees
  <2>6. f[n] = g[n]
    BY <1>1, <2>1, <2>5 DEF Alike
  <2>7. QED
    BY <1>2, <1>3, <1>5, <2>1, <2>2, <2>6 DEF d
<1>6. QED
  BY <1>4, <1>5

LEMMA FlatIsSeq ==
    ASSUME NEW c \in Seq(Chunk)
    PROVE  D!FlattenSeq(c) \in Seq(Item)
<1> DEFINE Reads(d) == D!FlattenSeq(d) \in Seq(Item)
           bad == {k \in Nat : \E d \in Seq(Chunk) : Len(d) = k /\ ~Reads(d)}
<1>1. SUFFICES ASSUME ~Reads(c) PROVE FALSE
  OBVIOUS
<1> HIDE DEF Reads
<1>2. bad # {} /\ bad \in SUBSET Nat
  <2>1. Len(c) \in bad
    BY <1>1
  <2>2. QED
    BY <2>1
<1>3. PICK k \in bad : \A j \in bad : k <= j
  <2> HIDE DEF bad
  <2>1. QED
    BY <1>2, LeastExists
<1>4. PICK d \in Seq(Chunk) : Len(d) = k /\ ~Reads(d)
  BY <1>3
<1>5. d # <<>>
  <2>1. Reads(<<>>)
    BY FlatOfNone, EmptySeq DEF Reads
  <2>2. QED
    BY <1>4, <2>1
<1>6. PICK e \in Seq(Chunk), x \in Chunk : d = Append(e, x)
  BY <1>5, SequenceEmptyOrAppend
<1>7. Reads(e)
  <2>1. Len(e) \in Nat /\ k = Len(e) + 1
    BY <1>4, <1>6, AppendProperties
  <2>2. QED
    BY <1>3, <2>1
<1>8. x \in Seq(Item)
  BY DEF Chunk
<1>9. D!FlattenSeq(e) \in Seq(Item) => D!FlattenSeq(e) \o x \in Seq(Item)
  BY <1>8, ConcatProperties
<1>10. QED
  BY <1>4, <1>6, <1>7, <1>8, <1>9, FlatOfOneMore DEF Reads

LEMMA FlatOfAppend ==
    ASSUME NEW c \in Seq(Chunk), NEW x \in Chunk
    PROVE  D!FlattenSeq(Append(c, x)) = D!FlattenSeq(c) \o x
<1>1. x \in Seq(Item)
  BY DEF Chunk
<1>2. <<>> \o x = x
  BY <1>1, ConcatEmptySeq
<1>3. QED
  BY <1>2, FlatOfOneMore, FlatOfNone

\* Appending to the second of two sequences appends to both.
LEMMA ConcatAppend ==
    ASSUME NEW A, NEW s \in Seq(A), NEW t \in Seq(A), NEW x \in A
    PROVE  s \o Append(t, x) = Append(s \o t, x)
<1>1. <<x>> \in Seq(A) /\ s \o t \in Seq(A)
  BY ConcatProperties
<1>2. (s \o t) \o <<x>> = s \o (t \o <<x>>)
  BY <1>1, ConcatAssociative
<1>3. QED
  BY <1>1, <1>2, AppendIsConcat

LEMMA JoinedTwice ==
    ASSUME NEW s \in Seq(Item), NEW t \in Seq(Item), NEW u \in Seq(Item)
    PROVE  (s \o t) \o u = s \o (t \o u)
BY ConcatAssociative

LEMMA FlatOfBoth ==
    ASSUME NEW c \in Seq(Chunk), NEW u \in Seq(Chunk)
    PROVE  D!FlattenSeq(c \o u) = D!FlattenSeq(c) \o D!FlattenSeq(u)
<1> DEFINE Reads(d) == D!FlattenSeq(c \o d) = D!FlattenSeq(c) \o D!FlattenSeq(d)
           bad == {k \in Nat : \E d \in Seq(Chunk) : Len(d) = k /\ ~Reads(d)}
<1>1. SUFFICES ASSUME ~Reads(u) PROVE FALSE
  OBVIOUS
<1> HIDE DEF Reads
<1>2. bad # {} /\ bad \in SUBSET Nat
  <2>1. Len(u) \in bad
    BY <1>1
  <2>2. QED
    BY <2>1
<1>3. PICK k \in bad : \A j \in bad : k <= j
  <2> HIDE DEF bad
  <2>1. QED
    BY <1>2, LeastExists
<1>4. PICK d \in Seq(Chunk) : Len(d) = k /\ ~Reads(d)
  BY <1>3
<1>5. D!FlattenSeq(c) \in Seq(Item)
  BY FlatIsSeq
<1>6. d # <<>>
  <2>1. c \o <<>> = c /\ D!FlattenSeq(c) \o <<>> = D!FlattenSeq(c)
    BY <1>5, ConcatEmptySeq
  <2>2. Reads(<<>>)
    BY <2>1, FlatOfNone DEF Reads
  <2>3. QED
    BY <1>4, <2>2
<1>7. PICK e \in Seq(Chunk), x \in Chunk : d = Append(e, x)
  BY <1>6, SequenceEmptyOrAppend
<1>8. Reads(e)
  <2>1. Len(e) \in Nat /\ k = Len(e) + 1
    BY <1>4, <1>7, AppendProperties
  <2>2. QED
    BY <1>3, <2>1
<1>9. x \in Seq(Item) /\ D!FlattenSeq(e) \in Seq(Item) /\ c \o e \in Seq(Chunk)
  BY FlatIsSeq, ConcatProperties DEF Chunk
<1>10. D!FlattenSeq(c \o d) = D!FlattenSeq(c \o e) \o x
  <2>1. c \o d = Append(c \o e, x)
    BY <1>7, ConcatAppend
  <2>2. QED
    BY <1>9, <2>1, FlatOfAppend
<1>11. D!FlattenSeq(d) = D!FlattenSeq(e) \o x
  BY <1>7, FlatOfAppend
<1>12. (D!FlattenSeq(c) \o D!FlattenSeq(e)) \o x = D!FlattenSeq(c) \o (D!FlattenSeq(e) \o x)
  <2>1. PICK s, t : s = D!FlattenSeq(c) /\ t = D!FlattenSeq(e)
    OBVIOUS
  <2>2. s \in Seq(Item) /\ t \in Seq(Item) /\ x \in Seq(Item)
    BY <1>5, <1>9, <2>1
  <2>3. (s \o t) \o x = s \o (t \o x)
    BY <2>2, JoinedTwice
  <2>4. QED
    BY <2>1, <2>3
<1>13. QED
  BY <1>4, <1>8, <1>10, <1>11, <1>12 DEF Reads

LEMMA FlatOfOne ==
    ASSUME NEW x \in Chunk
    PROVE  D!FlattenSeq(<<x>>) = x
<1>1. <<>> \in Seq(Chunk) /\ Append(<<>>, x) = <<x>>
  BY EmptySeq
<1>2. QED
  BY <1>1, FlatOfOneMore

\* What is read before the last chunk and after the first.
LEMMA FlatOfLast ==
    ASSUME NEW c \in Seq(Chunk), c # <<>>
    PROVE  \E e \in Seq(Chunk), x \in Chunk :
              /\ c = Append(e, x)
              /\ D!LastOf(c) = x
              /\ D!Front(c) = e
              /\ \A y \in Chunk : [c EXCEPT ![Len(c)] = y] = Append(e, y)
              /\ D!FlattenSeq(c) = D!FlattenSeq(e) \o x
<1>1. PICK e \in Seq(Chunk), x \in Chunk : c = Append(e, x)
  BY SequenceEmptyOrAppend
<1>2. Len(e) \in Nat /\ Len(c) = Len(e) + 1 /\ c[Len(c)] = x
  BY <1>1, AppendProperties
<1>3. D!Front(c) = e
  <2>1. Len(c) - 1 = Len(e) /\ 1 \in Int /\ Len(e) \in Int
    BY <1>2
  <2>2. \A i \in 1 .. Len(e) : c[i] = e[i]
    BY <1>1, AppendProperties
  <2>3. \A i \in 1 .. Len(e) : e[i] \in Chunk
    BY ElementOfSeq
  <2> DEFINE d == SubSeq(c, 1, Len(e))
  <2>4. d \in Seq(Chunk) /\ Len(d) = IF 1 <= Len(e) THEN Len(e) - 1 + 1 ELSE 0
    BY <2>1, <2>2, <2>3, SubSeqProperties
  <2>5. \A i \in 1 .. Len(e) - 1 + 1 : d[i] = c[1 + i - 1]
    BY <2>1, <2>2, <2>3, SubSeqProperties
  <2> HIDE DEF d
  <2>6. Len(d) = Len(e)
    BY <1>2, <2>4
  <2>7. \A i \in 1 .. Len(e) : d[i] = e[i]
    BY <1>2, <2>2, <2>5
  <2>8. d = e
    BY <2>4, <2>6, <2>7, SeqEqual
  <2>9. QED
    BY <2>1, <2>8 DEF d, D!Front
<1>4. ASSUME NEW y \in Chunk PROVE [c EXCEPT ![Len(c)] = y] = Append(e, y)
  <2> DEFINE d == [c EXCEPT ![Len(c)] = y]
             g == Append(e, y)
  <2>1. Len(c) \in 1 .. Len(c)
    BY <1>2
  <2>2. /\ d \in Seq(Chunk) /\ Len(d) = Len(c)
        /\ \A i \in 1 .. Len(c) : d[i] = IF i = Len(c) THEN y ELSE c[i]
    BY <2>1, ExceptSeq
  <2>3. /\ g \in Seq(Chunk) /\ Len(g) = Len(e) + 1
        /\ \A i \in 1 .. Len(e) : g[i] = e[i]
        /\ g[Len(e) + 1] = y
    BY AppendProperties
  <2>4. \A i \in 1 .. Len(e) : c[i] = e[i]
    BY <1>1, AppendProperties
  <2> HIDE DEF d, g
  <2>5. \A i \in 1 .. Len(c) : d[i] = g[i]
    BY <1>2, <2>2, <2>3, <2>4
  <2>6. d = g
    BY <1>2, <2>2, <2>3, <2>5, SeqEqual
  <2>7. QED
    BY <2>6 DEF d, g
<1>5. QED
  BY <1>1, <1>2, <1>3, <1>4, FlatOfAppend DEF D!LastOf

BeginsWith(c, x, e) ==
    /\ c = <<x>> \o e
    /\ D!FirstOf(c) = x
    /\ Tail(c) = e
    /\ \A y \in Chunk : [c EXCEPT ![1] = y] = <<y>> \o e
    /\ D!FlattenSeq(c) = x \o D!FlattenSeq(e)

LEMMA FlatOfFirst ==
    ASSUME NEW c \in Seq(Chunk), c # <<>>
    PROVE  \E e \in Seq(Chunk), x \in Chunk : BeginsWith(c, x, e)
<1> DEFINE x == c[1]
           e == Tail(c)
<1>1. /\ e \in Seq(Chunk) /\ Len(e) = Len(c) - 1
      /\ \A i \in 1 .. Len(e) : e[i] = c[i + 1]
  BY HeadTailProperties
<1>2. Len(c) \in Nat \ {0}
  BY EmptySeq
<1>3. x \in Chunk
  BY <1>2, ElementOfSeq
<1> HIDE DEF e, x
<1>4. c = <<x>> \o e
  <2>1. c[1] = x
    BY DEF x
  <2>2. QED
    BY <1>1, <1>2, <2>1, <1>3
<1>5. ASSUME NEW y \in Chunk PROVE [c EXCEPT ![1] = y] = <<y>> \o e
  BY <1>1, <1>2
<1>6. D!FlattenSeq(c) = x \o D!FlattenSeq(e)
  <2>1. <<x>> \in Seq(Chunk)
    BY <1>3
  <2>2. QED
    BY <1>1, <1>3, <1>4, <2>1, FlatOfOne, FlatOfBoth
<1>7. D!FirstOf(c) = x /\ Tail(c) = e
  BY DEF x, e, D!FirstOf
<1>8. QED
  BY <1>1, <1>3, <1>4, <1>5, <1>6, <1>7 DEF BeginsWith

\* The ends of a sequence that ends, or begins, with t.
LEMMA EndOfBoth ==
    ASSUME NEW s \in Seq(Item), NEW t \in Seq(Item), t # <<>>
    PROVE  /\ D!LastOf(s \o t) = D!LastOf(t) /\ D!LastOf(t) \in Item
           /\ D!Front(t) \in Seq(Item) /\ Len(D!Front(t)) = Len(t) - 1
           /\ D!Front(s \o t) = s \o D!Front(t)
<1>1. PICK e \in Seq(Item), x \in Item : t = Append(e, x)
  BY SequenceEmptyOrAppend
<1>2. s \o t = Append(s \o e, x) /\ s \o e \in Seq(Item)
  BY <1>1, ConcatAppend, ConcatProperties
<1>3. ASSUME NEW u \in Seq(Item), NEW y \in Item
      PROVE  /\ D!LastOf(Append(u, y)) = y
             /\ D!Front(Append(u, y)) = u
             /\ Len(Append(u, y)) = Len(u) + 1
  <2> DEFINE c == Append(u, y)
             d == SubSeq(c, 1, Len(c) - 1)
  <2>1. /\ Len(c) = Len(u) + 1 /\ Len(u) \in Nat
        /\ c[Len(u) + 1] = y
        /\ \A i \in 1 .. Len(u) : c[i] = u[i]
    BY AppendProperties
  <2>2. \A i \in 1 .. Len(c) - 1 : c[i] \in Item
    BY <2>1, ElementOfSeq
  <2>3. 1 \in Int /\ Len(c) - 1 \in Int
    BY <2>1
  <2> HIDE DEF c
  <2>4. /\ d \in Seq(Item) /\ Len(d) = IF 1 <= Len(c) - 1 THEN Len(c) - 1 - 1 + 1 ELSE 0
        /\ \A i \in 1 .. Len(c) - 1 - 1 + 1 : d[i] = c[1 + i - 1]
    BY <2>2, <2>3, SubSeqProperties
  <2> HIDE DEF d
  <2>5. Len(d) = Len(u) /\ \A i \in 1 .. Len(u) : d[i] = u[i]
    BY <2>1, <2>4
  <2>6. d = u
    BY <2>4, <2>5, SeqEqual
  <2>7. QED
    BY <2>1, <2>6 DEF c, d, D!LastOf, D!Front
<1>4. D!LastOf(t) = x /\ D!Front(t) = e /\ Len(t) = Len(e) + 1 /\ Len(e) \in Nat
  BY <1>1, <1>3
<1>5. D!LastOf(s \o t) = x /\ D!Front(s \o t) = s \o e
  BY <1>2, <1>3
<1>6. QED
  BY <1>4, <1>5

LEMMA StartOfBoth ==
    ASSUME NEW s \in Seq(Item), NEW t \in Seq(Item), t # <<>>
    PROVE  /\ D!FirstOf(t \o s) = D!FirstOf(t) /\ D!FirstOf(t) \in Item
           /\ Tail(t) \in Seq(Item) /\ Len(Tail(t)) = Len(t) - 1
           /\ Tail(t \o s) = Tail(t) \o s
<1>1. Len(t) \in Nat \ {0} /\ Len(s) \in Nat
  BY EmptySeq
<1>2. /\ t \o s \in Seq(Item) /\ Len(t \o s) = Len(t) + Len(s)
      /\ \A i \in 1 .. Len(t) + Len(s) : (t \o s)[i] = IF i <= Len(t) THEN t[i] ELSE s[i - Len(t)]
  BY ConcatProperties
<1>3. /\ Tail(t) \in Seq(Item) /\ Len(Tail(t)) = Len(t) - 1
      /\ \A i \in 1 .. Len(Tail(t)) : Tail(t)[i] = t[i + 1]
  BY HeadTailProperties
<1>4. t[1] \in Item
  BY <1>1, ElementOfSeq
<1> DEFINE a == t \o s
           b == Tail(t)
           c == Tail(a)
           d == b \o s
<1>5. a # <<>>
  BY <1>1, <1>2
<1>6. /\ c \in Seq(Item) /\ Len(c) = Len(a) - 1
      /\ \A i \in 1 .. Len(c) : c[i] = a[i + 1]
  BY <1>2, <1>5, HeadTailProperties
<1>7. /\ d \in Seq(Item) /\ Len(d) = Len(b) + Len(s)
      /\ \A i \in 1 .. Len(b) + Len(s) : d[i] = IF i <= Len(b) THEN b[i] ELSE s[i - Len(b)]
  BY <1>3, ConcatProperties
<1> HIDE DEF a, b, c, d
<1>8. /\ Len(a) = Len(t) + Len(s)
      /\ \A i \in 1 .. Len(t) + Len(s) : a[i] = IF i <= Len(t) THEN t[i] ELSE s[i - Len(t)]
  BY <1>2 DEF a
<1>9. Len(b) = Len(t) - 1 /\ \A i \in 1 .. Len(b) : b[i] = t[i + 1]
  BY <1>3 DEF b
<1>10. Len(c) = Len(d) /\ Len(c) \in Nat
  BY <1>1, <1>6, <1>7, <1>8, <1>9
<1>11. \A i \in 1 .. Len(c) : c[i] = d[i]
  <2> SUFFICES ASSUME NEW i \in 1 .. Len(c) PROVE c[i] = d[i]
    OBVIOUS
  <2>1. c[i] = a[i + 1] /\ i + 1 \in 1 .. Len(t) + Len(s) /\ i \in 1 .. Len(b) + Len(s)
    BY <1>1, <1>6, <1>8, <1>9, <1>10, <1>7
  <2>2. c[i] = IF i + 1 <= Len(t) THEN t[i + 1] ELSE s[i + 1 - Len(t)]
    BY <1>8, <2>1
  <2>3. d[i] = IF i <= Len(b) THEN b[i] ELSE s[i - Len(b)]
    BY <1>7, <2>1
  <2>4. (i + 1 <= Len(t) <=> i <= Len(b)) /\ i + 1 - Len(t) = i - Len(b)
    BY <1>1, <1>9
  <2>5. i <= Len(b) => b[i] = t[i + 1]
    BY <1>9
  <2>6. QED
    BY <2>2, <2>3, <2>4, <2>5
<1>12. c = d
  BY <1>6, <1>7, <1>10, <1>11, SeqEqual
<1>13. D!FirstOf(a) = D!FirstOf(t)
  BY <1>1, <1>8 DEF D!FirstOf
<1>14. QED
  BY <1>3, <1>4, <1>12, <1>13 DEF a, b, c, d, D!FirstOf

\* The chunks c are of the items s.
ChunksOf(c, s) == c \in Seq(Chunk) /\ s = D!FlattenSeq(c)

LEMMA AddedBackHolds ==
    ASSUME NEW c, NEW s, NEW x \in Item, ChunksOf(c, s)
    PROVE  ChunksOf(D!AddedBack(c, x), Append(s, x))
<1>1. c \in Seq(Chunk) /\ s = D!FlattenSeq(c) /\ s \in Seq(Item)
  BY FlatIsSeq DEF ChunksOf
<1>2. CASE c # <<>> /\ Len(D!LastOf(c)) < ChunkSize
  <2>1. PICK e \in Seq(Chunk), y \in Chunk :
              /\ c = Append(e, y)
              /\ D!LastOf(c) = y
              /\ \A z \in Chunk : [c EXCEPT ![Len(c)] = z] = Append(e, z)
              /\ s = D!FlattenSeq(e) \o y
    BY <1>1, <1>2, FlatOfLast
  <2> DEFINE z == Append(y, x)
  <2>2. y \in Seq(Item) /\ Len(y) \in Nat /\ D!FlattenSeq(e) \in Seq(Item)
    BY FlatIsSeq DEF Chunk
  <2>3. z \in Chunk
    <3>1. z \in Seq(Item) /\ Len(z) = Len(y) + 1
      BY <2>2, AppendProperties
    <3>2. Len(y) < ChunkSize
      BY <1>2, <2>1
    <3>3. QED
      BY <2>2, <3>1, <3>2, ChunkSizeAssumption DEF Chunk
  <2>4. D!AddedBack(c, x) = Append(e, z)
    <3>1. D!AddedBack(c, x) = [c EXCEPT ![Len(c)] = Append(c[Len(c)], x)]
      BY <1>2 DEF D!AddedBack
    <3>2. c[Len(c)] = y
      BY <2>1 DEF D!LastOf
    <3>3. [c EXCEPT ![Len(c)] = z] = Append(e, z)
      BY <2>1, <2>3
    <3>4. QED
      BY <3>1, <3>2, <3>3
  <2>5. D!FlattenSeq(Append(e, z)) = D!FlattenSeq(e) \o z
    BY <2>3, FlatOfAppend
  <2>6. D!FlattenSeq(e) \o z = Append(s, x)
    BY <2>1, <2>2, ConcatAppend
  <2>7. Append(e, z) \in Seq(Chunk)
    BY <2>3, AppendProperties
  <2>8. QED
    BY <2>4, <2>5, <2>6, <2>7 DEF ChunksOf
<1>3. CASE ~(c # <<>> /\ Len(D!LastOf(c)) < ChunkSize)
  <2>1. D!AddedBack(c, x) = Append(c, <<x>>)
    BY <1>3 DEF D!AddedBack
  <2>2. <<x>> \in Chunk
    BY ChunkSizeAssumption DEF Chunk
  <2>3. D!FlattenSeq(Append(c, <<x>>)) = s \o <<x>>
    BY <1>1, <2>2, FlatOfAppend
  <2>4. s \o <<x>> = Append(s, x)
    BY <1>1, AppendIsConcat
  <2>5. Append(c, <<x>>) \in Seq(Chunk)
    BY <1>1, <2>2, AppendProperties
  <2>6. QED
    BY <2>1, <2>3, <2>4, <2>5 DEF ChunksOf
<1>4. QED
  BY <1>2, <1>3

LEMMA AddedFrontHolds ==
    ASSUME NEW c, NEW s, NEW x \in Item, ChunksOf(c, s)
    PROVE  ChunksOf(D!AddedFront(c, x), <<x>> \o s)
<1>1. c \in Seq(Chunk) /\ s = D!FlattenSeq(c) /\ s \in Seq(Item)
  BY FlatIsSeq DEF ChunksOf
<1>2. <<x>> \in Seq(Item)
  OBVIOUS
<1>3. CASE c # <<>> /\ Len(D!FirstOf(c)) < ChunkSize
  <2>1. PICK e \in Seq(Chunk), y \in Chunk : BeginsWith(c, y, e)
    BY <1>1, <1>3, FlatOfFirst
  <2>2. /\ c = <<y>> \o e
         /\ D!FirstOf(c) = y
         /\ Tail(c) = e
         /\ \A z \in Chunk : [c EXCEPT ![1] = z] = <<z>> \o e
         /\ s = y \o D!FlattenSeq(e)
    BY <1>1, <2>1 DEF BeginsWith
  <2> DEFINE z == <<x>> \o y
  <2>3. y \in Seq(Item) /\ Len(y) \in Nat /\ D!FlattenSeq(e) \in Seq(Item)
    BY FlatIsSeq DEF Chunk
  <2>4. z \in Chunk
    <3>1. z \in Seq(Item) /\ Len(z) = 1 + Len(y)
      BY <1>2, <2>3, ConcatProperties
    <3>2. Len(y) < ChunkSize
      BY <1>3, <2>2
    <3>3. QED
      BY <2>3, <3>1, <3>2, ChunkSizeAssumption DEF Chunk
  <2>5. D!AddedFront(c, x) = <<z>> \o e
    <3>1. D!AddedFront(c, x) = [c EXCEPT ![1] = <<x>> \o c[1]]
      BY <1>3 DEF D!AddedFront
    <3>2. c[1] = y
      BY <2>2 DEF D!FirstOf
    <3>3. [c EXCEPT ![1] = z] = <<z>> \o e
      BY <2>2, <2>4
    <3>4. QED
      BY <3>1, <3>2, <3>3
  <2>6. <<z>> \in Seq(Chunk) /\ <<z>> \o e \in Seq(Chunk)
    <3>1. <<z>> \in Seq(Chunk)
      BY <2>4
    <3>2. QED
      BY <3>1, ConcatProperties
  <2>7. D!FlattenSeq(<<z>> \o e) = z \o D!FlattenSeq(e)
    BY <2>4, <2>6, FlatOfBoth, FlatOfOne
  <2>8. z \o D!FlattenSeq(e) = <<x>> \o s
    <3>1. PICK t : t = D!FlattenSeq(e)
      OBVIOUS
    <3>2. t \in Seq(Item) /\ s = y \o t
      BY <2>2, <2>3, <3>1
    <3>3. (<<x>> \o y) \o t = <<x>> \o (y \o t)
      BY ONLY <1>2, <2>3, <3>2, JoinedTwice
    <3>4. QED
      BY <3>1, <3>2, <3>3
  <2>9. QED
    BY <2>5, <2>6, <2>7, <2>8 DEF ChunksOf
<1>4. CASE ~(c # <<>> /\ Len(D!FirstOf(c)) < ChunkSize)
  <2>1. D!AddedFront(c, x) = <<<<x>>>> \o c
    BY <1>4 DEF D!AddedFront
  <2>2. <<x>> \in Chunk
    BY ChunkSizeAssumption DEF Chunk
  <2>3. <<<<x>>>> \in Seq(Chunk)
    BY <2>2
  <2>4. D!FlattenSeq(<<<<x>>>> \o c) = <<x>> \o s
    BY <1>1, <2>2, <2>3, FlatOfBoth, FlatOfOne
  <2>5. <<<<x>>>> \o c \in Seq(Chunk)
    BY <1>1, <2>3, ConcatProperties
  <2>6. QED
    BY <2>1, <2>4, <2>5 DEF ChunksOf
<1>5. QED
  BY <1>3, <1>4

LEMMA LessBackHolds ==
    ASSUME NEW c, NEW s, c # <<>>, ChunksOf(c, s)
    PROVE  /\ ChunksOf(D!LessBack(c), D!Front(s))
           /\ D!LastOf(D!LastOf(c)) = D!LastOf(s)
           /\ D!LastOf(s) \in Item
<1>1. c \in Seq(Chunk) /\ s = D!FlattenSeq(c)
  BY DEF ChunksOf
<1>2. PICK e \in Seq(Chunk), y \in Chunk :
              /\ c = Append(e, y)
              /\ D!LastOf(c) = y
              /\ D!Front(c) = e
              /\ \A z \in Chunk : [c EXCEPT ![Len(c)] = z] = Append(e, z)
              /\ s = D!FlattenSeq(e) \o y
  BY <1>1, FlatOfLast
<1>3. y \in Seq(Item) /\ Len(y) \in 1 .. ChunkSize /\ D!FlattenSeq(e) \in Seq(Item)
  BY FlatIsSeq DEF Chunk
<1>4. y # <<>>
  BY <1>3, ChunkSizeAssumption
<1>5. /\ D!LastOf(s) = D!LastOf(y) /\ D!LastOf(y) \in Item
      /\ D!Front(y) \in Seq(Item) /\ Len(D!Front(y)) = Len(y) - 1
      /\ D!Front(s) = D!FlattenSeq(e) \o D!Front(y)
  BY <1>2, <1>3, <1>4, EndOfBoth
<1>6. CASE Len(y) = 1
  <2>1. D!LessBack(c) = e
    BY <1>2, <1>6 DEF D!LessBack
  <2>2. D!Front(y) = <<>>
    BY <1>5, <1>6
  <2>3. D!Front(s) = D!FlattenSeq(e)
    BY <1>3, <1>5, <2>2, ConcatEmptySeq
  <2>4. QED
    BY <1>2, <1>5, <2>1, <2>3 DEF ChunksOf
<1>7. CASE Len(y) # 1
  <2> DEFINE z == D!Front(y)
  <2>1. z \in Chunk
    BY <1>3, <1>5, <1>7, ChunkSizeAssumption DEF Chunk
  <2>2. D!LessBack(c) = Append(e, z)
    <3>1. D!LessBack(c) = [c EXCEPT ![Len(c)] = D!Front(c[Len(c)])]
      BY <1>2, <1>7 DEF D!LessBack
    <3>2. c[Len(c)] = y
      BY <1>2 DEF D!LastOf
    <3>3. [c EXCEPT ![Len(c)] = z] = Append(e, z)
      BY <1>2, <2>1
    <3>4. QED
      BY <3>1, <3>2, <3>3
  <2> HIDE DEF z
  <2>3. Append(e, z) \in Seq(Chunk) /\ D!FlattenSeq(Append(e, z)) = D!FlattenSeq(e) \o z
    BY <2>1, AppendProperties, FlatOfAppend
  <2>4. D!Front(s) = D!FlattenSeq(e) \o z
    BY <1>5 DEF z
  <2>5. QED
    BY <1>2, <1>5, <2>2, <2>3, <2>4 DEF ChunksOf
<1>8. QED
  BY <1>6, <1>7

LEMMA LessFrontHolds ==
    ASSUME NEW c, NEW s, c # <<>>, ChunksOf(c, s)
    PROVE  /\ ChunksOf(D!LessFront(c), Tail(s))
           /\ D!FirstOf(D!FirstOf(c)) = D!FirstOf(s)
           /\ D!FirstOf(s) \in Item
<1>1. c \in Seq(Chunk) /\ s = D!FlattenSeq(c)
  BY DEF ChunksOf
<1>2. PICK e \in Seq(Chunk), y \in Chunk : BeginsWith(c, y, e)
  BY <1>1, FlatOfFirst
<1>3. /\ c = <<y>> \o e
       /\ D!FirstOf(c) = y
       /\ Tail(c) = e
       /\ \A z \in Chunk : [c EXCEPT ![1] = z] = <<z>> \o e
       /\ s = y \o D!FlattenSeq(e)
  BY <1>1, <1>2 DEF BeginsWith
<1>4. y \in Seq(Item) /\ Len(y) \in 1 .. ChunkSize /\ D!FlattenSeq(e) \in Seq(Item)
  BY FlatIsSeq DEF Chunk
<1>5. y # <<>>
  BY <1>4, ChunkSizeAssumption
<1>6. /\ D!FirstOf(s) = D!FirstOf(y) /\ D!FirstOf(y) \in Item
      /\ Tail(y) \in Seq(Item) /\ Len(Tail(y)) = Len(y) - 1
      /\ Tail(s) = Tail(y) \o D!FlattenSeq(e)
  <2>1. PICK t : t = D!FlattenSeq(e)
    OBVIOUS
  <2>2. t \in Seq(Item) /\ s = y \o t
    BY <1>3, <1>4, <2>1
  <2>3. /\ D!FirstOf(y \o t) = D!FirstOf(y) /\ D!FirstOf(y) \in Item
        /\ Tail(y) \in Seq(Item) /\ Len(Tail(y)) = Len(y) - 1
        /\ Tail(y \o t) = Tail(y) \o t
    BY <1>4, <1>5, <2>2, StartOfBoth
  <2>4. QED
    BY <2>1, <2>2, <2>3
<1>7. CASE Len(y) = 1
  <2>1. D!LessFront(c) = e
    BY <1>3, <1>7 DEF D!LessFront
  <2>2. Tail(y) = <<>>
    <3>1. PICK t : t = Tail(y)
      OBVIOUS
    <3>2. t \in Seq(Item) /\ Len(t) = 0
      BY <1>6, <1>7, <3>1
    <3>3. QED
      BY <3>1, <3>2, EmptySeq
  <2>3. Tail(s) = D!FlattenSeq(e)
    BY <1>4, <1>6, <2>2, ConcatEmptySeq
  <2>4. QED
    BY <1>3, <1>6, <2>1, <2>3 DEF ChunksOf
<1>8. CASE Len(y) # 1
  <2> DEFINE z == Tail(y)
  <2>1. z \in Chunk
    BY <1>4, <1>6, <1>8, ChunkSizeAssumption DEF Chunk
  <2>2. D!LessFront(c) = <<z>> \o e
    <3>1. D!LessFront(c) = [c EXCEPT ![1] = Tail(c[1])]
      BY <1>3, <1>8 DEF D!LessFront
    <3>2. c[1] = y
      BY <1>3 DEF D!FirstOf
    <3>3. [c EXCEPT ![1] = z] = <<z>> \o e
      BY <1>3, <2>1
    <3>4. QED
      BY <3>1, <3>2, <3>3
  <2> HIDE DEF z
  <2>3. <<z>> \in Seq(Chunk)
    BY <2>1
  <2>4. <<z>> \o e \in Seq(Chunk) /\ D!FlattenSeq(<<z>> \o e) = z \o D!FlattenSeq(e)
    BY <2>1, <2>3, ConcatProperties, FlatOfBoth, FlatOfOne
  <2>5. Tail(s) = z \o D!FlattenSeq(e)
    BY <1>6 DEF z
  <2>6. QED
    BY <1>3, <1>6, <2>2, <2>4, <2>5 DEF ChunksOf
<1>9. QED
  BY <1>7, <1>8

LEMMA BothHold ==
    ASSUME NEW c, NEW s, NEW d, NEW t, ChunksOf(c, s), ChunksOf(d, t)
    PROVE  ChunksOf(c \o d, s \o t)
BY FlatOfBoth, ConcatProperties DEF ChunksOf

LEMMA NoneHold == ChunksOf(<<>>, <<>>)
BY FlatOfNone, EmptySeq DEF ChunksOf

DuoInv ==
    /\ DOMAIN chunks = List /\ DOMAIN duo_contents = List
    /\ \A l \in List : ChunksOf(chunks[l], duo_contents[l])
    /\ chunks = [l \in List |-> chunks[l]]
    /\ duo_contents = [l \in List |-> duo_contents[l]]
    /\ duo_ret = duo_due /\ duo_due \in Item \cup {None}

LEMMA DuoStarts == D!Init => DuoInv
BY NoneHold DEF D!Init, DuoInv

LEMMA DuoStays == DuoInv /\ UNCHANGED duo => DuoInv'
BY DEF DuoInv, duo, ChunksOf

LEMMA DuoSteps == DuoInv /\ DuoCall => DuoInv'
<1> SUFFICES ASSUME DuoInv, DuoCall PROVE DuoInv'
  OBVIOUS
<1>1. /\ DOMAIN chunks = List /\ DOMAIN duo_contents = List
      /\ \A l \in List : ChunksOf(chunks[l], duo_contents[l])
      /\ chunks = [l \in List |-> chunks[l]]
      /\ duo_contents = [l \in List |-> duo_contents[l]]
      /\ duo_ret = duo_due /\ duo_due \in Item \cup {None}
  BY DEF DuoInv
<1>2. ASSUME NEW l \in List, NEW c, NEW s, ChunksOf(c, s),
             chunks' = [chunks EXCEPT ![l] = c],
             duo_contents' = [duo_contents EXCEPT ![l] = s],
             duo_ret' = duo_due', duo_due' \in Item \cup {None}
      PROVE  DuoInv'
  <2>1. \A m \in List : ChunksOf(chunks'[m], duo_contents'[m])
    BY <1>1, <1>2
  <2>2. QED
    BY <1>1, <1>2, <2>1 DEF DuoInv, ChunksOf
<1>3. ASSUME NEW l \in List, NEW x \in Item, D!push_back(l, x) PROVE DuoInv'
  <2>1. ChunksOf(D!AddedBack(chunks[l], x), Append(duo_contents[l], x))
    BY <1>1, AddedBackHolds
  <2>2. QED
    BY <1>2, <1>3, <2>1 DEF D!push_back, D!Nothing
<1>4. ASSUME NEW l \in List, NEW x \in Item, D!push_front(l, x) PROVE DuoInv'
  <2>1. ChunksOf(D!AddedFront(chunks[l], x), <<x>> \o duo_contents[l])
    BY <1>1, AddedFrontHolds
  <2>2. QED
    BY <1>2, <1>4, <2>1 DEF D!push_front, D!Nothing
<1>5. ASSUME NEW l \in List, D!pop_back(l) PROVE DuoInv'
  <2>1. /\ ChunksOf(D!LessBack(chunks[l]), D!Front(duo_contents[l]))
        /\ D!LastOf(D!LastOf(chunks[l])) = D!LastOf(duo_contents[l])
        /\ D!LastOf(duo_contents[l]) \in Item
    BY <1>1, <1>5, LessBackHolds DEF D!pop_back
  <2>2. QED
    BY <1>2, <1>5, <2>1 DEF D!pop_back
<1>6. ASSUME NEW l \in List, D!pop_front(l) PROVE DuoInv'
  <2>1. /\ ChunksOf(D!LessFront(chunks[l]), Tail(duo_contents[l]))
        /\ D!FirstOf(D!FirstOf(chunks[l])) = D!FirstOf(duo_contents[l])
        /\ D!FirstOf(duo_contents[l]) \in Item
    BY <1>1, <1>6, LessFrontHolds DEF D!pop_front
  <2>2. QED
    BY <1>2, <1>6, <2>1 DEF D!pop_front
<1>7. ASSUME NEW l \in List, D!clear(l) PROVE DuoInv'
  BY <1>2, <1>7, NoneHold DEF D!clear, D!Nothing
<1>8. ASSUME NEW l \in List, NEW m \in List, D!push_back_list(l, m) PROVE DuoInv'
  <2>1. l # m /\ ChunksOf(chunks[l] \o chunks[m], duo_contents[l] \o duo_contents[m])
    BY <1>1, <1>8, BothHold DEF D!push_back_list
  <2>2. /\ chunks' = [k \in List |-> IF k = m THEN <<>>
                                     ELSE IF k = l THEN chunks[l] \o chunks[m] ELSE chunks[k]]
        /\ duo_contents' = [k \in List |->
              IF k = m THEN <<>>
              ELSE IF k = l THEN duo_contents[l] \o duo_contents[m] ELSE duo_contents[k]]
    BY <1>1, <1>8, <2>1 DEF D!push_back_list
  <2>3. \A k \in List : ChunksOf(chunks'[k], duo_contents'[k])
    BY <1>1, <2>1, <2>2, NoneHold
  <2>4. duo_ret' = duo_due' /\ duo_due' \in Item \cup {None}
    BY <1>8 DEF D!push_back_list, D!Nothing
  <2>5. QED
    BY <2>2, <2>3, <2>4 DEF DuoInv, ChunksOf
<1>9. QED
  BY <1>3, <1>4, <1>5, <1>6, <1>7, <1>8 DEF DuoCall

LEMMA DuoNext == DuoInv /\ [ListsNext]_listVars => DuoInv'
<1>1. UNCHANGED listVars => UNCHANGED duo
  BY DEF listVars
<1>2. XorlistCall \/ IntrusiveListCall \/ HeapListCall => UNCHANGED duo
  BY DEF XorlistCall, IntrusiveListCall, HeapListCall
<1>3. PopBack \/ PopFront \/ Clear \/ EmplaceBack \/ EmplaceFront => UNCHANGED duo
  BY DEF PopBack, PopFront, Clear, EmplaceBack, EmplaceFront, Calls
<1>4. \A x \in Item : PushBack(x) \/ PushFront(x) \/ WriteBack(x) \/ WriteFront(x) => UNCHANGED duo
  BY DEF PushBack, PushFront, WriteBack, WriteFront, Calls
<1>5. QED
  BY <1>1, <1>2, <1>3, <1>4, DuoStays, DuoSteps DEF ListsNext

LEMMA DuoSound == DuoInv => ChunksAreContents
<1> SUFFICES ASSUME DuoInv PROVE ChunksAreContents
  OBVIOUS
<1>1. \A l \in List : /\ chunks[l] \in Seq(Chunk)
                      /\ duo_contents[l] = D!FlattenSeq(chunks[l])
  BY DEF DuoInv, ChunksOf
<1>2. \A l \in List : \A i \in DOMAIN chunks[l] :
          chunks[l][i] \in Seq(Item) /\ Len(chunks[l][i]) \in 1 .. ChunkSize
  BY <1>1, ChunkIs
<1>3. \A l \in List : duo_contents[l] \in Seq(Item)
  BY <1>1, FlatIsSeq
<1>4. D!TypeOK
  BY <1>2, <1>3 DEF DuoInv, D!TypeOK
<1>5. D!ChunksAreContents
  BY <1>1 DEF DuoInv, D!ChunksAreContents
<1>6. QED
  BY <1>4, <1>5 DEF ChunksAreContents

\* For any items and any size of the chunks, what a duo::list holds chunk by
\* chunk are the items pushed, in order, no chunk is empty or above its size,
\* and a pop returns the item at its end (duo.h).
THEOREM ChunksHoldContents == ListsSpec => []ChunksAreContents
<1>1. ListsInit => DuoInv
  BY DuoStarts DEF ListsInit
<1>2. ListsSpec => []DuoInv
  BY <1>1, DuoNext, PTL DEF ListsSpec
<1>3. QED
  BY <1>2, DuoSound, PTL
=============================================================================
