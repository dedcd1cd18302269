------------------------- MODULE MetricMonitorProofs --------------------------
(***************************************************************************)
(* For every capacity of the stacks and every number of scopes that the    *)
(* stack's size can count: each start() of a metric::monitor has one       *)
(* stop(), no assertion fails, and the monitor implements module Profile   *)
(* if its keys are compared in full.  A metric2::trie loses no node and    *)
(* implements module PathMap, and the timers of a metric2::monitor have    *)
(* the times spent in their paths.                                         *)
(***************************************************************************)
EXTENDS Metrics, FiniteSetTheorems, FunctionTheorems, SequenceTheorems,
        WellFoundedInduction, TLAPS

\* What the program keeps to: it has fewer metrics running at a time than
\* size_type can count.
FewScopes == Cardinality(Scope) < Wrap

\* byte_capacity() is not truncated, and no metric is the 0 of unused cells.
ExactKeys == N * SizeOfT < Wrap /\ 0 \notin Id

-----------------------------------------------------------------------------
(* The scopes that run.  Those of metric2::monitor are the same class.     *)

Scopes == [Scope -> {"gone", "null", "running"}]
RunningOf(f) == {s \in Scope : f[s] = "running"}

LEMMA RunningOfFinite ==
    ASSUME NEW f
    PROVE  /\ IsFiniteSet(RunningOf(f))
           /\ Cardinality(RunningOf(f)) \in 0 .. Cardinality(Scope)
           /\ Cardinality(RunningOf(f)) = 0 <=> RunningOf(f) = {}
<1>1. RunningOf(f) \in SUBSET Scope
  BY DEF RunningOf
<1>2. IsFiniteSet(RunningOf(f)) /\ Cardinality(RunningOf(f)) <= Cardinality(Scope)
  BY <1>1, ScopeAssumption, FS_Subset
<1>3. Cardinality(RunningOf(f)) \in Nat /\ Cardinality(Scope) \in Nat
  BY <1>2, ScopeAssumption, FS_CardinalityType
<1>4. QED
  BY <1>2, <1>3, FS_EmptySet

\* Stop(), Close() and MoveAssign(): scopes f become g, and s is stopped.
Stopped(f, g, s, r) ==
    \/ g = [f EXCEPT ![s] = "null"]
    \/ g = [f EXCEPT ![s] = "gone"]
    \/ s # r /\ g = [f EXCEPT ![s] = f[r], ![r] = "null"]

\* The scope that is stopped runs no more, wherever the other one goes.
LEMMA OneStops ==
    ASSUME NEW f \in Scopes, NEW g, NEW s \in Scope, NEW r \in Scope, f[r] # "gone",
           Stopped(f, g, s, r)
    PROVE  /\ g \in Scopes
           /\ Cardinality(RunningOf(g)) =
                 IF f[s] = "running" THEN Cardinality(RunningOf(f)) - 1
                                     ELSE Cardinality(RunningOf(f))
<1>1. s \in RunningOf(f) <=> f[s] = "running"
  BY DEF RunningOf
<1>2. r \in RunningOf(f) <=> f[r] = "running"
  BY DEF RunningOf
<1>3. CASE g = [f EXCEPT ![s] = "null"] \/ g = [f EXCEPT ![s] = "gone"]
  <2>1. RunningOf(g) = RunningOf(f) \ {s} /\ g \in Scopes
    BY <1>3 DEF RunningOf, Scopes
  <2>2. QED
    BY <1>1, <2>1, RunningOfFinite, FS_RemoveElement
<1>4. CASE s # r /\ g = [f EXCEPT ![s] = f[r], ![r] = "null"]
  <2>1. g \in Scopes
    BY <1>4 DEF Scopes
  <2>2. CASE f[r] = "running"
    <3>1. RunningOf(g) = (RunningOf(f) \ {r}) \cup {s}
      BY <1>4, <2>2 DEF RunningOf, Scopes
    <3>2. /\ IsFiniteSet(RunningOf(f) \ {r})
          /\ Cardinality(RunningOf(f) \ {r}) = Cardinality(RunningOf(f)) - 1
      BY <1>2, <2>2, RunningOfFinite, FS_RemoveElement
    <3>3. s \in RunningOf(f) \ {r} <=> f[s] = "running"
      BY <1>1, <1>4
    <3>4. Cardinality(RunningOf(g)) = IF f[s] = "running" THEN Cardinality(RunningOf(f) \ {r})
                                      ELSE Cardinality(RunningOf(f) \ {r}) + 1
      BY <3>1, <3>2, <3>3, FS_AddElement
    <3>5. Cardinality(RunningOf(f)) \in Nat
      BY RunningOfFinite, FS_CardinalityType
    <3>6. QED
      BY <2>1, <3>2, <3>4, <3>5
  <2>3. CASE f[r] # "running"
    <3>1. RunningOf(g) = RunningOf(f) \ {s}
      BY <1>4, <2>3 DEF RunningOf, Scopes
    <3>2. QED
      BY <1>1, <2>1, <3>1, RunningOfFinite, FS_RemoveElement
  <2>4. QED
    BY <2>2, <2>3
<1>5. QED
  BY <1>3, <1>4 DEF Stopped

LEMMA OneOpens ==
    ASSUME NEW f \in Scopes, NEW s \in Scope, f[s] = "gone", NEW g, g = [f EXCEPT ![s] = "running"]
    PROVE  g \in Scopes /\ Cardinality(RunningOf(g)) = Cardinality(RunningOf(f)) + 1
<1>1. g \in Scopes /\ RunningOf(g) = RunningOf(f) \cup {s} /\ s \notin RunningOf(f)
  BY DEF Scopes, RunningOf
<1>2. QED
  BY <1>1, RunningOfFinite, FS_AddElement

ScopesOK == scope \in Scopes

LEMMA RunningFinite ==
    /\ IsFiniteSet(Running)
    /\ Cardinality(Running) \in 0 .. Cardinality(Scope)
    /\ Cardinality(Running) = 0 <=> Running = {}
<1>1. Running = RunningOf(scope)
  BY DEF Running, RunningOf
<1>2. QED
  BY <1>1, RunningOfFinite

LEMMA StopsOne ==
    ASSUME ScopesOK, NEW s \in Scope, NEW r \in Scope, scope[r] # "gone",
           Stopped(scope, scope', s, r)
    PROVE  /\ ScopesOK'
           /\ Cardinality(Running') =
                 IF scope[s] = "running" THEN Cardinality(Running) - 1
                                         ELSE Cardinality(Running)
<1>1. Running = RunningOf(scope) /\ Running' = RunningOf(scope')
  BY DEF Running, RunningOf
<1>2. QED
  BY <1>1, OneStops DEF ScopesOK

LEMMA MovesOne ==
    ASSUME ScopesOK, NEW s \in Scope, NEW r \in Scope, MoveConstruct(s, r)
    PROVE  ScopesOK' /\ Cardinality(Running') = Cardinality(Running)
<1>1. s # r /\ scope[s] # "running"
  BY DEF MoveConstruct
<1>2. QED
  BY <1>1, StopsOne DEF MoveConstruct, Stopped

LEMMA OpensOne ==
    ASSUME ScopesOK, NEW s \in Scope, scope[s] = "gone",
           scope' = [scope EXCEPT ![s] = "running"]
    PROVE  ScopesOK' /\ Cardinality(Running') = Cardinality(Running) + 1
<1>1. Running = RunningOf(scope) /\ Running' = RunningOf(scope')
  BY DEF Running, RunningOf
<1>2. QED
  BY <1>1, OneOpens DEF ScopesOK

\* What is left of a stack when its top is popped.
LEMMA PoppedIs ==
    ASSUME NEW S, NEW s \in Seq(S), Len(s) # 0
    PROVE  /\ Popped(s) \in Seq(S)
           /\ Len(Popped(s)) = Len(s) - 1
           /\ \A i \in 1 .. Len(s) - 1 : Popped(s)[i] = s[i]
<1> DEFINE m == Len(s) - 1
<1>1. m \in Nat /\ \A i \in 1 .. m : s[i] \in S
  OBVIOUS
<1> HIDE DEF m
<1>2. /\ SubSeq(s, 1, m) \in Seq(S)
      /\ Len(SubSeq(s, 1, m)) = m
      /\ \A i \in 1 .. m : SubSeq(s, 1, m)[i] = s[i]
  BY <1>1, SubSeqProperties
<1>3. QED
  BY <1>2 DEF Popped, m

-----------------------------------------------------------------------------
(* The inductive invariant.                                                *)

\* The path and the timers go together; what does not fit is counted, and
\* only when the path is full; path and count are as many as the scopes that
\* run.
Inv ==
    /\ now \in 0 .. MaxTime
    /\ path \in Seq(Id) /\ Len(path) <= N
    /\ timers \in Seq(0 .. MaxTime) /\ Len(timers) = Len(path)
    /\ \A i \in 1 .. Len(timers) : timers[i] <= now
    /\ overflow \in Nat
    /\ overflow > 0 => Len(path) = N
    /\ Len(path) + overflow = Cardinality(Running)
    /\ \A p \in DOMAIN table :
          /\ p \in Seq(Id) /\ Len(p) <= N
          /\ table[p] \in [calls : Nat, total : Nat]
    /\ ScopesOK
    /\ aborted = FALSE

LEMMA InvSize ==
    ASSUME FewScopes, Inv
    PROVE  /\ size = Len(path) + overflow /\ size \in 0 .. Wrap - 1
           /\ overflow \in 0 .. Wrap - 1
           /\ full <=> Len(path) = N
<1>1. Len(path) \in Nat
  BY DEF Inv
<1>2. Len(path) + overflow \in 0 .. Wrap - 1
  <2>1. Cardinality(Scope) \in Nat
    BY ScopeAssumption, FS_CardinalityType
  <2>2. Cardinality(Running) \in 0 .. Wrap - 1
    BY <2>1, RunningFinite, WrapAssumption DEF FewScopes
  <2>3. QED
    BY <2>2 DEF Inv
<1>3. size = Len(path) + overflow
  BY <1>2, WrapAssumption, Z3 DEF size
<1>4. overflow \in 0 .. Wrap - 1
  BY <1>1, <1>2, WrapAssumption DEF Inv
<1>5. full <=> Len(path) = N
  BY <1>1, <1>3, NAssumption DEF full, Inv
<1>6. QED
  BY <1>2, <1>3, <1>4, <1>5

LEMMA InitInv == Init => Inv
<1> SUFFICES ASSUME Init PROVE Inv
  OBVIOUS
<1>1. Running = {} /\ Cardinality(Running) = 0
  BY FS_EmptySet DEF Init, Running
<1>2. QED
  BY <1>1, NAssumption, MaxTimeAssumption DEF Init, Inv, ScopesOK, Scopes

LEMMA OpenInv ==
    ASSUME FewScopes, Inv, NEW s \in Scope, NEW id \in Id, Open(s, id)
    PROVE  /\ Inv'
           /\ UNCHANGED <<now, table>>
           /\ Len(path) < N => /\ path' = Append(path, id)
                               /\ timers' = Append(timers, now)
                               /\ UNCHANGED overflow
           /\ ~(Len(path) < N) => /\ overflow' = overflow + 1
                                  /\ UNCHANGED <<path, timers>>
<1>1. full <=> Len(path) = N
  BY InvSize
<1>2. Len(path) \in Nat /\ Len(timers) = Len(path) /\ Len(path) <= N
  BY DEF Inv
<1>3. /\ start(id) /\ scope' = [scope EXCEPT ![s] = "running"]
      /\ UNCHANGED <<now, aborted>> /\ scope[s] = "gone"
  BY <1>1, <1>2, NAssumption DEF Open, Timed
<1>4. ScopesOK' /\ Cardinality(Running') = Cardinality(Running) + 1
  BY <1>3, OpensOne DEF Inv
<1>5. Cardinality(Running') < Wrap /\ Cardinality(Running') \in Nat
  <2>1. IsFiniteSet(Running') /\ Running' \in SUBSET Scope
    BY ScopeAssumption, FS_Subset DEF Running
  <2>2. Cardinality(Running') <= Cardinality(Scope) /\ Cardinality(Running') \in Nat
    BY <2>1, ScopeAssumption, FS_Subset, FS_CardinalityType
  <2>3. QED
    BY <2>2, ScopeAssumption, FS_CardinalityType, WrapAssumption DEF FewScopes
<1>6. CASE Len(path) < N
  <2>1. path' = Append(path, id) /\ timers' = Append(timers, now) /\ overflow' = overflow
    BY <1>1, <1>3, <1>6 DEF start, Push, Timed
  <2>2. path' \in Seq(Id) /\ Len(path') = Len(path) + 1
    BY <2>1, AppendProperties DEF Inv
  <2>3. /\ timers' \in Seq(0 .. MaxTime) /\ Len(timers') = Len(timers) + 1
        /\ \A i \in 1 .. Len(timers) : timers'[i] = timers[i]
        /\ timers'[Len(timers) + 1] = now
    BY <2>1, AppendProperties DEF Inv
  <2>4. \A i \in 1 .. Len(timers') : timers'[i] <= now
    <3>1. SUFFICES ASSUME NEW i \in 1 .. Len(timers') PROVE timers'[i] <= now
      OBVIOUS
    <3>2. CASE i \in 1 .. Len(timers)
      BY <2>3, <3>2 DEF Inv
    <3>3. CASE i = Len(timers) + 1
      BY <2>3, <3>3, MaxTimeAssumption DEF Inv
    <3>4. QED
      BY <1>2, <2>3, <3>2, <3>3
  <2>5. overflow = 0 /\ overflow' = 0
    BY <1>2, <1>6, <2>1, NAssumption DEF Inv
  <2>6. Len(path') + overflow' = Cardinality(Running')
    BY <1>2, <1>4, <2>2, <2>5 DEF Inv
  <2>7. Inv'
    BY <1>2, <1>3, <1>4, <1>6, <2>2, <2>3, <2>4, <2>5, <2>6, NAssumption DEF Inv, start
  <2>8. QED
    BY <1>3, <1>6, <2>1, <2>7 DEF start
<1>7. CASE ~(Len(path) < N)
  <2>1. Len(path) = N
    BY <1>2, <1>7, NAssumption
  <2>2. path' = path /\ timers' = timers /\ overflow' = (overflow + 1) % Wrap
    BY <1>1, <1>3, <1>7, <2>1 DEF start, Push, Timed
  <2>3. overflow + 1 \in 0 .. Wrap - 1
    BY <1>2, <1>4, <1>5, <2>1, WrapAssumption DEF Inv
  <2>4. overflow' = overflow + 1
    BY <2>2, <2>3, WrapAssumption, Z3
  <2>5. Inv'
    BY <1>2, <1>3, <1>4, <2>1, <2>2, <2>3, <2>4, NAssumption DEF Inv, start
  <2>6. QED
    BY <1>3, <1>7, <2>2, <2>4, <2>5 DEF start
<1>8. QED
  BY <1>6, <1>7

\* What a scope that runs does to the monitor when it is stopped.
LEMMA StopKeeps ==
    ASSUME FewScopes, Inv, stop, UNCHANGED <<now, aborted>>, ScopesOK',
           Running # {}, Cardinality(Running') = Cardinality(Running) - 1
    PROVE  /\ Inv'
           /\ overflow > 0 => overflow' = overflow - 1 /\ UNCHANGED <<path, timers, table>>
           /\ overflow = 0 => /\ path # <<>> /\ timers # <<>>
                              /\ path' = Popped(path)
                              /\ timers' = Popped(timers)
                              /\ table' = Stored(table, path, now - timers[Len(timers)])
                              /\ UNCHANGED overflow
<1>1. Cardinality(Running) \in Nat \ {0}
  <2>1. Cardinality(Scope) \in Nat
    BY ScopeAssumption, FS_CardinalityType
  <2>2. QED
    BY <2>1, RunningFinite
<1>2. Len(path) \in Nat /\ Len(timers) = Len(path)
  BY DEF Inv
<1>3. CASE overflow > 0
  <2>1. overflow' = overflow - 1 /\ UNCHANGED <<path, timers, table>>
    BY <1>3 DEF stop, Pop
  <2>2. Inv'
    BY <1>1, <1>2, <1>3, <2>1 DEF Inv
  <2>3. QED
    BY <1>3, <2>1, <2>2 DEF Inv
<1>4. CASE overflow = 0
  <2> DEFINE n == Len(path)
             time == now - timers[n]
  <2>1. n \in Nat \ {0}
    BY <1>1, <1>2, <1>4 DEF Inv
  <2>2. /\ path' = Popped(path) /\ timers' = Popped(timers)
        /\ table' = Stored(table, path, time) /\ overflow' = overflow
    BY <1>2, <1>4 DEF stop, Pop
  <2>3. path # <<>> /\ timers # <<>>
    BY <1>2, <2>1 DEF Inv
  <2>4. path' \in Seq(Id) /\ Len(path') = n - 1
    BY <2>1, <2>2, PoppedIs DEF Inv
  <2>5. /\ timers' \in Seq(0 .. MaxTime) /\ Len(timers') = n - 1
        /\ \A i \in 1 .. n - 1 : timers'[i] = timers[i]
    BY <1>2, <2>1, <2>2, PoppedIs DEF Inv
  <2>6. time \in Nat
    <3>1. n \in 1 .. Len(timers)
      BY <1>2, <2>1
    <3>2. timers[n] \in 0 .. MaxTime
      BY <3>1, ElementOfSeq DEF Inv
    <3>3. timers[n] <= now
      BY <3>1 DEF Inv
    <3>4. QED
      BY <3>2, <3>3, MaxTimeAssumption DEF Inv
  <2>7. ASSUME NEW p \in DOMAIN table'
        PROVE  /\ p \in Seq(Id) /\ Len(p) <= N
               /\ table'[p] \in [calls : Nat, total : Nat]
    <3> HIDE DEF time, n
    <3>1. path \in Seq(Id) /\ Len(path) <= N
      BY DEF Inv
    <3>2. CASE \E q \in DOMAIN table : SameKey(path, q)
      <4>1. table' = [q \in DOMAIN table |->
                        IF SameKey(path, q)
                        THEN [calls |-> table[q].calls + 1, total |-> table[q].total + time]
                        ELSE table[q]]
        BY <2>2, <3>2 DEF Stored
      <4>2. p \in DOMAIN table
        BY <4>1
      <4>3. table[p] \in [calls : Nat, total : Nat] /\ p \in Seq(Id) /\ Len(p) <= N
        BY <4>2 DEF Inv
      <4>4. table'[p] = IF SameKey(path, p)
                        THEN [calls |-> table[p].calls + 1, total |-> table[p].total + time]
                        ELSE table[p]
        BY <4>1, <4>2
      <4>5. QED
        BY <2>6, <4>3, <4>4
    <3>3. CASE ~ \E q \in DOMAIN table : SameKey(path, q)
      <4>1. table' = [q \in DOMAIN table \cup {path} |->
                        IF q = path THEN [calls |-> 1, total |-> time] ELSE table[q]]
        BY <2>2, <3>3 DEF Stored
      <4>2. p \in DOMAIN table \cup {path}
        BY <4>1
      <4>3. table'[p] = IF p = path THEN [calls |-> 1, total |-> time] ELSE table[p]
        BY <4>1, <4>2
      <4>4. CASE p = path
        BY <2>6, <3>1, <4>3, <4>4
      <4>5. CASE p # path
        BY <4>2, <4>3, <4>5 DEF Inv
      <4>6. QED
        BY <4>4, <4>5
    <3>4. QED
      BY <3>2, <3>3
  <2>8. Inv'
    <3> HIDE DEF time
    <3>1. \A i \in 1 .. Len(timers') : timers'[i] <= now
      BY <1>2, <2>1, <2>5 DEF Inv
    <3>2. Len(path') + overflow' = Cardinality(Running')
      BY <1>4, <2>1, <2>2, <2>4 DEF Inv
    <3>3. Len(path') <= N
      BY <2>1, <2>4, NAssumption DEF Inv
    <3>4. QED
      BY <1>4, <2>2, <2>4, <2>5, <2>7, <3>1, <3>2, <3>3 DEF Inv
  <2>9. QED
    BY <1>2, <1>4, <2>2, <2>3, <2>8
<1>5. overflow \in Nat
  BY DEF Inv
<1>6. QED
  BY <1>3, <1>4, <1>5

\* Stop, Close and MoveAssign stop the monitor once if the scope runs.
Stops(s) ==
    \/ scope[s] = "running" /\ stop
    \/ scope[s] = "null" /\ UNCHANGED monitor

LEMMA StopThenInv ==
    ASSUME FewScopes, Inv, NEW s \in Scope, NEW r \in Scope, scope[r] # "gone",
           \/ Stop(s) \/ Close(s) \/ MoveAssign(s, r)
    PROVE  /\ Inv'
           /\ UNCHANGED <<now, aborted>>
           /\ Stops(s)
           /\ Stops(s) /\ scope[s] = "running" =>
                  Running # {} /\ Cardinality(Running') = Cardinality(Running) - 1 /\ ScopesOK'
<1>1. Stops(s) /\ UNCHANGED <<now, aborted>>
  BY DEF Stop, Close, MoveAssign, StopThen, Stops
<1>2. \/ scope' = [scope EXCEPT ![s] = "null"]
      \/ scope' = [scope EXCEPT ![s] = "gone"]
      \/ s # r /\ scope' = [scope EXCEPT ![s] = scope[r], ![r] = "null"]
  BY DEF Stop, Close, MoveAssign, StopThen
<1>3. ScopesOK' /\ Cardinality(Running') =
                      IF scope[s] = "running" THEN Cardinality(Running) - 1
                                              ELSE Cardinality(Running)
  BY <1>2, StopsOne DEF Inv, Stopped
<1>4. CASE scope[s] = "running" /\ stop
  <2>1. Running # {}
    BY <1>4 DEF Running
  <2>2. QED
    BY <1>1, <1>3, <1>4, <2>1, StopKeeps
<1>5. CASE scope[s] = "null" /\ UNCHANGED monitor
  BY <1>1, <1>3, <1>5 DEF Inv, monitor
<1>6. QED
  BY <1>1, <1>4, <1>5 DEF Stops

LEMMA NextInv ==
    ASSUME FewScopes, Inv, [Next]_vars
    PROVE  Inv'
<1>1. CASE Tick
  BY <1>1, MaxTimeAssumption DEF Tick, Inv, monitor, ScopesOK, Running
<1>2. ASSUME NEW s \in Scope, NEW id \in Id, Open(s, id) PROVE Inv'
  BY <1>2, OpenInv
<1>3. ASSUME NEW s \in Scope, Stop(s) \/ Close(s) PROVE Inv'
  <2>1. scope[s] # "gone"
    BY <1>3 DEF Stop, Close, StopThen
  <2>2. QED
    BY <1>3, <2>1, StopThenInv
<1>4. ASSUME NEW s \in Scope, NEW r \in Scope, MoveAssign(s, r) PROVE Inv'
  BY <1>4, StopThenInv DEF MoveAssign
<1>5. ASSUME NEW s \in Scope, NEW r \in Scope, MoveConstruct(s, r) PROVE Inv'
  BY <1>5, MovesOne DEF MoveConstruct, Inv, monitor
<1>6. CASE UNCHANGED vars
  BY <1>6 DEF vars, Inv, ScopesOK, Running
<1>7. QED
  BY <1>1, <1>2, <1>3, <1>4, <1>5, <1>6 DEF Next

LEMMA Invariance == ASSUME FewScopes PROVE Spec => []Inv
<1>1. ASSUME Inv, [Next]_vars PROVE Inv'
  BY <1>1, NextInv
<1>2. QED
  BY <1>1, InitInv, PTL DEF Spec

-----------------------------------------------------------------------------
(* What the invariant says.                                                *)

\* As long as size_type can count the scopes, every start() has one stop(),
\* however scopes are moved, assigned to themselves, stopped early and
\* destroyed, and however deep they are nested.
THEOREM StartsAreStopped ==
    ASSUME FewScopes
    PROVE  Spec => []EveryStartIsStopped
<1>1. ASSUME Inv PROVE EveryStartIsStopped
  <2>1. size = Cardinality(Running) /\ size \in 0 .. Wrap - 1
    <3>1. size = Cardinality(Running)
      BY <1>1, InvSize DEF Inv
    <3>2. size \in 0 .. Wrap - 1
      BY <1>1, InvSize
    <3>3. QED
      BY <3>1, <3>2
  <2>2. QED
    BY <2>1, WrapAssumption, Z3 DEF EveryStartIsStopped
<1>2. QED
  BY <1>1, Invariance, PTL

\* Then no push finds the stack of timers full, and no pop finds it or the
\* path empty, so that none of the assertions fails.
THEOREM AssertionsHold ==
    ASSUME FewScopes
    PROVE  Spec => []NeverAborts
<1>1. ASSUME Inv PROVE NeverAborts
  <2>1. TypeOK
    BY <1>1, InvSize DEF Inv, ScopesOK, Scopes, TypeOK
  <2>2. ASSUME Running # {}, overflow = 0 PROVE path # <<>> /\ timers # <<>>
    <3>1. Cardinality(Running) # 0
      BY <2>2, RunningFinite
    <3>2. Len(path) # 0 /\ Len(timers) # 0
      BY <1>1, <2>2, <3>1 DEF Inv
    <3>3. QED
      BY <3>2
  <2>3. QED
    BY <1>1, <2>1, <2>2 DEF NeverAborts, Inv
<1>2. QED
  BY <1>1, Invariance, PTL

-----------------------------------------------------------------------------
(* The refinement of Profile.                                              *)

Metric == [id : Id, since : 0 .. MaxTime]

\* The metrics that run, each with the time it started at: Measured, of any
\* path and timers.
MeasuredOf(p, t) ==
    [i \in DOMAIN p |->
        [id |-> p[i], since |-> IF i \in DOMAIN t THEN t[i] ELSE -1]]

LEMMA MeasuredIs ==
    ASSUME NEW p \in Seq(Id), NEW t \in Seq(0 .. MaxTime), Len(p) = Len(t)
    PROVE  /\ MeasuredOf(p, t) \in Seq(Metric)
           /\ Len(MeasuredOf(p, t)) = Len(p)
           /\ \A i \in 1 .. Len(p) : MeasuredOf(p, t)[i] = [id |-> p[i], since |-> t[i]]
<1> DEFINE m == MeasuredOf(p, t)
<1>1. DOMAIN p = 1 .. Len(p) /\ DOMAIN t = 1 .. Len(p) /\ Len(p) \in Nat
  BY LenProperties
<1>2. m = [i \in 1 .. Len(p) |-> [id |-> p[i], since |-> t[i]]]
  BY <1>1 DEF MeasuredOf
<1>3. ASSUME NEW i \in 1 .. Len(p) PROVE p[i] \in Id /\ t[i] \in 0 .. MaxTime
  BY <1>1, ElementOfSeq
<1>4. m \in [1 .. Len(p) -> Metric]
  BY <1>2, <1>3 DEF Metric
<1>5. m \in Seq(Metric)
  BY <1>1, <1>4, SeqDef
<1>6. Len(m) = Len(p)
  <2>1. DOMAIN m = 1 .. Len(m) /\ Len(m) \in Nat
    BY <1>5, LenProperties
  <2>2. QED
    BY <1>1, <1>4, <2>1
<1>7. QED
  BY <1>2, <1>5, <1>6

\* The keys of the table are paths.
LEMMA KeysAreEqual ==
    ASSUME ExactKeys,
           NEW p \in Seq(Id), NEW q \in Seq(Id), Len(p) <= N, Len(q) <= N
    PROVE  SameKey(p, q) <=> p = q
<1>1. /\ Len(p) \in Nat /\ Len(q) \in Nat
      /\ \A i \in 1 .. Len(p) : p[i] # 0
      /\ \A i \in 1 .. Len(q) : q[i] # 0
  <2>1. \A i \in 1 .. Len(p) : p[i] \in Id
    BY ElementOfSeq
  <2>2. \A i \in 1 .. Len(q) : q[i] \in Id
    BY ElementOfSeq
  <2>3. QED
    BY <2>1, <2>2 DEF ExactKeys
<1>2. byte_capacity = N * SizeOfT
  <2>1. N * SizeOfT \in 0 .. Wrap - 1
    BY NAssumption, SizeOfTAssumption, WrapAssumption, Z3 DEF ExactKeys
  <2> DEFINE x == N * SizeOfT
  <2> HIDE DEF x
  <2>2. x \in 0 .. Wrap - 1 => x % Wrap = x
    BY WrapAssumption, Z3
  <2>3. QED
    BY <2>1, <2>2 DEF x, byte_capacity
<1>3. ASSUME NEW i \in 1 .. N PROVE (i - 1) * SizeOfT < byte_capacity
  <2>1. i - 1 \in Nat /\ i - 1 < N
    BY NAssumption
  <2> DEFINE j == i - 1
  <2> HIDE DEF j
  <2>2. j \in Nat /\ j < N => j * SizeOfT < N * SizeOfT
    BY NAssumption, SizeOfTAssumption, Z3
  <2>3. QED
    BY <1>2, <2>1, <2>2 DEF j
<1>4. ASSUME SameKey(p, q) PROVE p = q
  <2>1. \A i \in 1 .. N : Cell(p, i) = Cell(q, i)
    BY <1>3, <1>4 DEF SameKey
  <2>2. Len(p) = Len(q)
    <3>1. ~(Len(p) < Len(q))
      <4> SUFFICES ASSUME Len(p) < Len(q) PROVE FALSE
        OBVIOUS
      <4>1. Len(q) \in 1 .. N /\ Len(q) \in 1 .. Len(q)
        BY <1>1, NAssumption
      <4>2. Cell(q, Len(q)) # 0 /\ Cell(p, Len(q)) = 0
        BY <1>1, <4>1 DEF Cell
      <4>3. QED
        BY <2>1, <4>1, <4>2
    <3>2. ~(Len(q) < Len(p))
      <4> SUFFICES ASSUME Len(q) < Len(p) PROVE FALSE
        OBVIOUS
      <4>1. Len(p) \in 1 .. N /\ Len(p) \in 1 .. Len(p)
        BY <1>1, NAssumption
      <4>2. Cell(p, Len(p)) # 0 /\ Cell(q, Len(p)) = 0
        BY <1>1, <4>1 DEF Cell
      <4>3. QED
        BY <2>1, <4>1, <4>2
    <3>3. QED
      BY <1>1, <3>1, <3>2
  <2>3. ASSUME NEW i \in 1 .. Len(p) PROVE p[i] = q[i]
    <3>1. i \in 1 .. N /\ i <= Len(p) /\ i <= Len(q)
      BY <1>1, <2>2, NAssumption
    <3>2. QED
      BY <2>1, <3>1 DEF Cell
  <2>4. QED
    BY <2>2, <2>3, SeqEqual
<1>5. QED
  BY <1>4 DEF SameKey

\* table::store() keeps a total for every path.
LEMMA StoredIsAdded ==
    ASSUME ExactKeys, Inv, NEW time
    PROVE  Stored(table, path, time) = P!Added(table, path, time)
<1>1. \A q \in DOMAIN table : SameKey(path, q) <=> q = path
  BY KeysAreEqual DEF Inv
<1>2. CASE path \in DOMAIN table
  <2>1. \E q \in DOMAIN table : SameKey(path, q)
    BY <1>1, <1>2
  <2>2. DOMAIN table = DOMAIN table \cup {path}
    BY <1>2
  <2>3. Stored(table, path, time) =
          [q \in DOMAIN table |->
             IF SameKey(path, q)
             THEN [calls |-> table[q].calls + 1, total |-> table[q].total + time]
             ELSE table[q]]
    BY <2>1 DEF Stored
  <2>4. QED
    BY <1>1, <1>2, <2>2, <2>3 DEF P!Added
<1>3. CASE path \notin DOMAIN table
  <2>1. ~ \E q \in DOMAIN table : SameKey(path, q)
    BY <1>1, <1>3
  <2>2. Stored(table, path, time) =
          [q \in DOMAIN table \cup {path} |->
             IF q = path THEN [calls |-> 1, total |-> time] ELSE table[q]]
    BY <2>1 DEF Stored
  <2>3. QED
    BY <1>3, <2>2 DEF P!Added
<1>4. QED
  BY <1>2, <1>3

LEMMA InitRefines == Init => P!Init
<1> SUFFICES ASSUME Init PROVE P!Init
  OBVIOUS
<1>1. Measured \in Seq(Metric) /\ Len(Measured) = 0
  BY MeasuredIs DEF Init, Measured, MeasuredOf
<1>2. Measured = <<>>
  BY <1>1
<1>3. QED
  BY <1>2 DEF Init, P!Init

LEMMA OpenRefines ==
    ASSUME FewScopes, Inv, NEW s \in Scope, NEW id \in Id, Open(s, id)
    PROVE  P!Start(id)
<1> DEFINE n == Len(path)
<1>1. Inv' /\ UNCHANGED <<now, table>>
  BY OpenInv
<1>2. /\ Measured \in Seq(Metric) /\ Len(Measured) = n
      /\ \A i \in 1 .. n : Measured[i] = [id |-> path[i], since |-> timers[i]]
  <2>1. Measured = MeasuredOf(path, timers)
    BY DEF Measured, MeasuredOf
  <2>2. path \in Seq(Id) /\ timers \in Seq(0 .. MaxTime) /\ Len(path) = Len(timers)
    BY DEF Inv
  <2>3. QED
    BY <2>1, <2>2, MeasuredIs
<1>3. /\ Measured' \in Seq(Metric) /\ Len(Measured') = Len(path')
      /\ \A i \in 1 .. Len(path') : Measured'[i] = [id |-> path'[i], since |-> timers'[i]]
  <2>1. Measured' = MeasuredOf(path', timers')
    BY DEF Measured, MeasuredOf
  <2>2. path' \in Seq(Id) /\ timers' \in Seq(0 .. MaxTime) /\ Len(path') = Len(timers')
    BY <1>1 DEF Inv
  <2>3. QED
    BY <2>1, <2>2, MeasuredIs
<1>4. CASE n < N
  <2> DEFINE m == [id |-> id, since |-> now]
  <2>1. path' = Append(path, id) /\ timers' = Append(timers, now) /\ overflow' = overflow
    BY <1>4, OpenInv
  <2>2. /\ Len(path') = n + 1 /\ path'[n + 1] = id
        /\ \A i \in 1 .. n : path'[i] = path[i]
    BY <2>1, AppendProperties DEF Inv
  <2>3. timers'[n + 1] = now /\ \A i \in 1 .. n : timers'[i] = timers[i]
    BY <2>1, AppendProperties DEF Inv
  <2>4. m \in Metric
    BY DEF Metric, Inv
  <2>5. /\ Append(Measured, m) \in Seq(Metric) /\ Len(Append(Measured, m)) = n + 1
        /\ \A i \in 1 .. n : Append(Measured, m)[i] = Measured[i]
        /\ Append(Measured, m)[n + 1] = m
    BY <1>2, <2>4, AppendProperties
  <2>6. ASSUME NEW i \in 1 .. n + 1 PROVE Measured'[i] = Append(Measured, m)[i]
    <3>1. n \in Nat
      BY DEF Inv
    <3>2. i \in 1 .. Len(path')
      BY <2>2, <3>1
    <3>3. Measured'[i] = [id |-> path'[i], since |-> timers'[i]]
      BY <1>3, <3>2
    <3>4. CASE i = n + 1
      <4>1. path'[i] = id /\ timers'[i] = now
        BY <2>2, <2>3, <3>4
      <4>2. Append(Measured, m)[i] = m
        BY <2>5, <3>4
      <4>3. QED
        BY <3>3, <4>1, <4>2
    <3>5. CASE i \in 1 .. n
      <4>1. Measured[i] = [id |-> path[i], since |-> timers[i]]
        BY <1>2, <3>5
      <4>2. QED
        BY <2>2, <2>3, <2>5, <3>3, <3>5, <4>1
    <3>6. i = n + 1 \/ i \in 1 .. n
      BY <3>1
    <3>7. QED
      BY <3>4, <3>5, <3>6
  <2>7. Measured' = Append(Measured, m)
    BY <1>3, <2>2, <2>5, <2>6, SeqEqual
  <2>8. QED
    BY <1>1, <1>2, <1>4, <2>1, <2>7 DEF P!Start
<1>5. CASE ~(n < N)
  <2>1. overflow' = overflow + 1 /\ path' = path /\ timers' = timers
    BY <1>5, OpenInv
  <2>2. Measured' = Measured
    BY <2>1 DEF Measured
  <2>3. QED
    BY <1>1, <1>2, <1>5, <2>1, <2>2 DEF P!Start
<1>6. QED
  BY <1>4, <1>5

\* A scope that is stopped stops a metric; one that is null does nothing.
LEMMA StopRefines ==
    ASSUME FewScopes, ExactKeys, Inv, NEW s \in Scope, NEW r \in Scope, scope[r] # "gone",
           Stop(s) \/ Close(s) \/ MoveAssign(s, r)
    PROVE  P!Stop \/ UNCHANGED P!vars
<1> DEFINE n == Len(path)
<1>1. Inv' /\ UNCHANGED <<now, aborted>> /\ Stops(s)
  BY StopThenInv
<1>2. CASE scope[s] = "null" /\ UNCHANGED monitor
  <2>1. Measured' = Measured
    BY <1>2 DEF Measured, monitor
  <2>2. QED
    BY <1>1, <1>2, <2>1 DEF monitor, P!vars
<1>3. CASE scope[s] = "running" /\ stop
  <2>1. /\ overflow > 0 => overflow' = overflow - 1 /\ UNCHANGED <<path, timers, table>>
        /\ overflow = 0 => /\ path # <<>> /\ timers # <<>>
                           /\ path' = Popped(path)
                           /\ timers' = Popped(timers)
                           /\ table' = Stored(table, path, now - timers[Len(timers)])
                           /\ UNCHANGED overflow
    BY <1>1, <1>3, StopThenInv, StopKeeps
  <2>2. CASE overflow > 0
    <3>1. Measured' = Measured
      BY <2>1, <2>2 DEF Measured
    <3>2. QED
      BY <1>1, <2>1, <2>2, <3>1 DEF P!Stop
  <2>3. CASE overflow = 0
    <3>1. /\ Measured \in Seq(Metric) /\ Len(Measured) = n
          /\ \A i \in 1 .. n : Measured[i] = [id |-> path[i], since |-> timers[i]]
      <4>1. Measured = MeasuredOf(path, timers)
        BY DEF Measured, MeasuredOf
      <4>2. path \in Seq(Id) /\ timers \in Seq(0 .. MaxTime) /\ Len(path) = Len(timers)
        BY DEF Inv
      <4>3. QED
        BY <4>1, <4>2, MeasuredIs
    <3>2. /\ Measured' \in Seq(Metric) /\ Len(Measured') = Len(path')
          /\ \A i \in 1 .. Len(path') :
                Measured'[i] = [id |-> path'[i], since |-> timers'[i]]
      <4>1. Measured' = MeasuredOf(path', timers')
        BY DEF Measured, MeasuredOf
      <4>2. path' \in Seq(Id) /\ timers' \in Seq(0 .. MaxTime) /\ Len(path') = Len(timers')
        BY <1>1 DEF Inv
      <4>3. QED
        BY <4>1, <4>2, MeasuredIs
    <3>3. n \in Nat \ {0} /\ Len(timers) = n
      BY <2>1, <2>3, EmptySeq DEF Inv
    <3>4. Len(path') = n - 1 /\ \A i \in 1 .. n - 1 : path'[i] = path[i]
      BY <2>1, <2>3, <3>3, PoppedIs DEF Inv
    <3>5. \A i \in 1 .. n - 1 : timers'[i] = timers[i]
      BY <2>1, <2>3, <3>3, PoppedIs DEF Inv
    <3>6. /\ Popped(Measured) \in Seq(Metric) /\ Len(Popped(Measured)) = n - 1
          /\ \A i \in 1 .. n - 1 : Popped(Measured)[i] = Measured[i]
      BY <3>1, <3>3, PoppedIs
    <3>7. ASSUME NEW i \in 1 .. n - 1 PROVE Measured'[i] = Popped(Measured)[i]
      <4>1. i \in 1 .. n /\ i \in 1 .. Len(path')
        BY <3>3, <3>4
      <4>2. Measured'[i] = [id |-> path'[i], since |-> timers'[i]]
        BY <3>2, <4>1
      <4>3. Measured[i] = [id |-> path[i], since |-> timers[i]]
        BY <3>1, <4>1
      <4>4. path'[i] = path[i] /\ timers'[i] = timers[i]
        BY <3>4, <3>5
      <4>5. QED
        BY <3>6, <4>2, <4>3, <4>4
    <3>8. Measured' = Popped(Measured)
      BY <3>2, <3>4, <3>6, <3>7, SeqEqual
    <3>9. Measured # <<>> /\ Measured[Len(Measured)].since = timers[n]
      <4>1. n \in 1 .. n /\ Len(Measured) = n
        BY <3>1, <3>3
      <4>2. Measured[n] = [id |-> path[n], since |-> timers[n]]
        BY <3>1, <4>1
      <4>3. QED
        BY <3>3, <4>1, <4>2, EmptySeq
    <3>10. P!PathOf(Measured) = path
      <4>1. DOMAIN Measured = 1 .. n /\ path \in [1 .. n -> Id]
        BY <3>1, LenProperties DEF Inv
      <4>2. QED
        BY <3>1, <4>1 DEF P!PathOf
    <3>11. table' = P!Added(table, P!PathOf(Measured), now - Measured[Len(Measured)].since)
      BY <2>1, <2>3, <3>3, <3>9, <3>10, StoredIsAdded
    <3>12. QED
      BY <1>1, <2>1, <2>3, <3>8, <3>9, <3>11 DEF P!Stop, Popped
  <2>4. QED
    BY <2>2, <2>3 DEF Inv
<1>4. QED
  BY <1>1, <1>2, <1>3 DEF Stops

LEMMA NextRefines ==
    ASSUME FewScopes, ExactKeys, Inv, [Next]_vars
    PROVE  [P!Next]_(P!vars)
<1>1. CASE Tick
  <2>1. Measured' = Measured
    BY <1>1 DEF Tick, monitor, Measured
  <2>2. QED
    BY <1>1, <2>1 DEF Tick, monitor, P!Tick, P!Next
<1>2. ASSUME NEW s \in Scope, NEW id \in Id, Open(s, id) PROVE P!Next
  BY <1>2, OpenRefines DEF P!Next
<1>3. ASSUME NEW s \in Scope, Stop(s) \/ Close(s) PROVE P!Stop \/ UNCHANGED P!vars
  <2>1. scope[s] # "gone"
    BY <1>3 DEF Stop, Close, StopThen
  <2>2. QED
    BY <1>3, <2>1, StopRefines
<1>4. ASSUME NEW s \in Scope, NEW r \in Scope, MoveAssign(s, r)
      PROVE  P!Stop \/ UNCHANGED P!vars
  BY <1>4, StopRefines DEF MoveAssign
<1>5. ASSUME NEW s \in Scope, NEW r \in Scope, MoveConstruct(s, r)
      PROVE  UNCHANGED P!vars
  <2>1. Measured' = Measured
    BY <1>5 DEF MoveConstruct, monitor, Measured
  <2>2. QED
    BY <1>5, <2>1 DEF MoveConstruct, monitor, P!vars
<1>6. CASE UNCHANGED vars
  <2>1. Measured' = Measured
    BY <1>6 DEF vars, Measured
  <2>2. QED
    BY <1>6, <2>1 DEF vars, P!vars
<1>7. QED
  BY <1>1, <1>2, <1>3, <1>4, <1>5, <1>6 DEF Next, P!Next

\* What a monitor reports is the time between every start() and its stop(),
\* under the path of the metrics around it: what is too deep is ignored
\* completely, and nothing is stored under another path.
THEOREM MonitorImplementsProfile ==
    ASSUME FewScopes, ExactKeys
    PROVE  Spec => ImplementsProfile
<1>1. ASSUME Inv, [Next]_vars PROVE [P!Next]_(P!vars)
  BY <1>1, NextRefines
<1>2. QED
  BY <1>1, InitRefines, Invariance, PTL DEF Spec, ImplementsProfile, P!Spec

-----------------------------------------------------------------------------
(* Least and greatest numbers.                                             *)

LEMMA LeastExists ==
    ASSUME NEW B \in SUBSET Nat, B # {}
    PROVE  \E n \in B : \A m \in B : n <= m
<1>1. PICK c \in B : \A d \in B : ~(<<d, c>> \in OpToRel(<, Nat))
  BY WFMin, NatLessThanWellFounded
<1>2. \A d \in B : ~(d < c)
  BY <1>1 DEF OpToRel
<1>3. QED
  BY <1>2

LEMMA GreatestExists ==
    ASSUME NEW L \in Nat, NEW B \in SUBSET (0 .. L), B # {}
    PROVE  \E n \in B : \A m \in B : m <= n
<1> DEFINE Q == {L - n : n \in B}
<1>1. Q \in SUBSET Nat /\ Q # {}
  <2>1. \A n \in B : L - n \in Nat
    OBVIOUS
  <2>2. QED
    BY <2>1
<1>2. PICK q \in Q : \A m \in Q : q <= m
  <2> HIDE DEF Q
  <2> QED
    BY <1>1, LeastExists
<1>3. PICK n \in B : q = L - n
  BY <1>2
<1>4. \A m \in B : L - m \in Q /\ m \in Int
  OBVIOUS
<1>5. n \in Int
  OBVIOUS
<1>6. ASSUME NEW m \in B PROVE m <= n
  <2>1. L - m \in Q /\ m \in Int
    BY <1>4
  <2>2. L - n <= L - m
    BY <1>2, <1>3, <2>1
  <2>3. QED
    BY ONLY L \in Nat, <1>5, <2>1, <2>2
<1>7. QED
  BY <1>6

-----------------------------------------------------------------------------
(* The links of a trie.                                                    *)

IsFirst(x, S) == IF S = {} THEN x = 0 ELSE x \in S /\ \A y \in S : x <= y

Kids(s, p) == {n \in 1 .. Len(s) : s[n].parent = p}
Later(s, n) == {m \in Kids(s, s[n].parent) : m > n}

NodeOn(V) == [parent : Nat, child : Nat, sibling : Nat, key : Key, value : V]

\* The links down are what the links up say.
IsTrie(s) ==
    /\ s \in Seq(NodeOn(Int))
    /\ \A n \in 1 .. Len(s) :
          /\ s[n].parent \in 0 .. n - 1
          /\ s[n].parent = 0 <=> n = 1
          /\ IsFirst(s[n].child, Kids(s, n))
          /\ IsFirst(s[n].sibling, Later(s, n))
    /\ \A m, n \in 1 .. Len(s) :
          s[m].parent = s[n].parent /\ s[m].key = s[n].key => m = n

\* The sibling at which a search for the key k ends that has come to c.
Ends(s, k, c) ==
    {d \in Kids(s, s[c].parent) : d >= c /\ (s[d].key = k \/ s[d].sibling = 0)}

LEMMA EndsAreNodes ==
    ASSUME NEW s, IsTrie(s), NEW k, NEW c, NEW d \in Ends(s, k, c)
    PROVE  d \in 1 .. Len(s) /\ d \in Int
<1>1. Len(s) \in Nat
  BY DEF IsTrie
<1>2. QED
  BY <1>1 DEF Ends, Kids

LEMMA EndsOf ==
    ASSUME NEW s, IsTrie(s), NEW k, NEW c \in 1 .. Len(s)
    PROVE  /\ s[c].key = k \/ s[c].sibling = 0 => IsFirst(c, Ends(s, k, c))
           /\ ~(s[c].key = k \/ s[c].sibling = 0) =>
                 /\ s[c].sibling \in 1 .. Len(s) /\ s[c].sibling > c
                 /\ s[s[c].sibling].parent = s[c].parent
                 /\ Ends(s, k, s[c].sibling) = Ends(s, k, c)
<1>1. Len(s) \in Nat
  BY DEF IsTrie
<1>2. CASE s[c].key = k \/ s[c].sibling = 0
  BY <1>1, <1>2 DEF IsFirst, Ends, Kids
<1>3. CASE ~(s[c].key = k \/ s[c].sibling = 0)
  <2> DEFINE e == s[c].sibling
  <2>1. e \in Later(s, c) /\ \A y \in Later(s, c) : e <= y
    BY <1>3 DEF IsTrie, IsFirst
  <2>2. e \in 1 .. Len(s) /\ e > c /\ s[e].parent = s[c].parent
    BY <2>1 DEF Later, Kids
  <2> HIDE DEF e
  <2>3. ASSUME NEW d \in Kids(s, s[c].parent), d >= c, s[d].key = k \/ s[d].sibling = 0
        PROVE  d >= e
    <3>1. d # c
      BY <1>3, <2>3
    <3>2. d \in Later(s, c)
      BY <1>1, <2>3, <3>1 DEF Later, Kids
    <3>3. e <= d
      BY <2>1, <3>2
    <3>4. QED
      BY <1>1, <2>2, <3>3 DEF Kids
  <2>4. Ends(s, k, e) = Ends(s, k, c)
    BY <1>1, <2>2, <2>3 DEF Ends, Kids
  <2>5. QED
    BY <1>3, <2>2, <2>4 DEF e
<1>4. QED
  BY <1>2, <1>3

LEMMA EndsSomewhere ==
    ASSUME NEW s, IsTrie(s), NEW k, NEW c \in 1 .. Len(s)
    PROVE  \E d : d \in Ends(s, k, c) /\ IsFirst(d, Ends(s, k, c))
<1>1. Len(s) \in Nat
  BY DEF IsTrie
<1>2. Ends(s, k, c) # {}
  <2> DEFINE bad == {b \in 1 .. Len(s) : Ends(s, k, b) = {}}
  <2> SUFFICES ASSUME bad # {} PROVE FALSE
    OBVIOUS
  <2>1. bad \in SUBSET (0 .. Len(s))
    OBVIOUS
  <2>2. PICK b \in bad : \A m \in bad : m <= b
    <3> HIDE DEF bad
    <3> QED
      BY <1>1, <2>1, GreatestExists
  <2>3. b \in 1 .. Len(s) /\ Ends(s, k, b) = {}
    OBVIOUS
  <2>4. ~(s[b].key = k \/ s[b].sibling = 0)
    BY <2>3, EndsOf DEF Ends, Kids, IsFirst
  <2>5. s[b].sibling \in bad /\ s[b].sibling > b
    BY <2>3, <2>4, EndsOf
  <2>6. s[b].sibling <= b
    BY <2>2, <2>5
  <2>7. s[b].sibling \in Int /\ b \in Int
    BY <2>5
  <2>8. QED
    BY <2>5, <2>6, <2>7
<1>3. Ends(s, k, c) \in SUBSET Nat
  BY DEF Ends, Kids
<1>4. PICK d \in Ends(s, k, c) : \A m \in Ends(s, k, c) : d <= m
  BY <1>2, <1>3, LeastExists
<1>5. QED
  BY <1>4 DEF IsFirst

IsGuess(s, k, g) ==
    g = [c \in DOMAIN s |->
            IF s[c].key = k \/ s[c].sibling = 0 THEN c ELSE g[s[c].sibling]]

GuessOf(s, k) == CHOOSE g : IsGuess(s, k, g)

LEMMA GuessIsFirst ==
    ASSUME NEW s, IsTrie(s), NEW k, NEW g, IsGuess(s, k, g), NEW c \in 1 .. Len(s)
    PROVE  g[c] \in Ends(s, k, c) /\ IsFirst(g[c], Ends(s, k, c))
<1>1. Len(s) \in Nat /\ DOMAIN s = 1 .. Len(s)
  BY DEF IsTrie
<1> DEFINE bad == {b \in 1 .. Len(s) :
                  ~(g[b] \in Ends(s, k, b) /\ IsFirst(g[b], Ends(s, k, b)))}
<1> SUFFICES ASSUME bad # {} PROVE FALSE
  OBVIOUS
<1>2. bad \in SUBSET (0 .. Len(s))
  OBVIOUS
<1>3. PICK b \in bad : \A m \in bad : m <= b
  <2> HIDE DEF bad
  <2> QED
    BY <1>1, <1>2, GreatestExists
<1>4. b \in 1 .. Len(s) /\ ~(g[b] \in Ends(s, k, b) /\ IsFirst(g[b], Ends(s, k, b)))
  OBVIOUS
<1>5. g[b] = IF s[b].key = k \/ s[b].sibling = 0 THEN b ELSE g[s[b].sibling]
  BY <1>1, <1>4 DEF IsGuess
<1>6. ~(s[b].key = k \/ s[b].sibling = 0)
  <2> SUFFICES ASSUME s[b].key = k \/ s[b].sibling = 0 PROVE FALSE
    OBVIOUS
  <2>1. g[b] = b
    BY <1>5
  <2>2. b \in Ends(s, k, b)
    BY <1>1, <1>4 DEF Ends, Kids
  <2>3. IsFirst(b, Ends(s, k, b))
    BY <1>4, EndsOf
  <2>4. QED
    BY <1>4, <2>1, <2>2, <2>3
<1>7. s[b].sibling \in bad /\ s[b].sibling > b
  <2>1. s[b].sibling \in 1 .. Len(s) /\ s[b].sibling > b
    BY <1>4, <1>6, EndsOf
  <2>2. Ends(s, k, s[b].sibling) = Ends(s, k, b)
    BY <1>4, <1>6, EndsOf
  <2>3. g[b] = g[s[b].sibling]
    BY <1>5, <1>6
  <2>4. QED
    BY <1>4, <2>1, <2>2, <2>3
<1>8. s[b].sibling <= b
  BY <1>3, <1>7
<1>9. s[b].sibling \in Int /\ b \in Int
  BY <1>7
<1>10. QED
  BY <1>7, <1>8, <1>9

LEMMA GuessExists == ASSUME NEW s, IsTrie(s), NEW k PROVE IsGuess(s, k, GuessOf(s, k))
<1> DEFINE g == [c \in DOMAIN s |-> CHOOSE d : d \in Ends(s, k, c) /\ IsFirst(d, Ends(s, k, c))]
<1>1. Len(s) \in Nat /\ DOMAIN s = 1 .. Len(s)
  BY DEF IsTrie
<1>2. \A c \in 1 .. Len(s) : g[c] \in Ends(s, k, c) /\ IsFirst(g[c], Ends(s, k, c))
  BY <1>1, EndsSomewhere
<1>3. ASSUME NEW c \in 1 .. Len(s)
      PROVE  g[c] = IF s[c].key = k \/ s[c].sibling = 0 THEN c ELSE g[s[c].sibling]
  <2> HIDE DEF g
  <2>1. CASE s[c].key = k \/ s[c].sibling = 0
    <3>1. IsFirst(c, Ends(s, k, c)) /\ c \in Ends(s, k, c)
      <4>1. IsFirst(c, Ends(s, k, c))
        BY <1>3, <2>1, EndsOf
      <4>2. c \in Ends(s, k, c)
        BY <1>1, <1>3, <2>1 DEF Ends, Kids
      <4>3. QED
        BY <4>1, <4>2
    <3>2. g[c] <= c /\ c <= g[c]
      BY <1>2, <1>3, <3>1 DEF IsFirst
    <3>3. g[c] \in Int /\ c \in Int
      BY <1>2, EndsAreNodes
    <3>4. QED
      BY <1>3, <2>1, <3>2, <3>3
  <2>2. CASE ~(s[c].key = k \/ s[c].sibling = 0)
    <3>1. s[c].sibling \in 1 .. Len(s) /\ Ends(s, k, s[c].sibling) = Ends(s, k, c)
      <4>1. ~(s[c].key = k \/ s[c].sibling = 0)
        BY <2>2
      <4>2. s[c].sibling \in 1 .. Len(s)
        BY <4>1, EndsOf
      <4>3. Ends(s, k, s[c].sibling) = Ends(s, k, c)
        BY <4>1, EndsOf
      <4>4. QED
        BY <4>2, <4>3
    <3> DEFINE e == s[c].sibling
    <3>2. e \in 1 .. Len(s) /\ Ends(s, k, e) = Ends(s, k, c)
      BY <3>1
    <3> HIDE DEF e
    <3>3. g[e] <= g[c] /\ g[c] <= g[e]
      BY <1>2, <1>3, <3>2 DEF IsFirst
    <3>4. g[c] \in Int /\ g[e] \in Int
      BY <1>2, <3>2, EndsAreNodes
    <3>5. g[c] = g[e]
      BY <3>3, <3>4
    <3>6. QED
      BY <2>2, <3>5 DEF e
  <2>3. QED
    BY <2>1, <2>2
<1>4. g = [c \in DOMAIN s |->
            IF s[c].key = k \/ s[c].sibling = 0 THEN c ELSE g[s[c].sibling]]
  <2> DEFINE h == [c \in DOMAIN s |->
            IF s[c].key = k \/ s[c].sibling = 0 THEN c ELSE g[s[c].sibling]]
  <2>1. \A c \in DOMAIN s : g[c] = h[c]
    <3>1. \A c \in DOMAIN s :
             h[c] = IF s[c].key = k \/ s[c].sibling = 0 THEN c ELSE g[s[c].sibling]
      OBVIOUS
    <3> HIDE DEF g, h
    <3>2. QED
      BY <1>1, <1>3, <3>1
  <2>2. g = h
    <3>1. g = [c \in DOMAIN s |-> g[c]] /\ h = [c \in DOMAIN s |-> h[c]]
      OBVIOUS
    <3> HIDE DEF g, h
    <3>2. QED
      BY <2>1, <3>1
  <2>3. QED
    BY <2>2
<1>5. IsGuess(s, k, g)
  <2> HIDE DEF g
  <2> QED
    BY <1>4 DEF IsGuess
<1>6. QED
  BY <1>5 DEF GuessOf

LEMMA TGuess ==
    ASSUME NEW s, NEW p, NEW k
    PROVE  T!guess_child(s, p, k) = GuessOf(s, k)[s[p].child]
BY DEF T!guess_child, GuessOf, IsGuess, T!null

LEMMA MGuess ==
    ASSUME NEW s, NEW p, NEW k
    PROVE  M!guess_child(s, p, k) = GuessOf(s, k)[s[p].child]
BY DEF M!guess_child, GuessOf, IsGuess, M!null

\* The calls of the trie on any nodes.
NewNode(k, p) == [parent |-> p, child |-> 0, sibling |-> 0, key |-> k, value |-> 0]
Guessed(s, p, k) == GuessOf(s, k)[s[p].child]
Found(s, p, k) ==
    IF s[p].child # 0 /\ s[Guessed(s, p, k)].key = k THEN Guessed(s, p, k) ELSE 0
Added(s, p, k) ==
    IF s[p].child = 0
    THEN Append([s EXCEPT ![p].child = Len(s) + 1], NewNode(k, p))
    ELSE Append([s EXCEPT ![Guessed(s, p, k)].sibling = Len(s) + 1],
                NewNode(k, s[Guessed(s, p, k)].parent))

LEMMA TCalls ==
    ASSUME NEW s, NEW p, NEW k
    PROVE  /\ T!find_child(s, p, k) = Found(s, p, k)
           /\ T!add_child(s, p, k) = IF Found(s, p, k) # 0 THEN s ELSE Added(s, p, k)
<1>1. T!find_child(s, p, k) = Found(s, p, k)
  BY TGuess DEF T!find_child, Found, Guessed, T!null
<1>2. QED
  BY <1>1, TGuess DEF T!add_child, Added, NewNode, Guessed, T!new_node, T!null

LEMMA MCalls ==
    ASSUME NEW s, NEW p, NEW k
    PROVE  /\ M!find_child(s, p, k) = Found(s, p, k)
           /\ M!add_child(s, p, k) = IF Found(s, p, k) # 0 THEN s ELSE Added(s, p, k)
<1>1. M!find_child(s, p, k) = Found(s, p, k)
  BY MGuess DEF M!find_child, Found, Guessed, M!null
<1>2. QED
  BY <1>1, MGuess DEF M!add_child, Added, NewNode, Guessed, M!new_node, M!null

LEMMA TrieNodes ==
    ASSUME NEW s, IsTrie(s)
    PROVE  /\ Len(s) \in Nat /\ DOMAIN s = 1 .. Len(s)
           /\ \A n \in 1 .. Len(s) :
                 /\ s[n] \in NodeOn(Int) /\ s[n].key \in Key
                 /\ s[n].parent \in Nat /\ s[n].child \in Nat /\ s[n].sibling \in Nat
                 /\ s[n].parent < n
                 /\ s[n].parent = 0 <=> n = 1
                 /\ s[n].parent # 0 => s[n].parent \in 1 .. Len(s)
<1>1. s \in Seq(NodeOn(Int)) /\ \A n \in 1 .. Len(s) : s[n].parent \in 0 .. n - 1
  BY DEF IsTrie
<1>2. Len(s) \in Nat /\ DOMAIN s = 1 .. Len(s)
  BY <1>1
<1>3. \A n \in 1 .. Len(s) : s[n] \in NodeOn(Int)
  BY <1>1
<1> SUFFICES ASSUME NEW n \in 1 .. Len(s)
             PROVE  /\ s[n] \in NodeOn(Int) /\ s[n].key \in Key
                    /\ s[n].parent \in Nat /\ s[n].child \in Nat /\ s[n].sibling \in Nat
                    /\ s[n].parent < n
                    /\ s[n].parent = 0 <=> n = 1
                    /\ s[n].parent # 0 => s[n].parent \in 1 .. Len(s)
  BY <1>2
<1>4. s[n] \in NodeOn(Int)
  BY <1>3
<1>5. s[n].key \in Key /\ s[n].parent \in Nat /\ s[n].child \in Nat /\ s[n].sibling \in Nat
  BY <1>4 DEF NodeOn
<1>6. s[n].parent \in 0 .. n - 1
  BY <1>1
<1>7. s[n].parent = 0 <=> n = 1
  BY DEF IsTrie
<1>8. s[n].parent < n /\ (s[n].parent # 0 => s[n].parent \in 1 .. Len(s))
  BY <1>2, <1>5, <1>6
<1>9. QED
  BY <1>4, <1>5, <1>7, <1>8

LEMMA GuessedIsKid ==
    ASSUME NEW s, IsTrie(s), NEW p \in 1 .. Len(s), NEW k
    PROVE  s[p].child # 0 =>
              /\ Guessed(s, p, k) \in Kids(s, p)
              /\ s[Guessed(s, p, k)].key = k \/ s[Guessed(s, p, k)].sibling = 0
              /\ \A d \in Kids(s, p) : s[d].key = k => d = Guessed(s, p, k)
<1> SUFFICES ASSUME s[p].child # 0
             PROVE  /\ Guessed(s, p, k) \in Kids(s, p)
                    /\ s[Guessed(s, p, k)].key = k \/ s[Guessed(s, p, k)].sibling = 0
                    /\ \A d \in Kids(s, p) : s[d].key = k => d = Guessed(s, p, k)
  OBVIOUS
<1> DEFINE c == s[p].child
           g == Guessed(s, p, k)
<1>1. Len(s) \in Nat
  BY TrieNodes
<1>2. c \in Kids(s, p) /\ \A d \in Kids(s, p) : c <= d
  BY DEF IsTrie, IsFirst
<1>3. c \in 1 .. Len(s) /\ s[c].parent = p
  BY <1>2 DEF Kids
<1>4. g = GuessOf(s, k)[c]
  BY DEF Guessed
<1> HIDE DEF c, g
<1>5. g \in Ends(s, k, c) /\ IsFirst(g, Ends(s, k, c))
  BY <1>3, <1>4, GuessExists, GuessIsFirst
<1>6. g \in Kids(s, p) /\ (s[g].key = k \/ s[g].sibling = 0)
  BY <1>3, <1>5 DEF Ends
<1>7. ASSUME NEW d \in Kids(s, p), s[d].key = k PROVE d = g
  <2>1. d \in Ends(s, k, c)
    BY <1>1, <1>2, <1>3, <1>7 DEF Ends, Kids
  <2>2. g <= d
    BY <1>5, <2>1 DEF IsFirst
  <2>3. g \in 1 .. Len(s) /\ d \in 1 .. Len(s) /\ s[g].parent = p /\ s[d].parent = p
    BY <1>6, <1>7 DEF Kids
  <2>4. CASE s[g].key = k
    BY <1>7, <2>3, <2>4 DEF IsTrie
  <2>5. CASE s[g].sibling = 0
    <3>1. 0 \notin Later(s, g)
      BY DEF Later, Kids
    <3>2. Later(s, g) = {}
      BY <2>3, <2>5, <3>1 DEF IsTrie, IsFirst
    <3>3. ~(d > g)
      BY <2>3, <3>2 DEF Later, Kids
    <3>4. QED
      BY <1>1, <2>2, <2>3, <3>3
  <2>6. QED
    BY <1>6, <2>4, <2>5
<1>8. QED
  BY <1>6, <1>7 DEF g

LEMMA FindsKid ==
    ASSUME NEW s, IsTrie(s), NEW p \in 1 .. Len(s), NEW k
    PROVE  \/ Found(s, p, k) = 0 /\ \A d \in Kids(s, p) : s[d].key # k
           \/ Found(s, p, k) \in Kids(s, p) /\ s[Found(s, p, k)].key = k
<1>1. CASE s[p].child = 0
  <2>1. 0 \notin Kids(s, p)
    BY DEF Kids
  <2>2. Kids(s, p) = {}
    BY <1>1, <2>1 DEF IsTrie, IsFirst
  <2>3. QED
    BY <1>1, <2>2 DEF Found
<1>2. CASE s[p].child # 0
  <2>1. /\ Guessed(s, p, k) \in Kids(s, p)
        /\ \A d \in Kids(s, p) : s[d].key = k => d = Guessed(s, p, k)
    BY <1>2, GuessedIsKid
  <2>2. CASE s[Guessed(s, p, k)].key = k
    BY <1>2, <2>1, <2>2 DEF Found
  <2>3. CASE s[Guessed(s, p, k)].key # k
    BY <1>2, <2>1, <2>3 DEF Found
  <2>4. QED
    BY <2>2, <2>3
<1>3. QED
  BY <1>1, <1>2

\* u is s with one more node, a child of p.
Grows(s, u, p, k) ==
    /\ Len(u) = Len(s) + 1
    /\ \A n \in 1 .. Len(s) :
          u[n].parent = s[n].parent /\ u[n].key = s[n].key /\ u[n].value = s[n].value
    /\ u[Len(s) + 1] = NewNode(k, p)

LEMMA AddsNode ==
    ASSUME NEW s, IsTrie(s), NEW p \in 1 .. Len(s), NEW k \in Key
    PROVE  /\ Added(s, p, k) \in Seq(NodeOn(Int))
           /\ Grows(s, Added(s, p, k), p, k)
           /\ \A n \in 1 .. Len(s) :
                 /\ Added(s, p, k)[n].child =
                       IF n = p /\ s[p].child = 0 THEN Len(s) + 1 ELSE s[n].child
                 /\ Added(s, p, k)[n].sibling =
                       IF s[p].child # 0 /\ n = Guessed(s, p, k) THEN Len(s) + 1
                       ELSE s[n].sibling
<1> DEFINE L == Len(s)
           g == Guessed(s, p, k)
<1>1. L \in Nat /\ s \in Seq(NodeOn(Int)) /\ L + 1 \in Nat /\ p \in Nat
  BY TrieNodes DEF IsTrie
<1>2. NewNode(k, p) \in NodeOn(Int)
  BY <1>1 DEF NewNode, NodeOn
<1>3. CASE s[p].child = 0
  <2> DEFINE e == [s EXCEPT ![p].child = L + 1]
  <2>1. e \in Seq(NodeOn(Int)) /\ Len(e) = L
    <3>1. s[p] \in NodeOn(Int)
      BY <1>1
    <3>2. [s[p] EXCEPT !.child = L + 1] \in NodeOn(Int)
      BY <1>1, <3>1 DEF NodeOn
    <3>3. s \in [1 .. L -> NodeOn(Int)]
      BY <1>1
    <3>4. e \in [1 .. L -> NodeOn(Int)]
      BY <3>2, <3>3
    <3> HIDE DEF e
    <3>5. QED
      BY <1>1, <3>4
  <2>2. \A n \in 1 .. L : e[n] = IF n = p THEN [s[p] EXCEPT !.child = L + 1] ELSE s[n]
    BY <1>1
  <2>3. \A n \in 1 .. L : s[n] \in NodeOn(Int)
    BY <1>1
  <2>4. Added(s, p, k) = Append(e, NewNode(k, p))
    BY <1>3 DEF Added
  <2> HIDE DEF e
  <2>5. /\ Added(s, p, k) \in Seq(NodeOn(Int)) /\ Len(Added(s, p, k)) = L + 1
        /\ \A n \in 1 .. L : Added(s, p, k)[n] = e[n]
        /\ Added(s, p, k)[L + 1] = NewNode(k, p)
    BY <1>2, <2>1, <2>4, AppendProperties
  <2>6. \A n \in 1 .. L : /\ e[n].parent = s[n].parent /\ e[n].key = s[n].key
                          /\ e[n].value = s[n].value /\ e[n].sibling = s[n].sibling
                          /\ e[n].child = IF n = p THEN L + 1 ELSE s[n].child
    BY <2>2, <2>3 DEF NodeOn
  <2>7. QED
    BY <1>3, <2>5, <2>6 DEF Grows
<1>4. CASE s[p].child # 0
  <2>1. g \in 1 .. L /\ s[g].parent = p
    BY <1>4, GuessedIsKid DEF Kids
  <2> HIDE DEF g
  <2> DEFINE e == [s EXCEPT ![g].sibling = L + 1]
  <2>2. e \in Seq(NodeOn(Int)) /\ Len(e) = L
    <3>1. s[g] \in NodeOn(Int)
      BY <2>1, <1>1
    <3>2. [s[g] EXCEPT !.sibling = L + 1] \in NodeOn(Int)
      BY <1>1, <3>1 DEF NodeOn
    <3>3. s \in [1 .. L -> NodeOn(Int)]
      BY <1>1
    <3>4. e \in [1 .. L -> NodeOn(Int)]
      BY <3>2, <3>3
    <3> HIDE DEF e
    <3>5. QED
      BY <1>1, <3>4
  <2>3. \A n \in 1 .. L : e[n] = IF n = g THEN [s[g] EXCEPT !.sibling = L + 1] ELSE s[n]
    BY <1>1
  <2>4. \A n \in 1 .. L : s[n] \in NodeOn(Int)
    BY <1>1
  <2>5. Added(s, p, k) = Append(e, NewNode(k, p))
    BY <1>4, <2>1 DEF Added, g
  <2> HIDE DEF e
  <2>6. /\ Added(s, p, k) \in Seq(NodeOn(Int)) /\ Len(Added(s, p, k)) = L + 1
        /\ \A n \in 1 .. L : Added(s, p, k)[n] = e[n]
        /\ Added(s, p, k)[L + 1] = NewNode(k, p)
    BY <1>2, <2>2, <2>5, AppendProperties
  <2>7. \A n \in 1 .. L : /\ e[n].parent = s[n].parent /\ e[n].key = s[n].key
                          /\ e[n].value = s[n].value /\ e[n].child = s[n].child
                          /\ e[n].sibling = IF n = g THEN L + 1 ELSE s[n].sibling
    BY <2>3, <2>4 DEF NodeOn
  <2>8. QED
    BY <1>4, <2>6, <2>7 DEF Grows, g
<1>5. QED
  BY <1>3, <1>4

\* A new child without a brother of its key goes behind all others.
LEMMA AddsKid ==
    ASSUME NEW s, IsTrie(s), NEW p \in 1 .. Len(s), NEW k \in Key, Found(s, p, k) = 0
    PROVE  /\ IsTrie(Added(s, p, k))
           /\ Grows(s, Added(s, p, k), p, k)
           /\ Found(Added(s, p, k), p, k) = Len(s) + 1
<1> DEFINE L == Len(s)
           u == Added(s, p, k)
           g == Guessed(s, p, k)
<1>1. /\ u \in Seq(NodeOn(Int)) /\ Grows(s, u, p, k)
      /\ \A n \in 1 .. L :
            /\ u[n].child = IF n = p /\ s[p].child = 0 THEN L + 1 ELSE s[n].child
            /\ u[n].sibling = IF s[p].child # 0 /\ n = g THEN L + 1 ELSE s[n].sibling
  BY AddsNode
<1>2. L \in Nat /\ Len(u) = L + 1
  BY <1>1, TrieNodes DEF Grows
<1>3. \A n \in 1 .. L : u[n].parent = s[n].parent /\ u[n].key = s[n].key
  BY <1>1 DEF Grows
<1>4. /\ u[L + 1].parent = p /\ u[L + 1].key = k
      /\ u[L + 1].child = 0 /\ u[L + 1].sibling = 0
  BY <1>1 DEF Grows, NewNode
<1>5. \A d \in Kids(s, p) : s[d].key # k
  <2>1. 0 \notin Kids(s, p)
    BY DEF Kids
  <2>2. QED
    BY <2>1, FindsKid
<1>6. s[p].child # 0 => g \in Kids(s, p) /\ s[g].sibling = 0
  BY <1>5, GuessedIsKid
<1>7. \A n \in 1 .. L : s[n].parent \in Nat /\ s[n].parent < n /\ (s[n].parent = 0 <=> n = 1)
  BY TrieNodes
<1> HIDE DEF u, g
<1>8. \A n \in 1 .. L :
         Kids(u, n) = IF n = p THEN Kids(s, p) \cup {L + 1} ELSE Kids(s, n)
  BY <1>2, <1>3, <1>4 DEF Kids
<1>9. Kids(u, L + 1) = {}
  <2> SUFFICES ASSUME NEW d \in 1 .. L + 1, u[d].parent = L + 1 PROVE FALSE
    BY <1>2 DEF Kids
  <2>1. CASE d = L + 1
    BY <1>2, <1>4, <2>1
  <2>2. CASE d \in 1 .. L
    BY <1>2, <1>3, <1>7, <2>2
  <2>3. QED
    BY <1>2, <2>1, <2>2
<1>10. \A n \in 1 .. L :
          Later(u, n) = IF s[n].parent = p THEN Later(s, n) \cup {L + 1} ELSE Later(s, n)
  <2> SUFFICES ASSUME NEW n \in 1 .. L
               PROVE  Later(u, n) = IF s[n].parent = p THEN Later(s, n) \cup {L + 1}
                                    ELSE Later(s, n)
    OBVIOUS
  <2>1. \A d : d \in Later(u, n) <=> d \in 1 .. L + 1 /\ u[d].parent = s[n].parent /\ d > n
    BY <1>2, <1>3 DEF Later, Kids
  <2>2. \A d : d \in Later(s, n) <=> d \in 1 .. L /\ s[d].parent = s[n].parent /\ d > n
    BY DEF Later, Kids
  <2>3. \A d : d \in Later(u, n) <=> d \in Later(s, n) \/ (d = L + 1 /\ s[n].parent = p)
    BY <1>2, <1>3, <1>4, <2>1, <2>2
  <2>4. QED
    BY <2>3
<1>11. Later(u, L + 1) = {}
  BY <1>2 DEF Later, Kids
<1>12. \A n \in 1 .. L : IsFirst(s[n].child, Kids(s, n)) /\ IsFirst(s[n].sibling, Later(s, n))
  BY DEF IsTrie
<1>13. \A n \in 1 .. L : 0 \notin Kids(s, n) /\ 0 \notin Later(s, n)
  BY DEF Kids, Later
<1>14. \A n \in 1 .. L + 1 : IsFirst(u[n].child, Kids(u, n))
  <2> SUFFICES ASSUME NEW n \in 1 .. L + 1 PROVE IsFirst(u[n].child, Kids(u, n))
    OBVIOUS
  <2>1. CASE n = L + 1
    BY <1>4, <1>9, <2>1 DEF IsFirst
  <2>2. CASE n \in 1 .. L /\ n # p
    BY <1>1, <1>8, <1>12, <2>2
  <2>3. CASE n = p /\ s[p].child = 0
    <3>1. Kids(s, p) = {}
      BY <1>12, <1>13, <2>3 DEF IsFirst
    <3>2. u[p].child = L + 1 /\ Kids(u, p) = {L + 1}
      BY <1>1, <1>8, <2>3, <3>1
    <3>3. QED
      BY <1>2, <2>3, <3>2 DEF IsFirst
  <2>4. CASE n = p /\ s[p].child # 0
    <3>1. u[p].child = s[p].child /\ Kids(u, p) = Kids(s, p) \cup {L + 1}
      BY <1>1, <1>8, <2>4
    <3>2. s[p].child \in Kids(s, p) /\ \A y \in Kids(s, p) : s[p].child <= y
      BY <1>12, <2>4 DEF IsFirst
    <3>3. s[p].child <= L + 1
      BY <1>2, <3>2 DEF Kids
    <3>4. QED
      BY <2>4, <3>1, <3>2, <3>3 DEF IsFirst
  <2>5. QED
    BY <1>2, <2>1, <2>2, <2>3, <2>4
<1>15. \A n \in 1 .. L + 1 : IsFirst(u[n].sibling, Later(u, n))
  <2> SUFFICES ASSUME NEW n \in 1 .. L + 1 PROVE IsFirst(u[n].sibling, Later(u, n))
    OBVIOUS
  <2>1. CASE n = L + 1
    BY <1>4, <1>11, <2>1 DEF IsFirst
  <2>2. CASE n \in 1 .. L /\ s[n].parent # p
    <3>1. s[p].child # 0 => n # g
      BY <1>6, <2>2 DEF Kids
    <3>2. u[n].sibling = s[n].sibling /\ Later(u, n) = Later(s, n)
      BY <1>1, <1>10, <2>2, <3>1
    <3>3. QED
      BY <1>12, <2>2, <3>2
  <2>3. CASE n \in 1 .. L /\ s[n].parent = p
    <3>1. n \in Kids(s, p) /\ s[p].child # 0
      <4>1. n \in Kids(s, p)
        BY <2>3 DEF Kids
      <4>2. QED
        BY <1>12, <1>13, <4>1 DEF IsFirst
    <3>2. g \in 1 .. L /\ s[g].parent = p /\ s[g].sibling = 0
      BY <1>6, <3>1 DEF Kids
    <3>3. Later(s, g) = {}
      BY <1>12, <1>13, <3>2 DEF IsFirst
    <3>4. Later(u, n) = Later(s, n) \cup {L + 1}
      BY <1>10, <2>3
    <3>5. CASE n = g
      <4>1. u[n].sibling = L + 1 /\ Later(u, n) = {L + 1}
        BY <1>1, <2>3, <3>1, <3>3, <3>4, <3>5
      <4>2. QED
        BY <1>2, <4>1 DEF IsFirst
    <3>6. CASE n # g
      <4>1. u[n].sibling = s[n].sibling
        BY <1>1, <2>3, <3>6
      <4>2. g \in Later(s, n)
        <5>1. n \notin Later(s, g)
          BY <3>3
        <5>2. ~(n > g)
          BY <2>3, <3>2, <5>1 DEF Later, Kids
        <5>3. g > n
          BY <1>2, <2>3, <3>2, <3>6, <5>2
        <5>4. QED
          BY <2>3, <3>2, <5>3 DEF Later, Kids
      <4>3. s[n].sibling \in Later(s, n) /\ \A y \in Later(s, n) : s[n].sibling <= y
        BY <1>12, <2>3, <4>2 DEF IsFirst
      <4>4. s[n].sibling <= L + 1
        BY <1>2, <4>3 DEF Later, Kids
      <4>5. QED
        BY <3>4, <4>1, <4>3, <4>4 DEF IsFirst
    <3>7. QED
      BY <3>5, <3>6
  <2>4. QED
    BY <1>2, <2>1, <2>2, <2>3
<1>16. \A n \in 1 .. L + 1 : u[n].parent \in 0 .. n - 1 /\ (u[n].parent = 0 <=> n = 1)
  <2> SUFFICES ASSUME NEW n \in 1 .. L + 1
               PROVE  u[n].parent \in 0 .. n - 1 /\ (u[n].parent = 0 <=> n = 1)
    OBVIOUS
  <2>1. CASE n = L + 1
    BY <1>2, <1>4, <2>1
  <2>2. CASE n \in 1 .. L
    BY <1>2, <1>3, <1>7, <2>2
  <2>3. QED
    BY <1>2, <2>1, <2>2
<1>17. \A m, n \in 1 .. L + 1 : u[m].parent = u[n].parent /\ u[m].key = u[n].key => m = n
  <2> SUFFICES ASSUME NEW m \in 1 .. L + 1, NEW n \in 1 .. L + 1,
                      u[m].parent = u[n].parent, u[m].key = u[n].key
               PROVE  m = n
    OBVIOUS
  <2>1. ASSUME NEW d \in 1 .. L, u[d].parent = p, u[d].key = k PROVE FALSE
    BY <1>3, <1>5, <2>1 DEF Kids
  <2>2. CASE m \in 1 .. L /\ n \in 1 .. L
    BY <1>3, <2>2 DEF IsTrie
  <2>3. CASE m = L + 1 \/ n = L + 1
    BY <1>2, <1>4, <2>1, <2>3
  <2>4. QED
    BY <1>2, <2>2, <2>3
<1>18. IsTrie(u)
  BY <1>1, <1>2, <1>14, <1>15, <1>16, <1>17 DEF IsTrie
<1>19. Found(u, p, k) = L + 1
  <2>1. p \in 1 .. Len(u) /\ L + 1 \in Kids(u, p)
    BY <1>2, <1>8
  <2>2. 0 \notin Kids(u, p)
    BY DEF Kids
  <2>3. Found(u, p, k) \in Kids(u, p) /\ u[Found(u, p, k)].key = k
    BY <1>4, <1>18, <2>1, FindsKid
  <2>4. QED
    BY <1>2, <1>4, <1>17, <2>3 DEF Kids
<1>20. QED
  BY <1>1, <1>18, <1>19 DEF u

\* u is s but for the values.
SameLinks(s, u) ==
    /\ u \in Seq(NodeOn(Int)) /\ Len(u) = Len(s)
    /\ \A n \in 1 .. Len(s) :
          /\ u[n].parent = s[n].parent /\ u[n].key = s[n].key
          /\ u[n].child = s[n].child /\ u[n].sibling = s[n].sibling

LEMMA LinksStay == ASSUME NEW s, IsTrie(s), NEW u, SameLinks(s, u) PROVE IsTrie(u)
<1>1. \A n \in 1 .. Len(s) : Kids(u, n) = Kids(s, n) /\ Later(u, n) = Later(s, n)
  BY DEF SameLinks, Kids, Later
<1>2. \A n \in 1 .. Len(s) :
         /\ s[n].parent \in 0 .. n - 1
         /\ s[n].parent = 0 <=> n = 1
         /\ IsFirst(s[n].child, Kids(s, n))
         /\ IsFirst(s[n].sibling, Later(s, n))
  BY DEF IsTrie
<1>3. \A n \in 1 .. Len(s) :
         /\ u[n].parent \in 0 .. n - 1
         /\ u[n].parent = 0 <=> n = 1
         /\ IsFirst(u[n].child, Kids(u, n))
         /\ IsFirst(u[n].sibling, Later(u, n))
  BY <1>1, <1>2 DEF SameLinks
<1>4. \A m, n \in 1 .. Len(u) :
         u[m].parent = u[n].parent /\ u[m].key = u[n].key => m = n
  BY DEF SameLinks, IsTrie
<1>5. QED
  BY <1>3, <1>4 DEF IsTrie, SameLinks

\* The program changes the value of n.
Valued(s, n, v) == [s EXCEPT ![n].value = v]

LEMMA ValueChanges ==
    ASSUME NEW s, s \in Seq(NodeOn(Int)), NEW n \in 1 .. Len(s), NEW v \in Int
    PROVE  /\ SameLinks(s, Valued(s, n, v))
           /\ \A m \in 1 .. Len(s) :
                 Valued(s, n, v)[m].value = IF m = n THEN v ELSE s[m].value
<1> DEFINE e == [s EXCEPT ![n].value = v]
<1>1. s \in [1 .. Len(s) -> NodeOn(Int)] /\ Len(s) \in Nat
  OBVIOUS
<1>2. s[n] \in NodeOn(Int)
  BY <1>1
<1>3. [s[n] EXCEPT !.value = v] \in NodeOn(Int)
  BY <1>2 DEF NodeOn
<1>4. e \in [1 .. Len(s) -> NodeOn(Int)]
  BY <1>1, <1>3
<1>5. \A m \in 1 .. Len(s) : e[m] = IF m = n THEN [s[n] EXCEPT !.value = v] ELSE s[m]
  BY <1>1
<1>6. \A m \in 1 .. Len(s) :
          /\ e[m].parent = s[m].parent /\ e[m].key = s[m].key
          /\ e[m].child = s[m].child /\ e[m].sibling = s[m].sibling
          /\ e[m].value = IF m = n THEN v ELSE s[m].value
  <2> SUFFICES ASSUME NEW m \in 1 .. Len(s)
               PROVE  /\ e[m].parent = s[m].parent /\ e[m].key = s[m].key
                      /\ e[m].child = s[m].child /\ e[m].sibling = s[m].sibling
                      /\ e[m].value = IF m = n THEN v ELSE s[m].value
    OBVIOUS
  <2> HIDE DEF e
  <2>1. CASE m = n
    BY <1>2, <1>5, <2>1 DEF NodeOn
  <2>2. CASE m # n
    BY <1>5, <2>2
  <2>3. QED
    BY <2>1, <2>2
<1> HIDE DEF e
<1>7. e \in Seq(NodeOn(Int)) /\ Len(e) = Len(s)
  BY <1>1, <1>4
<1>8. QED
  BY <1>6, <1>7 DEF e, Valued, SameLinks

LEMMA NoTrie == IsTrie(<<>>)
BY DEF IsTrie

LEMMA OneNode == ASSUME NEW k \in Key PROVE IsTrie(<<NewNode(k, 0)>>) /\ Len(<<NewNode(k, 0)>>) = 1
<1> DEFINE s == <<NewNode(k, 0)>>
<1>1. NewNode(k, 0) \in NodeOn(Int)
  BY DEF NewNode, NodeOn
<1>2. s \in Seq(NodeOn(Int)) /\ Len(s) = 1 /\ s[1] = NewNode(k, 0)
  BY <1>1
<1> HIDE DEF s
<1>3. /\ s[1].parent = 0 /\ s[1].child = 0 /\ s[1].sibling = 0 /\ s[1].key = k
  BY <1>2 DEF NewNode
<1>4. Kids(s, 1) = {} /\ Later(s, 1) = {}
  BY <1>2, <1>3 DEF Kids, Later
<1>5. QED
  BY <1>2, <1>3, <1>4 DEF IsTrie, IsFirst, s

\* create(): the nodes of one path.
ChainOf(q) ==
    [i \in DOMAIN q |->
        [NewNode(q[i], i - 1) EXCEPT !.child = IF i < Len(q) THEN i + 1 ELSE 0]]

LEMMA ChainNodes ==
    ASSUME NEW q \in Seq(Key)
    PROVE  /\ ChainOf(q) \in Seq(NodeOn(Int)) /\ Len(ChainOf(q)) = Len(q)
           /\ \A i \in 1 .. Len(q) :
                 /\ ChainOf(q)[i].parent = i - 1 /\ ChainOf(q)[i].key = q[i]
                 /\ ChainOf(q)[i].child = IF i < Len(q) THEN i + 1 ELSE 0
                 /\ ChainOf(q)[i].sibling = 0 /\ ChainOf(q)[i].value = 0
<1>1. Len(q) \in Nat /\ DOMAIN q = 1 .. Len(q) /\ \A i \in 1 .. Len(q) : q[i] \in Key
  OBVIOUS
<1>2. \A i \in 1 .. Len(q) :
         ChainOf(q)[i] = [NewNode(q[i], i - 1) EXCEPT !.child = IF i < Len(q) THEN i + 1 ELSE 0]
  BY <1>1 DEF ChainOf
<1>3. \A i \in 1 .. Len(q) :
         ChainOf(q)[i] = [parent |-> i - 1, child |-> IF i < Len(q) THEN i + 1 ELSE 0,
                          sibling |-> 0, key |-> q[i], value |-> 0]
  BY <1>2 DEF NewNode
<1>4. ASSUME NEW i \in 1 .. Len(q)
      PROVE  /\ ChainOf(q)[i] \in NodeOn(Int)
             /\ ChainOf(q)[i].parent = i - 1 /\ ChainOf(q)[i].key = q[i]
             /\ ChainOf(q)[i].child = IF i < Len(q) THEN i + 1 ELSE 0
             /\ ChainOf(q)[i].sibling = 0 /\ ChainOf(q)[i].value = 0
  <2>1. PICK c : c = IF i < Len(q) THEN i + 1 ELSE 0
    OBVIOUS
  <2>2. ChainOf(q)[i] = [parent |-> i - 1, child |-> c, sibling |-> 0, key |-> q[i], value |-> 0]
    BY <1>3, <1>4, <2>1
  <2>3. c \in Nat /\ i - 1 \in Nat /\ q[i] \in Key
    BY <1>1, <1>4, <2>1
  <2>4. ChainOf(q)[i] \in NodeOn(Int)
    BY <2>2, <2>3 DEF NodeOn
  <2>5. /\ ChainOf(q)[i].parent = i - 1 /\ ChainOf(q)[i].key = q[i]
        /\ ChainOf(q)[i].child = c
        /\ ChainOf(q)[i].sibling = 0 /\ ChainOf(q)[i].value = 0
    BY <2>2
  <2>6. QED
    BY <2>1, <2>4, <2>5
<1>5. ChainOf(q) \in [1 .. Len(q) -> NodeOn(Int)]
  BY <1>1, <1>4 DEF ChainOf
<1>6. ChainOf(q) \in Seq(NodeOn(Int)) /\ Len(ChainOf(q)) = Len(q)
  BY <1>1, <1>5
<1>7. QED
  BY <1>4, <1>6

LEMMA ChainIsTrie == ASSUME NEW q \in Seq(Key) PROVE IsTrie(ChainOf(q))
<1> DEFINE s == ChainOf(q)
<1>1. Len(s) = Len(q) /\ Len(q) \in Nat /\ s \in Seq(NodeOn(Int))
  BY ChainNodes
<1>2. \A i \in 1 .. Len(q) :
         /\ s[i].parent = i - 1
         /\ s[i].child = IF i < Len(q) THEN i + 1 ELSE 0
         /\ s[i].sibling = 0
  BY ChainNodes
<1> HIDE DEF s
<1>3. \A n \in 1 .. Len(q) : Kids(s, n) = IF n < Len(q) THEN {n + 1} ELSE {}
  <2> SUFFICES ASSUME NEW n \in 1 .. Len(q)
               PROVE  Kids(s, n) = IF n < Len(q) THEN {n + 1} ELSE {}
    OBVIOUS
  <2>1. \A d \in 1 .. Len(q) : s[d].parent = n <=> d = n + 1
    BY <1>1, <1>2
  <2>2. QED
    BY <1>1, <2>1 DEF Kids
<1>4. \A n \in 1 .. Len(q) : Later(s, n) = {}
  <2> SUFFICES ASSUME NEW n \in 1 .. Len(q), NEW d \in Later(s, n) PROVE FALSE
    OBVIOUS
  <2>1. d \in 1 .. Len(q) /\ s[d].parent = s[n].parent /\ d > n
    BY <1>1 DEF Later, Kids
  <2>2. d - 1 = n - 1
    BY <1>2, <2>1
  <2>3. QED
    BY <1>1, <2>1, <2>2
<1>5. \A n \in 1 .. Len(q) : IsFirst(s[n].child, Kids(s, n)) /\ IsFirst(s[n].sibling, Later(s, n))
  <2> SUFFICES ASSUME NEW n \in 1 .. Len(q)
               PROVE  IsFirst(s[n].child, Kids(s, n)) /\ IsFirst(s[n].sibling, Later(s, n))
    OBVIOUS
  <2>1. n + 1 \in Nat
    BY <1>1
  <2>2. QED
    BY <1>1, <1>2, <1>3, <1>4, <2>1 DEF IsFirst
<1>6. \A n \in 1 .. Len(q) : s[n].parent \in 0 .. n - 1 /\ (s[n].parent = 0 <=> n = 1)
  BY <1>1, <1>2
<1>7. \A m, n \in 1 .. Len(q) : s[m].parent = s[n].parent => m = n
  BY <1>1, <1>2
<1>8. IsTrie(s)
  BY <1>1, <1>5, <1>6, <1>7 DEF IsTrie
<1>9. QED
  BY <1>8 DEF s

LEMMA TChain ==
    ASSUME NEW q PROVE T!Chain(q) = ChainOf(q) /\ M!Chain(q) = ChainOf(q)
BY DEF T!Chain, M!Chain, ChainOf, NewNode, T!new_node, M!new_node, T!null, M!null

-----------------------------------------------------------------------------
(* The paths of the nodes.                                                 *)

PathFun(s, g) ==
    g = [n \in DOMAIN s \cup {0} |->
            IF n = 0 THEN <<>> ELSE Append(g[s[n].parent], s[n].key)]
PathsOf(s) == CHOOSE g : PathFun(s, g)

LEMMA TPaths ==
    ASSUME NEW n PROVE T!PathTo(n) = PathsOf(t_nodes)[n] /\ M!PathTo(n) = PathsOf(m_nodes)[n]
BY DEF T!PathTo, M!PathTo, T!Node, M!Node, PathsOf, PathFun, T!null, M!null

ArePaths(s, g) ==
    /\ g \in [0 .. Len(s) -> Seq(Key)]
    /\ g[0] = <<>>
    /\ \A n \in 1 .. Len(s) : g[n] = Append(g[s[n].parent], s[n].key)

LEMMA PathsExist == ASSUME NEW s, IsTrie(s) PROVE \E g : PathFun(s, g)
<1> DEFINE Upto(m, g) == g = [n \in 0 .. m |->
                            IF n = 0 THEN <<>> ELSE Append(g[s[n].parent], s[n].key)]
           bad == {m \in Nat : m <= Len(s) /\ ~\E g : Upto(m, g)}
<1>1. Len(s) \in Nat /\ DOMAIN s \cup {0} = 0 .. Len(s)
  BY TrieNodes
<1>2. bad \in SUBSET Nat
  OBVIOUS
<1>3. ASSUME bad # {} PROVE FALSE
  <2>1. PICK m \in bad : \A j \in bad : m <= j
    <3> HIDE DEF bad
    <3> QED
      BY <1>2, <1>3, LeastExists
  <2>2. m \in Nat /\ m <= Len(s) /\ ~\E g : Upto(m, g)
    OBVIOUS
  <2>3. m # 0
    <3>1. Upto(0, [n \in 0 .. 0 |-> <<>>])
      OBVIOUS
    <3>2. QED
      BY <2>2, <3>1
  <2>4. \E g : Upto(m - 1, g)
    <3>1. m - 1 \in Nat /\ m - 1 <= Len(s) /\ ~(m <= m - 1)
      BY <1>1, <2>2, <2>3
    <3>2. m - 1 \notin bad
      BY <2>1, <3>1
    <3>3. QED
      BY <3>1, <3>2
  <2>5. PICK g : Upto(m - 1, g)
    BY <2>4
  <2> DEFINE h == [n \in 0 .. m |-> IF n = m THEN Append(g[s[m].parent], s[m].key) ELSE g[n]]
  <2>6. m \in 1 .. Len(s) /\ s[m].parent \in 0 .. m - 1
    BY <1>1, <2>2, <2>3 DEF IsTrie
  <2>7. \A n \in 0 .. m :
           h[n] = IF n = 0 THEN <<>> ELSE Append(h[s[n].parent], s[n].key)
    <3> SUFFICES ASSUME NEW n \in 0 .. m
                 PROVE  h[n] = IF n = 0 THEN <<>> ELSE Append(h[s[n].parent], s[n].key)
      OBVIOUS
    <3>1. \A i \in 0 .. m - 1 : h[i] = g[i]
      BY <2>2
    <3>2. \A i \in 0 .. m - 1 :
             g[i] = IF i = 0 THEN <<>> ELSE Append(g[s[i].parent], s[i].key)
      BY <2>5
    <3>3. h[m] = Append(g[s[m].parent], s[m].key)
      BY <2>2
    <3> HIDE DEF h
    <3>4. CASE n = m
      BY <2>3, <2>6, <3>1, <3>3, <3>4
    <3>5. CASE n # m
      <4>1. n \in 0 .. m - 1
        BY <2>2, <3>5
      <4>2. CASE n = 0
        BY <3>1, <3>2, <4>1, <4>2
      <4>3. CASE n # 0
        <5>1. n \in 1 .. Len(s) /\ s[n].parent \in 0 .. n - 1
          BY <1>1, <2>2, <4>1, <4>3 DEF IsTrie
        <5>2. s[n].parent \in 0 .. m - 1
          BY <2>2, <4>1, <5>1
        <5>3. QED
          BY <3>1, <3>2, <4>1, <4>3, <5>2
      <4>4. QED
        BY <4>2, <4>3
    <3>6. QED
      BY <3>4, <3>5
  <2>8. Upto(m, h)
    <3> DEFINE j == [n \in 0 .. m |-> IF n = 0 THEN <<>> ELSE Append(h[s[n].parent], s[n].key)]
    <3>1. \A n \in 0 .. m : h[n] = j[n]
      BY <2>7
    <3>2. h = [n \in 0 .. m |-> h[n]] /\ j = [n \in 0 .. m |-> j[n]]
      OBVIOUS
    <3>3. h = j
      <4> HIDE DEF h, j
      <4> QED
        BY <3>1, <3>2
    <3>4. QED
      BY <3>3
  <2>9. QED
    BY <2>2, <2>8
<1>4. \E g : Upto(Len(s), g)
  BY <1>1, <1>3
<1>5. QED
  BY <1>1, <1>4 DEF PathFun

LEMMA PathsArePaths == ASSUME NEW s, IsTrie(s) PROVE ArePaths(s, PathsOf(s))
<1> DEFINE g == PathsOf(s)
<1>1. Len(s) \in Nat /\ DOMAIN s \cup {0} = 0 .. Len(s)
  BY TrieNodes
<1>2. PathFun(s, g)
  BY PathsExist DEF PathsOf
<1> HIDE DEF g
<1>3. /\ g[0] = <<>>
      /\ \A n \in 1 .. Len(s) : g[n] = Append(g[s[n].parent], s[n].key)
      /\ g = [n \in 0 .. Len(s) |-> g[n]]
  <2>1. g = [n \in 0 .. Len(s) |->
                IF n = 0 THEN <<>> ELSE Append(g[s[n].parent], s[n].key)]
    BY <1>1, <1>2 DEF PathFun
  <2>2. \A n \in 0 .. Len(s) : g[n] = IF n = 0 THEN <<>> ELSE Append(g[s[n].parent], s[n].key)
    BY <2>1
  <2>3. g = [n \in 0 .. Len(s) |-> g[n]]
    BY <2>1
  <2>4. QED
    BY <1>1, <2>2, <2>3
<1>4. \A n \in 0 .. Len(s) : g[n] \in Seq(Key)
  <2> DEFINE bad == {n \in 0 .. Len(s) : g[n] \notin Seq(Key)}
  <2> SUFFICES ASSUME bad # {} PROVE FALSE
    OBVIOUS
  <2>1. bad \in SUBSET Nat
    BY <1>1
  <2>2. PICK n \in bad : \A m \in bad : n <= m
    <3> HIDE DEF bad
    <3> QED
      BY <2>1, LeastExists
  <2>3. n \in 0 .. Len(s) /\ g[n] \notin Seq(Key)
    OBVIOUS
  <2>4. n # 0
    <3>1. <<>> \in Seq(Key)
      OBVIOUS
    <3>2. QED
      BY <1>3, <2>3, <3>1
  <2>5. n \in 1 .. Len(s) /\ s[n].parent \in 0 .. Len(s) /\ s[n].parent < n /\ s[n].key \in Key
    BY <1>1, <2>3, <2>4, TrieNodes
  <2>6. s[n].parent \notin bad
    BY <1>1, <2>2, <2>5
  <2>7. g[s[n].parent] \in Seq(Key)
    BY <2>5, <2>6
  <2>8. g[n] \in Seq(Key)
    BY <1>3, <2>5, <2>7
  <2>9. QED
    BY <2>3, <2>8
<1>5. QED
  BY <1>3, <1>4 DEF ArePaths, g

LEMMA PathsAgree ==
    ASSUME NEW s, IsTrie(s), NEW u, IsTrie(u), NEW L \in Nat, L <= Len(s), L <= Len(u),
           \A n \in 1 .. L : u[n].parent = s[n].parent /\ u[n].key = s[n].key
    PROVE  \A n \in 0 .. L : PathsOf(u)[n] = PathsOf(s)[n]
<1> DEFINE g == PathsOf(s)
           h == PathsOf(u)
           bad == {n \in 0 .. L : h[n] # g[n]}
<1> SUFFICES ASSUME bad # {} PROVE FALSE
  OBVIOUS
<1>1. ArePaths(s, g) /\ ArePaths(u, h)
  BY PathsArePaths
<1>2. bad \in SUBSET Nat
  OBVIOUS
<1>3. PICK n \in bad : \A m \in bad : n <= m
  <2> HIDE DEF bad
  <2> QED
    BY <1>2, LeastExists
<1>4. n \in 0 .. L /\ h[n] # g[n]
  OBVIOUS
<1> HIDE DEF g, h
<1>5. n # 0
  BY <1>1, <1>4 DEF ArePaths
<1>6. n \in 1 .. Len(s) /\ n \in 1 .. Len(u) /\ n \in 1 .. L
  BY <1>4, <1>5, TrieNodes
<1>7. s[n].parent \in Nat /\ s[n].parent < n
  BY <1>6, TrieNodes
<1>8. s[n].parent \in 0 .. L /\ s[n].parent \notin bad
  BY <1>3, <1>4, <1>7
<1>9. h[s[n].parent] = g[s[n].parent]
  BY <1>8
<1>10. h[n] = Append(h[u[n].parent], u[n].key) /\ g[n] = Append(g[s[n].parent], s[n].key)
  BY <1>1, <1>6 DEF ArePaths
<1>11. QED
  BY <1>4, <1>6, <1>9, <1>10

\* A node's path is its parent's and its key.
LEMMA PathEnds ==
    ASSUME NEW s, IsTrie(s), NEW n \in 1 .. Len(s)
    PROVE  /\ PathsOf(s)[n] \in Seq(Key) /\ PathsOf(s)[s[n].parent] \in Seq(Key)
           /\ s[n].parent \in 0 .. Len(s)
           /\ PathsOf(s)[n] = Append(PathsOf(s)[s[n].parent], s[n].key)
           /\ Len(PathsOf(s)[n]) = Len(PathsOf(s)[s[n].parent]) + 1
           /\ PathsOf(s)[n][Len(PathsOf(s)[n])] = s[n].key
           /\ \A i \in 1 .. Len(PathsOf(s)[s[n].parent]) :
                 PathsOf(s)[n][i] = PathsOf(s)[s[n].parent][i]
<1> DEFINE g == PathsOf(s)
<1>1. ArePaths(s, g)
  BY PathsArePaths
<1>2. Len(s) \in Nat /\ s[n].parent \in Nat /\ s[n].parent < n /\ s[n].key \in Key
  BY TrieNodes
<1> HIDE DEF g
<1>3. s[n].parent \in 0 .. Len(s) /\ n \in 0 .. Len(s)
  BY <1>2
<1>4. g[n] \in Seq(Key) /\ g[s[n].parent] \in Seq(Key)
  BY <1>1, <1>3 DEF ArePaths
<1>5. g[n] = Append(g[s[n].parent], s[n].key)
  BY <1>1 DEF ArePaths
<1>6. /\ Len(g[n]) = Len(g[s[n].parent]) + 1
      /\ g[n][Len(g[s[n].parent]) + 1] = s[n].key
      /\ \A i \in 1 .. Len(g[s[n].parent]) : g[n][i] = g[s[n].parent][i]
  BY <1>2, <1>4, <1>5, AppendProperties
<1>7. QED
  BY <1>3, <1>4, <1>5, <1>6 DEF g

LEMMA NoPath == ASSUME NEW s, IsTrie(s) PROVE PathsOf(s)[0] = <<>>
BY PathsArePaths DEF ArePaths

LEMMA SameAppend ==
    ASSUME NEW s \in Seq(Key), NEW t \in Seq(Key), NEW a \in Key, NEW b \in Key,
           Append(s, a) = Append(t, b)
    PROVE  s = t /\ a = b
<1>1. /\ Len(Append(s, a)) = Len(s) + 1 /\ Append(s, a)[Len(s) + 1] = a
      /\ \A i \in 1 .. Len(s) : Append(s, a)[i] = s[i]
  BY AppendProperties
<1>2. /\ Len(Append(t, b)) = Len(t) + 1 /\ Append(t, b)[Len(t) + 1] = b
      /\ \A i \in 1 .. Len(t) : Append(t, b)[i] = t[i]
  BY AppendProperties
<1>3. Len(s) = Len(t) /\ a = b
  BY <1>1, <1>2
<1>4. \A i \in 1 .. Len(s) : s[i] = t[i]
  BY <1>1, <1>2, <1>3
<1>5. QED
  BY <1>3, <1>4, SeqEqual

\* No two nodes have one path.
LEMMA PathsDiffer ==
    ASSUME NEW s, IsTrie(s), NEW a \in 0 .. Len(s), NEW b \in 0 .. Len(s),
           PathsOf(s)[a] = PathsOf(s)[b]
    PROVE  a = b
<1> DEFINE g == PathsOf(s)
           bad == {n \in 0 .. Len(s) : \E m \in 0 .. Len(s) : m # n /\ g[m] = g[n]}
<1>1. Len(s) \in Nat
  BY TrieNodes
<1> SUFFICES ASSUME bad # {} PROVE FALSE
  OBVIOUS
<1>2. bad \in SUBSET Nat
  BY <1>1
<1>3. PICK n \in bad : \A m \in bad : n <= m
  <2> HIDE DEF bad
  <2> QED
    BY <1>2, LeastExists
<1>4. PICK m \in 0 .. Len(s) : m # n /\ g[m] = g[n]
  OBVIOUS
<1>5. n \in 0 .. Len(s)
  OBVIOUS
<1>6. m \in bad
  BY <1>4, <1>5
<1>7. m > n
  BY <1>1, <1>3, <1>4, <1>5, <1>6
<1>8. m \in 1 .. Len(s)
  BY <1>1, <1>4, <1>5, <1>7
<1>9. g[0] = <<>>
  BY NoPath
<1>10. n # 0
  <2>1. g[m] \in Seq(Key) /\ g[s[m].parent] \in Seq(Key) /\ Len(g[m]) = Len(g[s[m].parent]) + 1
    BY <1>8, PathEnds
  <2> HIDE DEF g
  <2>2. Len(g[m]) # 0
    BY <2>1
  <2>3. QED
    BY <1>4, <1>9, <2>2
<1>11. n \in 1 .. Len(s)
  BY <1>1, <1>5, <1>10
<1>12. /\ g[n] = Append(g[s[n].parent], s[n].key) /\ g[m] = Append(g[s[m].parent], s[m].key)
       /\ g[s[n].parent] \in Seq(Key) /\ g[s[m].parent] \in Seq(Key)
  BY <1>8, <1>11, PathEnds
<1>13. s[n].key \in Key /\ s[m].key \in Key
  BY <1>8, <1>11, TrieNodes
<1>14. g[s[n].parent] = g[s[m].parent] /\ s[n].key = s[m].key
  <2> HIDE DEF g
  <2>1. Append(g[s[n].parent], s[n].key) = Append(g[s[m].parent], s[m].key)
    BY <1>4, <1>12
  <2>2. PICK x \in Seq(Key), y \in Seq(Key), a1 \in Key, b1 \in Key :
           x = g[s[n].parent] /\ y = g[s[m].parent] /\ a1 = s[n].key /\ b1 = s[m].key
    BY <1>12, <1>13
  <2>3. Append(x, a1) = Append(y, b1)
    BY <2>1, <2>2
  <2>4. x = y /\ a1 = b1
    BY <2>3, SameAppend
  <2>5. QED
    BY <2>2, <2>4
<1>15. s[n].parent \in 0 .. Len(s) /\ s[m].parent \in 0 .. Len(s) /\ s[n].parent < n
  <2>1. s[n].parent < n
    BY <1>11, TrieNodes
  <2>2. QED
    BY <1>8, <1>11, <2>1, PathEnds
<1>16. s[n].parent \notin bad
  <2> HIDE DEF bad
  <2> QED
    BY <1>1, <1>3, <1>5, <1>15
<1>17. s[n].parent = s[m].parent
  BY <1>14, <1>15, <1>16
<1>18. m = n
  BY <1>8, <1>11, <1>14, <1>17 DEF IsTrie
<1>19. QED
  BY <1>4, <1>18

-----------------------------------------------------------------------------
(* The way down from the root.                                             *)

ChildAt(s, r, p, k) ==
    IF p # 0 THEN Found(s, p, k) ELSE IF r # 0 /\ s[r].key = k THEN r ELSE 0
DownFun(s, r, q, w) ==
    w = [i \in 0 .. Len(q) |->
            IF i = 0 THEN 0
            ELSE IF i > 1 /\ w[i - 1] = 0 THEN 0
                 ELSE ChildAt(s, r, w[i - 1], q[i])]
NodeAt(s, r, q) == (CHOOSE w : DownFun(s, r, q, w))[Len(q)]

LEMMA TNodeOf == ASSUME NEW q PROVE T!NodeOf(q) = NodeAt(t_nodes, t_root, q)
BY DEF T!NodeOf, T!PathTo, T!get_child, T!find_child, T!guess_child, T!null,
       NodeAt, DownFun, ChildAt, Found, Guessed, GuessOf, IsGuess

LEMMA MNodeOf == ASSUME NEW q PROVE M!NodeOf(q) = NodeAt(m_nodes, m_root, q)
BY DEF M!NodeOf, M!PathTo, M!get_child, M!find_child, M!guess_child, M!null,
       NodeAt, DownFun, ChildAt, Found, Guessed, GuessOf, IsGuess

LEMMA DownExists == ASSUME NEW s, NEW r, NEW q, Len(q) \in Nat PROVE \E w : DownFun(s, r, q, w)
<1> DEFINE Upto(m, w) ==
               w = [i \in 0 .. m |->
                       IF i = 0 THEN 0
                       ELSE IF i > 1 /\ w[i - 1] = 0 THEN 0
                            ELSE ChildAt(s, r, w[i - 1], q[i])]
           bad == {m \in Nat : ~\E w : Upto(m, w)}
<1>1. bad \in SUBSET Nat
  OBVIOUS
<1>2. ASSUME bad # {} PROVE FALSE
  <2>1. PICK m \in bad : \A j \in bad : m <= j
    <3> HIDE DEF bad
    <3> QED
      BY <1>1, <1>2, LeastExists
  <2>2. m \in Nat /\ ~\E w : Upto(m, w)
    OBVIOUS
  <2>3. m # 0
    <3>1. Upto(0, [i \in 0 .. 0 |-> 0])
      OBVIOUS
    <3>2. QED
      BY <2>2, <3>1
  <2>4. \E w : Upto(m - 1, w)
    <3>1. m - 1 \in Nat /\ ~(m <= m - 1)
      BY <2>2, <2>3
    <3>2. m - 1 \notin bad
      BY <2>1, <3>1
    <3>3. QED
      BY <3>1, <3>2
  <2>5. PICK w : Upto(m - 1, w)
    BY <2>4
  <2> DEFINE x == IF m > 1 /\ w[m - 1] = 0 THEN 0 ELSE ChildAt(s, r, w[m - 1], q[m])
             h == [i \in 0 .. m |-> IF i = m THEN x ELSE w[i]]
             j == [i \in 0 .. m |->
                       IF i = 0 THEN 0
                       ELSE IF i > 1 /\ h[i - 1] = 0 THEN 0
                            ELSE ChildAt(s, r, h[i - 1], q[i])]
  <2>6. \A i \in 0 .. m : h[i] = j[i]
    <3> SUFFICES ASSUME NEW i \in 0 .. m PROVE h[i] = j[i]
      OBVIOUS
    <3>1. \A l \in 0 .. m - 1 : h[l] = w[l]
      BY <2>2
    <3>2. \A l \in 0 .. m - 1 :
             w[l] = IF l = 0 THEN 0
                    ELSE IF l > 1 /\ w[l - 1] = 0 THEN 0
                         ELSE ChildAt(s, r, w[l - 1], q[l])
      BY <2>5
    <3>3. h[m] = x
      BY <2>2
    <3>4. j[i] = IF i = 0 THEN 0
                 ELSE IF i > 1 /\ h[i - 1] = 0 THEN 0
                      ELSE ChildAt(s, r, h[i - 1], q[i])
      OBVIOUS
    <3> HIDE DEF h, j
    <3>5. CASE i = m
      <4>1. h[m - 1] = w[m - 1]
        BY <2>2, <2>3, <3>1
      <4>2. QED
        BY <2>3, <3>3, <3>4, <3>5, <4>1
    <3>6. CASE i = 0
      BY <2>2, <2>3, <3>1, <3>2, <3>4, <3>6
    <3>7. CASE i # m /\ i # 0
      <4>1. i \in 0 .. m - 1 /\ i - 1 \in 0 .. m - 1
        BY <2>2, <3>7
      <4>2. h[i] = w[i] /\ h[i - 1] = w[i - 1]
        BY <3>1, <4>1
      <4>3. QED
        BY <3>2, <3>4, <3>7, <4>1, <4>2
    <3>8. QED
      BY <3>5, <3>6, <3>7
  <2>7. h = [i \in 0 .. m |-> h[i]] /\ j = [i \in 0 .. m |-> j[i]]
    OBVIOUS
  <2>8. h = j
    <3> HIDE DEF h, j
    <3> QED
      BY <2>6, <2>7
  <2>9. Upto(m, h)
    BY <2>8
  <2>10. QED
    BY <2>2, <2>9
<1>3. \E w : Upto(Len(q), w)
  BY <1>2
<1>4. QED
  BY <1>3 DEF DownFun

\* The first i keys of q are the path x.
Leads(x, q, i) == Len(x) = i /\ \A j \in 1 .. i : x[j] = q[j]

IsNext(i, l) == l = i + 1

LEMMA LeadsLonger ==
    ASSUME NEW s, IsTrie(s), NEW q, NEW i \in Nat, NEW l, IsNext(i, l),
           NEW n \in 1 .. Len(s)
    PROVE  Leads(PathsOf(s)[n], q, l)
           <=> Leads(PathsOf(s)[s[n].parent], q, i) /\ s[n].key = q[l]
<1> DEFINE x == PathsOf(s)[n]
           y == PathsOf(s)[s[n].parent]
<1>1. /\ Len(x) = Len(y) + 1 /\ x[Len(x)] = s[n].key
      /\ \A j \in 1 .. Len(y) : x[j] = y[j]
      /\ x \in Seq(Key) /\ y \in Seq(Key)
  BY PathEnds
<1>2. Len(x) \in Nat /\ Len(y) \in Nat
  BY <1>1
<1> HIDE DEF x, y
<1>3. ASSUME Leads(x, q, l) PROVE Leads(y, q, i) /\ s[n].key = q[l]
  BY <1>1, <1>2, <1>3 DEF Leads, IsNext
<1>4. ASSUME Leads(y, q, i), s[n].key = q[l] PROVE Leads(x, q, l)
  <2>1. Len(y) = i /\ Len(x) = l /\ x[l] = q[l]
    BY <1>1, <1>4 DEF Leads, IsNext
  <2>2. \A j \in 1 .. i : x[j] = q[j]
    BY <1>1, <1>4, <2>1 DEF Leads, IsNext
  <2>3. \A j \in 1 .. l : j = l \/ j \in 1 .. i
    BY DEF IsNext
  <2>4. QED
    BY <2>1, <2>2, <2>3 DEF Leads
<1>5. QED
  BY <1>3, <1>4 DEF x, y

\* Only one node's path is the first i keys of q.
LEMMA LeadsOne ==
    ASSUME NEW s, IsTrie(s), NEW q, NEW i, NEW m \in 0 .. Len(s), NEW n \in 0 .. Len(s),
           Leads(PathsOf(s)[m], q, i), Leads(PathsOf(s)[n], q, i)
    PROVE  m = n
<1>1. PathsOf(s)[m] \in Seq(Key) /\ PathsOf(s)[n] \in Seq(Key)
  BY PathsArePaths DEF ArePaths
<1>2. Len(PathsOf(s)[m]) = Len(PathsOf(s)[n])
  BY DEF Leads
<1>3. \A j \in 1 .. Len(PathsOf(s)[m]) : PathsOf(s)[m][j] = PathsOf(s)[n][j]
  BY DEF Leads
<1>4. PathsOf(s)[m] = PathsOf(s)[n]
  BY <1>1, <1>2, <1>3, SeqEqual
<1>5. QED
  BY <1>4, PathsDiffer

Root(s) == IF Len(s) = 0 THEN 0 ELSE 1

\* The walk comes to the node of the first i keys, if there is one.
LEMMA WalkFinds ==
    ASSUME NEW s, IsTrie(s), NEW q \in Seq(Key), NEW w, DownFun(s, Root(s), q, w),
           NEW i \in 1 .. Len(q)
    PROVE  \/ w[i] \in 1 .. Len(s) /\ Leads(PathsOf(s)[w[i]], q, i)
           \/ w[i] = 0 /\ \A n \in 1 .. Len(s) : ~Leads(PathsOf(s)[n], q, i)
<1> DEFINE Right(j) ==
               \/ w[j] \in 1 .. Len(s) /\ Leads(PathsOf(s)[w[j]], q, j)
               \/ w[j] = 0 /\ \A n \in 1 .. Len(s) : ~Leads(PathsOf(s)[n], q, j)
           bad == {j \in 1 .. Len(q) : ~Right(j)}
<1> SUFFICES ASSUME bad # {} PROVE FALSE
  OBVIOUS
<1>1. Len(q) \in Nat /\ Len(s) \in Nat
  BY TrieNodes
<1>2. bad \in SUBSET Nat
  OBVIOUS
<1>3. PICK j \in bad : \A l \in bad : j <= l
  <2> HIDE DEF bad
  <2> QED
    BY <1>2, LeastExists
<1>4. j \in 1 .. Len(q) /\ ~Right(j)
  OBVIOUS
<1>5. w[j] = IF j > 1 /\ w[j - 1] = 0 THEN 0 ELSE ChildAt(s, Root(s), w[j - 1], q[j])
  <2>1. j \in 0 .. Len(q) /\ j # 0
    BY <1>1, <1>4
  <2>2. QED
    BY <2>1 DEF DownFun
<1>6. PathsOf(s)[0] = <<>> /\ w[0] = 0
  BY <1>1, NoPath DEF DownFun
<1>7. CASE j = 1
  <2>1. w[1] = IF Root(s) # 0 /\ s[Root(s)].key = q[1] THEN Root(s) ELSE 0
    BY <1>5, <1>6, <1>7 DEF ChildAt
  <2>2. \A n \in 1 .. Len(s) : Leads(PathsOf(s)[n], q, 1) <=> n = 1 /\ s[1].key = q[1]
    <3> SUFFICES ASSUME NEW n \in 1 .. Len(s)
                 PROVE  Leads(PathsOf(s)[n], q, 1) <=> n = 1 /\ s[1].key = q[1]
      OBVIOUS
    <3>1. Leads(PathsOf(s)[n], q, 1)
          <=> Leads(PathsOf(s)[s[n].parent], q, 0) /\ s[n].key = q[1]
      <4>1. IsNext(0, 1)
        BY DEF IsNext
      <4>2. QED
        BY <4>1, LeadsLonger
    <3>2. Leads(PathsOf(s)[0], q, 0)
      BY <1>6 DEF Leads
    <3>3. s[n].parent \in 0 .. Len(s) /\ (s[n].parent = 0 <=> n = 1)
      BY PathEnds, TrieNodes
    <3>4. Leads(PathsOf(s)[s[n].parent], q, 0) <=> s[n].parent = 0
      <4>1. 0 \in 0 .. Len(s)
        BY <1>1
      <4>2. Leads(PathsOf(s)[s[n].parent], q, 0) => s[n].parent = 0
        BY <3>2, <3>3, <4>1, LeadsOne
      <4>3. QED
        BY <3>2, <4>2
    <3>5. QED
      BY <3>1, <3>3, <3>4
  <2>3. CASE Len(s) = 0
    BY <1>4, <1>7, <2>1, <2>3 DEF Root
  <2>4. CASE Len(s) # 0
    <3>1. 1 \in 1 .. Len(s) /\ Root(s) = 1
      BY <1>1, <2>4 DEF Root
    <3>2. CASE s[1].key = q[1]
      BY <1>4, <1>7, <2>1, <2>2, <3>1, <3>2
    <3>3. CASE s[1].key # q[1]
      BY <1>4, <1>7, <2>1, <2>2, <3>1, <3>3
    <3>4. QED
      BY <3>2, <3>3
  <2>5. QED
    BY <2>3, <2>4
<1>8. CASE j # 1
  <2>1. j - 1 \in 1 .. Len(q) /\ j - 1 \in Nat /\ ~(j <= j - 1) /\ j > 1 /\ j \in Nat /\ j = (j - 1) + 1
    BY <1>1, <1>4, <1>8
  <2>2. Right(j - 1)
    <3>1. j - 1 \notin bad
      <4> HIDE DEF bad
      <4> QED
        BY <1>3, <2>1
    <3>2. QED
      BY <2>1, <3>1
  <2>3. \A n \in 1 .. Len(s) :
           Leads(PathsOf(s)[n], q, j)
           <=> Leads(PathsOf(s)[s[n].parent], q, j - 1) /\ s[n].key = q[j]
    <3>1. IsNext(j - 1, j)
      BY <2>1 DEF IsNext
    <3>2. QED
      BY <2>1, <3>1, LeadsLonger
  <2>4. CASE w[j - 1] = 0
    <3>1. w[j] = 0
      BY <1>5, <2>1, <2>4
    <3>2. \A n \in 1 .. Len(s) : ~Leads(PathsOf(s)[n], q, j - 1)
      BY <1>1, <2>2, <2>4
    <3>3. \A n \in 1 .. Len(s) : ~Leads(PathsOf(s)[n], q, j)
      <4> SUFFICES ASSUME NEW n \in 1 .. Len(s), Leads(PathsOf(s)[n], q, j) PROVE FALSE
        OBVIOUS
      <4>1. Leads(PathsOf(s)[s[n].parent], q, j - 1)
        BY <2>3
      <4>2. s[n].parent = 0
        BY <3>2, <4>1, TrieNodes
      <4>3. Len(<<>>) = j - 1
        BY <1>6, <4>1, <4>2 DEF Leads
      <4>4. QED
        BY <2>1, <4>3
    <3>4. QED
      BY <1>4, <3>1, <3>3
  <2>5. CASE w[j - 1] # 0
    <3> DEFINE p == w[j - 1]
               c == Found(s, p, q[j])
    <3>1. p \in 1 .. Len(s) /\ Leads(PathsOf(s)[p], q, j - 1)
      BY <2>2, <2>5
    <3>2. w[j] = c
      BY <1>5, <2>5 DEF ChildAt
    <3>3. \/ c = 0 /\ \A d \in Kids(s, p) : s[d].key # q[j]
          \/ c \in Kids(s, p) /\ s[c].key = q[j]
      BY <3>1, FindsKid
    <3> HIDE DEF p, c
    <3>4. \A n \in 1 .. Len(s) : Leads(PathsOf(s)[n], q, j) => n \in Kids(s, p) /\ s[n].key = q[j]
      <4> SUFFICES ASSUME NEW n \in 1 .. Len(s), Leads(PathsOf(s)[n], q, j)
                   PROVE  n \in Kids(s, p) /\ s[n].key = q[j]
        OBVIOUS
      <4>1. Leads(PathsOf(s)[s[n].parent], q, j - 1) /\ s[n].key = q[j]
        BY <2>3
      <4>2. s[n].parent \in 0 .. Len(s) /\ p \in 0 .. Len(s)
        BY <3>1, PathEnds
      <4>3. s[n].parent = p
        BY <3>1, <4>1, <4>2, LeadsOne
      <4>4. QED
        BY <4>1, <4>3 DEF Kids
    <3>5. CASE c = 0
      <4>1. c \notin Kids(s, p)
        BY <3>5 DEF Kids
      <4>2. \A n \in 1 .. Len(s) : ~Leads(PathsOf(s)[n], q, j)
        BY <3>3, <3>4, <4>1
      <4>3. QED
        BY <1>4, <3>2, <3>5, <4>2
    <3>6. CASE c # 0
      <4>1. c \in Kids(s, p) /\ s[c].key = q[j]
        BY <3>3, <3>6
      <4>2. c \in 1 .. Len(s) /\ s[c].parent = p
        BY <4>1 DEF Kids
      <4>3. Leads(PathsOf(s)[c], q, j)
        BY <2>3, <3>1, <4>1, <4>2
      <4>4. QED
        BY <1>4, <3>2, <4>2, <4>3
    <3>7. QED
      BY <3>5, <3>6
  <2>6. QED
    BY <2>4, <2>5
<1>9. QED
  BY <1>7, <1>8

\* The way down a path leads to the node with this path.
LEMMA WayDown ==
    ASSUME NEW s, IsTrie(s), NEW q \in Seq(Key), q # <<>>
    PROVE  \/ NodeAt(s, Root(s), q) \in 1 .. Len(s) /\ PathsOf(s)[NodeAt(s, Root(s), q)] = q
           \/ NodeAt(s, Root(s), q) = 0 /\ \A n \in 1 .. Len(s) : PathsOf(s)[n] # q
<1> DEFINE w == CHOOSE w : DownFun(s, Root(s), q, w)
           c == NodeAt(s, Root(s), q)
<1>1. Len(q) \in 1 .. Len(q) /\ Len(q) \in Nat
  BY EmptySeq
<1>2. DownFun(s, Root(s), q, w)
  BY <1>1, DownExists
<1>3. c = w[Len(q)]
  BY DEF NodeAt
<1> HIDE DEF w, c
<1>4. \/ c \in 1 .. Len(s) /\ Leads(PathsOf(s)[c], q, Len(q))
      \/ c = 0 /\ \A n \in 1 .. Len(s) : ~Leads(PathsOf(s)[n], q, Len(q))
  BY <1>1, <1>2, <1>3, WalkFinds
<1>5. \A n \in 1 .. Len(s) : Leads(PathsOf(s)[n], q, Len(q)) <=> PathsOf(s)[n] = q
  <2> SUFFICES ASSUME NEW n \in 1 .. Len(s)
               PROVE  Leads(PathsOf(s)[n], q, Len(q)) <=> PathsOf(s)[n] = q
    OBVIOUS
  <2>1. PathsOf(s)[n] \in Seq(Key)
    BY PathEnds
  <2>2. Leads(PathsOf(s)[n], q, Len(q)) => PathsOf(s)[n] = q
    BY <2>1, SeqEqual DEF Leads
  <2>3. QED
    BY <2>2 DEF Leads
<1>6. QED
  BY <1>4, <1>5 DEF c

-----------------------------------------------------------------------------
(* foreach().                                                              *)

VisitFun(s, f) ==
    f = [n \in DOMAIN s \cup {0} |->
            IF n = 0 THEN <<>> ELSE f[s[n].child] \o f[s[n].sibling] \o <<n>>]
VisitsOf(s) == CHOOSE f : VisitFun(s, f)

LEMMA TVisited == T!Visited = VisitsOf(t_nodes)[t_root] /\ M!Visited = VisitsOf(m_nodes)[m_root]
BY DEF T!Visited, M!Visited, T!Node, M!Node, T!null, M!null, VisitsOf, VisitFun

LEMMA LinksForward ==
    ASSUME NEW s, IsTrie(s), NEW n \in 1 .. Len(s)
    PROVE  /\ s[n].child = 0 \/ s[n].child \in Kids(s, n)
           /\ s[n].child = 0 \/ (s[n].child \in 1 .. Len(s) /\ s[n].child > n)
           /\ s[n].sibling = 0 \/ s[n].sibling \in Later(s, n)
           /\ s[n].sibling = 0 \/ (s[n].sibling \in 1 .. Len(s) /\ s[n].sibling > n)
<1>1. s[n].child = 0 \/ s[n].child \in Kids(s, n)
  BY DEF IsTrie, IsFirst
<1>2. s[n].sibling = 0 \/ s[n].sibling \in Later(s, n)
  BY DEF IsTrie, IsFirst
<1>3. \A d \in Kids(s, n) : d \in 1 .. Len(s) /\ d > n
  <2> SUFFICES ASSUME NEW d \in Kids(s, n) PROVE d \in 1 .. Len(s) /\ d > n
    OBVIOUS
  <2>1. d \in 1 .. Len(s) /\ s[d].parent = n
    BY DEF Kids
  <2>2. Len(s) \in Nat /\ s[d].parent < d
    BY <2>1, TrieNodes
  <2>3. QED
    BY <2>1, <2>2
<1>4. \A d \in Later(s, n) : d \in 1 .. Len(s) /\ d > n
  BY DEF Later, Kids
<1>5. QED
  BY <1>1, <1>2, <1>3, <1>4

VisitFrom(s, m, f) ==
    f = [n \in m .. Len(s) \cup {0} |->
            IF n = 0 THEN <<>> ELSE f[s[n].child] \o f[s[n].sibling] \o <<n>>]

LEMMA VisitsLonger ==
    ASSUME NEW s, IsTrie(s), NEW m \in 1 .. Len(s), NEW g, VisitFrom(s, m + 1, g)
    PROVE  \E h : VisitFrom(s, m, h)
<1>1. Len(s) \in Nat /\ m \in Nat /\ m # 0 /\ m <= Len(s)
  BY TrieNodes
<1>2. PICK B : B = m .. Len(s) \cup {0}
  OBVIOUS
<1>3. PICK C : C = (m + 1) .. Len(s) \cup {0}
  OBVIOUS
<1>4. /\ \A n \in B : n = 0 \/ n = m \/ (n # 0 /\ n # m /\ n \in C /\ n \in 1 .. Len(s))
      /\ \A n \in C : n \in B /\ n # m
      /\ 0 \in C /\ m \in B
  BY <1>1, <1>2, <1>3
<1>5. \A n \in B \ {0} : s[n].child \in C /\ s[n].sibling \in C
  <2> SUFFICES ASSUME NEW n \in B \ {0} PROVE s[n].child \in C /\ s[n].sibling \in C
    OBVIOUS
  <2>1. n \in 1 .. Len(s) /\ n >= m
    BY <1>1, <1>2
  <2>2. /\ s[n].child = 0 \/ (s[n].child \in 1 .. Len(s) /\ s[n].child > n)
        /\ s[n].sibling = 0 \/ (s[n].sibling \in 1 .. Len(s) /\ s[n].sibling > n)
    BY <2>1, LinksForward
  <2>3. QED
    BY <1>1, <1>3, <2>1, <2>2
<1>6. \A n \in C :
         g[n] = IF n = 0 THEN <<>> ELSE g[s[n].child] \o g[s[n].sibling] \o <<n>>
  BY <1>3 DEF VisitFrom
<1> DEFINE h == [n \in B |-> IF n = m THEN g[s[m].child] \o g[s[m].sibling] \o <<m>> ELSE g[n]]
           k == [n \in B |->
                    IF n = 0 THEN <<>> ELSE h[s[n].child] \o h[s[n].sibling] \o <<n>>]
<1>7. /\ h[m] = g[s[m].child] \o g[s[m].sibling] \o <<m>>
      /\ \A n \in C : h[n] = g[n]
      /\ \A n \in B :
            k[n] = IF n = 0 THEN <<>> ELSE h[s[n].child] \o h[s[n].sibling] \o <<n>>
  BY <1>4
<1>8. h = [n \in B |-> h[n]] /\ k = [n \in B |-> k[n]]
  OBVIOUS
<1>9. k = [n \in B |-> IF n = 0 THEN <<>> ELSE h[s[n].child] \o h[s[n].sibling] \o <<n>>]
  OBVIOUS
<1> HIDE DEF h, k
<1>10. \A n \in B : h[n] = k[n]
  <2> SUFFICES ASSUME NEW n \in B PROVE h[n] = k[n]
    OBVIOUS
  <2>1. CASE n = 0
    BY <1>4, <1>6, <1>7, <2>1
  <2>2. CASE n # 0
    <3>1. h[s[n].child] = g[s[n].child] /\ h[s[n].sibling] = g[s[n].sibling]
      BY <1>5, <1>7, <2>2
    <3>2. k[n] = g[s[n].child] \o g[s[n].sibling] \o <<n>>
      BY <1>7, <2>2, <3>1
    <3>3. CASE n = m
      BY <1>7, <3>2, <3>3
    <3>4. CASE n # m
      BY <1>4, <1>6, <1>7, <2>2, <3>2, <3>4
    <3>5. QED
      BY <3>3, <3>4
  <2>3. QED
    BY <2>1, <2>2
<1>11. h = k
  BY <1>8, <1>10
<1>12. VisitFrom(s, m, h)
  BY <1>2, <1>9, <1>11 DEF VisitFrom
<1>13. QED
  BY <1>12

LEMMA VisitsExist == ASSUME NEW s, IsTrie(s) PROVE \E f : VisitFun(s, f)
<1>1. Len(s) \in Nat /\ DOMAIN s = 1 .. Len(s)
  BY TrieNodes
<1>2. PICK bad : bad = {m \in 0 .. Len(s) : ~\E f : VisitFrom(s, m + 1, f)}
  OBVIOUS
<1>3. ASSUME bad # {} PROVE FALSE
  <2>1. PICK m \in bad : \A i \in bad : i <= m
    BY <1>1, <1>2, <1>3, GreatestExists
  <2>2. m \in 0 .. Len(s) /\ ~\E f : VisitFrom(s, m + 1, f)
    BY <1>2
  <2>3. CASE m = Len(s)
    <3>1. (m + 1) .. Len(s) \cup {0} = {0}
      BY <1>1, <2>3
    <3>2. VisitFrom(s, m + 1, [n \in {0} |-> <<>>])
      BY <3>1 DEF VisitFrom
    <3>3. QED
      BY <2>2, <3>2
  <2>4. CASE m # Len(s)
    <3>1. m + 1 \in 0 .. Len(s) /\ m + 1 \in 1 .. Len(s) /\ ~(m + 1 <= m)
      <4>1. m \in 0 .. Len(s)
        BY <2>2
      <4>2. PICK l \in Nat, j \in Nat : l = Len(s) /\ j = m
        <5>1. Len(s) \in Nat
          BY <1>1
        <5>2. m \in Nat
          BY ONLY <4>1, <5>1
        <5>3. QED
          BY <5>1, <5>2
      <4>3. j <= l /\ j # l
        BY <2>4, <4>1, <4>2
      <4>4. j + 1 \in 0 .. l /\ j + 1 \in 1 .. l /\ ~(j + 1 <= j)
        BY ONLY l \in Nat, j \in Nat, <4>3
      <4>5. QED
        BY <4>2, <4>4
    <3>2. m + 1 \notin bad
      BY <2>1, <3>1
    <3>3. \E f : VisitFrom(s, (m + 1) + 1, f)
      BY <1>2, <3>1, <3>2
    <3>4. QED
      BY <2>2, <3>1, <3>3, VisitsLonger
  <2>5. QED
    BY <2>3, <2>4
<1>4. 0 \in 0 .. Len(s) /\ 0 \notin bad
  BY <1>1, <1>3
<1>5. \E f : VisitFrom(s, 0 + 1, f)
  BY <1>2, <1>4
<1>6. QED
  BY <1>1, <1>5 DEF VisitFun, VisitFrom

LEMMA VisitsAre ==
    ASSUME NEW s, IsTrie(s)
    PROVE  /\ VisitsOf(s)[0] = <<>>
           /\ \A n \in 1 .. Len(s) :
                 VisitsOf(s)[n] =
                     VisitsOf(s)[s[n].child] \o VisitsOf(s)[s[n].sibling] \o <<n>>
<1> DEFINE f == VisitsOf(s)
<1>1. VisitFun(s, f)
  BY VisitsExist DEF VisitsOf
<1>2. DOMAIN s = 1 .. Len(s) /\ Len(s) \in Nat
  BY TrieNodes
<1> HIDE DEF f
<1>3. \A n \in 1 .. Len(s) \cup {0} :
         f[n] = IF n = 0 THEN <<>> ELSE f[s[n].child] \o f[s[n].sibling] \o <<n>>
  BY <1>1, <1>2 DEF VisitFun
<1>4. 0 \in 1 .. Len(s) \cup {0} /\ \A n \in 1 .. Len(s) : n # 0 /\ n \in 1 .. Len(s) \cup {0}
  BY <1>2
<1>5. f[0] = <<>>
  BY <1>3, <1>4
<1>6. \A n \in 1 .. Len(s) : f[n] = f[s[n].child] \o f[s[n].sibling] \o <<n>>
  BY <1>3, <1>4
<1>7. QED
  BY <1>5, <1>6 DEF f

Items(v) == {v[i] : i \in 1 .. Len(v)}
Once(v) == \A i, j \in 1 .. Len(v) : v[i] = v[j] => i = j

LEMMA ItemsJoined ==
    ASSUME NEW v \in Seq(Nat), NEW w \in Seq(Nat)
    PROVE  /\ v \o w \in Seq(Nat)
           /\ Items(v \o w) = Items(v) \cup Items(w)
           /\ Once(v) /\ Once(w) /\ Items(v) \cap Items(w) = {} => Once(v \o w)
<1> DEFINE u == v \o w
<1>1. /\ u \in Seq(Nat) /\ Len(u) = Len(v) + Len(w)
      /\ \A i \in 1 .. Len(v) + Len(w) : u[i] = IF i <= Len(v) THEN v[i] ELSE w[i - Len(v)]
  BY ConcatProperties
<1>2. Len(v) \in Nat /\ Len(w) \in Nat
  OBVIOUS
<1> HIDE DEF u
<1>3. \A i \in 1 .. Len(v) : i \in 1 .. Len(u) /\ u[i] = v[i]
  BY <1>1, <1>2
<1>4. \A i \in 1 .. Len(w) : Len(v) + i \in 1 .. Len(u) /\ u[Len(v) + i] = w[i]
  <2> SUFFICES ASSUME NEW i \in 1 .. Len(w)
               PROVE  Len(v) + i \in 1 .. Len(u) /\ u[Len(v) + i] = w[i]
    OBVIOUS
  <2>1. /\ Len(v) + i \in 1 .. Len(v) + Len(w) /\ ~(Len(v) + i <= Len(v))
        /\ (Len(v) + i) - Len(v) = i
    BY <1>2
  <2>2. u[Len(v) + i] = w[(Len(v) + i) - Len(v)]
    BY <1>1, <2>1
  <2>3. QED
    BY <1>1, <2>1, <2>2
<1>5. \A i \in 1 .. Len(u) : \/ i \in 1 .. Len(v) /\ u[i] = v[i]
                             \/ i > Len(v) /\ i - Len(v) \in 1 .. Len(w) /\ u[i] = w[i - Len(v)]
  <2> SUFFICES ASSUME NEW i \in 1 .. Len(u)
               PROVE  \/ i \in 1 .. Len(v) /\ u[i] = v[i]
                      \/ i > Len(v) /\ i - Len(v) \in 1 .. Len(w) /\ u[i] = w[i - Len(v)]
    OBVIOUS
  <2>1. i \in 1 .. Len(v) + Len(w)
    BY <1>1
  <2>2. u[i] = IF i <= Len(v) THEN v[i] ELSE w[i - Len(v)]
    BY <1>1, <2>1
  <2>3. \/ i \in 1 .. Len(v) /\ i <= Len(v)
        \/ i > Len(v) /\ ~(i <= Len(v)) /\ i - Len(v) \in 1 .. Len(w)
    BY <1>2, <2>1
  <2>4. QED
    BY <2>2, <2>3
<1>6. Items(u) = Items(v) \cup Items(w)
  <2>1. \A n \in Items(u) : n \in Items(v) \cup Items(w)
    BY <1>5 DEF Items
  <2>2. \A n \in Items(v) : n \in Items(u)
    BY <1>3 DEF Items
  <2>3. \A n \in Items(w) : n \in Items(u)
    <3> SUFFICES ASSUME NEW i \in 1 .. Len(w) PROVE w[i] \in Items(u)
      BY DEF Items
    <3>1. QED
      BY <1>4 DEF Items
  <2>4. QED
    BY <2>1, <2>2, <2>3
<1>7. ASSUME Once(v), Once(w), Items(v) \cap Items(w) = {} PROVE Once(u)
  <2> SUFFICES ASSUME NEW i \in 1 .. Len(u), NEW j \in 1 .. Len(u), u[i] = u[j] PROVE i = j
    BY DEF Once
  <2>1. \A a \in 1 .. Len(v), b \in 1 .. Len(w) : v[a] # w[b]
    BY <1>7 DEF Items
  <2>2. CASE i \in 1 .. Len(v) /\ u[i] = v[i]
    BY <1>5, <1>7, <2>1, <2>2 DEF Once
  <2>3. CASE i > Len(v) /\ i - Len(v) \in 1 .. Len(w) /\ u[i] = w[i - Len(v)]
    <3>1. ~(j \in 1 .. Len(v) /\ u[j] = v[j])
      BY <2>1, <2>3
    <3>2. j > Len(v) /\ j - Len(v) \in 1 .. Len(w) /\ u[j] = w[j - Len(v)]
      BY <1>5, <3>1
    <3>3. i - Len(v) = j - Len(v)
      BY <1>7, <2>3, <3>2 DEF Once
    <3>4. i \in Int /\ j \in Int
      BY <1>1, <1>2
    <3>5. QED
      BY <1>2, <3>3, <3>4
  <2>4. QED
    BY <1>5, <2>2, <2>3
<1>8. QED
  BY <1>1, <1>6, <1>7 DEF u

\* The path x goes on to y.
IsPre(x, y) == Len(x) <= Len(y) /\ \A i \in 1 .. Len(x) : x[i] = y[i]

LEMMA PreGoesOn ==
    ASSUME NEW x \in Seq(Key), NEW y \in Seq(Key), NEW z \in Seq(Key), IsPre(x, y), IsPre(y, z)
    PROVE  IsPre(x, z)
<1>1. Len(x) \in Nat /\ Len(y) \in Nat /\ Len(z) \in Nat
  OBVIOUS
<1>2. QED
  BY <1>1 DEF IsPre

\* Nodes of one depth on the way to one node are one.
LEMMA PreIsOne ==
    ASSUME NEW s, IsTrie(s), NEW m \in 1 .. Len(s), NEW n \in 1 .. Len(s), NEW d \in 1 .. Len(s),
           Len(PathsOf(s)[m]) = Len(PathsOf(s)[n]),
           IsPre(PathsOf(s)[m], PathsOf(s)[d]), IsPre(PathsOf(s)[n], PathsOf(s)[d])
    PROVE  m = n
<1>1. PathsOf(s)[m] \in Seq(Key) /\ PathsOf(s)[n] \in Seq(Key)
  BY PathEnds
<1>2. \A i \in 1 .. Len(PathsOf(s)[m]) : PathsOf(s)[m][i] = PathsOf(s)[n][i]
  BY DEF IsPre
<1>3. PathsOf(s)[m] = PathsOf(s)[n]
  BY <1>1, <1>2, SeqEqual
<1>4. m \in 0 .. Len(s) /\ n \in 0 .. Len(s)
  BY TrieNodes
<1>5. QED
  BY <1>3, <1>4, PathsDiffer

\* What is below n, and below its later siblings.
Inside(s, n) ==
    {d \in 1 .. Len(s) : /\ IsPre(PathsOf(s)[n], PathsOf(s)[d])
                         /\ Len(PathsOf(s)[n]) < Len(PathsOf(s)[d])}
Beside(s, n) == {d \in 1 .. Len(s) : \E m \in Later(s, n) : IsPre(PathsOf(s)[m], PathsOf(s)[d])}
Under(s, n) == Inside(s, n) \cup {n} \cup Beside(s, n)

LEMMA UnderKid ==
    ASSUME NEW s, IsTrie(s), NEW n \in 1 .. Len(s), NEW c \in Kids(s, n)
    PROVE  Under(s, c) \subseteq Inside(s, n)
<1>1. c \in 1 .. Len(s) /\ s[c].parent = n
  BY DEF Kids
<1>2. \A m \in Kids(s, n) :
         /\ m \in 1 .. Len(s) /\ IsPre(PathsOf(s)[n], PathsOf(s)[m])
         /\ Len(PathsOf(s)[m]) = Len(PathsOf(s)[n]) + 1
  <2> SUFFICES ASSUME NEW m \in Kids(s, n)
               PROVE  /\ m \in 1 .. Len(s) /\ IsPre(PathsOf(s)[n], PathsOf(s)[m])
                      /\ Len(PathsOf(s)[m]) = Len(PathsOf(s)[n]) + 1
    OBVIOUS
  <2>1. m \in 1 .. Len(s) /\ s[m].parent = n
    BY DEF Kids
  <2>2. /\ Len(PathsOf(s)[m]) = Len(PathsOf(s)[n]) + 1
        /\ \A i \in 1 .. Len(PathsOf(s)[n]) : PathsOf(s)[m][i] = PathsOf(s)[n][i]
        /\ PathsOf(s)[n] \in Seq(Key)
    <3>1. m \in 1 .. Len(s)
      BY <2>1
    <3>2. Len(PathsOf(s)[m]) = Len(PathsOf(s)[s[m].parent]) + 1
      BY <3>1, PathEnds
    <3>3. \A i \in 1 .. Len(PathsOf(s)[s[m].parent]) :
             PathsOf(s)[m][i] = PathsOf(s)[s[m].parent][i]
      BY <3>1, PathEnds
    <3>4. PathsOf(s)[s[m].parent] \in Seq(Key)
      BY <3>1, PathEnds
    <3>5. s[m].parent = n
      BY <2>1
    <3>6. QED
      BY <3>2, <3>3, <3>4, <3>5
  <2>3. Len(PathsOf(s)[n]) \in Nat
    BY <2>2
  <2>4. QED
    BY <2>1, <2>2, <2>3 DEF IsPre
<1>3. \A d \in 1 .. Len(s) : PathsOf(s)[d] \in Seq(Key) /\ Len(PathsOf(s)[d]) \in Nat
  <2>1. \A d \in 1 .. Len(s) : PathsOf(s)[d] \in Seq(Key)
    BY PathEnds
  <2>2. QED
    BY <2>1
<1>4. ASSUME NEW m \in Kids(s, n), NEW d \in 1 .. Len(s), IsPre(PathsOf(s)[m], PathsOf(s)[d])
      PROVE  d \in Inside(s, n)
  <2>1. IsPre(PathsOf(s)[n], PathsOf(s)[d])
    BY <1>2, <1>3, <1>4, PreGoesOn
  <2>2. Len(PathsOf(s)[n]) < Len(PathsOf(s)[d])
    <3>1. Len(PathsOf(s)[m]) <= Len(PathsOf(s)[d])
      BY <1>4 DEF IsPre
    <3>2. Len(PathsOf(s)[m]) = Len(PathsOf(s)[n]) + 1 /\ m \in 1 .. Len(s)
      BY <1>2
    <3>3. QED
      BY <1>3, <3>1, <3>2
  <2>3. QED
    BY <2>1, <2>2 DEF Inside
<1>5. \A d \in Inside(s, c) : d \in Inside(s, n)
  BY <1>4 DEF Inside
<1>6. c \in Inside(s, n)
  <2>1. IsPre(PathsOf(s)[c], PathsOf(s)[c])
    BY <1>1, <1>3 DEF IsPre
  <2>2. QED
    BY <1>1, <1>4, <2>1
<1>7. \A d \in Beside(s, c) : d \in Inside(s, n)
  BY <1>1, <1>4 DEF Beside, Later
<1>8. QED
  BY <1>5, <1>6, <1>7 DEF Under

LEMMA UnderSibling ==
    ASSUME NEW s, IsTrie(s), NEW n \in 1 .. Len(s), NEW b \in Later(s, n)
    PROVE  Under(s, b) \subseteq Beside(s, n)
<1>1. b \in 1 .. Len(s) /\ s[b].parent = s[n].parent /\ b > n /\ Len(s) \in Nat
  BY TrieNodes DEF Later, Kids
<1>2. \A m \in Later(s, b) : m \in Later(s, n)
  BY <1>1 DEF Later, Kids
<1>3. \A d \in Inside(s, b) : d \in Beside(s, n)
  BY DEF Inside, Beside
<1>4. b \in Beside(s, n)
  <2>1. PathsOf(s)[b] \in Seq(Key)
    BY <1>1, PathEnds
  <2>2. IsPre(PathsOf(s)[b], PathsOf(s)[b])
    BY <2>1 DEF IsPre
  <2>3. QED
    BY <1>1, <2>2 DEF Beside
<1>5. \A d \in Beside(s, b) : d \in Beside(s, n)
  BY <1>2 DEF Beside
<1>6. QED
  BY <1>3, <1>4, <1>5 DEF Under

LEMMA UnderApart ==
    ASSUME NEW s, IsTrie(s), NEW n \in 1 .. Len(s)
    PROVE  /\ Inside(s, n) \cap Beside(s, n) = {}
           /\ n \notin Inside(s, n) /\ n \notin Beside(s, n)
<1>1. PathsOf(s)[n] \in Seq(Key) /\ Len(PathsOf(s)[n]) \in Nat
  <2>1. PathsOf(s)[n] \in Seq(Key)
    BY PathEnds
  <2>2. QED
    BY <2>1
<1>2. ASSUME NEW m \in Later(s, n), NEW d \in 1 .. Len(s),
             IsPre(PathsOf(s)[m], PathsOf(s)[d]), IsPre(PathsOf(s)[n], PathsOf(s)[d])
      PROVE  FALSE
  <2>1. m \in 1 .. Len(s) /\ s[m].parent = s[n].parent /\ m > n
    BY <1>2 DEF Later, Kids
  <2>2. Len(PathsOf(s)[m]) = Len(PathsOf(s)[s[n].parent]) + 1
    BY <2>1, PathEnds
  <2>3. Len(PathsOf(s)[n]) = Len(PathsOf(s)[s[n].parent]) + 1
    BY PathEnds
  <2>4. m = n
    BY <1>2, <2>1, <2>2, <2>3, PreIsOne
  <2>5. n \in Nat
    BY TrieNodes
  <2>6. QED
    BY <2>1, <2>4, <2>5
<1>3. Inside(s, n) \cap Beside(s, n) = {}
  BY <1>2 DEF Inside, Beside
<1>4. n \notin Inside(s, n)
  BY <1>1 DEF Inside
<1>5. n \notin Beside(s, n)
  <2>1. IsPre(PathsOf(s)[n], PathsOf(s)[n])
    BY <1>1 DEF IsPre
  <2>2. QED
    BY <1>2, <2>1 DEF Beside
<1>6. QED
  BY <1>3, <1>4, <1>5

\* The visit of n and what comes before it visits no node twice.
VisitsWell(s, n) ==
    /\ VisitsOf(s)[n] \in Seq(Nat) /\ Once(VisitsOf(s)[n])
    /\ IF n = 0 THEN Items(VisitsOf(s)[n]) = {}
       ELSE Items(VisitsOf(s)[n]) \subseteq Under(s, n)

LEMMA NoItems == <<>> \in Seq(Nat) /\ Once(<<>>) /\ Items(<<>>) = {}
BY DEF Once, Items

LEMMA OneItem == ASSUME NEW n \in Nat PROVE <<n>> \in Seq(Nat) /\ Once(<<n>>) /\ Items(<<n>>) = {n}
<1> DEFINE v == <<n>>
<1>1. v \in Seq(Nat) /\ Len(v) = 1 /\ v[1] = n
  OBVIOUS
<1> HIDE DEF v
<1>2. \A i : i \in 1 .. 1 <=> i = 1
  OBVIOUS
<1>3. Once(v) /\ Items(v) = {n}
  BY <1>1, <1>2 DEF Once, Items
<1>4. QED
  BY <1>1, <1>3 DEF v

LEMMA VisitItems ==
    ASSUME NEW s, IsTrie(s), NEW n \in 1 .. Len(s),
           VisitsOf(s)[s[n].child] \in Seq(Nat), VisitsOf(s)[s[n].sibling] \in Seq(Nat)
    PROVE  /\ VisitsOf(s)[n] \in Seq(Nat)
           /\ Items(VisitsOf(s)[n]) =
                 Items(VisitsOf(s)[s[n].child]) \cup Items(VisitsOf(s)[s[n].sibling]) \cup {n}
           /\ /\ Once(VisitsOf(s)[s[n].child]) /\ Once(VisitsOf(s)[s[n].sibling])
              /\ Items(VisitsOf(s)[s[n].child]) \cap Items(VisitsOf(s)[s[n].sibling]) = {}
              /\ n \notin Items(VisitsOf(s)[s[n].child])
              /\ n \notin Items(VisitsOf(s)[s[n].sibling])
              => Once(VisitsOf(s)[n])
<1>1. n \in Nat
  BY TrieNodes
<1>2. PICK v \in Seq(Nat), w \in Seq(Nat), x \in Seq(Nat) :
         v = VisitsOf(s)[s[n].child] /\ w = VisitsOf(s)[s[n].sibling] /\ x = <<n>>
  <2>1. <<n>> \in Seq(Nat)
    BY <1>1
  <2>2. QED
    BY <2>1
<1>3. VisitsOf(s)[n] = (v \o w) \o x
  BY <1>2, VisitsAre
<1>4. Once(x) /\ Items(x) = {n}
  <2>1. n \in Nat
    BY TrieNodes
  <2>2. QED
    BY <1>2, <2>1, OneItem
<1>5. PICK y : y = v \o w
  OBVIOUS
<1>6. /\ y \in Seq(Nat) /\ Items(y) = Items(v) \cup Items(w)
      /\ Once(v) /\ Once(w) /\ Items(v) \cap Items(w) = {} => Once(y)
  BY <1>5, ItemsJoined
<1>7. /\ y \o x \in Seq(Nat) /\ Items(y \o x) = Items(y) \cup Items(x)
      /\ Once(y) /\ Once(x) /\ Items(y) \cap Items(x) = {} => Once(y \o x)
  BY <1>6, ItemsJoined
<1>8. VisitsOf(s)[n] = y \o x
  BY <1>3, <1>5
<1>9. QED
  BY <1>2, <1>4, <1>6, <1>7, <1>8

LEMMA VisitsAreWell == ASSUME NEW s, IsTrie(s) PROVE \A n \in 0 .. Len(s) : VisitsWell(s, n)
<1>1. Len(s) \in Nat
  BY TrieNodes
<1>2. PICK bad : bad = {n \in 0 .. Len(s) : ~VisitsWell(s, n)}
  OBVIOUS
<1>3. ASSUME bad # {} PROVE FALSE
  <2>1. PICK n \in bad : \A i \in bad : i <= n
    BY <1>1, <1>2, <1>3, GreatestExists
  <2>2. n \in 0 .. Len(s) /\ ~VisitsWell(s, n)
    BY <1>2
  <2>3. VisitsWell(s, 0)
    <3>1. VisitsOf(s)[0] = <<>>
      BY VisitsAre
    <3>2. QED
      BY <3>1, NoItems DEF VisitsWell
  <2>4. n \in 1 .. Len(s)
    BY <1>1, <2>2, <2>3
  <2>5. PICK c, b : c = s[n].child /\ b = s[n].sibling
    OBVIOUS
  <2>6. /\ c = 0 \/ (c \in Kids(s, n) /\ c \in 1 .. Len(s) /\ c > n)
        /\ b = 0 \/ (b \in Later(s, n) /\ b \in 1 .. Len(s) /\ b > n)
    BY <2>4, <2>5, LinksForward
  <2>7. \A i \in 1 .. Len(s) : i > n => VisitsWell(s, i)
    <3> SUFFICES ASSUME NEW i \in 1 .. Len(s), i > n PROVE VisitsWell(s, i)
      OBVIOUS
    <3>1. i \in 0 .. Len(s) /\ ~(i <= n)
      BY <1>1, <2>4
    <3>2. QED
      BY <1>2, <2>1, <3>1
  <2>8. VisitsWell(s, c) /\ VisitsWell(s, b)
    BY <2>3, <2>6, <2>7
  <2>9. Items(VisitsOf(s)[c]) \subseteq Inside(s, n)
    <3>1. c = 0 => Items(VisitsOf(s)[c]) = {}
      BY <2>8 DEF VisitsWell
    <3>2. c # 0 => Items(VisitsOf(s)[c]) \subseteq Under(s, c)
      BY <2>8 DEF VisitsWell
    <3>3. QED
      BY <2>4, <2>6, <3>1, <3>2, UnderKid
  <2>10. Items(VisitsOf(s)[b]) \subseteq Beside(s, n)
    <3>1. b = 0 => Items(VisitsOf(s)[b]) = {}
      BY <2>8 DEF VisitsWell
    <3>2. b # 0 => Items(VisitsOf(s)[b]) \subseteq Under(s, b)
      BY <2>8 DEF VisitsWell
    <3>3. QED
      BY <2>4, <2>6, <3>1, <3>2, UnderSibling
  <2>11. /\ Inside(s, n) \cap Beside(s, n) = {}
         /\ n \notin Inside(s, n) /\ n \notin Beside(s, n)
    BY <2>4, UnderApart
  <2>12. /\ VisitsOf(s)[c] \in Seq(Nat) /\ Once(VisitsOf(s)[c])
         /\ VisitsOf(s)[b] \in Seq(Nat) /\ Once(VisitsOf(s)[b])
    BY <2>8 DEF VisitsWell
  <2>13. /\ VisitsOf(s)[n] \in Seq(Nat) /\ Once(VisitsOf(s)[n])
         /\ Items(VisitsOf(s)[n]) = Items(VisitsOf(s)[c]) \cup Items(VisitsOf(s)[b]) \cup {n}
    <3>1. /\ Items(VisitsOf(s)[c]) \cap Items(VisitsOf(s)[b]) = {}
          /\ n \notin Items(VisitsOf(s)[c]) /\ n \notin Items(VisitsOf(s)[b])
      BY <2>9, <2>10, <2>11
    <3>2. QED
      BY <2>4, <2>5, <2>12, <3>1, VisitItems
  <2>14. Items(VisitsOf(s)[n]) \subseteq Under(s, n)
    BY <2>9, <2>10, <2>13 DEF Under
  <2>15. n # 0
    BY <2>4
  <2>16. QED
    BY <2>2, <2>13, <2>14, <2>15 DEF VisitsWell
<1>4. QED
  BY <1>2, <1>3

\* A visit that comes by a node comes by its children and later siblings.
LEMMA VisitsGoOn ==
    ASSUME NEW s, IsTrie(s)
    PROVE  \A n \in 0 .. Len(s) : \A d \in Items(VisitsOf(s)[n]) :
              /\ d \in 1 .. Len(s)
              /\ s[d].child = 0 \/ s[d].child \in Items(VisitsOf(s)[n])
              /\ s[d].sibling = 0 \/ s[d].sibling \in Items(VisitsOf(s)[n])
<1> DEFINE Good(n) == \A d \in Items(VisitsOf(s)[n]) :
              /\ d \in 1 .. Len(s)
              /\ s[d].child = 0 \/ s[d].child \in Items(VisitsOf(s)[n])
              /\ s[d].sibling = 0 \/ s[d].sibling \in Items(VisitsOf(s)[n])
<1>1. Len(s) \in Nat
  BY TrieNodes
<1>2. PICK bad : bad = {n \in 0 .. Len(s) : ~Good(n)}
  OBVIOUS
<1>3. ASSUME bad # {} PROVE FALSE
  <2>1. PICK n \in bad : \A i \in bad : i <= n
    BY <1>1, <1>2, <1>3, GreatestExists
  <2>2. n \in 0 .. Len(s) /\ ~Good(n)
    BY <1>2
  <2>3. Good(0) /\ Items(VisitsOf(s)[0]) = {}
    <3>1. VisitsOf(s)[0] = <<>>
      BY VisitsAre
    <3>2. QED
      BY <3>1, NoItems
  <2>4. n \in 1 .. Len(s)
    <3> HIDE DEF Good
    <3> QED
      BY <1>1, <2>2, <2>3
  <2>5. PICK c, b : c = s[n].child /\ b = s[n].sibling
    OBVIOUS
  <2>6. /\ c = 0 \/ (c \in 1 .. Len(s) /\ c > n)
        /\ b = 0 \/ (b \in 1 .. Len(s) /\ b > n)
    BY <2>4, <2>5, LinksForward
  <2>7. \A i \in 1 .. Len(s) : i > n => Good(i)
    <3> SUFFICES ASSUME NEW i \in 1 .. Len(s), i > n PROVE Good(i)
      OBVIOUS
    <3>1. i \in 0 .. Len(s) /\ ~(i <= n)
      BY <1>1, <2>4
    <3>2. i \notin bad
      BY <2>1, <3>1
    <3> HIDE DEF Good
    <3>3. QED
      BY <1>2, <3>1, <3>2
  <2>8. Good(c) /\ Good(b)
    <3> HIDE DEF Good
    <3> QED
      BY <2>3, <2>6, <2>7
  <2>9. /\ VisitsOf(s)[c] \in Seq(Nat) /\ VisitsOf(s)[b] \in Seq(Nat)
        /\ c # 0 => c \in Items(VisitsOf(s)[c])
        /\ b # 0 => b \in Items(VisitsOf(s)[b])
    <3>1. \A i \in 0 .. Len(s) : VisitsOf(s)[i] \in Seq(Nat)
      BY VisitsAreWell DEF VisitsWell
    <3>2. c \in 0 .. Len(s) /\ b \in 0 .. Len(s)
      BY <1>1, <2>6
    <3>3. \A i \in 1 .. Len(s) : i \in Items(VisitsOf(s)[i])
      <4> SUFFICES ASSUME NEW i \in 1 .. Len(s) PROVE i \in Items(VisitsOf(s)[i])
        OBVIOUS
      <4>1. /\ s[i].child = 0 \/ s[i].child \in 1 .. Len(s)
            /\ s[i].sibling = 0 \/ s[i].sibling \in 1 .. Len(s)
        BY LinksForward
      <4>2. s[i].child \in 0 .. Len(s) /\ s[i].sibling \in 0 .. Len(s)
        BY <1>1, <4>1
      <4>3. VisitsOf(s)[s[i].child] \in Seq(Nat) /\ VisitsOf(s)[s[i].sibling] \in Seq(Nat)
        BY <3>1, <4>2
      <4>4. Items(VisitsOf(s)[i]) =
               Items(VisitsOf(s)[s[i].child]) \cup Items(VisitsOf(s)[s[i].sibling]) \cup {i}
        BY <4>3, VisitItems
      <4>5. QED
        BY <4>4
    <3>4. QED
      BY <2>6, <3>1, <3>2, <3>3
  <2>10. Items(VisitsOf(s)[n]) = Items(VisitsOf(s)[c]) \cup Items(VisitsOf(s)[b]) \cup {n}
    BY <2>4, <2>5, <2>9, VisitItems
  <2>11. Good(n)
    BY <2>4, <2>5, <2>8, <2>9, <2>10
  <2>12. QED
    BY <2>2, <2>11
<1>4. QED
  BY <1>2, <1>3

LEMMA VisitsItself ==
    ASSUME NEW s, IsTrie(s), NEW n \in 1 .. Len(s)
    PROVE  n \in Items(VisitsOf(s)[n])
<1>1. Len(s) \in Nat
  BY TrieNodes
<1>2. \A i \in 0 .. Len(s) : VisitsOf(s)[i] \in Seq(Nat)
  BY VisitsAreWell DEF VisitsWell
<1>3. /\ s[n].child = 0 \/ s[n].child \in 1 .. Len(s)
      /\ s[n].sibling = 0 \/ s[n].sibling \in 1 .. Len(s)
  BY LinksForward
<1>4. s[n].child \in 0 .. Len(s) /\ s[n].sibling \in 0 .. Len(s)
  BY <1>1, <1>3
<1>5. VisitsOf(s)[s[n].child] \in Seq(Nat) /\ VisitsOf(s)[s[n].sibling] \in Seq(Nat)
  BY <1>2, <1>4
<1>6. Items(VisitsOf(s)[n]) =
         Items(VisitsOf(s)[s[n].child]) \cup Items(VisitsOf(s)[s[n].sibling]) \cup {n}
  BY <1>5, VisitItems
<1>7. QED
  BY <1>6

\* A node is the first child of its parent or the next sibling of a sibling.
LEMMA LinkedFrom ==
    ASSUME NEW s, IsTrie(s), NEW n \in 1 .. Len(s), n # 1
    PROVE  \E m \in 1 .. Len(s) : m < n /\ (s[m].child = n \/ s[m].sibling = n)
<1>1. Len(s) \in Nat /\ n \in Nat
  BY TrieNodes
<1>2. PICK p : p = s[n].parent
  OBVIOUS
<1>3. p \in 1 .. Len(s) /\ p < n /\ n \in Kids(s, p)
  BY <1>2, TrieNodes DEF Kids
<1>4. IsFirst(s[p].child, Kids(s, p))
  BY <1>3 DEF IsTrie
<1>5. PICK E : E = {e \in Kids(s, p) : e < n}
  OBVIOUS
<1>6. \A e \in E : e \in 1 .. Len(s) /\ s[e].parent = p /\ e < n
  BY <1>5 DEF Kids
<1>7. CASE E = {}
  <2>1. s[p].child \in Kids(s, p) /\ s[p].child <= n
    BY <1>3, <1>4 DEF IsFirst
  <2>2. s[p].child \notin E /\ s[p].child \in 1 .. Len(s)
    BY <1>7, <2>1 DEF Kids
  <2>3. ~(s[p].child < n)
    BY <1>5, <2>1, <2>2
  <2>4. s[p].child = n
    BY <1>1, <2>1, <2>2, <2>3
  <2>5. QED
    BY <1>3, <2>4
<1>8. CASE E # {}
  <2>1. E \in SUBSET (0 .. Len(s))
    BY <1>1, <1>6
  <2>2. PICK e \in E : \A i \in E : i <= e
    BY <1>1, <1>8, <2>1, GreatestExists
  <2>3. e \in 1 .. Len(s) /\ s[e].parent = p /\ e < n
    BY <1>6
  <2>4. n \in Later(s, e)
    BY <1>1, <1>3, <2>3 DEF Later
  <2>5. IsFirst(s[e].sibling, Later(s, e))
    BY <2>3 DEF IsTrie
  <2>6. s[e].sibling \in Later(s, e) /\ s[e].sibling <= n
    BY <2>4, <2>5 DEF IsFirst
  <2>7. s[e].sibling \in Kids(s, p) /\ s[e].sibling > e /\ s[e].sibling \in 1 .. Len(s)
    BY <2>3, <2>6 DEF Later, Kids
  <2>8. s[e].sibling \notin E
    <3>1. ~(s[e].sibling <= e)
      BY <1>1, <2>3, <2>7
    <3>2. QED
      BY <2>2, <3>1
  <2>9. ~(s[e].sibling < n)
    BY <1>5, <2>7, <2>8
  <2>10. s[e].sibling = n
    BY <1>1, <2>6, <2>7, <2>9
  <2>11. QED
    BY <2>3, <2>10
<1>9. QED
  BY <1>7, <1>8

\* foreach() visits every node once.
LEMMA VisitsAll ==
    ASSUME NEW s, IsTrie(s)
    PROVE  /\ VisitsOf(s)[Root(s)] \in Seq(Nat) /\ Once(VisitsOf(s)[Root(s)])
           /\ Items(VisitsOf(s)[Root(s)]) = 1 .. Len(s)
<1>1. Len(s) \in Nat
  BY TrieNodes
<1>2. PICK r : r = Root(s)
  OBVIOUS
<1>3. r \in 0 .. Len(s) /\ (Len(s) # 0 => r = 1 /\ r \in 1 .. Len(s)) /\ (Len(s) = 0 => r = 0)
  BY <1>1, <1>2 DEF Root
<1>4. VisitsOf(s)[r] \in Seq(Nat) /\ Once(VisitsOf(s)[r])
  BY <1>3, VisitsAreWell DEF VisitsWell
<1>5. \A d \in Items(VisitsOf(s)[r]) :
              /\ d \in 1 .. Len(s)
              /\ s[d].child = 0 \/ s[d].child \in Items(VisitsOf(s)[r])
              /\ s[d].sibling = 0 \/ s[d].sibling \in Items(VisitsOf(s)[r])
  BY <1>3, VisitsGoOn
<1>6. PICK bad : bad = {n \in 1 .. Len(s) : n \notin Items(VisitsOf(s)[r])}
  OBVIOUS
<1>7. ASSUME bad # {} PROVE FALSE
  <2>1. bad \in SUBSET Nat
    BY <1>6
  <2>2. PICK n \in bad : \A i \in bad : n <= i
    BY <1>7, <2>1, LeastExists
  <2>3. n \in 1 .. Len(s) /\ n \notin Items(VisitsOf(s)[r]) /\ n \in Nat
    BY <1>6
  <2>4. Len(s) # 0
    BY <1>1, <2>3
  <2>5. r = 1 /\ r \in 1 .. Len(s)
    BY <1>3, <2>4
  <2>6. n # 1
    BY <2>3, <2>5, VisitsItself
  <2>7. PICK m \in 1 .. Len(s) : m < n /\ (s[m].child = n \/ s[m].sibling = n)
    BY <2>3, <2>6, LinkedFrom
  <2>8. m \notin bad
    <3>1. ~(n <= m)
      BY <2>3, <2>7
    <3>2. QED
      BY <2>2, <3>1
  <2>9. m \in Items(VisitsOf(s)[r])
    BY <1>6, <2>8
  <2>10. n # 0
    BY <2>3
  <2>11. QED
    BY <1>5, <2>3, <2>7, <2>9, <2>10
<1>8. Items(VisitsOf(s)[r]) = 1 .. Len(s)
  BY <1>5, <1>6, <1>7
<1>9. QED
  BY <1>2, <1>4, <1>8

\* A sequence with each of 1 .. L once is as long.
LEMMA OnceEach ==
    ASSUME NEW L \in Nat, NEW v \in Seq(Nat), Once(v), Items(v) = 1 .. L
    PROVE  Len(v) = L
<1>1. Len(v) \in Nat /\ DOMAIN v = 1 .. Len(v)
  OBVIOUS
<1>2. v \in [1 .. Len(v) -> 1 .. L]
  <2>1. v = [i \in 1 .. Len(v) |-> v[i]]
    BY <1>1
  <2>2. \A i \in 1 .. Len(v) : v[i] \in 1 .. L
    BY DEF Items
  <2>3. QED
    BY <2>1, <2>2
<1>3. IsInjective(v)
  BY <1>1 DEF IsInjective, Once
<1>4. \A t \in 1 .. L : \E i \in 1 .. Len(v) : v[i] = t
  BY DEF Items
<1>5. v \in Bijection(1 .. Len(v), 1 .. L)
  BY <1>2, <1>3, <1>4 DEF Bijection, Injection, Surjection
<1>6. ExistsBijection(1 .. Len(v), 1 .. L)
  BY <1>5 DEF ExistsBijection
<1>7. Cardinality(1 .. L) = Len(v)
  BY <1>1, <1>6, FS_CountingElements
<1>8. Cardinality(1 .. L) = L
  <2>1. Cardinality(1 .. L) = IF 1 > L THEN 0 ELSE L - 1 + 1
    BY FS_Interval
  <2>2. QED
    BY <2>1
<1>9. QED
  BY <1>7, <1>8

-----------------------------------------------------------------------------
(* The steps of a trie.                                                    *)

\* The nodes s with the root r and the cursor c, and values in V.
GoodTrie(s, r, c, V) ==
    /\ IsTrie(s) /\ r = Root(s) /\ c \in 0 .. Len(s) /\ Len(s) <= MaxNodes
    /\ \A n \in 1 .. Len(s) : s[n].value \in V

LEMMA RootIs ==
    ASSUME NEW s, IsTrie(s)
    PROVE  /\ Root(s) \in 0 .. Len(s)
           /\ Root(s) # 0 => Root(s) \in 1 .. Len(s)
<1>1. Len(s) \in Nat
  BY TrieNodes
<1>2. QED
  BY <1>1 DEF Root

LEMMA ValueKeepsTrie ==
    ASSUME NEW V \in SUBSET Int, NEW s, NEW r, NEW c, GoodTrie(s, r, c, V),
           NEW n \in 1 .. Len(s), NEW v \in V, NEW d \in 0 .. Len(s)
    PROVE  GoodTrie(Valued(s, n, v), r, d, V)
<1>1. s \in Seq(NodeOn(Int)) /\ v \in Int
  BY DEF GoodTrie, IsTrie
<1>2. PICK u : u = Valued(s, n, v)
  OBVIOUS
<1>3. /\ SameLinks(s, u)
      /\ \A m \in 1 .. Len(s) : u[m].value = IF m = n THEN v ELSE s[m].value
  BY <1>1, <1>2, ValueChanges
<1>4. IsTrie(u)
  BY <1>3, LinksStay DEF GoodTrie
<1>5. Len(u) = Len(s)
  BY <1>3 DEF SameLinks
<1>6. Root(u) = Root(s)
  BY <1>5 DEF Root
<1>7. \A m \in 1 .. Len(u) : u[m].value \in V
  BY <1>3, <1>5 DEF GoodTrie
<1>8. GoodTrie(u, r, d, V)
  BY <1>4, <1>5, <1>6, <1>7 DEF GoodTrie
<1>9. QED
  BY <1>2, <1>8

\* add_child()
WithKid(s, p, k) == IF Found(s, p, k) # 0 THEN s ELSE Added(s, p, k)

LEMMA KidKeepsTrie ==
    ASSUME NEW V \in SUBSET Int, 0 \in V, NEW s, NEW r, NEW c, GoodTrie(s, r, c, V),
           NEW p \in 1 .. Len(s), NEW k \in Key,
           WithKid(s, p, k) # s => Len(s) < MaxNodes
    PROVE  /\ GoodTrie(WithKid(s, p, k), r, c, V)
           /\ Found(WithKid(s, p, k), p, k) \in 1 .. Len(WithKid(s, p, k))
<1>1. IsTrie(s) /\ Len(s) \in Nat /\ Len(s) # 0
  BY TrieNodes DEF GoodTrie
<1>2. CASE Found(s, p, k) # 0
  <2>1. WithKid(s, p, k) = s
    BY <1>2 DEF WithKid
  <2>2. Found(s, p, k) \in 1 .. Len(s)
    BY <1>1, <1>2, FindsKid DEF Kids
  <2>3. QED
    BY <2>1, <2>2
<1>3. CASE Found(s, p, k) = 0
  <2>1. PICK u : u = Added(s, p, k)
    OBVIOUS
  <2>2. IsTrie(u) /\ Grows(s, u, p, k) /\ Found(u, p, k) = Len(s) + 1
    BY <1>1, <1>3, <2>1, AddsKid
  <2>3. WithKid(s, p, k) = u
    BY <1>3, <2>1 DEF WithKid
  <2>4. /\ Len(u) = Len(s) + 1
        /\ \A n \in 1 .. Len(s) : u[n].value = s[n].value
        /\ u[Len(s) + 1].value = 0
    BY <2>2 DEF Grows, NewNode
  <2>5. u # s
    BY <1>1, <2>4
  <2>6. Len(s) < MaxNodes
    BY <2>3, <2>5
  <2>7. Len(u) <= MaxNodes
    BY <1>1, <2>4, <2>6, MaxNodesAssumption
  <2>8. Root(u) = Root(s)
    BY <1>1, <2>4 DEF Root
  <2>9. \A n \in 1 .. Len(u) : u[n].value \in V
    <3>1. \A n \in 1 .. Len(s) : u[n].value \in V
      <4> SUFFICES ASSUME NEW n \in 1 .. Len(s) PROVE u[n].value \in V
        OBVIOUS
      <4>1. u[n].value = s[n].value
        BY <2>4
      <4>2. s[n].value \in V
        BY DEF GoodTrie
      <4>3. QED
        BY <4>1, <4>2
    <3>2. \A n \in 1 .. Len(u) : n \in 1 .. Len(s) \/ n = Len(s) + 1
      <4>1. Len(u) = Len(s) + 1 /\ Len(s) \in Nat
        BY <1>1, <2>4
      <4>2. QED
        BY ONLY <4>1
    <3>3. QED
      BY <2>4, <3>1, <3>2
  <2>10. c \in 0 .. Len(u)
    BY <1>1, <2>4 DEF GoodTrie
  <2>11. GoodTrie(u, r, c, V)
    BY <2>2, <2>7, <2>8, <2>9, <2>10 DEF GoodTrie
  <2>12. Found(u, p, k) \in 1 .. Len(u)
    BY <1>1, <2>2, <2>4
  <2>13. QED
    BY <2>3, <2>11, <2>12
<1>4. QED
  BY <1>2, <1>3

LEMMA FirstNode ==
    ASSUME NEW V, 0 \in V, NEW k \in Key, 0 < MaxNodes
    PROVE  GoodTrie(<<NewNode(k, 0)>>, 1, 0, V)
<1>1. PICK s : s = <<NewNode(k, 0)>>
  OBVIOUS
<1>2. IsTrie(s) /\ Len(s) = 1
  BY <1>1, OneNode
<1>3. s[1] = NewNode(k, 0)
  BY <1>1
<1>4. Root(s) = 1 /\ 0 \in 0 .. Len(s) /\ Len(s) <= MaxNodes
  BY <1>2, MaxNodesAssumption DEF Root
<1>5. \A n \in 1 .. Len(s) : s[n].value \in V
  BY <1>2, <1>3 DEF NewNode
<1>6. GoodTrie(s, 1, 0, V)
  BY <1>2, <1>4, <1>5 DEF GoodTrie
<1>7. QED
  BY <1>1, <1>6

LEMMA PathKeepsTrie ==
    ASSUME NEW V, 0 \in V, NEW q \in Seq(Key), q # <<>>, Len(q) <= MaxNodes, NEW c, c = 0
    PROVE  GoodTrie(ChainOf(q), 1, c, V) /\ Len(q) \in 1 .. Len(ChainOf(q))
<1>1. PICK s : s = ChainOf(q)
  OBVIOUS
<1>2. IsTrie(s) /\ Len(s) = Len(q)
  BY <1>1, ChainIsTrie, ChainNodes
<1>3. Len(q) \in Nat /\ Len(q) # 0
  BY EmptySeq
<1>4. \A n \in 1 .. Len(q) : s[n].value = 0
  BY <1>1, ChainNodes
<1>5. Root(s) = 1 /\ c \in 0 .. Len(s)
  BY <1>2, <1>3 DEF Root
<1>6. GoodTrie(s, 1, c, V)
  BY <1>2, <1>4, <1>5 DEF GoodTrie
<1>7. Len(q) \in 1 .. Len(s)
  BY <1>2, <1>3
<1>8. QED
  BY <1>1, <1>6, <1>7

LEMMA UpStays ==
    ASSUME NEW s, IsTrie(s), NEW c \in 1 .. Len(s)
    PROVE  s[c].parent \in 0 .. Len(s)
BY PathEnds

LEMMA EmptyIsGood == ASSUME NEW V PROVE GoodTrie(<<>>, 0, 0, V)
BY NoTrie, MaxNodesAssumption DEF GoodTrie, Root

LEMMA NodeAtIsNode ==
    ASSUME NEW s, IsTrie(s), NEW q \in Seq(Key), q # <<>>, NodeAt(s, Root(s), q) # 0
    PROVE  NodeAt(s, Root(s), q) \in 1 .. Len(s)
BY WayDown

\* The two ways through a trie, for any nodes.
TriesAgree(s, r) ==
    /\ \A n \in 1 .. Len(s) : NodeAt(s, r, PathsOf(s)[n]) = n
    /\ Len(VisitsOf(s)[r]) = Len(s)
    /\ Items(VisitsOf(s)[r]) = 1 .. Len(s) /\ VisitsOf(s)[r] \in Seq(Nat)

LEMMA GoodTriesAgree ==
    ASSUME NEW s, IsTrie(s)
    PROVE  TriesAgree(s, Root(s))
<1>1. Len(s) \in Nat
  BY TrieNodes
<1>2. ASSUME NEW n \in 1 .. Len(s) PROVE NodeAt(s, Root(s), PathsOf(s)[n]) = n
  <2>1. PathsOf(s)[n] \in Seq(Key) /\ Len(PathsOf(s)[n]) = Len(PathsOf(s)[s[n].parent]) + 1
    BY PathEnds
  <2>2. Len(PathsOf(s)[s[n].parent]) \in Nat
    <3>1. PathsOf(s)[s[n].parent] \in Seq(Key)
      BY PathEnds
    <3>2. QED
      BY <3>1
  <2>3. PathsOf(s)[n] # <<>>
    BY <2>1, <2>2
  <2>4. PICK m : m = NodeAt(s, Root(s), PathsOf(s)[n])
    OBVIOUS
  <2>5. m \in 1 .. Len(s) /\ PathsOf(s)[m] = PathsOf(s)[n]
    BY <2>1, <2>3, <2>4, WayDown
  <2>6. m \in 0 .. Len(s) /\ n \in 0 .. Len(s)
    BY <1>1, <2>5
  <2>7. m = n
    BY <2>5, <2>6, PathsDiffer
  <2>8. QED
    BY <2>4, <2>7
<1>3. /\ VisitsOf(s)[Root(s)] \in Seq(Nat) /\ Once(VisitsOf(s)[Root(s)])
      /\ Items(VisitsOf(s)[Root(s)]) = 1 .. Len(s)
  BY VisitsAll
<1>4. Len(VisitsOf(s)[Root(s)]) = Len(s)
  BY <1>1, <1>3, OnceEach
<1>5. QED
  BY <1>2, <1>3, <1>4 DEF TriesAgree

-----------------------------------------------------------------------------
(* The trie by itself, and in a metric2::monitor.                          *)

TrieGood == GoodTrie(t_nodes, t_root, t_cursor, 0 .. 1)

\* Timers hold no more than the time, and only a monitor that is used has any.
TimersGood ==
    IF program = "trie monitor"
    THEN now \in 0 .. MaxTime /\ GoodTrie(m_nodes, m_root, m_cursor, 0 .. now)
    ELSE GoodTrie(m_nodes, m_root, m_cursor, {0})

LEMMA TrieAgrees == ASSUME TrieGood PROVE T!UpAndDownAgree
<1>1. IsTrie(t_nodes) /\ t_root = Root(t_nodes) /\ t_cursor \in 0 .. Len(t_nodes)
      /\ Len(t_nodes) <= MaxNodes /\ \A n \in 1 .. Len(t_nodes) : t_nodes[n].value \in 0 .. 1
  BY DEF TrieGood, GoodTrie
<1>2. DOMAIN t_nodes = 1 .. Len(t_nodes) /\ Len(t_nodes) \in Nat
  BY <1>1, TrieNodes
<1>3. TriesAgree(t_nodes, t_root)
  BY <1>1, GoodTriesAgree
<1>4. T!Node = 1 .. Len(t_nodes)
  BY <1>2 DEF T!Node
<1>5. \A n \in T!Node : T!NodeOf(T!PathTo(n)) = n
  <2> SUFFICES ASSUME NEW n \in T!Node PROVE T!NodeOf(T!PathTo(n)) = n
    OBVIOUS
  <2>1. T!NodeOf(T!PathTo(n)) = NodeAt(t_nodes, t_root, T!PathTo(n))
    BY TNodeOf
  <2>2. T!PathTo(n) = PathsOf(t_nodes)[n]
    BY TPaths
  <2>3. QED
    BY <1>3, <1>4, <2>1, <2>2 DEF TriesAgree
<1>6. Len(T!Visited) = Len(t_nodes) /\ T!ToSet(T!Visited) = T!Node
  <2>1. T!Visited = VisitsOf(t_nodes)[t_root]
    BY TVisited
  <2>2. PICK v : v = VisitsOf(t_nodes)[t_root]
    OBVIOUS
  <2>3. v \in Seq(Nat) /\ Items(v) = 1 .. Len(t_nodes) /\ Len(v) = Len(t_nodes)
    BY <1>3, <2>2 DEF TriesAgree
  <2>4. T!ToSet(v) = Items(v)
    BY <2>3 DEF T!ToSet, Items
  <2>5. QED
    BY <1>4, <2>1, <2>2, <2>3, <2>4
<1>7. T!TypeOK
  <2>1. \A n \in 0 .. Len(t_nodes) : n \in T!Node \cup {T!null}
    BY <1>2, <1>4 DEF T!null
  <2>2. t_root \in T!Node \cup {T!null} /\ t_cursor \in T!Node \cup {T!null}
    BY <1>1, <2>1, RootIs
  <2>3. ASSUME NEW n \in T!Node
        PROVE  /\ {t_nodes[n].parent, t_nodes[n].child, t_nodes[n].sibling}
                     \subseteq T!Node \cup {T!null}
               /\ t_nodes[n].key \in Key
    <3>1. n \in 1 .. Len(t_nodes)
      BY <1>4
    <3>2. t_nodes[n].parent \in 0 .. Len(t_nodes)
      BY <1>1, <3>1, PathEnds
    <3>3. t_nodes[n].child = 0 \/ t_nodes[n].child \in 1 .. Len(t_nodes)
      BY <1>1, <3>1, LinksForward
    <3>4. t_nodes[n].sibling = 0 \/ t_nodes[n].sibling \in 1 .. Len(t_nodes)
      BY <1>1, <3>1, LinksForward
    <3>5. t_nodes[n].key \in Key
      BY <1>1, <3>1, TrieNodes
    <3>6. QED
      BY <1>4, <2>1, <3>2, <3>3, <3>4, <3>5 DEF T!null
  <2>4. UNION {DOMAIN f : f \in Func} = 0 .. 1
    BY DEF Func
  <2>5. QED
    BY <1>1, <1>4, <2>2, <2>3, <2>4 DEF T!TypeOK
<1>8. QED
  BY <1>5, <1>6, <1>7 DEF T!UpAndDownAgree

LEMMA TimersAgree == ASSUME TimersGood PROVE M!UpAndDownAgree
<1>1. IsTrie(m_nodes) /\ m_root = Root(m_nodes) /\ m_cursor \in 0 .. Len(m_nodes)
      /\ Len(m_nodes) <= MaxNodes
  BY DEF TimersGood, GoodTrie
<1>2. \A n \in 1 .. Len(m_nodes) : m_nodes[n].value \in 0 .. MaxTime
  <2>1. CASE program = "trie monitor"
    <3>1. \A n \in 1 .. Len(m_nodes) : m_nodes[n].value \in 0 .. now
      BY <2>1 DEF TimersGood, GoodTrie
    <3>2. now \in 0 .. MaxTime
      BY <2>1 DEF TimersGood
    <3>3. \A v \in 0 .. now : v \in 0 .. MaxTime
      BY <3>2, MaxTimeAssumption
    <3>4. QED
      BY <3>1, <3>3
  <2>2. CASE program # "trie monitor"
    <3>1. \A n \in 1 .. Len(m_nodes) : m_nodes[n].value \in {0}
      BY <2>2 DEF TimersGood, GoodTrie
    <3>2. 0 \in 0 .. MaxTime
      BY MaxTimeAssumption
    <3>3. QED
      BY <3>1, <3>2
  <2>3. QED
    BY <2>1, <2>2
<1>3. DOMAIN m_nodes = 1 .. Len(m_nodes) /\ Len(m_nodes) \in Nat
  BY <1>1, TrieNodes
<1>4. TriesAgree(m_nodes, m_root)
  BY <1>1, GoodTriesAgree
<1>5. M!Node = 1 .. Len(m_nodes)
  BY <1>3 DEF M!Node
<1>6. \A n \in M!Node : M!NodeOf(M!PathTo(n)) = n
  <2> SUFFICES ASSUME NEW n \in M!Node PROVE M!NodeOf(M!PathTo(n)) = n
    OBVIOUS
  <2>1. M!NodeOf(M!PathTo(n)) = NodeAt(m_nodes, m_root, M!PathTo(n))
    BY MNodeOf
  <2>2. M!PathTo(n) = PathsOf(m_nodes)[n]
    BY TPaths
  <2>3. QED
    BY <1>4, <1>5, <2>1, <2>2 DEF TriesAgree
<1>7. Len(M!Visited) = Len(m_nodes) /\ M!ToSet(M!Visited) = M!Node
  <2>1. M!Visited = VisitsOf(m_nodes)[m_root]
    BY TVisited
  <2>2. PICK v : v = VisitsOf(m_nodes)[m_root]
    OBVIOUS
  <2>3. v \in Seq(Nat) /\ Items(v) = 1 .. Len(m_nodes) /\ Len(v) = Len(m_nodes)
    BY <1>4, <2>2 DEF TriesAgree
  <2>4. M!ToSet(v) = Items(v)
    BY <2>3 DEF M!ToSet, Items
  <2>5. QED
    BY <1>5, <2>1, <2>2, <2>3, <2>4
<1>8. M!TypeOK
  <2>1. \A n \in 0 .. Len(m_nodes) : n \in M!Node \cup {M!null}
    BY <1>3, <1>5 DEF M!null
  <2>2. m_root \in M!Node \cup {M!null} /\ m_cursor \in M!Node \cup {M!null}
    BY <1>1, <2>1, RootIs
  <2>3. ASSUME NEW n \in M!Node
        PROVE  /\ {m_nodes[n].parent, m_nodes[n].child, m_nodes[n].sibling}
                     \subseteq M!Node \cup {M!null}
               /\ m_nodes[n].key \in Key
    <3>1. n \in 1 .. Len(m_nodes)
      BY <1>5
    <3>2. m_nodes[n].parent \in 0 .. Len(m_nodes)
      BY <1>1, <3>1, PathEnds
    <3>3. m_nodes[n].child = 0 \/ m_nodes[n].child \in 1 .. Len(m_nodes)
      BY <1>1, <3>1, LinksForward
    <3>4. m_nodes[n].sibling = 0 \/ m_nodes[n].sibling \in 1 .. Len(m_nodes)
      BY <1>1, <3>1, LinksForward
    <3>5. m_nodes[n].key \in Key
      BY <1>1, <3>1, TrieNodes
    <3>6. QED
      BY <1>5, <2>1, <3>2, <3>3, <3>4, <3>5 DEF M!null
  <2>4. UNION {DOMAIN f : f \in [0 .. MaxTime -> 0 .. MaxTime]} = 0 .. MaxTime
    <3>1. [e \in 0 .. MaxTime |-> e] \in [0 .. MaxTime -> 0 .. MaxTime]
      OBVIOUS
    <3>2. \A f \in [0 .. MaxTime -> 0 .. MaxTime] : DOMAIN f = 0 .. MaxTime
      OBVIOUS
    <3>3. QED
      BY <3>1, <3>2
  <2>5. QED
    BY <1>2, <1>1, <1>5, <2>2, <2>3, <2>4 DEF M!TypeOK
<1>9. QED
  BY <1>6, <1>7, <1>8 DEF M!UpAndDownAgree

-----------------------------------------------------------------------------
(* The values of a trie by the paths of its nodes.                         *)

Paths(s) == {PathsOf(s)[n] : n \in 1 .. Len(s)}
MapOf(s) == [p \in Paths(s) |-> s[NodeAt(s, Root(s), p)].value]

LEMMA MapIs ==
    ASSUME NEW s, IsTrie(s)
    PROVE  /\ DOMAIN MapOf(s) = Paths(s) /\ MapOf(s) = [p \in Paths(s) |-> MapOf(s)[p]]
           /\ \A n \in 1 .. Len(s) :
                 PathsOf(s)[n] \in Paths(s) /\ MapOf(s)[PathsOf(s)[n]] = s[n].value
<1>1. \A n \in 1 .. Len(s) : NodeAt(s, Root(s), PathsOf(s)[n]) = n
  BY GoodTriesAgree DEF TriesAgree
<1>2. \A n \in 1 .. Len(s) : PathsOf(s)[n] \in Paths(s)
  BY DEF Paths
<1>3. \A p \in Paths(s) : MapOf(s)[p] = s[NodeAt(s, Root(s), p)].value
  BY DEF MapOf
<1>4. \A n \in 1 .. Len(s) : MapOf(s)[PathsOf(s)[n]] = s[n].value
  BY <1>1, <1>2, <1>3
<1>5. DOMAIN MapOf(s) = Paths(s) /\ MapOf(s) = [p \in Paths(s) |-> MapOf(s)[p]]
  BY DEF MapOf
<1>6. QED
  BY <1>2, <1>4, <1>5

\* There is one map with the values of a trie.
LEMMA MapIsOne ==
    ASSUME NEW s, IsTrie(s), NEW m, m = [p \in Paths(s) |-> m[p]],
           \A n \in 1 .. Len(s) : m[PathsOf(s)[n]] = s[n].value
    PROVE  MapOf(s) = m
<1>1. PICK h : h = MapOf(s)
  OBVIOUS
<1>2. h = [p \in Paths(s) |-> h[p]] /\ \A n \in 1 .. Len(s) : h[PathsOf(s)[n]] = s[n].value
  BY <1>1, MapIs
<1>3. \A p \in Paths(s) : h[p] = m[p]
  BY <1>2 DEF Paths
<1>4. h = m
  BY <1>2, <1>3
<1>5. QED
  BY <1>1, <1>4

LEMMA PathsStay ==
    ASSUME NEW s, IsTrie(s), NEW u, SameLinks(s, u)
    PROVE  /\ IsTrie(u) /\ Len(u) = Len(s) /\ Paths(u) = Paths(s)
           /\ \A n \in 0 .. Len(s) : PathsOf(u)[n] = PathsOf(s)[n]
<1>1. IsTrie(u) /\ Len(u) = Len(s) /\ Len(s) \in Nat
  BY LinksStay, TrieNodes DEF SameLinks
<1>2. \A n \in 1 .. Len(s) : u[n].parent = s[n].parent /\ u[n].key = s[n].key
  BY DEF SameLinks
<1>3. \A n \in 0 .. Len(s) : PathsOf(u)[n] = PathsOf(s)[n]
  BY <1>1, <1>2, PathsAgree
<1>4. \A n \in 1 .. Len(s) : n \in 0 .. Len(s)
  BY <1>1
<1>5. Paths(u) = Paths(s)
  BY <1>1, <1>3, <1>4 DEF Paths
<1>6. QED
  BY <1>1, <1>3, <1>5

\* The program changes the value of a path.
LEMMA ValueOfPath ==
    ASSUME NEW s, IsTrie(s), NEW n \in 1 .. Len(s), NEW v \in Int
    PROVE  /\ MapOf(Valued(s, n, v)) = [MapOf(s) EXCEPT ![PathsOf(s)[n]] = v]
           /\ \A i \in 0 .. Len(s) : PathsOf(Valued(s, n, v))[i] = PathsOf(s)[i]
<1>1. PICK u : u = Valued(s, n, v)
  OBVIOUS
<1>2. SameLinks(s, u) /\ \A m \in 1 .. Len(s) : u[m].value = IF m = n THEN v ELSE s[m].value
  BY <1>1, ValueChanges DEF IsTrie
<1>3. /\ IsTrie(u) /\ Len(u) = Len(s) /\ Paths(u) = Paths(s)
      /\ \A i \in 0 .. Len(s) : PathsOf(u)[i] = PathsOf(s)[i]
  BY <1>2, PathsStay
<1>4. PICK h, p : h = MapOf(s) /\ p = PathsOf(s)[n]
  OBVIOUS
<1>5. /\ DOMAIN h = Paths(s) /\ h = [q \in Paths(s) |-> h[q]]
      /\ \A i \in 1 .. Len(s) : PathsOf(s)[i] \in Paths(s) /\ h[PathsOf(s)[i]] = s[i].value
  BY <1>4, MapIs
<1>6. PICK m : m = [h EXCEPT ![p] = v]
  OBVIOUS
<1>7. m = [q \in Paths(u) |-> m[q]] /\ \A q \in Paths(s) : m[q] = IF q = p THEN v ELSE h[q]
  BY <1>3, <1>5, <1>6
<1>8. \A i \in 1 .. Len(s) : i \in 0 .. Len(s)
  BY TrieNodes
<1>9. ASSUME NEW i \in 1 .. Len(s) PROVE m[PathsOf(u)[i]] = u[i].value
  <2>1. PathsOf(s)[i] = p <=> i = n
    BY <1>4, <1>8, PathsDiffer
  <2>2. PathsOf(u)[i] = PathsOf(s)[i]
    BY <1>3, <1>8
  <2>3. QED
    BY <1>2, <1>5, <1>7, <2>1, <2>2
<1>10. MapOf(u) = m
  BY <1>3, <1>7, <1>9, MapIsOne
<1>11. QED
  BY <1>1, <1>3, <1>4, <1>6, <1>10

\* The prefixes of a path.
Prefs(q) == {SubSeq(q, 1, i) : i \in 1 .. Len(q)}

LEMMA PrefsLonger ==
    ASSUME NEW x \in Seq(Key), NEW k \in Key
    PROVE  Prefs(Append(x, k)) = Prefs(x) \cup {Append(x, k)}
<1>1. PICK y : y = Append(x, k)
  OBVIOUS
<1>2. /\ y \in Seq(Key) /\ Len(y) = Len(x) + 1 /\ Len(x) \in Nat
      /\ \A i \in 1 .. Len(x) : y[i] = x[i]
  BY <1>1, AppendProperties
<1>3. ASSUME NEW i \in 1 .. Len(x) PROVE SubSeq(y, 1, i) = SubSeq(x, 1, i)
  <2>1. PICK a, b : a = SubSeq(y, 1, i) /\ b = SubSeq(x, 1, i)
    OBVIOUS
  <2>2. a = [j \in 1 .. i |-> y[j]] /\ b = [j \in 1 .. i |-> x[j]]
    BY <1>2, <2>1
  <2>3. \A j \in 1 .. i : y[j] = x[j]
    BY <1>2
  <2>4. QED
    BY <2>1, <2>2, <2>3
<1>4. SubSeq(y, 1, Len(y)) = y
  BY <1>2
<1>5. \A i \in 1 .. Len(y) : i \in 1 .. Len(x) \/ i = Len(y)
  <2>1. Len(y) = Len(x) + 1 /\ Len(x) \in Nat
    BY <1>2
  <2>2. QED
    BY ONLY <2>1
<1>6. Len(y) \in 1 .. Len(y) /\ \A i \in 1 .. Len(x) : i \in 1 .. Len(y)
  <2>1. Len(y) = Len(x) + 1 /\ Len(x) \in Nat
    BY <1>2
  <2>2. QED
    BY ONLY <2>1
<1>7. Prefs(y) = Prefs(x) \cup {y}
  <2>1. \A z \in Prefs(y) : z \in Prefs(x) \/ z = y
    BY <1>3, <1>4, <1>5 DEF Prefs
  <2>2. \A z \in Prefs(x) : z \in Prefs(y)
    BY <1>3, <1>6 DEF Prefs
  <2>3. y \in Prefs(y)
    BY <1>4, <1>6 DEF Prefs
  <2>4. QED
    BY <2>1, <2>2, <2>3
<1>8. QED
  BY <1>1, <1>7

LEMMA PrefsAreThere ==
    ASSUME NEW s, IsTrie(s), NEW n \in 1 .. Len(s)
    PROVE  Prefs(PathsOf(s)[n]) \subseteq Paths(s)
<1>1. PICK bad : bad = {i \in 1 .. Len(s) : ~(Prefs(PathsOf(s)[i]) \subseteq Paths(s))}
  OBVIOUS
<1>2. ASSUME bad # {} PROVE FALSE
  <2>1. bad \in SUBSET Nat
    BY <1>1
  <2>2. PICK i \in bad : \A j \in bad : i <= j
    BY <1>2, <2>1, LeastExists
  <2>3. i \in 1 .. Len(s) /\ i \in Nat /\ ~(Prefs(PathsOf(s)[i]) \subseteq Paths(s))
    BY <1>1
  <2>4. PICK p : p = s[i].parent
    OBVIOUS
  <2>5. /\ PathsOf(s)[p] \in Seq(Key) /\ s[i].key \in Key
        /\ PathsOf(s)[i] = Append(PathsOf(s)[p], s[i].key)
    BY <2>3, <2>4, PathEnds, TrieNodes
  <2>6. Prefs(PathsOf(s)[p]) \subseteq Paths(s)
    <3>1. CASE p = 0
      <4>1. PathsOf(s)[p] = <<>>
        BY <3>1, NoPath
      <4>2. Prefs(<<>>) = {}
        BY DEF Prefs
      <4>3. QED
        BY <4>1, <4>2
    <3>2. CASE p # 0
      <4>1. p \in 1 .. Len(s) /\ p < i
        BY <2>3, <2>4, <3>2, TrieNodes
      <4>2. ~(i <= p)
        BY <2>3, <4>1
      <4>3. p \notin bad
        BY <2>2, <4>2
      <4>4. QED
        BY <1>1, <4>1, <4>3
    <3>3. QED
      BY <3>1, <3>2
  <2>7. PathsOf(s)[i] \in Paths(s)
    BY <2>3 DEF Paths
  <2>8. Prefs(PathsOf(s)[i]) = Prefs(PathsOf(s)[p]) \cup {PathsOf(s)[i]}
    BY <2>5, PrefsLonger
  <2>9. QED
    BY <2>3, <2>6, <2>7, <2>8
<1>3. QED
  BY <1>1, <1>2

\* All paths begin with the key of the root.
LEMMA PathsBegin ==
    ASSUME NEW s, IsTrie(s), NEW n \in 1 .. Len(s)
    PROVE  PathsOf(s)[n] # <<>> /\ Head(PathsOf(s)[n]) = s[1].key
<1>1. PICK bad : bad = {i \in 1 .. Len(s) : PathsOf(s)[i][1] # s[1].key}
  OBVIOUS
<1>2. ASSUME bad # {} PROVE FALSE
  <2>1. bad \in SUBSET Nat
    BY <1>1
  <2>2. PICK i \in bad : \A j \in bad : i <= j
    BY <1>2, <2>1, LeastExists
  <2>3. i \in 1 .. Len(s) /\ i \in Nat /\ PathsOf(s)[i][1] # s[1].key
    BY <1>1
  <2>4. PICK p : p = s[i].parent
    OBVIOUS
  <2>5. PICK x, y : x = PathsOf(s)[i] /\ y = PathsOf(s)[p]
    OBVIOUS
  <2>6. /\ y \in Seq(Key) /\ Len(x) = Len(y) + 1 /\ x[Len(x)] = s[i].key
        /\ \A j \in 1 .. Len(y) : x[j] = y[j]
    BY <2>3, <2>4, <2>5, PathEnds
  <2>7. CASE p = 0
    <3>1. Len(y) = 0
      BY <2>5, <2>7, NoPath
    <3>2. i = 1
      BY <2>3, <2>4, <2>7, TrieNodes
    <3>3. QED
      BY <2>3, <2>5, <2>6, <3>1, <3>2
  <2>8. CASE p # 0
    <3>1. p \in 1 .. Len(s) /\ p < i
      BY <2>3, <2>4, <2>8, TrieNodes
    <3>2. ~(i <= p)
      BY <2>3, <3>1
    <3>3. y[1] = s[1].key
      <4>1. p \notin bad
        BY <2>2, <3>2
      <4>2. QED
        BY <1>1, <2>5, <3>1, <4>1
    <3>4. Len(y) >= 1
      <4>1. Len(y) = Len(PathsOf(s)[s[p].parent]) + 1
        BY <2>5, <3>1, PathEnds
      <4>2. PathsOf(s)[s[p].parent] \in Seq(Key)
        BY <3>1, PathEnds
      <4>3. Len(PathsOf(s)[s[p].parent]) \in Nat
        BY <4>2
      <4>4. QED
        BY <4>1, <4>3
    <3>5. 1 \in 1 .. Len(y)
      BY <2>6, <3>4
    <3>6. QED
      BY <2>3, <2>5, <2>6, <3>3, <3>5
  <2>9. QED
    BY <2>7, <2>8
<1>3. PathsOf(s)[n][1] = s[1].key
  BY <1>1, <1>2
<1>4. /\ PathsOf(s)[n] \in Seq(Key) /\ PathsOf(s)[s[n].parent] \in Seq(Key)
      /\ Len(PathsOf(s)[n]) = Len(PathsOf(s)[s[n].parent]) + 1
  BY PathEnds
<1>5. Len(PathsOf(s)[s[n].parent]) \in Nat
  BY <1>4
<1>6. PathsOf(s)[n] # <<>>
  BY <1>4, <1>5
<1>7. QED
  BY <1>3, <1>4, <1>6

\* A path without its last key is the parent's.
LEMMA PathUp ==
    ASSUME NEW s, IsTrie(s), NEW n \in 1 .. Len(s)
    PROVE  PathsOf(s)[s[n].parent] = SubSeq(PathsOf(s)[n], 1, Len(PathsOf(s)[n]) - 1)
<1>1. PICK x, y : x = PathsOf(s)[n] /\ y = PathsOf(s)[s[n].parent]
  OBVIOUS
<1>2. /\ x \in Seq(Key) /\ y \in Seq(Key) /\ Len(x) = Len(y) + 1
      /\ \A j \in 1 .. Len(y) : x[j] = y[j]
  BY <1>1, PathEnds
<1>3. Len(x) - 1 = Len(y) /\ Len(y) \in Nat
  BY <1>2
<1>4. SubSeq(x, 1, Len(y)) = [j \in 1 .. Len(y) |-> x[j]]
  BY <1>2, <1>3
<1>5. y = [j \in 1 .. Len(y) |-> y[j]]
  BY <1>2
<1>6. SubSeq(x, 1, Len(y)) = y
  BY <1>2, <1>4, <1>5
<1>7. QED
  BY <1>1, <1>3, <1>6

\* The paths of q are there, with a value of 0 if they are new.
GrownBy(m, q) ==
    [x \in DOMAIN m \cup Prefs(q) |-> IF x \in DOMAIN m THEN m[x] ELSE 0]

LEMMA SameGrown ==
    ASSUME NEW m, NEW q, m = [p \in DOMAIN m |-> m[p]], Prefs(q) \subseteq DOMAIN m
    PROVE  GrownBy(m, q) = m
<1>1. PICK g : g = GrownBy(m, q)
  OBVIOUS
<1>2. PICK D : D = DOMAIN m
  OBVIOUS
<1>3. D \cup Prefs(q) = D
  BY <1>2
<1>4. g = [x \in D |-> IF x \in D THEN m[x] ELSE 0]
  BY <1>1, <1>2, <1>3 DEF GrownBy
<1>5. g = [x \in D |-> g[x]] /\ \A x \in D : g[x] = m[x]
  BY <1>4
<1>6. m = [x \in D |-> m[x]]
  BY <1>2
<1>7. g = m
  BY <1>5, <1>6
<1>8. QED
  BY <1>1, <1>7

LEMMA KidGrows ==
    ASSUME NEW s, IsTrie(s), NEW p \in 1 .. Len(s), NEW k \in Key
    PROVE  /\ MapOf(WithKid(s, p, k)) = GrownBy(MapOf(s), Append(PathsOf(s)[p], k))
           /\ IsTrie(WithKid(s, p, k))
           /\ Found(WithKid(s, p, k), p, k) \in 1 .. Len(WithKid(s, p, k))
           /\ PathsOf(WithKid(s, p, k))[Found(WithKid(s, p, k), p, k)]
                 = Append(PathsOf(s)[p], k)
<1>1. PICK q : q = Append(PathsOf(s)[p], k)
  OBVIOUS
<1>2. PathsOf(s)[p] \in Seq(Key) /\ Len(s) \in Nat
  BY PathEnds, TrieNodes
<1>3. Prefs(q) = Prefs(PathsOf(s)[p]) \cup {q}
  BY <1>1, <1>2, PrefsLonger
<1>4. Prefs(PathsOf(s)[p]) \subseteq Paths(s)
  BY PrefsAreThere
<1>5. PICK h : h = MapOf(s)
  OBVIOUS
<1>6. /\ DOMAIN h = Paths(s) /\ h = [x \in Paths(s) |-> h[x]]
      /\ \A n \in 1 .. Len(s) : PathsOf(s)[n] \in Paths(s) /\ h[PathsOf(s)[n]] = s[n].value
  BY <1>5, MapIs
<1>7. CASE Found(s, p, k) # 0
  <2>1. PICK n : n = Found(s, p, k)
    OBVIOUS
  <2>2. n \in Kids(s, p) /\ s[n].key = k
    BY <1>7, <2>1, FindsKid
  <2>3. n \in 1 .. Len(s) /\ s[n].parent = p
    BY <2>2 DEF Kids
  <2>4. PathsOf(s)[n] = q
    <3>1. PathsOf(s)[n] = Append(PathsOf(s)[s[n].parent], s[n].key)
      BY <2>3, PathEnds
    <3>2. QED
      BY <1>1, <2>2, <2>3, <3>1
  <2>5. q \in Paths(s)
    BY <2>3, <2>4 DEF Paths
  <2>6. GrownBy(h, q) = h
    <3>1. Prefs(q) \subseteq DOMAIN h
      BY <1>3, <1>4, <1>6, <2>5
    <3>2. h = [x \in DOMAIN h |-> h[x]]
      BY <1>6
    <3>3. QED
      BY <3>1, <3>2, SameGrown
  <2>7. WithKid(s, p, k) = s
    BY <1>7 DEF WithKid
  <2>8. QED
    BY <1>1, <1>5, <2>1, <2>3, <2>4, <2>6, <2>7
<1>8. CASE Found(s, p, k) = 0
  <2>1. PICK u : u = WithKid(s, p, k)
    OBVIOUS
  <2>2. u = Added(s, p, k)
    BY <1>8, <2>1 DEF WithKid
  <2>3. IsTrie(u) /\ Grows(s, u, p, k) /\ Found(u, p, k) = Len(s) + 1
    BY <1>8, <2>2, AddsKid
  <2>4. PICK l : l = Len(s) + 1
    OBVIOUS
  <2>5. /\ Len(u) = l /\ u[l].parent = p /\ u[l].key = k /\ u[l].value = 0
        /\ \A n \in 1 .. Len(s) : u[n].parent = s[n].parent /\ u[n].key = s[n].key
                                  /\ u[n].value = s[n].value
    BY <2>3, <2>4 DEF Grows, NewNode
  <2>6. /\ l \in 1 .. l /\ l \in Nat /\ Len(s) <= l
        /\ \A n \in 1 .. Len(s) : n \in 0 .. Len(s) /\ n \in 1 .. l
        /\ \A n \in 1 .. l : n \in 1 .. Len(s) \/ n = l
    <3>1. l = Len(s) + 1 /\ Len(s) \in Nat
      BY <1>2, <2>4
    <3>2. QED
      BY ONLY <3>1
  <2>7. \A n \in 0 .. Len(s) : PathsOf(u)[n] = PathsOf(s)[n]
    <3>1. \A n \in 1 .. Len(s) : u[n].parent = s[n].parent /\ u[n].key = s[n].key
      BY <2>5
    <3>2. Len(s) <= Len(s) /\ Len(s) <= Len(u)
      BY <1>2, <2>5, <2>6
    <3>3. QED
      BY <1>2, <2>3, <3>1, <3>2, PathsAgree
  <2>8. PathsOf(u)[l] = q
    <3>1. PathsOf(u)[l] = Append(PathsOf(u)[u[l].parent], u[l].key)
      BY <2>3, <2>5, <2>6, PathEnds
    <3>2. PathsOf(u)[p] = PathsOf(s)[p]
      BY <2>6, <2>7
    <3>3. QED
      BY <1>1, <2>5, <3>1, <3>2
  <2>9. Paths(u) = Paths(s) \cup {q}
    BY <2>5, <2>6, <2>7, <2>8 DEF Paths
  <2>10. q \notin Paths(s)
    <3> SUFFICES ASSUME NEW n \in 1 .. Len(s), PathsOf(s)[n] = q PROVE FALSE
      BY DEF Paths
    <3>1. PathsOf(s)[n] = Append(PathsOf(s)[s[n].parent], s[n].key)
          /\ PathsOf(s)[s[n].parent] \in Seq(Key) /\ s[n].parent \in 0 .. Len(s)
      BY PathEnds
    <3>2. s[n].key \in Key
      BY TrieNodes
    <3>3. PathsOf(s)[s[n].parent] = PathsOf(s)[p] /\ s[n].key = k
      <4>1. PICK a \in Seq(Key), b \in Key : a = PathsOf(s)[s[n].parent] /\ b = s[n].key
        BY <3>1, <3>2
      <4>2. PICK c \in Seq(Key) : c = PathsOf(s)[p]
        BY <1>2
      <4>3. Append(a, b) = Append(c, k)
        BY <1>1, <3>1, <4>1, <4>2
      <4>4. a = c /\ b = k
        BY <4>3, SameAppend
      <4>5. QED
        BY <4>1, <4>2, <4>4
    <3>4. s[n].parent = p
      BY <2>6, <3>1, <3>3, PathsDiffer
    <3>5. n \in Kids(s, p)
      BY <3>4 DEF Kids
    <3>6. 0 \notin Kids(s, p)
      BY DEF Kids
    <3>7. QED
      BY <1>8, <3>3, <3>5, <3>6, FindsKid
  <2>11. PICK g : g = GrownBy(h, q)
    OBVIOUS
  <2>12. DOMAIN h \cup Prefs(q) = Paths(u)
    BY <1>3, <1>4, <1>6, <2>9
  <2>13. g = [x \in Paths(u) |-> IF x \in DOMAIN h THEN h[x] ELSE 0]
    BY <2>11, <2>12 DEF GrownBy
  <2>14. /\ g = [x \in Paths(u) |-> g[x]]
         /\ \A x \in Paths(u) : g[x] = IF x \in Paths(s) THEN h[x] ELSE 0
    BY <1>6, <2>13
  <2>15. ASSUME NEW n \in 1 .. Len(u) PROVE g[PathsOf(u)[n]] = u[n].value
    <3>1. PathsOf(u)[n] \in Paths(u)
      BY DEF Paths
    <3>2. CASE n = l
      BY <2>5, <2>8, <2>10, <2>14, <3>1, <3>2
    <3>3. CASE n \in 1 .. Len(s)
      <4>1. PathsOf(u)[n] = PathsOf(s)[n] /\ u[n].value = s[n].value
        BY <2>5, <2>6, <2>7, <3>3
      <4>2. QED
        BY <1>6, <2>14, <3>1, <3>3, <4>1
    <3>4. QED
      BY <2>5, <2>6, <3>2, <3>3
  <2>16. MapOf(u) = g
    BY <2>3, <2>14, <2>15, MapIsOne
  <2>17. Found(u, p, k) = l /\ l \in 1 .. Len(u)
    BY <2>3, <2>4, <2>5, <2>6
  <2>18. QED
    BY <1>1, <1>5, <2>1, <2>3, <2>8, <2>11, <2>16, <2>17
<1>9. QED
  BY <1>7, <1>8

LEMMA NoMap == MapOf(<<>>) = <<>> /\ Paths(<<>>) = {}
<1>1. Paths(<<>>) = {}
  BY DEF Paths
<1>2. PICK h : h = MapOf(<<>>)
  OBVIOUS
<1>3. h = [p \in {} |-> h[p]]
  BY <1>1, <1>2 DEF MapOf
<1>4. h = <<>>
  BY <1>3
<1>5. QED
  BY <1>1, <1>2, <1>4

\* The nodes that create() makes are the prefixes of its path.
LEMMA ChainPaths ==
    ASSUME NEW q \in Seq(Key)
    PROVE  \A i \in 0 .. Len(q) : PathsOf(ChainOf(q))[i] = SubSeq(q, 1, i)
<1>1. PICK s : s = ChainOf(q)
  OBVIOUS
<1>2. /\ IsTrie(s) /\ Len(s) = Len(q) /\ Len(q) \in Nat
      /\ \A i \in 1 .. Len(q) : s[i].parent = i - 1 /\ s[i].key = q[i]
  BY <1>1, ChainIsTrie, ChainNodes
<1>3. PICK bad : bad = {i \in 0 .. Len(q) : PathsOf(s)[i] # SubSeq(q, 1, i)}
  OBVIOUS
<1>4. ASSUME bad # {} PROVE FALSE
  <2>1. bad \in SUBSET Nat
    BY <1>3
  <2>2. PICK i \in bad : \A j \in bad : i <= j
    BY <1>4, <2>1, LeastExists
  <2>3. i \in 0 .. Len(q) /\ PathsOf(s)[i] # SubSeq(q, 1, i)
    BY <1>3
  <2>4. CASE i = 0
    <3>1. PathsOf(s)[0] = <<>>
      BY <1>2, NoPath
    <3>2. SubSeq(q, 1, 0) = <<>>
      OBVIOUS
    <3>3. QED
      BY <2>3, <2>4, <3>1, <3>2
  <2>5. CASE i # 0
    <3>1. i \in 1 .. Len(q) /\ i - 1 \in 0 .. Len(q) /\ ~(i <= i - 1) /\ i \in Nat
      BY <1>2, <2>3, <2>5
    <3>2. PathsOf(s)[i - 1] = SubSeq(q, 1, i - 1)
      <4>1. i - 1 \notin bad
        BY <2>2, <3>1
      <4>2. QED
        BY <1>3, <3>1, <4>1
    <3>3. PathsOf(s)[i] = Append(PathsOf(s)[i - 1], q[i])
      <4>1. i \in 1 .. Len(s) /\ s[i].parent = i - 1 /\ s[i].key = q[i]
        BY <1>2, <3>1
      <4>2. PathsOf(s)[i] = Append(PathsOf(s)[s[i].parent], s[i].key)
        BY <1>2, <4>1, PathEnds
      <4>3. QED
        BY <4>1, <4>2
    <3>4. SubSeq(q, 1, i) = SubSeq(q, 1, i - 1) \o <<q[i]>>
      <4>1. 1 \in 1 .. Len(q) /\ i \in 1 .. Len(q)
        BY <1>2, <3>1
      <4>2. QED
        BY <4>1, SubSeqRecursiveSecond
    <3>5. Append(SubSeq(q, 1, i - 1), q[i]) = SubSeq(q, 1, i - 1) \o <<q[i]>>
      <4>1. SubSeq(q, 1, i - 1) \in Seq(Key)
        <5>1. \A j \in 1 .. i - 1 : q[j] \in Key
          BY <1>2, <3>1
        <5>2. i - 1 \in Int /\ 1 \in Int
          BY <3>1
        <5>3. QED
          BY <5>1, <5>2, SubSeqProperties
      <4>2. q[i] \in Key
        BY <3>1
      <4>3. QED
        BY <4>1, <4>2, AppendIsConcat
    <3>6. QED
      BY <2>3, <3>2, <3>3, <3>4, <3>5
  <2>6. QED
    BY <2>4, <2>5
<1>5. QED
  BY <1>1, <1>3, <1>4

LEMMA ChainGrows ==
    ASSUME NEW q \in Seq(Key), q # <<>>
    PROVE  /\ MapOf(ChainOf(q)) = GrownBy(<<>>, q) /\ IsTrie(ChainOf(q))
           /\ Len(q) \in 1 .. Len(ChainOf(q)) /\ PathsOf(ChainOf(q))[Len(q)] = q
<1>1. PICK s : s = ChainOf(q)
  OBVIOUS
<1>2. IsTrie(s) /\ Len(s) = Len(q) /\ \A i \in 1 .. Len(q) : s[i].value = 0
  BY <1>1, ChainIsTrie, ChainNodes
<1>3. Len(q) \in Nat /\ Len(q) # 0
  BY EmptySeq
<1>4. \A i \in 0 .. Len(q) : PathsOf(s)[i] = SubSeq(q, 1, i)
  BY <1>1, ChainPaths
<1>5. \A i \in 1 .. Len(q) : i \in 0 .. Len(q)
  BY <1>3
<1>6. Paths(s) = Prefs(q)
  BY <1>2, <1>4, <1>5 DEF Paths, Prefs
<1>7. Len(q) \in 1 .. Len(q) /\ Len(q) \in 0 .. Len(q)
  BY <1>3
<1>8. PathsOf(s)[Len(q)] = q
  BY <1>4, <1>7, SubSeqFull
<1>9. PICK g : g = GrownBy(<<>>, q)
  OBVIOUS
<1>10. g = [x \in Paths(s) |-> 0]
  <2>1. DOMAIN <<>> = {}
    OBVIOUS
  <2>2. PICK e : e = <<>>
    OBVIOUS
  <2>3. DOMAIN e = {} /\ DOMAIN e \cup Prefs(q) = Paths(s)
    BY <1>6, <2>1, <2>2
  <2>4. g = [x \in Paths(s) |-> IF x \in DOMAIN e THEN e[x] ELSE 0]
    BY <1>9, <2>2, <2>3 DEF GrownBy
  <2>5. QED
    BY <2>3, <2>4
<1>11. g = [x \in Paths(s) |-> g[x]] /\ \A x \in Paths(s) : g[x] = 0
  BY <1>10
<1>12. \A n \in 1 .. Len(s) : g[PathsOf(s)[n]] = s[n].value
  BY <1>2, <1>11 DEF Paths
<1>13. MapOf(s) = g
  BY <1>2, <1>11, <1>12, MapIsOne
<1>14. QED
  BY <1>1, <1>2, <1>7, <1>8, <1>9, <1>13

LEMMA FirstIsChain ==
    ASSUME NEW k \in Key
    PROVE  /\ <<NewNode(k, 0)>> = ChainOf(<<k>>)
           /\ <<k>> \in Seq(Key) /\ <<k>> # <<>> /\ Len(<<k>>) = 1 /\ Append(<<>>, k) = <<k>>
<1>1. PICK q : q = <<k>>
  OBVIOUS
<1>2. q \in Seq(Key) /\ Len(q) = 1 /\ q[1] = k /\ q # <<>> /\ DOMAIN q = {1}
  BY <1>1
<1>3. [NewNode(k, 0) EXCEPT !.child = 0] = NewNode(k, 0)
  BY DEF NewNode
<1>4. PICK s : s = ChainOf(q)
  OBVIOUS
<1>5. /\ s \in Seq(NodeOn(Int)) /\ Len(s) = 1
      /\ s = [i \in {1} |-> [NewNode(q[i], i - 1) EXCEPT !.child = IF i < 1 THEN i + 1 ELSE 0]]
  BY <1>2, <1>4, ChainNodes DEF ChainOf
<1>6. s[1] = NewNode(k, 0)
  <2>1. s[1] = [NewNode(q[1], 1 - 1) EXCEPT !.child = IF 1 < 1 THEN 1 + 1 ELSE 0]
    BY <1>5
  <2>2. 1 - 1 = 0 /\ ~(1 < 1)
    OBVIOUS
  <2>3. QED
    BY <1>2, <1>3, <2>1, <2>2
<1>7. s = <<s[1]>>
  BY <1>5
<1>8. QED
  BY <1>1, <1>2, <1>4, <1>6, <1>7

-----------------------------------------------------------------------------
(* The way down by one key.                                                *)

\* down() with k from the cursor c: the nodes s are u then, and n is referred to.
GoesDown(s, r, c, k, u, n) ==
    \/ c # 0 /\ u = WithKid(s, c, k) /\ n = Found(u, c, k)
    \/ c = 0 /\ r # 0 /\ s[r].key = k /\ u = s /\ n = r
    \/ c = 0 /\ r = 0 /\ u = <<NewNode(k, 0)>> /\ n = 1

\* The nodes u are a trie, n the node of the longer path, and no path of s is lost.
Below(s, r, c, k, u, n, V) ==
    LET q == Append(PathsOf(s)[c], k)
    IN  /\ GoodTrie(u, Root(u), n, V)
        /\ n \in 1 .. Len(u) /\ PathsOf(u)[n] = q
        /\ MapOf(u) = GrownBy(MapOf(s), q)
        /\ \A p \in Paths(s) : Head(p) = Head(q)

LEMMA OneHead ==
    ASSUME NEW s, IsTrie(s), NEW n \in 1 .. Len(s), NEW q, Head(q) = Head(PathsOf(s)[n])
    PROVE  \A p \in Paths(s) : Head(p) = Head(q)
<1> SUFFICES ASSUME NEW i \in 1 .. Len(s) PROVE Head(PathsOf(s)[i]) = Head(q)
  BY DEF Paths
<1>1. Head(PathsOf(s)[i]) = s[1].key
  BY PathsBegin
<1>2. Head(PathsOf(s)[n]) = s[1].key
  BY PathsBegin
<1>3. QED
  BY <1>1, <1>2

LEMMA DownGrows ==
    ASSUME NEW s, NEW r, NEW c, NEW k, NEW u, NEW n, NEW V \in SUBSET Int,
           0 \in V, k \in Key, GoodTrie(s, r, c, V), GoesDown(s, r, c, k, u, n),
           u # s => Len(s) < MaxNodes
    PROVE  Below(s, r, c, k, u, n, V)
<1>1. PICK q : q = Append(PathsOf(s)[c], k)
  OBVIOUS
<1>2. IsTrie(s) /\ r = Root(s) /\ c \in 0 .. Len(s) /\ Len(s) \in Nat
  BY TrieNodes DEF GoodTrie
<1>3. CASE c # 0 /\ u = WithKid(s, c, k) /\ n = Found(u, c, k)
  <2>1. c \in 1 .. Len(s)
    BY <1>2, <1>3
  <2>2. GoodTrie(u, r, c, V) /\ n \in 1 .. Len(u)
    <3>1. WithKid(s, c, k) # s => Len(s) < MaxNodes
      BY <1>3
    <3>2. /\ GoodTrie(WithKid(s, c, k), r, c, V)
          /\ Found(WithKid(s, c, k), c, k) \in 1 .. Len(WithKid(s, c, k))
      BY <2>1, <3>1, KidKeepsTrie
    <3>3. QED
      BY <1>3, <3>2
  <2>3. GoodTrie(u, Root(u), n, V)
    <3>1. n \in 0 .. Len(u)
      BY <2>2 DEF GoodTrie
    <3>2. QED
      BY <2>2, <3>1 DEF GoodTrie
  <2>4. /\ MapOf(WithKid(s, c, k)) = GrownBy(MapOf(s), Append(PathsOf(s)[c], k))
        /\ PathsOf(WithKid(s, c, k))[Found(WithKid(s, c, k), c, k)] = Append(PathsOf(s)[c], k)
    BY <1>2, <2>1, KidGrows
  <2>5. MapOf(u) = GrownBy(MapOf(s), q) /\ PathsOf(u)[n] = q
    BY <1>1, <1>3, <2>4
  <2>6. Head(q) = Head(PathsOf(s)[c])
    <3>1. PICK x : x = PathsOf(s)[c]
      OBVIOUS
    <3>2. x \in Seq(Key) /\ x # <<>>
      BY <1>2, <2>1, <3>1, PathEnds, PathsBegin
    <3>3. Len(x) \in Nat /\ Len(x) # 0
      BY <3>2, EmptySeq
    <3>4. Append(x, k) \in Seq(Key) /\ Append(x, k)[1] = x[1]
      BY <3>2, <3>3, AppendProperties
    <3>5. QED
      BY <1>1, <3>1, <3>4
  <2>7. \A p \in Paths(s) : Head(p) = Head(q)
    BY <1>2, <2>1, <2>6, OneHead
  <2>8. QED
    BY <1>1, <2>2, <2>3, <2>5, <2>7 DEF Below
<1>4. /\ <<NewNode(k, 0)>> = ChainOf(<<k>>) /\ <<k>> \in Seq(Key) /\ <<k>> # <<>> /\ Len(<<k>>) = 1
      /\ Append(<<>>, k) = <<k>>
  BY FirstIsChain
<1>5. PathsOf(s)[0] = <<>>
  BY <1>2, NoPath
<1>6. CASE c = 0 /\ r # 0 /\ s[r].key = k /\ u = s /\ n = r
  <2>1. r \in 1 .. Len(s) /\ r = 1
    BY <1>2, <1>6, RootIs DEF Root
  <2>2. q = <<k>>
    BY <1>1, <1>4, <1>5, <1>6
  <2>3. PathsOf(s)[r] = q
    <3>1. s[r].parent = 0
      BY <1>2, <2>1, TrieNodes
    <3>2. PathsOf(s)[r] = Append(PathsOf(s)[s[r].parent], s[r].key)
      BY <1>2, <2>1, PathEnds
    <3>3. QED
      BY <1>4, <1>5, <1>6, <2>2, <3>1, <3>2
  <2>4. MapOf(s) = GrownBy(MapOf(s), q)
    <3>1. PICK m : m = MapOf(s)
      OBVIOUS
    <3>2. DOMAIN m = Paths(s) /\ m = [p \in Paths(s) |-> m[p]]
      BY <1>2, <3>1, MapIs
    <3>3. m = [p \in DOMAIN m |-> m[p]]
      BY <3>2
    <3>4. Prefs(q) \subseteq DOMAIN m
      BY <1>2, <2>1, <2>3, <3>2, PrefsAreThere
    <3>5. GrownBy(m, q) = m
      BY <3>3, <3>4, SameGrown
    <3>6. QED
      BY <3>1, <3>5
  <2>5. \A p \in Paths(s) : Head(p) = Head(q)
    <3>1. Head(q) = Head(PathsOf(s)[r])
      BY <2>3
    <3>2. QED
      BY <1>2, <2>1, <3>1, OneHead
  <2>6. GoodTrie(s, Root(s), r, V)
    <3>1. r \in 0 .. Len(s)
      BY <1>2, RootIs
    <3>2. QED
      BY <3>1 DEF GoodTrie
  <2>7. QED
    BY <1>1, <1>6, <2>1, <2>3, <2>4, <2>5, <2>6 DEF Below
<1>7. CASE c = 0 /\ r = 0 /\ u = <<NewNode(k, 0)>> /\ n = 1
  <2>1. s = <<>>
    <3>1. Len(s) = 0
      BY <1>2, <1>7 DEF Root
    <3>2. QED
      BY <1>2, <3>1, EmptySeq DEF IsTrie
  <2>2. q = <<k>> /\ u = ChainOf(<<k>>)
    BY <1>1, <1>4, <1>5, <1>7
  <2>3. PICK y \in Seq(Key) : y = <<k>>
    BY <1>4
  <2>4. y # <<>> /\ Len(y) = 1 /\ q = y /\ u = ChainOf(y)
    BY <1>4, <2>2, <2>3
  <2>5. /\ MapOf(u) = GrownBy(<<>>, q) /\ IsTrie(u)
        /\ 1 \in 1 .. Len(u) /\ PathsOf(u)[1] = q
    BY <2>4, ChainGrows
  <2>6. GoodTrie(u, Root(u), 1, V)
    <3>1. Len(s) = 0 /\ u # s
      BY <2>1, <2>5
    <3>2. 0 < MaxNodes
      BY <3>1
    <3>3. GoodTrie(u, 1, 0, V)
      BY <1>7, <3>2, FirstNode
    <3>4. 1 \in 0 .. Len(u)
      BY <2>5, TrieNodes
    <3>5. QED
      BY <3>3, <3>4 DEF GoodTrie
  <2>7. MapOf(u) = GrownBy(MapOf(s), q) /\ Paths(s) = {}
    BY <2>1, <2>5, NoMap
  <2>8. QED
    BY <1>1, <1>7, <2>5, <2>6, <2>7 DEF Below
<1>8. QED
  BY <1>3, <1>6, <1>7 DEF GoesDown

LEMMA KidHasRoot ==
    ASSUME NEW s, IsTrie(s), NEW p \in 0 .. Len(s), p # 0, NEW k
    PROVE  Root(WithKid(s, p, k)) = Root(s)
<1>1. Len(s) \in Nat /\ p \in 1 .. Len(s) /\ Len(s) # 0
  BY TrieNodes
<1>2. CASE Found(s, p, k) # 0
  BY <1>2 DEF WithKid
<1>3. CASE Found(s, p, k) = 0
  <2>1. WithKid(s, p, k) = Added(s, p, k)
    BY <1>3 DEF WithKid
  <2>2. Len(Added(s, p, k)) # 0
    <3>1. Len(Added(s, p, k)) = Len(s) + 1
      BY <1>1 DEF Added, IsTrie
    <3>2. QED
      BY <1>1, <3>1
  <2>3. QED
    BY <1>1, <2>1, <2>2 DEF Root
<1>4. QED
  BY <1>2, <1>3

\* In both tries, down() goes down by a key.
LEMMA TrieGoesDown ==
    ASSUME NEW f, NEW k, T!down(k, f), GoodTrie(t_nodes, t_root, t_cursor, 0 .. 1)
    PROVE  \E u, n : /\ GoesDown(t_nodes, t_root, t_cursor, k, u, n)
                     /\ u # t_nodes => Len(t_nodes) < MaxNodes
                     /\ T!Refer(u, n, f, <<>>) /\ t_cursor' = n /\ t_root' = Root(u)
<1>1. IsTrie(t_nodes) /\ t_root = Root(t_nodes) /\ t_cursor \in 0 .. Len(t_nodes)
      /\ Len(t_nodes) \in Nat
  BY TrieNodes DEF GoodTrie
<1>2. CASE t_cursor # 0 /\ t_root' = t_root
          /\ \E u, n : /\ u = T!add_child(t_nodes, t_cursor, k) /\ n = T!find_child(u, t_cursor, k)
                       /\ u # t_nodes => Len(t_nodes) < MaxNodes
                       /\ T!Refer(u, n, f, <<>>) /\ t_cursor' = n
  <2>1. PICK u, n : /\ u = T!add_child(t_nodes, t_cursor, k) /\ n = T!find_child(u, t_cursor, k)
                    /\ u # t_nodes => Len(t_nodes) < MaxNodes
                    /\ T!Refer(u, n, f, <<>>) /\ t_cursor' = n
    BY <1>2
  <2>2. u = WithKid(t_nodes, t_cursor, k) /\ n = Found(u, t_cursor, k)
    BY <2>1, TCalls DEF WithKid
  <2>3. Root(u) = Root(t_nodes)
    BY <1>1, <1>2, <2>2, KidHasRoot
  <2>4. QED
    BY <1>1, <1>2, <2>1, <2>2, <2>3 DEF GoesDown
<1>3. CASE t_cursor = 0 /\ t_root # 0 /\ t_nodes[t_root].key = k
          /\ T!Refer(t_nodes, t_root, f, <<>>) /\ t_cursor' = t_root /\ t_root' = t_root
  BY <1>1, <1>3 DEF GoesDown
<1>4. CASE t_cursor = 0 /\ t_root = 0 /\ T!Refer(<<NewNode(k, 0)>>, 1, f, <<>>)
          /\ t_root' = 1 /\ t_cursor' = 1 /\ Len(t_nodes) < MaxNodes
  <2>1. Root(<<NewNode(k, 0)>>) = 1
    BY DEF Root
  <2>2. QED
    BY <1>4, <2>1 DEF GoesDown
<1>5. QED
  <2>1. T!new_node(k, T!null) = NewNode(k, 0)
    BY DEF T!new_node, T!null, NewNode
  <2>2. QED
    BY <1>2, <1>3, <1>4, <2>1 DEF T!down, T!null, T!HasRoom, T!MayGoDown

LEMMA TimersGoDown ==
    ASSUME NEW f, NEW k, M!down(k, f), GoodTrie(m_nodes, m_root, m_cursor, 0 .. now)
    PROVE  \E u, n : /\ GoesDown(m_nodes, m_root, m_cursor, k, u, n)
                     /\ u # m_nodes => Len(m_nodes) < MaxNodes
                     /\ M!Refer(u, n, f, <<>>) /\ m_cursor' = n /\ m_root' = Root(u)
<1>1. IsTrie(m_nodes) /\ m_root = Root(m_nodes) /\ m_cursor \in 0 .. Len(m_nodes)
      /\ Len(m_nodes) \in Nat
  BY TrieNodes DEF GoodTrie
<1>2. CASE m_cursor # 0 /\ m_root' = m_root
          /\ \E u, n : /\ u = M!add_child(m_nodes, m_cursor, k) /\ n = M!find_child(u, m_cursor, k)
                       /\ u # m_nodes => Len(m_nodes) < MaxNodes
                       /\ M!Refer(u, n, f, <<>>) /\ m_cursor' = n
  <2>1. PICK u, n : /\ u = M!add_child(m_nodes, m_cursor, k) /\ n = M!find_child(u, m_cursor, k)
                    /\ u # m_nodes => Len(m_nodes) < MaxNodes
                    /\ M!Refer(u, n, f, <<>>) /\ m_cursor' = n
    BY <1>2
  <2>2. u = WithKid(m_nodes, m_cursor, k) /\ n = Found(u, m_cursor, k)
    BY <2>1, MCalls DEF WithKid
  <2>3. Root(u) = Root(m_nodes)
    BY <1>1, <1>2, <2>2, KidHasRoot
  <2>4. QED
    BY <1>1, <1>2, <2>1, <2>2, <2>3 DEF GoesDown
<1>3. CASE m_cursor = 0 /\ m_root # 0 /\ m_nodes[m_root].key = k
          /\ M!Refer(m_nodes, m_root, f, <<>>) /\ m_cursor' = m_root /\ m_root' = m_root
  BY <1>1, <1>3 DEF GoesDown
<1>4. CASE m_cursor = 0 /\ m_root = 0 /\ M!Refer(<<NewNode(k, 0)>>, 1, f, <<>>)
          /\ m_root' = 1 /\ m_cursor' = 1 /\ Len(m_nodes) < MaxNodes
  <2>1. Root(<<NewNode(k, 0)>>) = 1
    BY DEF Root
  <2>2. QED
    BY <1>4, <2>1 DEF GoesDown
<1>5. QED
  <2>1. M!new_node(k, M!null) = NewNode(k, 0)
    BY DEF M!new_node, M!null, NewNode
  <2>2. QED
    BY <1>2, <1>3, <1>4, <2>1 DEF M!down, M!null, M!HasRoom, M!MayGoDown

LEMMA TrieRefers ==
    ASSUME NEW f \in Func, NEW s, NEW c, GoodTrie(s, t_root', c, 0 .. 1),
           NEW n \in 1 .. Len(s), NEW q, T!Refer(s, n, f, q), t_cursor' \in 0 .. Len(s)
    PROVE  TrieGood'
<1>1. PICK v : v = s[n].value
  OBVIOUS
<1>2. v \in 0 .. 1
  BY <1>1 DEF GoodTrie
<1>3. f[v] \in 0 .. 1
  BY <1>2 DEF Func
<1>4. t_nodes' = Valued(s, n, f[v])
  BY <1>1 DEF T!Refer, Valued
<1>5. 0 .. 1 \in SUBSET Int
  OBVIOUS
<1>6. GoodTrie(Valued(s, n, f[v]), t_root', t_cursor', 0 .. 1)
  BY <1>3, <1>5, ValueKeepsTrie
<1>7. QED
  BY <1>4, <1>6 DEF TrieGood

LEMMA PathKeys == ASSUME NEW q \in Path PROVE q \in Seq(Key) /\ q # <<>>
<1>1. PICK n \in 1 .. MaxPath : q \in [1 .. n -> Key]
  BY DEF Path
<1>2. n \in Nat /\ n # 0
  BY <1>1, MaxNodesAssumption
<1>3. q \in Seq(Key) /\ Len(q) = n
  BY <1>1, <1>2
<1>4. QED
  BY <1>2, <1>3

LEMMA TrieSteps == ASSUME TrieGood, T!Next PROVE TrieGood'
<1>1. GoodTrie(t_nodes, t_root, t_cursor, 0 .. 1) /\ IsTrie(t_nodes) /\ t_root = Root(t_nodes)
      /\ t_cursor \in 0 .. Len(t_nodes) /\ Len(t_nodes) \in Nat
  BY TrieNodes DEF TrieGood, GoodTrie
<1>2. ASSUME NEW f \in Func, T!up(f) PROVE TrieGood'
  <2>1. t_cursor \in 1 .. Len(t_nodes)
    BY <1>1, <1>2 DEF T!up, T!null
  <2>2. t_cursor' \in 0 .. Len(t_nodes)
    BY <1>1, <1>2, <2>1, UpStays DEF T!up
  <2>3. T!Refer(t_nodes, t_cursor, f, <<>>) /\ t_root' = t_root
    BY <1>2 DEF T!up
  <2>4. QED
    BY <1>1, <2>1, <2>2, <2>3, TrieRefers
<1>3. ASSUME NEW f \in Func, T!get(f) PROVE TrieGood'
  <2>1. t_cursor \in 1 .. Len(t_nodes)
    BY <1>1, <1>3 DEF T!get, T!null
  <2>2. T!Refer(t_nodes, t_cursor, f, <<>>) /\ t_root' = t_root /\ t_cursor' = t_cursor
    BY <1>3 DEF T!get
  <2>3. QED
    BY <1>1, <2>1, <2>2, TrieRefers
<1>4. ASSUME NEW f \in Func, NEW k \in Key, T!down(k, f) PROVE TrieGood'
  <2>1. PICK u, n : /\ GoesDown(t_nodes, t_root, t_cursor, k, u, n)
                    /\ u # t_nodes => Len(t_nodes) < MaxNodes
                    /\ T!Refer(u, n, f, <<>>) /\ t_cursor' = n /\ t_root' = Root(u)
    BY <1>1, <1>4, TrieGoesDown
  <2>2. 0 .. 1 \in SUBSET Int /\ 0 \in 0 .. 1
    OBVIOUS
  <2>3. GoodTrie(u, Root(u), n, 0 .. 1) /\ n \in 1 .. Len(u)
    <3>1. Below(t_nodes, t_root, t_cursor, k, u, n, 0 .. 1)
      BY <1>1, <2>1, <2>2, DownGrows
    <3>2. QED
      BY <3>1 DEF Below
  <2>4. t_cursor' \in 0 .. Len(u)
    BY <2>1, <2>3 DEF GoodTrie
  <2>5. QED
    BY <1>4, <2>1, <2>3, <2>4, TrieRefers
<1>5. ASSUME NEW f \in Func, NEW q \in Path, T!at(q, f) PROVE TrieGood'
  <2>1. PICK n : n = NodeAt(t_nodes, t_root, q)
    OBVIOUS
  <2>2. n # 0 /\ T!Refer(t_nodes, n, f, q) /\ t_root' = t_root /\ t_cursor' = t_cursor
    BY <1>5, <2>1, TNodeOf DEF T!at, T!null
  <2>3. q \in Seq(Key) /\ q # <<>>
    BY <1>5, PathKeys
  <2>4. n \in 1 .. Len(t_nodes)
    BY <1>1, <2>1, <2>2, <2>3, NodeAtIsNode
  <2>5. QED
    BY <1>1, <1>5, <2>2, <2>4, TrieRefers
<1>6. ASSUME NEW f \in Func, NEW q \in Path, T!create(q, f) PROVE TrieGood'
  <2>1. q \in Seq(Key) /\ q # <<>>
    BY <1>6, PathKeys
  <2>2. /\ t_root = 0 /\ Len(q) <= MaxNodes /\ T!Refer(ChainOf(q), Len(q), f, q)
        /\ t_root' = 1 /\ t_cursor' = t_cursor
    BY <1>6, TChain DEF T!create, T!null
  <2>3. t_cursor = 0
    BY <1>1, <2>2 DEF Root
  <2>4. GoodTrie(ChainOf(q), 1, t_cursor, 0 .. 1) /\ Len(q) \in 1 .. Len(ChainOf(q))
    <3>1. 0 \in 0 .. 1
      OBVIOUS
    <3>2. QED
      BY <2>1, <2>2, <2>3, <3>1, PathKeepsTrie
  <2>5. t_cursor' \in 0 .. Len(ChainOf(q))
    BY <2>2, <2>4 DEF GoodTrie
  <2>6. QED
    BY <1>6, <2>2, <2>4, <2>5, TrieRefers
<1>7. ASSUME NEW q \in Path, T!has(q) PROVE TrieGood'
  BY <1>7 DEF T!has, T!trie, TrieGood
<1>8. QED
  BY <1>2, <1>3, <1>4, <1>5, <1>6, <1>7 DEF T!Next

TimersHold == GoodTrie(m_nodes, m_root, m_cursor, 0 .. now)

LEMMA TimerToggles ==
    ASSUME now \in 0 .. MaxTime, NEW s, NEW c, GoodTrie(s, m_root', c, 0 .. now), now' = now,
           NEW n \in 1 .. Len(s), NEW q, M!Refer(s, n, M!Toggled, q), m_cursor' \in 0 .. Len(s)
    PROVE  TimersHold'
<1>1. PICK v : v = s[n].value
  OBVIOUS
<1>2. v \in 0 .. now
  BY <1>1 DEF GoodTrie
<1>3. M!Toggled[v] \in 0 .. now
  <2>1. v \in 0 .. MaxTime /\ now - v \in 0 .. now
    BY <1>2, MaxTimeAssumption
  <2>2. M!Toggled[v] = now - v
    BY <2>1 DEF M!Toggled
  <2>3. QED
    BY <2>1, <2>2
<1>4. PICK w : w = M!Toggled[v]
  OBVIOUS
<1>5. m_nodes' = Valued(s, n, w)
  BY <1>1, <1>4 DEF M!Refer, Valued
<1>6. 0 .. now \in SUBSET Int
  BY MaxTimeAssumption
<1>7. GoodTrie(Valued(s, n, w), m_root', m_cursor', 0 .. now)
  BY <1>3, <1>4, <1>6, ValueKeepsTrie
<1>8. QED
  BY <1>5, <1>7 DEF TimersHold

LEMMA TimersDown ==
    ASSUME now \in 0 .. MaxTime, TimersHold, NEW k \in Key, M!down(k, M!Toggled), now' = now
    PROVE  TimersHold'
<1>1. GoodTrie(m_nodes, m_root, m_cursor, 0 .. now)
  BY DEF TimersHold
<1>2. PICK u, n : /\ GoesDown(m_nodes, m_root, m_cursor, k, u, n)
                  /\ u # m_nodes => Len(m_nodes) < MaxNodes
                  /\ M!Refer(u, n, M!Toggled, <<>>) /\ m_cursor' = n /\ m_root' = Root(u)
  BY <1>1, TimersGoDown
<1>3. 0 .. now \in SUBSET Int /\ 0 \in 0 .. now
  BY MaxTimeAssumption
<1>4. GoodTrie(u, Root(u), n, 0 .. now) /\ n \in 1 .. Len(u)
  <2>1. Below(m_nodes, m_root, m_cursor, k, u, n, 0 .. now)
    BY <1>1, <1>2, <1>3, DownGrows
  <2>2. QED
    BY <2>1 DEF Below
<1>5. m_cursor' \in 0 .. Len(u)
  BY <1>2, <1>4 DEF GoodTrie
<1>6. QED
  BY <1>2, <1>4, <1>5, TimerToggles

LEMMA TimersGoUp ==
    ASSUME now \in 0 .. MaxTime, TimersHold, M!up(M!Toggled), now' = now
    PROVE  TimersHold'
<1>1. GoodTrie(m_nodes, m_root, m_cursor, 0 .. now) /\ IsTrie(m_nodes)
      /\ m_cursor \in 0 .. Len(m_nodes) /\ Len(m_nodes) \in Nat
  BY TrieNodes DEF TimersHold, GoodTrie
<1>2. m_cursor \in 1 .. Len(m_nodes)
  BY <1>1 DEF M!up, M!null
<1>3. m_cursor' \in 0 .. Len(m_nodes)
  BY <1>1, <1>2, UpStays DEF M!up
<1>4. M!Refer(m_nodes, m_cursor, M!Toggled, <<>>) /\ m_root' = m_root
  BY DEF M!up
<1>5. QED
  BY <1>1, <1>2, <1>3, <1>4, TimerToggles

LEMMA TimersSame ==
    ASSUME now \in 0 .. MaxTime, TimersHold, M!vars' = M!vars, now' \in 0 .. MaxTime, now <= now'
    PROVE  TimersHold'
<1>1. m_nodes' = m_nodes /\ m_root' = m_root /\ m_cursor' = m_cursor
  BY DEF M!vars
<1>2. \A v \in 0 .. now : v \in 0 .. now'
  BY MaxTimeAssumption
<1>3. \A n \in 1 .. Len(m_nodes) : m_nodes[n].value \in 0 .. now
  BY DEF TimersHold, GoodTrie
<1>4. \A n \in 1 .. Len(m_nodes) : m_nodes[n].value \in 0 .. now'
  BY <1>2, <1>3
<1>5. GoodTrie(m_nodes, m_root, m_cursor, 0 .. now')
  BY <1>4 DEF TimersHold, GoodTrie
<1>6. QED
  BY <1>1, <1>5 DEF TimersHold

LEMMA TimersStep ==
    ASSUME now \in 0 .. MaxTime, TimersHold, M!MonitorNext
    PROVE  now' \in 0 .. MaxTime /\ TimersHold'
<1>1. CASE M!Tick
  <2>1. now' \in 0 .. MaxTime /\ now <= now' /\ M!vars' = M!vars
    BY <1>1, MaxTimeAssumption DEF M!Tick, M!monitor
  <2>2. QED
    BY <2>1, TimersSame
<1>2. ASSUME NEW k \in Key, M!start(k), now' = now PROVE now' \in 0 .. MaxTime /\ TimersHold'
  <2>1. M!down(k, M!Toggled)
    BY <1>2 DEF M!start
  <2>2. QED
    BY <1>2, <2>1, TimersDown
<1>3. ASSUME NEW s, NEW f, M!StopThen(s, f) PROVE now' \in 0 .. MaxTime /\ TimersHold'
  <2>1. now' = now /\ (M!stop \/ M!monitor' = M!monitor)
    BY <1>3 DEF M!StopThen
  <2>2. CASE M!stop
    <3>1. M!up(M!Toggled)
      BY <2>2 DEF M!stop
    <3>2. QED
      BY <2>1, <3>1, TimersGoUp
  <2>3. CASE M!monitor' = M!monitor
    <3>1. M!vars' = M!vars /\ now <= now'
      BY <2>1, <2>3, MaxTimeAssumption DEF M!monitor
    <3>2. QED
      BY <2>1, <3>1, TimersSame
  <2>4. QED
    BY <2>1, <2>2, <2>3
<1>4. ASSUME NEW s, NEW k \in Key, M!Open(s, k) PROVE now' \in 0 .. MaxTime /\ TimersHold'
  BY <1>2, <1>4 DEF M!Open
<1>5. ASSUME NEW s, NEW r, M!MoveConstruct(s, r) PROVE now' \in 0 .. MaxTime /\ TimersHold'
  <2>1. M!monitor' = M!monitor /\ now' = now
    BY <1>5 DEF M!MoveConstruct
  <2>2. M!vars' = M!vars /\ now <= now'
    BY <2>1, MaxTimeAssumption DEF M!monitor
  <2>3. QED
    BY <2>1, <2>2, TimersSame
<1>6. ASSUME NEW s, NEW r, M!MoveAssign(s, r) PROVE now' \in 0 .. MaxTime /\ TimersHold'
  BY <1>3, <1>6 DEF M!MoveAssign
<1>7. ASSUME NEW s, M!Stop(s) \/ M!Close(s) PROVE now' \in 0 .. MaxTime /\ TimersHold'
  BY <1>3, <1>7 DEF M!Stop, M!Close
<1>8. QED
  BY <1>1, <1>4, <1>5, <1>6, <1>7 DEF M!MonitorNext

\* For all keys, bounds and numbers of scopes: in each trie, by itself and in a
\* metric2::monitor, the way up from a node by the parents and down again by
\* children and siblings leads back to it, and foreach() visits each node once.
THEOREM TriesLoseNoNode == MetricsSpec => []UpAndDownAgree
<1> DEFINE BothGood == TrieGood /\ TimersGood
<1>1. MetricsInit => BothGood
  <2> SUFFICES ASSUME MetricsInit PROVE BothGood
    OBVIOUS
  <2>1. t_nodes = <<>> /\ t_root = 0 /\ t_cursor = 0
    BY DEF MetricsInit, T!Init, T!null
  <2>2. m_nodes = <<>> /\ m_root = 0 /\ m_cursor = 0 /\ now = 0
    BY DEF MetricsInit, M!MonitorInit, M!Init, M!null
  <2>3. TrieGood
    BY <2>1, EmptyIsGood DEF TrieGood
  <2>4. TimersGood
    <3>1. 0 \in 0 .. MaxTime
      BY MaxTimeAssumption
    <3>2. GoodTrie(m_nodes, m_root, m_cursor, 0 .. now)
      BY <2>2, EmptyIsGood
    <3>3. GoodTrie(m_nodes, m_root, m_cursor, {0})
      BY <2>2, EmptyIsGood
    <3>4. QED
      BY <2>2, <3>1, <3>2, <3>3 DEF TimersGood
  <2>5. QED
    BY <2>3, <2>4
<1>2. BothGood /\ [MetricsNext]_metricsVars => BothGood'
  <2> SUFFICES ASSUME BothGood, [MetricsNext]_metricsVars PROVE BothGood'
    OBVIOUS
  <2>1. CASE program = "monitor" /\ Next /\ UNCHANGED <<program, trie, trieMonitor>>
    BY <2>1 DEF TrieGood, TimersGood, trie, trieMonitor
  <2>2. CASE program = "trie" /\ T!Next /\ UNCHANGED <<program, vars, trieMonitor>>
    <3>1. TrieGood'
      BY <2>2, TrieSteps
    <3>2. TimersGood'
      BY <2>2 DEF TimersGood, vars, trieMonitor
    <3>3. QED
      BY <3>1, <3>2
  <2>3. CASE /\ program = "trie monitor" /\ M!MonitorNext
             /\ UNCHANGED <<program, monitor, scope, aborted, trie>>
    <3>1. now \in 0 .. MaxTime /\ TimersHold
      BY <2>3 DEF TimersGood, TimersHold
    <3>2. now' \in 0 .. MaxTime /\ TimersHold'
      BY <2>3, <3>1, TimersStep
    <3>3. TimersGood'
      BY <2>3, <3>2 DEF TimersGood, TimersHold
    <3>4. TrieGood'
      BY <2>3 DEF TrieGood, trie
    <3>5. QED
      BY <3>3, <3>4
  <2>4. CASE UNCHANGED metricsVars
    BY <2>4 DEF TrieGood, TimersGood, metricsVars, vars, trie, trieMonitor
  <2>5. QED
    BY <2>1, <2>2, <2>3, <2>4 DEF MetricsNext
<1>3. BothGood => UpAndDownAgree
  BY TrieAgrees, TimersAgree DEF UpAndDownAgree
<1>4. QED
  BY <1>1, <1>2, <1>3, PTL DEF MetricsSpec

-----------------------------------------------------------------------------
(* The trie implements the map of paths.                                   *)

LEMMA MapNow ==
    ASSUME TrieGood
    PROVE  T!ValuesByPath = MapOf(t_nodes) /\ T!Position = PathsOf(t_nodes)[t_cursor]
<1>1. T!Position = PathsOf(t_nodes)[t_cursor]
  BY TPaths DEF T!Position
<1>2. DOMAIN t_nodes = 1 .. Len(t_nodes) /\ t_root = Root(t_nodes)
  BY TrieNodes DEF TrieGood, GoodTrie
<1>3. T!ValuesByPath = [p \in {PathsOf(t_nodes)[n] : n \in DOMAIN t_nodes} |->
                           t_nodes[NodeAt(t_nodes, t_root, p)].value]
  BY DEF T!ValuesByPath, T!PathTo, T!Node, PathsOf, PathFun, T!null,
         T!NodeOf, T!get_child, T!find_child, T!guess_child,
         NodeAt, DownFun, ChildAt, Found, Guessed, GuessOf, IsGuess
<1>4. QED
  BY <1>1, <1>2, <1>3 DEF MapOf, Paths

LEMMA MapNext ==
    ASSUME TrieGood'
    PROVE  T!ValuesByPath' = MapOf(t_nodes') /\ T!Position' = PathsOf(t_nodes')[t_cursor']
<1>1. T!Position' = PathsOf(t_nodes')[t_cursor']
  BY DEF T!Position, T!PathTo, T!Node, PathsOf, PathFun, T!null
<1>2. DOMAIN t_nodes' = 1 .. Len(t_nodes') /\ t_root' = Root(t_nodes')
  BY TrieNodes DEF TrieGood, GoodTrie
<1>3. T!ValuesByPath' = [p \in {PathsOf(t_nodes')[n] : n \in DOMAIN t_nodes'} |->
                            t_nodes'[NodeAt(t_nodes', t_root', p)].value]
  BY DEF T!ValuesByPath, T!PathTo, T!Node, PathsOf, PathFun, T!null,
         T!NodeOf, T!get_child, T!find_child, T!guess_child,
         NodeAt, DownFun, ChildAt, Found, Guessed, GuessOf, IsGuess
<1>4. QED
  BY <1>1, <1>2, <1>3 DEF MapOf, Paths

\* What f does to the node n of s, it does to its path.
LEMMA PathRefers ==
    ASSUME NEW f \in Func, NEW s, NEW r, NEW c, GoodTrie(s, r, c, 0 .. 1), NEW n \in 1 .. Len(s),
           NEW q, T!Refer(s, n, f, q), NEW p, p = PathsOf(s)[n]
    PROVE  /\ MapOf(t_nodes') = [MapOf(s) EXCEPT ![p] = f[@]]
           /\ t_answer' = f[MapOf(s)[p]] /\ t_asked' = q
           /\ \A i \in 0 .. Len(s) : PathsOf(t_nodes')[i] = PathsOf(s)[i]
<1>1. PICK v : v = s[n].value
  OBVIOUS
<1>2. v \in 0 .. 1 /\ IsTrie(s)
  BY <1>1 DEF GoodTrie
<1>3. f[v] \in Int
  BY <1>2 DEF Func
<1>4. t_nodes' = Valued(s, n, f[v]) /\ t_answer' = f[v] /\ t_asked' = q
  BY <1>1 DEF T!Refer, Valued
<1>5. MapOf(s)[p] = v
  BY <1>1, <1>2, MapIs
<1>6. /\ MapOf(Valued(s, n, f[v])) = [MapOf(s) EXCEPT ![PathsOf(s)[n]] = f[v]]
      /\ \A i \in 0 .. Len(s) : PathsOf(Valued(s, n, f[v]))[i] = PathsOf(s)[i]
  BY <1>2, <1>3, ValueOfPath
<1>7. QED
  BY <1>4, <1>5, <1>6

LEMMA UpRefines ==
    ASSUME TrieGood, TrieGood', NEW f \in Func, T!up(f)
    PROVE  T!M!Up(f)
<1>1. GoodTrie(t_nodes, t_root, t_cursor, 0 .. 1) /\ IsTrie(t_nodes)
  BY DEF TrieGood, GoodTrie
<1>2. t_cursor \in 1 .. Len(t_nodes)
  BY <1>1 DEF T!up, T!null, GoodTrie
<1>3. PICK m, m1, x, x1 : /\ m = MapOf(t_nodes) /\ m1 = MapOf(t_nodes')
                          /\ x = PathsOf(t_nodes)[t_cursor] /\ x1 = PathsOf(t_nodes')[t_cursor']
  OBVIOUS
<1>4. T!Refer(t_nodes, t_cursor, f, <<>>) /\ t_cursor' = t_nodes[t_cursor].parent
  BY DEF T!up
<1>5. /\ m1 = [m EXCEPT ![x] = f[@]] /\ t_answer' = f[m[x]] /\ t_asked' = <<>>
      /\ \A i \in 0 .. Len(t_nodes) : PathsOf(t_nodes')[i] = PathsOf(t_nodes)[i]
  BY <1>1, <1>2, <1>3, <1>4, PathRefers
<1>6. t_cursor' \in 0 .. Len(t_nodes)
  BY <1>1, <1>2, <1>4, UpStays
<1>7. x1 = PathsOf(t_nodes)[t_nodes[t_cursor].parent]
  BY <1>3, <1>4, <1>5, <1>6
<1>8. x1 = SubSeq(x, 1, Len(x) - 1) /\ x # <<>>
  <2>1. PathsOf(t_nodes)[t_nodes[t_cursor].parent] = SubSeq(x, 1, Len(x) - 1)
    BY <1>1, <1>2, <1>3, PathUp
  <2>2. x # <<>>
    BY <1>1, <1>2, <1>3, PathsBegin
  <2>3. QED
    BY <1>7, <2>1, <2>2
<1>9. /\ T!ValuesByPath = m /\ T!ValuesByPath' = m1 /\ T!Position = x /\ T!Position' = x1
  BY <1>3, MapNow, MapNext
<1>10. QED
  BY <1>5, <1>8, <1>9 DEF T!M!Up, T!M!Refer

LEMMA GetRefines ==
    ASSUME TrieGood, TrieGood', NEW f \in Func, T!get(f)
    PROVE  T!M!Get(f)
<1>1. GoodTrie(t_nodes, t_root, t_cursor, 0 .. 1) /\ IsTrie(t_nodes)
  BY DEF TrieGood, GoodTrie
<1>2. t_cursor \in 1 .. Len(t_nodes) /\ t_cursor \in 0 .. Len(t_nodes)
  BY <1>1 DEF T!get, T!null, GoodTrie
<1>3. PICK m, m1, x, x1 : /\ m = MapOf(t_nodes) /\ m1 = MapOf(t_nodes')
                          /\ x = PathsOf(t_nodes)[t_cursor] /\ x1 = PathsOf(t_nodes')[t_cursor']
  OBVIOUS
<1>4. T!Refer(t_nodes, t_cursor, f, <<>>) /\ t_cursor' = t_cursor
  BY DEF T!get
<1>5. /\ m1 = [m EXCEPT ![x] = f[@]] /\ t_answer' = f[m[x]] /\ t_asked' = <<>>
      /\ \A i \in 0 .. Len(t_nodes) : PathsOf(t_nodes')[i] = PathsOf(t_nodes)[i]
  BY <1>1, <1>2, <1>3, <1>4, PathRefers
<1>6. x1 = x
  BY <1>2, <1>3, <1>4, <1>5
<1>7. x # <<>>
  BY <1>1, <1>2, <1>3, PathsBegin
<1>8. /\ T!ValuesByPath = m /\ T!ValuesByPath' = m1 /\ T!Position = x /\ T!Position' = x1
  BY <1>3, MapNow, MapNext
<1>9. QED
  BY <1>5, <1>6, <1>7, <1>8 DEF T!M!Get, T!M!Refer

LEMMA AtRefines ==
    ASSUME TrieGood, TrieGood', NEW f \in Func, NEW q \in Path, T!at(q, f)
    PROVE  T!M!At(q, f)
<1>1. GoodTrie(t_nodes, t_root, t_cursor, 0 .. 1) /\ IsTrie(t_nodes)
      /\ t_root = Root(t_nodes) /\ t_cursor \in 0 .. Len(t_nodes)
  BY DEF TrieGood, GoodTrie
<1>2. PICK n : n = NodeAt(t_nodes, Root(t_nodes), q)
  OBVIOUS
<1>3. n # 0 /\ T!Refer(t_nodes, n, f, q) /\ t_cursor' = t_cursor
  BY <1>1, <1>2, TNodeOf DEF T!at, T!null
<1>4. n \in 1 .. Len(t_nodes) /\ PathsOf(t_nodes)[n] = q
  BY <1>1, <1>2, <1>3, PathKeys, WayDown
<1>5. PICK m, m1, x, x1 : /\ m = MapOf(t_nodes) /\ m1 = MapOf(t_nodes')
                          /\ x = PathsOf(t_nodes)[t_cursor] /\ x1 = PathsOf(t_nodes')[t_cursor']
  OBVIOUS
<1>6. /\ m1 = [m EXCEPT ![q] = f[@]] /\ t_answer' = f[m[q]] /\ t_asked' = q
      /\ \A i \in 0 .. Len(t_nodes) : PathsOf(t_nodes')[i] = PathsOf(t_nodes)[i]
  BY <1>1, <1>3, <1>4, <1>5, PathRefers
<1>7. x1 = x
  BY <1>1, <1>3, <1>5, <1>6
<1>8. q \in DOMAIN m
  BY <1>1, <1>4, <1>5, MapIs
<1>9. /\ T!ValuesByPath = m /\ T!ValuesByPath' = m1 /\ T!Position = x /\ T!Position' = x1
  BY <1>5, MapNow, MapNext
<1>10. QED
  BY <1>6, <1>7, <1>8, <1>9 DEF T!M!At, T!M!Refer

LEMMA HasRefines ==
    ASSUME TrieGood, TrieGood', NEW q \in Path, T!has(q)
    PROVE  T!M!Has(q)
<1>1. IsTrie(t_nodes) /\ t_root = Root(t_nodes)
  BY DEF TrieGood, GoodTrie
<1>2. PICK n : n = NodeAt(t_nodes, Root(t_nodes), q)
  OBVIOUS
<1>3. t_asked' = q /\ t_answer' = IF n # 0 THEN 1 ELSE 0
  BY <1>1, <1>2, TNodeOf DEF T!has, T!null
<1>4. t_nodes' = t_nodes /\ t_root' = t_root /\ t_cursor' = t_cursor
  BY DEF T!has, T!trie
<1>5. n # 0 <=> q \in Paths(t_nodes)
  <2>1. q \in Seq(Key) /\ q # <<>>
    BY PathKeys
  <2>2. \/ n \in 1 .. Len(t_nodes) /\ PathsOf(t_nodes)[n] = q
        \/ n = 0 /\ \A i \in 1 .. Len(t_nodes) : PathsOf(t_nodes)[i] # q
    BY <1>1, <1>2, <2>1, WayDown
  <2>3. 0 \notin 1 .. Len(t_nodes)
    BY <1>1, TrieNodes
  <2>4. QED
    BY <2>2, <2>3 DEF Paths
<1>6. PICK m, x : m = MapOf(t_nodes) /\ x = PathsOf(t_nodes)[t_cursor]
  OBVIOUS
<1>7. DOMAIN m = Paths(t_nodes)
  BY <1>1, <1>6, MapIs
<1>8. /\ T!ValuesByPath = m /\ T!ValuesByPath' = m /\ T!Position = x /\ T!Position' = x
  BY <1>4, <1>6, MapNow, MapNext
<1>9. QED
  BY <1>3, <1>5, <1>7, <1>8 DEF T!M!Has

LEMMA CreateRefines ==
    ASSUME TrieGood, TrieGood', NEW f \in Func, NEW q \in Path, T!create(q, f)
    PROVE  T!M!Create(q, f)
<1>1. IsTrie(t_nodes) /\ t_root = Root(t_nodes) /\ t_cursor \in 0 .. Len(t_nodes)
      /\ Len(t_nodes) \in Nat
  BY TrieNodes DEF TrieGood, GoodTrie
<1>2. q \in Seq(Key) /\ q # <<>>
  BY PathKeys
<1>3. /\ t_root = 0 /\ Len(q) <= MaxNodes /\ T!Refer(ChainOf(q), Len(q), f, q)
      /\ t_cursor' = t_cursor
  BY TChain DEF T!create, T!null
<1>4. Len(t_nodes) = 0 /\ t_nodes = <<>> /\ t_cursor = 0
  <2>1. Len(t_nodes) = 0
    BY <1>1, <1>3 DEF Root
  <2>2. QED
    BY <1>1, <2>1, EmptySeq DEF IsTrie
<1>5. PICK s : s = ChainOf(q)
  OBVIOUS
<1>6. /\ MapOf(s) = GrownBy(<<>>, q) /\ IsTrie(s)
      /\ Len(q) \in 1 .. Len(s) /\ PathsOf(s)[Len(q)] = q
  BY <1>2, <1>5, ChainGrows
<1>7. GoodTrie(s, 1, 0, 0 .. 1)
  <2>1. 0 \in 0 .. 1
    OBVIOUS
  <2>2. QED
    BY <1>2, <1>3, <1>5, <2>1, PathKeepsTrie
<1>8. PICK m, m1, x, x1, g : /\ m = MapOf(t_nodes) /\ m1 = MapOf(t_nodes')
                             /\ x = PathsOf(t_nodes)[t_cursor] /\ x1 = PathsOf(t_nodes')[t_cursor']
                             /\ g = GrownBy(m, q)
  OBVIOUS
<1>9. m = <<>> /\ g = MapOf(s)
  BY <1>4, <1>6, <1>8, NoMap
<1>10. T!Refer(s, Len(q), f, q)
  BY <1>3, <1>5
<1>11. PICK n \in 1 .. Len(s) : n = Len(q)
  BY <1>6
<1>12. /\ m1 = [g EXCEPT ![q] = f[@]] /\ t_answer' = f[g[q]] /\ t_asked' = q
  <2>1. T!Refer(s, n, f, q) /\ q = PathsOf(s)[n]
    BY <1>6, <1>10, <1>11
  <2>2. QED
    BY <1>7, <1>8, <1>9, <2>1, PathRefers
<1>13. x1 = x
  <2>1. IsTrie(t_nodes')
    BY DEF TrieGood, GoodTrie
  <2>2. x = <<>> /\ x1 = <<>>
    BY <1>1, <1>3, <1>4, <1>8, <2>1, NoPath
  <2>3. QED
    BY <2>2
<1>14. /\ T!ValuesByPath = m /\ T!ValuesByPath' = m1 /\ T!Position = x /\ T!Position' = x1
  BY <1>8, MapNow, MapNext
<1>15. T!M!Grown(q) = g
  BY <1>8, <1>14 DEF T!M!Grown, T!M!Prefixes, GrownBy, Prefs
<1>16. QED
  BY <1>9, <1>12, <1>13, <1>14, <1>15 DEF T!M!Create, T!M!Refer

\* The step of down() that refers to the node n of s, one below the cursor.
LEMMA DownStep ==
    ASSUME TrieGood, TrieGood', NEW f \in Func, NEW k, NEW s, NEW r, NEW c, GoodTrie(s, r, c, 0 .. 1),
           NEW n \in 1 .. Len(s), T!Refer(s, n, f, <<>>), t_cursor' = n,
           NEW q, PathsOf(s)[n] = q, Append(PathsOf(t_nodes)[t_cursor], k) = q,
           MapOf(s) = GrownBy(MapOf(t_nodes), q),
           \A p \in Paths(t_nodes) : Head(p) = Head(q)
    PROVE  T!M!Down(k, f)
<1>1. IsTrie(t_nodes) /\ IsTrie(s)
  BY DEF TrieGood, GoodTrie
<1>2. PICK m, m1, x, x1, g : /\ m = MapOf(t_nodes) /\ m1 = MapOf(t_nodes')
                             /\ x = PathsOf(t_nodes)[t_cursor] /\ x1 = PathsOf(t_nodes')[t_cursor']
                             /\ g = GrownBy(m, q)
  OBVIOUS
<1>3. /\ m1 = [g EXCEPT ![q] = f[@]] /\ t_answer' = f[g[q]] /\ t_asked' = <<>>
      /\ \A i \in 0 .. Len(s) : PathsOf(t_nodes')[i] = PathsOf(s)[i]
  BY <1>2, PathRefers
<1>4. n \in 0 .. Len(s)
  BY <1>1, TrieNodes
<1>5. x1 = q
  BY <1>2, <1>3, <1>4
<1>6. DOMAIN m = Paths(t_nodes)
  BY <1>1, <1>2, MapIs
<1>7. /\ T!ValuesByPath = m /\ T!ValuesByPath' = m1 /\ T!Position = x /\ T!Position' = x1
  BY <1>2, MapNow, MapNext
<1>8. T!M!Grown(q) = g
  BY <1>2, <1>7 DEF T!M!Grown, T!M!Prefixes, GrownBy, Prefs
<1>9. T!M!OneRoot(q)
  BY <1>6, <1>7 DEF T!M!OneRoot
<1>10. x1 = Append(x, k)
  BY <1>2, <1>5
<1>11. QED
  BY <1>3, <1>5, <1>7, <1>8, <1>9, <1>10 DEF T!M!Down, T!M!Refer

LEMMA DownRefines ==
    ASSUME TrieGood, TrieGood', NEW f \in Func, NEW k \in Key, T!down(k, f)
    PROVE  T!M!Down(k, f)
<1>1. GoodTrie(t_nodes, t_root, t_cursor, 0 .. 1)
  BY DEF TrieGood
<1>2. PICK u, n : /\ GoesDown(t_nodes, t_root, t_cursor, k, u, n)
                  /\ u # t_nodes => Len(t_nodes) < MaxNodes
                  /\ T!Refer(u, n, f, <<>>) /\ t_cursor' = n /\ t_root' = Root(u)
  BY <1>1, TrieGoesDown
<1>3. PICK q : q = Append(PathsOf(t_nodes)[t_cursor], k)
  OBVIOUS
<1>4. 0 .. 1 \in SUBSET Int /\ 0 \in 0 .. 1
  OBVIOUS
<1>5. Below(t_nodes, t_root, t_cursor, k, u, n, 0 .. 1)
  BY <1>1, <1>2, <1>4, DownGrows
<1>6. /\ GoodTrie(u, Root(u), n, 0 .. 1)
      /\ n \in 1 .. Len(u) /\ PathsOf(u)[n] = q
      /\ MapOf(u) = GrownBy(MapOf(t_nodes), q)
      /\ \A p \in Paths(t_nodes) : Head(p) = Head(q)
  BY <1>3, <1>5 DEF Below
<1>7. QED
  BY <1>2, <1>3, <1>6, DownStep

LEMMA TrieStepRefines == ASSUME TrieGood, T!Next PROVE T!M!Next
<1>1. TrieGood'
  BY TrieSteps
<1>2. ASSUME NEW f \in Func, T!up(f) PROVE T!M!Next
  BY <1>1, <1>2, UpRefines DEF T!M!Next
<1>3. ASSUME NEW f \in Func, T!get(f) PROVE T!M!Next
  BY <1>1, <1>3, GetRefines DEF T!M!Next
<1>4. ASSUME NEW f \in Func, NEW k \in Key, T!down(k, f) PROVE T!M!Next
  BY <1>1, <1>4, DownRefines DEF T!M!Next
<1>5. ASSUME NEW f \in Func, NEW q \in Path, T!at(q, f) PROVE T!M!Next
  BY <1>1, <1>5, AtRefines DEF T!M!Next
<1>6. ASSUME NEW f \in Func, NEW q \in Path, T!create(q, f) PROVE T!M!Next
  BY <1>1, <1>6, CreateRefines DEF T!M!Next
<1>7. ASSUME NEW q \in Path, T!has(q) PROVE T!M!Next
  BY <1>1, <1>7, HasRefines DEF T!M!Next
<1>8. QED
  BY <1>2, <1>3, <1>4, <1>5, <1>6, <1>7 DEF T!Next

\* For all keys, paths and bounds: the trie, with its cursor, is a map of paths
\* and a position in it; what each call refers to is the value of its path.
THEOREM TrieImplementsPathMap == MetricsSpec => ImplementsPathMap
<1>1. MetricsInit => TrieGood /\ T!M!Init
  <2> SUFFICES ASSUME MetricsInit PROVE TrieGood /\ T!M!Init
    OBVIOUS
  <2>1. t_nodes = <<>> /\ t_root = 0 /\ t_cursor = 0 /\ t_asked = <<>> /\ t_answer = 0
    BY DEF MetricsInit, T!Init, T!null
  <2>2. TrieGood
    BY <2>1, EmptyIsGood DEF TrieGood
  <2>3. T!ValuesByPath = <<>> /\ T!Position = <<>>
    <3>1. PathsOf(t_nodes)[t_cursor] = <<>>
      BY <2>1, NoTrie, NoPath
    <3>2. QED
      BY <2>1, <2>2, <3>1, MapNow, NoMap
  <2>4. QED
    BY <2>1, <2>2, <2>3 DEF T!M!Init
<1>2. TrieGood /\ [MetricsNext]_metricsVars => TrieGood' /\ [T!M!Next]_(T!M!vars)
  <2> SUFFICES ASSUME TrieGood, [MetricsNext]_metricsVars
               PROVE  TrieGood' /\ [T!M!Next]_(T!M!vars)
    OBVIOUS
  <2>1. CASE T!Next
    BY <2>1, TrieSteps, TrieStepRefines
  <2>2. CASE UNCHANGED trie
    <3>1. /\ t_nodes' = t_nodes /\ t_root' = t_root /\ t_cursor' = t_cursor
          /\ t_asked' = t_asked /\ t_answer' = t_answer
      BY <2>2 DEF trie
    <3>2. TrieGood'
      BY <3>1 DEF TrieGood
    <3>3. T!ValuesByPath' = T!ValuesByPath /\ T!Position' = T!Position
      BY <3>1, <3>2, MapNow, MapNext
    <3>4. UNCHANGED (T!M!vars)
      BY <3>1, <3>3 DEF T!M!vars
    <3>5. QED
      BY <3>2, <3>4
  <2>3. QED
    BY <2>1, <2>2 DEF MetricsNext, metricsVars
<1>3. QED
  BY <1>1, <1>2, PTL DEF MetricsSpec, ImplementsPathMap, T!ImplementsPathMap, T!M!Spec

-----------------------------------------------------------------------------
(* The times spent in the paths.                                           *)

Runs == Seq([id : Key, since : Int])

\* The timers m of the paths, while the metrics o of the path x run: those of x
\* hold what takes them to the time spent, e, when they stop.
Fits(m, x, o, e) ==
    /\ DOMAIN m = DOMAIN e
    /\ \A p \in DOMAIN m :
          /\ p \in Seq(Key) /\ p # <<>> /\ e[p] \in Int
          /\ m[p] = IF IsPre(p, x) THEN o[Len(p)].since - e[p] ELSE e[p]

\* What start() and stop() make of the timer of q, and of the times spent.
Toggled(m, q, t) == [m EXCEPT ![q] = t - m[q]]
Opened(e, q) == [p \in DOMAIN e \cup {q} |-> IF p \in DOMAIN e THEN e[p] ELSE 0]
Spent(e, q, t) == [e EXCEPT ![q] = e[q] + t]

LEMMA PreIsThere ==
    ASSUME NEW p \in Seq(Key), NEW x \in Seq(Key)
    PROVE  IsPre(p, x) <=> Len(p) <= Len(x) /\ p = SubSeq(x, 1, Len(p))
<1>1. Len(p) \in Nat /\ Len(x) \in Nat
  OBVIOUS
<1>2. ASSUME Len(p) <= Len(x)
      PROVE  p = SubSeq(x, 1, Len(p)) <=> \A i \in 1 .. Len(p) : p[i] = x[i]
  <2>1. \A i \in 1 .. Len(p) : x[i] \in Key
    BY <1>1, <1>2
  <2>2. PICK y : y = SubSeq(x, 1, Len(p))
    OBVIOUS
  <2>3. y \in Seq(Key) /\ Len(y) = Len(p) /\ \A i \in 1 .. Len(p) : y[i] = x[i]
    BY <1>1, <2>1, <2>2, SubSeqProperties
  <2>4. p = y <=> \A i \in 1 .. Len(p) : p[i] = y[i]
    BY <2>3, SeqEqual
  <2>5. QED
    BY <2>2, <2>3, <2>4
<1>3. QED
  BY <1>2 DEF IsPre

\* The paths that go on to a path with one key more.
LEMMA PreOfLonger ==
    ASSUME NEW p \in Seq(Key), NEW x \in Seq(Key), NEW k \in Key
    PROVE  /\ IsPre(p, Append(x, k)) <=> IsPre(p, x) \/ p = Append(x, k)
           /\ ~IsPre(Append(x, k), x) /\ Append(x, k) \in Seq(Key)
           /\ Len(Append(x, k)) = Len(x) + 1
<1>1. PICK y : y = Append(x, k)
  OBVIOUS
<1>2. /\ y \in Seq(Key) /\ Len(y) = Len(x) + 1 /\ y[Len(x) + 1] = k
      /\ \A i \in 1 .. Len(x) : y[i] = x[i]
  BY <1>1, AppendProperties
<1>3. Len(x) \in Nat /\ Len(p) \in Nat
  OBVIOUS
<1>4. IsPre(p, x) => IsPre(p, y)
  BY <1>2, <1>3 DEF IsPre
<1>5. p = y => IsPre(p, y)
  BY <1>2, <1>3 DEF IsPre
<1>6. ASSUME IsPre(p, y), p # y PROVE IsPre(p, x)
  <2>1. Len(p) # Len(y)
    BY <1>2, <1>6, SeqEqual DEF IsPre
  <2>2. Len(p) <= Len(x)
    BY <1>2, <1>3, <1>6, <2>1 DEF IsPre
  <2>3. QED
    BY <1>2, <1>3, <1>6, <2>2 DEF IsPre
<1>7. ~IsPre(y, x)
  BY <1>2, <1>3 DEF IsPre
<1>8. QED
  BY <1>1, <1>2, <1>4, <1>5, <1>6, <1>7

LEMMA StartFits ==
    ASSUME NEW x \in Seq(Key), NEW o \in Runs, NEW k \in Key, NEW t \in Int,
           NEW m, NEW e, NEW q, NEW g, Len(o) = Len(x), Fits(m, x, o, e),
           Prefs(x) \subseteq DOMAIN m, q = Append(x, k), g = GrownBy(m, q)
    PROVE  Fits(Toggled(g, q, t), q, Append(o, [id |-> k, since |-> t]), Opened(e, q))
<1>1. PICK b : b = Append(o, [id |-> k, since |-> t])
  OBVIOUS
<1>2. /\ b \in Runs /\ Len(b) = Len(o) + 1 /\ b[Len(o) + 1].since = t
      /\ \A i \in 1 .. Len(o) : b[i] = o[i]
  BY <1>1, AppendProperties DEF Runs
<1>3. PICK d : d = [p \in DOMAIN e \cup {q} |-> IF p \in DOMAIN e THEN e[p] ELSE 0]
  OBVIOUS
<1>4. /\ DOMAIN d = DOMAIN m \cup {q}
      /\ \A p \in DOMAIN m : d[p] = e[p]
      /\ q \notin DOMAIN m => d[q] = 0
  BY <1>3 DEF Fits
<1>5. Prefs(q) = Prefs(x) \cup {q}
  BY PrefsLonger
<1>6. /\ DOMAIN g = DOMAIN m \cup {q}
      /\ \A p \in DOMAIN g : g[p] = IF p \in DOMAIN m THEN m[p] ELSE 0
  BY <1>5 DEF GrownBy
<1>7. PICK h : h = [g EXCEPT ![q] = t - g[q]]
  OBVIOUS
<1>8. /\ DOMAIN h = DOMAIN m \cup {q} /\ h[q] = t - g[q]
      /\ \A p \in DOMAIN h : p # q => p \in DOMAIN m /\ h[p] = m[p]
  BY <1>6, <1>7
<1>9. /\ \A p \in Seq(Key) : IsPre(p, q) <=> IsPre(p, x) \/ p = q
      /\ ~IsPre(q, x) /\ q \in Seq(Key) /\ Len(q) = Len(x) + 1
  BY PreOfLonger
<1>10. Len(x) \in Nat /\ q # <<>>
  BY <1>9, EmptySeq
<1>11. d[q] \in Int /\ h[q] = b[Len(q)].since - d[q]
  <2>1. g[q] = d[q] /\ d[q] \in Int
    <3>1. CASE q \in DOMAIN m
      BY <1>4, <1>6, <1>9, <3>1 DEF Fits
    <3>2. CASE q \notin DOMAIN m
      <4>1. q \in DOMAIN g
        BY <1>6
      <4>2. g[q] = 0 /\ d[q] = 0
        BY <1>4, <1>6, <3>2, <4>1
      <4>3. QED
        BY <4>2
    <3>3. QED
      BY <3>1, <3>2
  <2>2. QED
    BY <1>2, <1>8, <1>9, <2>1
<1>12. ASSUME NEW p \in DOMAIN h
       PROVE  /\ p \in Seq(Key) /\ p # <<>> /\ d[p] \in Int
              /\ h[p] = IF IsPre(p, q) THEN b[Len(p)].since - d[p] ELSE d[p]
  <2>1. CASE p = q
    BY <1>9, <1>10, <1>11, <2>1
  <2>2. CASE p # q
    <3>1. p \in DOMAIN m /\ h[p] = m[p] /\ d[p] = e[p]
      BY <1>4, <1>8, <1>12, <2>2
    <3>2. /\ p \in Seq(Key) /\ p # <<>> /\ e[p] \in Int
          /\ m[p] = IF IsPre(p, x) THEN o[Len(p)].since - e[p] ELSE e[p]
      BY <3>1 DEF Fits
    <3>3. IsPre(p, q) <=> IsPre(p, x)
      BY <1>9, <2>2, <3>2
    <3>4. IsPre(p, x) => Len(p) \in 1 .. Len(o)
      <4>1. Len(p) \in Nat /\ Len(p) # 0
        BY <3>2, EmptySeq
      <4>2. QED
        BY <1>10, <4>1 DEF IsPre
    <3>5. IsPre(p, x) => b[Len(p)] = o[Len(p)]
      BY <1>2, <3>4
    <3>6. QED
      BY <3>1, <3>2, <3>3, <3>5
  <2>3. QED
    BY <2>1, <2>2
<1>13. Fits(h, q, b, d)
  BY <1>4, <1>8, <1>12 DEF Fits
<1>14. QED
  BY <1>1, <1>3, <1>7, <1>13 DEF Toggled, Opened

LEMMA StopFits ==
    ASSUME NEW x \in Seq(Key), NEW o \in Runs, NEW t \in Int, NEW m, NEW e,
           x # <<>>, Len(o) = Len(x), Fits(m, x, o, e), x \in DOMAIN m
    PROVE  Fits(Toggled(m, x, t), SubSeq(x, 1, Len(x) - 1), SubSeq(o, 1, Len(o) - 1),
                Spent(e, x, t - o[Len(o)].since))
<1>1. Len(x) \in Nat /\ Len(x) # 0
  BY EmptySeq
<1>2. PICK l \in Nat : l = Len(x) - 1
  BY <1>1
<1>3. PICK y : y = SubSeq(x, 1, l)
  OBVIOUS
<1>4. y \in Seq(Key) /\ Len(y) = l /\ \A i \in 1 .. l : y[i] = x[i]
  <2>1. \A i \in 1 .. l : x[i] \in Key
    BY <1>1, <1>2
  <2>2. QED
    BY <1>2, <1>3, <2>1, SubSeqProperties
<1>5. PICK b : b = SubSeq(o, 1, l)
  OBVIOUS
<1>6. b \in Runs /\ Len(b) = l /\ \A i \in 1 .. l : b[i] = o[i]
  <2>1. PICK S : S = [id : Key, since : Int]
    OBVIOUS
  <2>2. o \in Seq(S) /\ Runs = Seq(S)
    BY <2>1 DEF Runs
  <2>3. \A i \in 1 .. l : i \in 1 .. Len(o)
    BY <1>1, <1>2
  <2>4. \A i \in 1 .. l : o[i] \in S
    BY <2>2, <2>3
  <2>5. b \in Seq(S) /\ Len(b) = l /\ \A i \in 1 .. l : b[i] = o[i]
    BY <1>2, <1>5, <2>4, SubSeqProperties
  <2>6. QED
    BY <2>2, <2>5
<1>7. x[Len(x)] \in Key /\ x = Append(y, x[Len(x)])
  <2>1. x[Len(x)] \in Key
    BY <1>1
  <2>2. PICK k \in Key : k = x[Len(x)]
    BY <2>1
  <2>3. /\ Append(y, k) \in Seq(Key) /\ Len(Append(y, k)) = l + 1 /\ Append(y, k)[l + 1] = k
        /\ \A i \in 1 .. l : Append(y, k)[i] = y[i]
    BY <1>4, AppendProperties
  <2>4. Len(Append(y, k)) = Len(x) /\ \A i \in 1 .. Len(x) : Append(y, k)[i] = x[i]
    BY <1>1, <1>2, <1>4, <2>2, <2>3
  <2>5. QED
    BY <2>1, <2>2, <2>3, <2>4, SeqEqual
<1>8. /\ \A p \in Seq(Key) : IsPre(p, x) <=> IsPre(p, y) \/ p = x
      /\ ~IsPre(x, y)
  <2>1. PICK k \in Key : x = Append(y, k)
    BY <1>7
  <2>2. ASSUME NEW p \in Seq(Key)
        PROVE  (IsPre(p, x) <=> IsPre(p, y) \/ p = x) /\ ~IsPre(x, y)
    <3>1. /\ IsPre(p, Append(y, k)) <=> IsPre(p, y) \/ p = Append(y, k)
          /\ ~IsPre(Append(y, k), y)
      BY <1>4, PreOfLonger
    <3>2. QED
      BY <2>1, <3>1
  <2>3. ~IsPre(x, y)
    BY <2>2
  <2>4. QED
    BY <2>2, <2>3
<1>9. o[Len(o)].since \in Int
  <2>1. Len(o) \in 1 .. Len(o)
    BY <1>1
  <2>2. o[Len(o)] \in [id : Key, since : Int]
    BY <2>1, ElementOfSeq DEF Runs
  <2>3. QED
    BY <2>2
<1>10. PICK h : h = [m EXCEPT ![x] = t - m[x]]
  OBVIOUS
<1>11. PICK d : d = [e EXCEPT ![x] = e[x] + (t - o[Len(o)].since)]
  OBVIOUS
<1>12. /\ DOMAIN h = DOMAIN m /\ DOMAIN d = DOMAIN m
       /\ \A p \in DOMAIN m : p # x => h[p] = m[p] /\ d[p] = e[p]
       /\ h[x] = t - m[x] /\ d[x] = e[x] + (t - o[Len(o)].since)
  BY <1>10, <1>11 DEF Fits
<1>13. IsPre(x, x)
  BY <1>1 DEF IsPre
<1>14. e[x] \in Int /\ m[x] = o[Len(x)].since - e[x]
  BY <1>13 DEF Fits
<1>15. PICK v \in Int : v = o[Len(o)].since
  BY <1>9
<1>16. PICK z \in Int : z = e[x]
  BY <1>14
<1>17. h[x] = t - (v - z) /\ d[x] = z + (t - v)
  BY <1>12, <1>14, <1>15, <1>16
<1>18. d[x] \in Int /\ h[x] = d[x]
  BY ONLY <1>17, t \in Int, v \in Int, z \in Int
<1>19. ASSUME NEW p \in DOMAIN h
       PROVE  /\ p \in Seq(Key) /\ p # <<>> /\ d[p] \in Int
              /\ h[p] = IF IsPre(p, y) THEN b[Len(p)].since - d[p] ELSE d[p]
  <2>1. CASE p = x
    BY <1>8, <1>18, <2>1
  <2>2. CASE p # x
    <3>1. p \in DOMAIN m /\ h[p] = m[p] /\ d[p] = e[p]
      BY <1>12, <1>19, <2>2
    <3>2. /\ p \in Seq(Key) /\ p # <<>> /\ e[p] \in Int
          /\ m[p] = IF IsPre(p, x) THEN o[Len(p)].since - e[p] ELSE e[p]
      BY <3>1 DEF Fits
    <3>3. IsPre(p, x) <=> IsPre(p, y)
      BY <1>8, <2>2, <3>2
    <3>4. IsPre(p, y) => Len(p) \in 1 .. l
      <4>1. Len(p) \in Nat /\ Len(p) # 0
        BY <3>2, EmptySeq
      <4>2. QED
        BY <1>4, <4>1 DEF IsPre
    <3>5. IsPre(p, y) => b[Len(p)] = o[Len(p)]
      BY <1>6, <3>4
    <3>6. QED
      BY <3>1, <3>2, <3>3, <3>5
  <2>3. QED
    BY <2>1, <2>2
<1>20. Fits(h, y, b, d)
  BY <1>12, <1>19 DEF Fits
<1>21. y = SubSeq(x, 1, Len(x) - 1) /\ b = SubSeq(o, 1, Len(o) - 1)
  BY <1>2, <1>3, <1>5
<1>22. QED
  BY <1>10, <1>11, <1>20, <1>21 DEF Toggled, Spent

\* The timers of the monitor, by their paths, fit the times spent.
TimersFit ==
    /\ now \in 0 .. MaxTime /\ TimersHold /\ running \in Runs
    /\ PathsOf(m_nodes)[m_cursor] = M!Ids(running)
    /\ Fits(MapOf(m_nodes), M!Ids(running), running, spent)

LEMMA IdsOf ==
    ASSUME NEW o \in Runs
    PROVE  /\ M!Ids(o) \in Seq(Key) /\ Len(M!Ids(o)) = Len(o)
           /\ \A k \in Key, t \in Int :
                 M!Ids(Append(o, [id |-> k, since |-> t])) = Append(M!Ids(o), k)
           /\ Len(o) # 0 =>
                 M!Ids(SubSeq(o, 1, Len(o) - 1)) = SubSeq(M!Ids(o), 1, Len(o) - 1)
<1>1. Len(o) \in Nat /\ DOMAIN o = 1 .. Len(o)
  BY DEF Runs
<1>2. \A i \in 1 .. Len(o) : o[i] \in [id : Key, since : Int]
  BY ElementOfSeq DEF Runs
<1>3. PICK x : x = M!Ids(o)
  OBVIOUS
<1>4. x \in Seq(Key) /\ Len(x) = Len(o) /\ \A i \in 1 .. Len(o) : x[i] = o[i].id
  <2>1. x = [i \in 1 .. Len(o) |-> o[i].id]
    BY <1>1, <1>3 DEF M!Ids
  <2>2. QED
    BY <1>1, <1>2, <2>1
<1>5. ASSUME NEW k \in Key, NEW t \in Int
      PROVE  M!Ids(Append(o, [id |-> k, since |-> t])) = Append(x, k)
  <2>1. PICK a \in [id : Key, since : Int] : a = [id |-> k, since |-> t]
    OBVIOUS
  <2>2. PICK b : b = Append(o, a)
    OBVIOUS
  <2>3. /\ Len(b) = Len(o) + 1 /\ DOMAIN b = 1 .. Len(o) + 1 /\ b[Len(o) + 1] = a
        /\ \A i \in 1 .. Len(o) : b[i] = o[i]
    BY <2>2, AppendProperties DEF Runs
  <2>4. M!Ids(b) = [i \in 1 .. Len(o) + 1 |-> b[i].id]
    BY <2>3 DEF M!Ids
  <2>5. a.id = k
    BY <2>1
  <2>6. PICK y : y = M!Ids(b)
    OBVIOUS
  <2>7. /\ y = [i \in 1 .. Len(o) + 1 |-> y[i]] /\ y[Len(o) + 1] = k
        /\ \A i \in 1 .. Len(o) : y[i] = x[i]
    BY <1>1, <1>4, <2>3, <2>4, <2>5, <2>6
  <2>8. y \in Seq(Key) /\ Len(y) = Len(o) + 1
    <3>1. ASSUME NEW i \in 1 .. Len(o) + 1 PROVE y[i] \in Key
      <4>1. CASE i \in 1 .. Len(o)
        <5>1. x[i] \in Key
          BY <1>4, <4>1, ElementOfSeq
        <5>2. QED
          BY <2>7, <4>1, <5>1
      <4>2. CASE i = Len(o) + 1
        BY <2>7, <4>2
      <4>3. QED
        BY <1>1, <4>1, <4>2
    <3>2. QED
      BY <1>1, <2>7, <3>1
  <2>9. /\ Append(x, k) \in Seq(Key) /\ Len(Append(x, k)) = Len(o) + 1
        /\ Append(x, k)[Len(o) + 1] = k
        /\ \A i \in 1 .. Len(o) : Append(x, k)[i] = x[i]
    BY <1>4, AppendProperties
  <2>10. \A i \in 1 .. Len(y) : y[i] = Append(x, k)[i]
    BY <1>1, <2>7, <2>8, <2>9
  <2>11. y = Append(x, k)
    BY <2>8, <2>9, <2>10, SeqEqual
  <2>12. QED
    BY <2>1, <2>2, <2>6, <2>11
<1>6. ASSUME Len(o) # 0
      PROVE  M!Ids(SubSeq(o, 1, Len(o) - 1)) = SubSeq(x, 1, Len(o) - 1)
  <2>1. PICK l \in Nat : l = Len(o) - 1
    <3>1. PICK i \in Nat : i = Len(o) /\ i # 0
      BY <1>1, <1>6
    <3>2. i - 1 \in Nat
      BY <3>1
    <3>3. QED
      BY <3>1, <3>2
  <2>2. PICK S : S = [id : Key, since : Int]
    OBVIOUS
  <2>3. \A i \in 1 .. l : i \in 1 .. Len(o)
    BY <1>1, <2>1
  <2>4. \A i \in 1 .. l : o[i] \in S /\ x[i] \in Key
    BY <1>2, <1>4, <2>2, <2>3
  <2>5. PICK b : b = SubSeq(o, 1, l)
    OBVIOUS
  <2>6. b \in Seq(S) /\ Len(b) = l /\ \A i \in 1 .. l : b[i] = o[i]
    BY <2>1, <2>4, <2>5, SubSeqProperties
  <2>7. DOMAIN b = 1 .. l
    BY <2>6
  <2>8. M!Ids(b) = [i \in 1 .. l |-> b[i].id]
    BY <2>7 DEF M!Ids
  <2>9. PICK y : y = SubSeq(x, 1, l)
    OBVIOUS
  <2>10. y \in Seq(Key) /\ Len(y) = l /\ \A i \in 1 .. l : y[i] = x[i]
    BY <2>1, <2>4, <2>9, SubSeqProperties
  <2>11. y = [i \in 1 .. l |-> y[i]]
    BY <2>10
  <2>12. \A i \in 1 .. l : y[i] = b[i].id
    BY <1>4, <2>3, <2>6, <2>10
  <2>13. y = M!Ids(b)
    BY <2>8, <2>11, <2>12
  <2>14. QED
    BY <2>1, <2>5, <2>9, <2>13
<1>7. QED
  BY <1>3, <1>4, <1>5, <1>6

\* start() and stop() turn a timer from the time measured to a starting time and back.
LEMMA Toggles ==
    ASSUME NEW s, NEW r, NEW c, NEW n, NEW q, NEW m, NEW x,
           now \in 0 .. MaxTime, GoodTrie(s, r, c, 0 .. now), n \in 1 .. Len(s),
           M!Refer(s, n, M!Toggled, q), m = MapOf(s), x = PathsOf(s)[n]
    PROVE  /\ x \in DOMAIN m /\ MapOf(m_nodes') = Toggled(m, x, now)
           /\ \A i \in 0 .. Len(s) : PathsOf(m_nodes')[i] = PathsOf(s)[i]
<1>1. PICK v : v = s[n].value
  OBVIOUS
<1>2. v \in 0 .. now /\ IsTrie(s)
  BY <1>1 DEF GoodTrie
<1>3. v \in 0 .. MaxTime /\ now - v \in Int
  BY <1>2, MaxTimeAssumption
<1>4. M!Toggled[v] = now - v
  BY <1>3 DEF M!Toggled
<1>5. PICK w \in Int : w = now - v
  BY <1>3
<1>6. m_nodes' = Valued(s, n, w)
  BY <1>1, <1>4, <1>5 DEF M!Refer, Valued
<1>7. x \in DOMAIN m /\ m[x] = v
  BY <1>1, <1>2, MapIs
<1>8. MapOf(Valued(s, n, w)) = [m EXCEPT ![x] = w]
  BY <1>2, ValueOfPath
<1>9. \A i \in 0 .. Len(s) : PathsOf(Valued(s, n, w))[i] = PathsOf(s)[i]
  BY <1>2, ValueOfPath
<1>10. QED
  BY <1>5, <1>6, <1>7, <1>8, <1>9 DEF Toggled

LEMMA StartKeepsFit ==
    ASSUME TimersFit, NEW k \in Key, M!start(k), now' = now, TimersHold'
    PROVE  TimersFit'
<1>1. GoodTrie(m_nodes, m_root, m_cursor, 0 .. now) /\ now \in 0 .. MaxTime /\ running \in Runs
  BY DEF TimersFit, TimersHold
<1>2. IsTrie(m_nodes) /\ m_cursor \in 0 .. Len(m_nodes) /\ Len(m_nodes) \in Nat
  BY <1>1, TrieNodes DEF GoodTrie
<1>3. M!down(k, M!Toggled) /\ running' = Append(running, [id |-> k, since |-> now])
  BY DEF M!start
<1>4. PICK u, n : /\ GoesDown(m_nodes, m_root, m_cursor, k, u, n)
                  /\ u # m_nodes => Len(m_nodes) < MaxNodes
                  /\ M!Refer(u, n, M!Toggled, <<>>) /\ m_cursor' = n /\ m_root' = Root(u)
  BY <1>1, <1>3, TimersGoDown
<1>5. 0 .. now \in SUBSET Int /\ 0 \in 0 .. now /\ now \in Int
  BY <1>1, MaxTimeAssumption
<1>6. Below(m_nodes, m_root, m_cursor, k, u, n, 0 .. now)
  BY <1>1, <1>4, <1>5, DownGrows
<1>7. PICK x : x = M!Ids(running)
  OBVIOUS
<1>8. /\ x \in Seq(Key) /\ Len(x) = Len(running)
      /\ M!Ids(running') = Append(x, k)
  BY <1>1, <1>3, <1>5, <1>7, IdsOf
<1>9. PICK q : q = Append(x, k)
  OBVIOUS
<1>10. PICK m : m = MapOf(m_nodes)
  OBVIOUS
<1>11. x = PathsOf(m_nodes)[m_cursor] /\ Fits(m, x, running, spent)
  BY <1>7, <1>10 DEF TimersFit
<1>12. PICK g : g = MapOf(u)
  OBVIOUS
<1>13. /\ GoodTrie(u, Root(u), n, 0 .. now) /\ n \in 1 .. Len(u) /\ PathsOf(u)[n] = q
       /\ g = GrownBy(m, q)
  BY <1>6, <1>9, <1>10, <1>11, <1>12 DEF Below
<1>14. /\ MapOf(m_nodes') = Toggled(g, q, now)
       /\ \A i \in 0 .. Len(u) : PathsOf(m_nodes')[i] = PathsOf(u)[i]
  <2>1. M!Refer(u, n, M!Toggled, <<>>)
    BY <1>4
  <2>2. GoodTrie(u, Root(u), n, 0 .. now) /\ n \in 1 .. Len(u)
    BY <1>13
  <2>3. q = PathsOf(u)[n]
    BY <1>13
  <2>4. QED
    BY <1>1, <1>12, <2>1, <2>2, <2>3, Toggles
<1>15. PathsOf(m_nodes')[m_cursor'] = q
  <2>1. n \in 0 .. Len(u)
    BY <1>13 DEF GoodTrie
  <2>2. QED
    BY <1>4, <1>13, <1>14, <2>1
<1>16. Prefs(x) \subseteq DOMAIN m
  <2>1. CASE m_cursor = 0
    <3>1. x = <<>>
      BY <1>2, <1>11, <2>1, NoPath
    <3>2. QED
      BY <3>1 DEF Prefs
  <2>2. CASE m_cursor # 0
    <3>1. m_cursor \in 1 .. Len(m_nodes)
      BY <1>2, <2>2
    <3>2. Prefs(x) \subseteq Paths(m_nodes)
      BY <1>2, <1>11, <3>1, PrefsAreThere
    <3>3. DOMAIN m = Paths(m_nodes)
      BY <1>2, <1>10, MapIs
    <3>4. QED
      BY <3>2, <3>3
  <2>3. QED
    BY <2>1, <2>2
<1>17. running' \in Runs
  <2>1. [id |-> k, since |-> now] \in [id : Key, since : Int]
    BY <1>5
  <2>2. QED
    BY <1>1, <1>3, <2>1, AppendProperties DEF Runs
<1>18. spent' = Opened(spent, q)
  BY <1>7, <1>9 DEF M!start, Opened
<1>19. Fits(Toggled(g, q, now), q, Append(running, [id |-> k, since |-> now]), Opened(spent, q))
  <2>1. PICK o, e, t : o = running /\ e = spent /\ t = now
    OBVIOUS
  <2>2. o \in Runs /\ t \in Int /\ Len(o) = Len(x) /\ Fits(m, x, o, e)
    BY <1>1, <1>5, <1>8, <1>11, <2>1
  <2>3. g = GrownBy(m, q)
    BY <1>13
  <2>4. Fits(Toggled(g, q, t), q, Append(o, [id |-> k, since |-> t]), Opened(e, q))
    BY <1>8, <1>9, <1>16, <2>2, <2>3, StartFits
  <2>5. QED
    BY <2>1, <2>4
<1>20. Fits(MapOf(m_nodes'), q, running', spent')
  BY <1>3, <1>14, <1>18, <1>19
<1>21. QED
  BY <1>1, <1>8, <1>9, <1>15, <1>17, <1>20 DEF TimersFit

LEMMA StopKeepsFit ==
    ASSUME TimersFit, M!stop, now' = now, TimersHold'
    PROVE  TimersFit' /\ Len(running) \in Nat \ {0} /\ Len(running') = Len(running) - 1
<1>1. GoodTrie(m_nodes, m_root, m_cursor, 0 .. now) /\ now \in 0 .. MaxTime /\ running \in Runs
  BY DEF TimersFit, TimersHold
<1>2. /\ IsTrie(m_nodes) /\ m_cursor \in 0 .. Len(m_nodes) /\ Len(m_nodes) \in Nat
      /\ now \in Int
  BY <1>1, TrieNodes, MaxTimeAssumption DEF GoodTrie
<1>3. /\ m_cursor # 0 /\ M!Refer(m_nodes, m_cursor, M!Toggled, <<>>)
      /\ m_cursor' = m_nodes[m_cursor].parent
      /\ running' = SubSeq(running, 1, Len(running) - 1)
  BY DEF M!stop, M!up, M!null
<1>4. m_cursor \in 1 .. Len(m_nodes)
  BY <1>2, <1>3
<1>5. PICK x : x = M!Ids(running)
  OBVIOUS
<1>6. PICK m : m = MapOf(m_nodes)
  OBVIOUS
<1>7. x = PathsOf(m_nodes)[m_cursor] /\ Fits(m, x, running, spent)
  BY <1>5, <1>6 DEF TimersFit
<1>8. x \in Seq(Key) /\ Len(x) = Len(running)
  BY <1>1, <1>5, IdsOf
<1>9. x # <<>>
  BY <1>2, <1>4, <1>7, PathsBegin
<1>10. Len(x) \in Nat /\ Len(x) # 0
  BY <1>8, <1>9, EmptySeq
<1>11. M!Ids(running') = SubSeq(x, 1, Len(running) - 1)
  BY <1>1, <1>3, <1>5, <1>8, <1>10, IdsOf
<1>12. /\ x \in DOMAIN m /\ MapOf(m_nodes') = Toggled(m, x, now)
       /\ \A i \in 0 .. Len(m_nodes) : PathsOf(m_nodes')[i] = PathsOf(m_nodes)[i]
  BY <1>1, <1>3, <1>4, <1>6, <1>7, Toggles
<1>13. PathsOf(m_nodes')[m_cursor'] = SubSeq(x, 1, Len(x) - 1)
  <2>1. m_cursor' \in 0 .. Len(m_nodes)
    BY <1>2, <1>3, <1>4, UpStays
  <2>2. PathsOf(m_nodes)[m_nodes[m_cursor].parent] = SubSeq(x, 1, Len(x) - 1)
    BY <1>2, <1>4, <1>7, PathUp
  <2>3. QED
    BY <1>3, <1>12, <2>1, <2>2
<1>14. spent' = Spent(spent, x, now - running[Len(running)].since)
  <2>1. PICK v : v = running[Len(running)].since
    OBVIOUS
  <2>2. spent' = [spent EXCEPT ![x] = spent[x] + now - v]
    BY <1>5, <2>1 DEF M!stop
  <2>3. x \in DOMAIN spent => spent[x] \in Int
    BY <1>7 DEF Fits
  <2>4. v \in Int
    <3>1. Len(running) \in 1 .. Len(running)
      BY <1>8, <1>10
    <3>2. running[Len(running)] \in [id : Key, since : Int]
      BY <1>1, <3>1, ElementOfSeq DEF Runs
    <3>3. QED
      BY <2>1, <3>2
  <2>5. x \in DOMAIN spent
    BY <1>7, <1>12 DEF Fits
  <2>6. PICK z \in Int : z = spent[x]
    BY <2>3, <2>5
  <2>7. spent[x] + now - v = spent[x] + (now - v)
    <3>1. z + now - v = z + (now - v)
      BY ONLY <1>2, <2>4, <2>6
    <3>2. QED
      BY <2>6, <3>1
  <2>8. QED
    BY <2>1, <2>2, <2>7 DEF Spent
<1>15. Fits(Toggled(m, x, now), SubSeq(x, 1, Len(x) - 1), SubSeq(running, 1, Len(running) - 1),
            Spent(spent, x, now - running[Len(running)].since))
  BY <1>1, <1>2, <1>7, <1>8, <1>9, <1>12, StopFits
<1>16. Fits(MapOf(m_nodes'), SubSeq(x, 1, Len(x) - 1), running', spent')
  BY <1>3, <1>12, <1>14, <1>15
<1>17. running' \in Runs /\ Len(running') = Len(running) - 1
  <2>1. PICK S, o : S = [id : Key, since : Int] /\ o = running
    OBVIOUS
  <2>2. o \in Seq(S) /\ Runs = Seq(S) /\ Len(o) # 0
    BY <1>1, <1>8, <1>10, <2>1 DEF Runs
  <2>3. Popped(o) \in Seq(S) /\ Len(Popped(o)) = Len(o) - 1
    BY <2>2, PoppedIs
  <2>4. QED
    BY <1>3, <2>1, <2>2, <2>3 DEF Popped
<1>18. TimersFit'
  BY <1>1, <1>8, <1>11, <1>13, <1>16, <1>17 DEF TimersFit
<1>19. QED
  BY <1>8, <1>10, <1>17, <1>18

\* A metric runs for every scope that does.
ScopesRun == m_scope \in Scopes /\ Len(running) = Cardinality(RunningOf(m_scope))

TimesInv == TimersFit /\ ScopesRun

LEMMA StartKeepsTimes ==
    ASSUME TimesInv, NEW s \in Scope, NEW k \in Key, M!Open(s, k), TimersHold'
    PROVE  TimesInv'
<1>1. /\ m_scope[s] = "gone" /\ M!start(k) /\ m_scope' = [m_scope EXCEPT ![s] = "running"]
      /\ now' = now
  BY DEF M!Open
<1>2. TimersFit'
  BY <1>1, StartKeepsFit DEF TimesInv
<1>3. /\ m_scope' \in Scopes
      /\ Cardinality(RunningOf(m_scope')) = Cardinality(RunningOf(m_scope)) + 1
  BY <1>1, OneOpens DEF TimesInv, ScopesRun
<1>4. Len(running') = Len(running) + 1
  <2>1. running \in Runs /\ now \in Int
    BY MaxTimeAssumption DEF TimesInv, TimersFit
  <2>2. running' = Append(running, [id |-> k, since |-> now])
    BY <1>1 DEF M!start
  <2>3. PICK a, o : a = [id |-> k, since |-> now] /\ o = running
    OBVIOUS
  <2>4. Len(Append(o, a)) = Len(o) + 1
    <3>1. a \in [id : Key, since : Int] /\ o \in Runs
      BY <2>1, <2>3
    <3>2. QED
      BY <3>1, AppendProperties DEF Runs
  <2>5. QED
    BY <2>2, <2>3, <2>4
<1>5. QED
  BY <1>2, <1>3, <1>4 DEF TimesInv, ScopesRun

LEMMA StopKeepsTimes ==
    ASSUME TimesInv, NEW s \in Scope, NEW r \in Scope, NEW g, m_scope[r] # "gone",
           Stopped(m_scope, g, s, r), M!StopThen(s, g), TimersHold'
    PROVE  TimesInv'
<1>1. m_scope' = g /\ now' = now
  BY DEF M!StopThen
<1>2. /\ g \in Scopes
      /\ Cardinality(RunningOf(g)) = IF m_scope[s] = "running"
                                     THEN Cardinality(RunningOf(m_scope)) - 1
                                     ELSE Cardinality(RunningOf(m_scope))
  BY OneStops DEF TimesInv, ScopesRun
<1>3. CASE m_scope[s] = "running" /\ M!stop
  <2>1. TimersFit' /\ Len(running') = Len(running) - 1
    BY <1>1, <1>3, StopKeepsFit DEF TimesInv
  <2>2. QED
    BY <1>1, <1>2, <1>3, <2>1 DEF TimesInv, ScopesRun
<1>4. CASE m_scope[s] = "null" /\ M!monitor' = M!monitor
  <2>1. /\ m_nodes' = m_nodes /\ m_cursor' = m_cursor /\ running' = running /\ spent' = spent
    BY <1>4 DEF M!monitor, M!vars
  <2>2. TimersFit'
    BY <1>1, <2>1 DEF TimesInv, TimersFit
  <2>3. QED
    BY <1>1, <1>2, <1>4, <2>1, <2>2 DEF TimesInv, ScopesRun
<1>5. QED
  BY <1>3, <1>4 DEF M!StopThen

LEMMA TimesStep == ASSUME TimesInv, M!MonitorNext PROVE TimesInv'
<1>1. now' \in 0 .. MaxTime /\ TimersHold'
  BY TimersStep DEF TimesInv, TimersFit
<1>2. ASSUME M!monitor' = M!monitor, m_scope' \in Scopes,
             Cardinality(RunningOf(m_scope')) = Cardinality(RunningOf(m_scope))
      PROVE  TimesInv'
  <2>1. /\ m_nodes' = m_nodes /\ m_cursor' = m_cursor /\ running' = running /\ spent' = spent
    BY <1>2 DEF M!monitor, M!vars
  <2>2. TimersFit'
    BY <1>1, <2>1 DEF TimesInv, TimersFit
  <2>3. QED
    BY <1>2, <2>1, <2>2 DEF TimesInv, ScopesRun
<1>3. CASE M!Tick
  <2>1. M!monitor' = M!monitor /\ m_scope' = m_scope
    BY <1>3 DEF M!Tick
  <2>2. QED
    BY <1>2, <2>1 DEF TimesInv, ScopesRun
<1>4. ASSUME NEW s \in Scope, NEW k \in Key, M!Open(s, k) PROVE TimesInv'
  BY <1>1, <1>4, StartKeepsTimes
<1>5. ASSUME NEW s \in Scope, M!Stop(s) \/ M!Close(s) PROVE TimesInv'
  <2>1. CASE m_scope[s] = "gone"
    BY <1>5, <2>1 DEF M!Stop, M!Close, M!StopThen
  <2>2. CASE m_scope[s] # "gone"
    <3>1. PICK g : g = [m_scope EXCEPT ![s] = "null"]
      OBVIOUS
    <3>2. PICK h : h = [m_scope EXCEPT ![s] = "gone"]
      OBVIOUS
    <3>3. Stopped(m_scope, g, s, s) /\ Stopped(m_scope, h, s, s)
      BY <3>1, <3>2 DEF Stopped
    <3>4. M!StopThen(s, g) \/ M!StopThen(s, h)
      BY <1>5, <3>1, <3>2 DEF M!Stop, M!Close
    <3>5. QED
      BY <1>1, <2>2, <3>3, <3>4, StopKeepsTimes
  <2>3. QED
    BY <2>1, <2>2
<1>6. ASSUME NEW s \in Scope, NEW r \in Scope, M!MoveAssign(s, r) PROVE TimesInv'
  <2>1. PICK g : g = IF s = r THEN [m_scope EXCEPT ![s] = "null"]
                     ELSE [m_scope EXCEPT ![s] = m_scope[r], ![r] = "null"]
    OBVIOUS
  <2>2. m_scope[r] # "gone" /\ M!StopThen(s, g)
    BY <1>6, <2>1 DEF M!MoveAssign
  <2>3. Stopped(m_scope, g, s, r)
    BY <2>1 DEF Stopped
  <2>4. QED
    BY <1>1, <2>2, <2>3, StopKeepsTimes
<1>7. ASSUME NEW s \in Scope, NEW r \in Scope, M!MoveConstruct(s, r) PROVE TimesInv'
  <2>1. /\ m_scope[s] = "gone" /\ m_scope[r] # "gone" /\ M!monitor' = M!monitor
        /\ m_scope' = [m_scope EXCEPT ![s] = m_scope[r], ![r] = "null"]
    BY <1>7 DEF M!MoveConstruct
  <2>2. s # r
    BY <2>1
  <2>3. PICK g : g = [m_scope EXCEPT ![s] = m_scope[r], ![r] = "null"]
    OBVIOUS
  <2>4. Stopped(m_scope, g, s, r)
    BY <2>2, <2>3 DEF Stopped
  <2>5. g \in Scopes /\ Cardinality(RunningOf(g)) = Cardinality(RunningOf(m_scope))
    BY <2>1, <2>4, OneStops DEF TimesInv, ScopesRun
  <2>6. QED
    BY <1>2, <2>1, <2>3, <2>5
<1>8. QED
  BY <1>3, <1>4, <1>5, <1>6, <1>7 DEF M!MonitorNext

LEMMA PrefixIsPre ==
    ASSUME NEW p \in Seq(Key), NEW x \in Seq(Key)
    PROVE  M!IsPrefix(p, x) <=> IsPre(p, x)
<1>1. Len(p) \in Nat
  OBVIOUS
<1>2. SubSeq(p, 1, Len(p)) = p
  <2>1. \A i \in 1 .. Len(p) : p[i] \in Key
    BY ElementOfSeq
  <2>2. PICK y : y = SubSeq(p, 1, Len(p))
    OBVIOUS
  <2>3. y \in Seq(Key) /\ Len(y) = Len(p) /\ \A i \in 1 .. Len(p) : y[i] = p[i]
    BY <1>1, <2>1, <2>2, SubSeqProperties
  <2>4. QED
    BY <2>2, <2>3, SeqEqual
<1>3. IsPre(p, x) <=> Len(p) <= Len(x) /\ p = SubSeq(x, 1, Len(p))
  BY PreIsThere
<1>4. QED
  BY <1>2, <1>3 DEF M!IsPrefix

\* A node's timer, by the node's path.
LEMMA TimerOf ==
    ASSUME TimesInv, NEW n \in M!Node
    PROVE  /\ n \in 1 .. Len(m_nodes) /\ M!PathTo(n) \in DOMAIN spent
           /\ M!PathTo(n) \in Seq(Key) /\ M!PathTo(n) # <<>>
           /\ m_nodes[n].value =
                 IF M!IsPrefix(M!PathTo(n), M!Ids(running))
                 THEN running[Len(M!PathTo(n))].since - spent[M!PathTo(n)]
                 ELSE spent[M!PathTo(n)]
<1>1. IsTrie(m_nodes) /\ DOMAIN m_nodes = 1 .. Len(m_nodes)
  BY TrieNodes DEF TimesInv, TimersFit, TimersHold, GoodTrie
<1>2. n \in 1 .. Len(m_nodes)
  BY <1>1 DEF M!Node
<1>3. PICK p : p = M!PathTo(n)
  OBVIOUS
<1>4. p = PathsOf(m_nodes)[n]
  BY <1>3, TPaths
<1>5. PICK m : m = MapOf(m_nodes)
  OBVIOUS
<1>6. p \in DOMAIN m /\ m[p] = m_nodes[n].value
  BY <1>1, <1>2, <1>4, <1>5, MapIs
<1>7. PICK x : x = M!Ids(running)
  OBVIOUS
<1>8. Fits(m, x, running, spent) /\ running \in Runs
  BY <1>5, <1>7 DEF TimesInv, TimersFit
<1>9. /\ p \in Seq(Key) /\ p # <<>> /\ p \in DOMAIN spent
      /\ m[p] = IF IsPre(p, x) THEN running[Len(p)].since - spent[p] ELSE spent[p]
  BY <1>6, <1>8 DEF Fits
<1>10. x \in Seq(Key)
  BY <1>7, <1>8, IdsOf
<1>11. M!IsPrefix(p, x) <=> IsPre(p, x)
  BY <1>9, <1>10, PrefixIsPre
<1>12. QED
  BY <1>2, <1>3, <1>6, <1>7, <1>9, <1>11

LEMMA TimersAreSpent == ASSUME TimesInv PROVE M!TimesAreSpent
<1>1. IsTrie(m_nodes) /\ DOMAIN m_nodes = 1 .. Len(m_nodes)
  BY TrieNodes DEF TimesInv, TimersFit, TimersHold, GoodTrie
<1>2. M!PathTo(m_cursor) = M!Ids(running)
  BY TPaths DEF TimesInv, TimersFit
<1>3. Len(running) = M!Cardinality({s \in Scope : m_scope[s] = "running"})
  <2>1. PICK S : S = RunningOf(m_scope)
    OBVIOUS
  <2>2. M!Cardinality(S) = Cardinality(S)
    BY DEF M!Cardinality, Cardinality
  <2>3. QED
    BY <2>1, <2>2 DEF TimesInv, ScopesRun, RunningOf
<1>4. {M!PathTo(n) : n \in M!Node} = DOMAIN spent
  <2>1. Paths(m_nodes) = DOMAIN spent
    <3>1. DOMAIN MapOf(m_nodes) = DOMAIN spent
      BY DEF TimesInv, TimersFit, Fits
    <3>2. QED
      BY <1>1, <3>1, MapIs
  <2>2. M!Node = 1 .. Len(m_nodes)
    BY <1>1 DEF M!Node
  <2>3. \A n \in M!Node : M!PathTo(n) = PathsOf(m_nodes)[n]
    BY TPaths
  <2>4. {M!PathTo(n) : n \in M!Node} = {PathsOf(m_nodes)[n] : n \in 1 .. Len(m_nodes)}
    BY <2>2, <2>3
  <2>5. QED
    BY <2>1, <2>4 DEF Paths
<1>5. \A n \in M!Node :
         m_nodes[n].value =
            IF M!IsPrefix(M!PathTo(n), M!Ids(running))
            THEN running[Len(M!PathTo(n))].since - spent[M!PathTo(n)]
            ELSE spent[M!PathTo(n)]
  BY TimerOf
<1>6. \A n \in M!Node : LET p == M!PathTo(n) IN
         m_nodes[n].value =
            IF M!IsPrefix(p, M!Ids(running)) THEN running[Len(p)].since - spent[p] ELSE spent[p]
  BY <1>5, Zenon
<1>7. QED
  BY <1>2, <1>3, <1>4, <1>6, Zenon DEF M!TimesAreSpent

\* A report made while nothing runs.
LEMMA ReportsAreSpent == ASSUME TimesInv PROVE M!ReportIsSpent
<1> SUFFICES ASSUME running = <<>>,
                    \A m, n \in M!Node : m_nodes[m].key = m_nodes[n].key => m = n,
                    NEW n \in M!Node
             PROVE  M!Report[m_nodes[n].key] = spent[M!PathTo(n)]
  BY DEF M!ReportIsSpent
<1>1. IsTrie(m_nodes) /\ DOMAIN m_nodes = 1 .. Len(m_nodes) /\ m_root = Root(m_nodes)
  BY TrieNodes DEF TimesInv, TimersFit, TimersHold, GoodTrie
<1>2. m_nodes[n].value = spent[M!PathTo(n)]
  <2>1. PICK p : p = M!PathTo(n)
    OBVIOUS
  <2>2. p \in Seq(Key) /\ p # <<>>
    BY <2>1, TimerOf
  <2>3. running \in Runs /\ Len(running) = 0
    BY DEF TimesInv, TimersFit
  <2>4. M!Ids(running) \in Seq(Key) /\ Len(M!Ids(running)) = 0
    BY <2>3, IdsOf
  <2>5. ~IsPre(p, M!Ids(running))
    <3>1. Len(p) \in Nat /\ Len(p) # 0
      BY <2>2, EmptySeq
    <3>2. QED
      BY <2>4, <3>1 DEF IsPre
  <2>6. ~M!IsPrefix(p, M!Ids(running))
    BY <2>2, <2>4, <2>5, PrefixIsPre
  <2>7. QED
    BY <2>1, <2>6, TimerOf
<1>3. PICK k : k = m_nodes[n].key
  OBVIOUS
<1>4. PICK v : v = M!Visited
  OBVIOUS
<1>5. v \in Seq(Nat) /\ Items(v) = M!Node
  <2>1. v = VisitsOf(m_nodes)[m_root]
    BY <1>4, TVisited
  <2>2. M!Node = 1 .. Len(m_nodes)
    BY <1>1 DEF M!Node
  <2>3. QED
    BY <1>1, <2>1, <2>2, VisitsAll
<1>6. PICK I : I = {i \in 1 .. Len(v) : m_nodes[v[i]].key = k}
  OBVIOUS
<1>7. I # {}
  <2>1. n \in Items(v)
    BY <1>5
  <2>2. PICK i \in 1 .. Len(v) : v[i] = n
    BY <2>1 DEF Items
  <2>3. QED
    BY <1>3, <1>6, <2>2
<1>8. PICK j : j = CHOOSE i \in I : \A h \in I : i >= h
  OBVIOUS
<1>9. j \in I
  <2>1. Len(v) \in Nat /\ I \in SUBSET (0 .. Len(v))
    BY <1>5, <1>6
  <2>2. PICK i \in I : \A h \in I : h <= i
    BY <1>7, <2>1, GreatestExists
  <2>3. \A h \in I : i >= h
    BY <2>1, <2>2
  <2>4. QED
    BY <1>8, <2>3
<1>10. v[j] = n
  <2>1. j \in 1 .. Len(v) /\ m_nodes[v[j]].key = k
    BY <1>6, <1>9
  <2>2. v[j] \in M!Node
    BY <1>5, <2>1 DEF Items
  <2>3. QED
    BY <1>3, <2>1, <2>2
<1>11. M!Report[k] = m_nodes[v[j]].value
  <2>1. k \in {m_nodes[i].key : i \in M!Node}
    BY <1>3
  <2>2. M!Report[k] = m_nodes[M!Visited[M!SelectLastInSeq(M!Visited, LAMBDA i : m_nodes[i].key = k)]].value
    BY <2>1 DEF M!Report
  <2>3. M!SelectLastInSeq(v, LAMBDA i : m_nodes[i].key = k) = j
    BY <1>6, <1>7, <1>8 DEF M!SelectLastInSeq, M!Max
  <2>4. QED
    BY <1>4, <2>2, <2>3
<1>12. QED
  BY <1>2, <1>3, <1>10, <1>11

\* For all keys, bounds and sets of scopes: on a metric2::trie each timer has the
\* time spent in its path, or what takes it there when it stops, however scopes
\* are moved and stopped; so has a report, if no two paths end alike.
THEOREM TimersHaveTimesSpent == MetricsSpec => []TimesAreSpent
<1> DEFINE Inv2 == program = "trie monitor" => TimesInv
<1>1. MetricsInit => Inv2
  <2> SUFFICES ASSUME MetricsInit PROVE TimesInv
    OBVIOUS
  <2>1. /\ m_nodes = <<>> /\ m_root = 0 /\ m_cursor = 0 /\ now = 0
        /\ m_scope = [s \in Scope |-> "gone"] /\ running = <<>> /\ spent = <<>>
    BY DEF MetricsInit, M!MonitorInit, M!Init, M!null
  <2>2. now \in 0 .. MaxTime
    BY <2>1, MaxTimeAssumption
  <2>3. GoodTrie(m_nodes, m_root, m_cursor, 0 .. now)
    BY <2>1, EmptyIsGood
  <2>4. running \in Runs /\ Len(running) = 0
    BY <2>1 DEF Runs
  <2>5. M!Ids(running) = <<>>
    <3>1. M!Ids(running) \in Seq(Key) /\ Len(M!Ids(running)) = 0
      BY <2>4, IdsOf
    <3>2. QED
      BY <3>1, EmptySeq
  <2>6. PathsOf(m_nodes)[m_cursor] = <<>>
    BY <2>1, NoTrie, NoPath
  <2>7. Fits(MapOf(m_nodes), M!Ids(running), running, spent)
    <3>1. MapOf(m_nodes) = <<>>
      BY <2>1, NoMap
    <3>2. QED
      BY <2>1, <3>1 DEF Fits
  <2>8. TimersFit
    BY <2>2, <2>3, <2>4, <2>5, <2>6, <2>7 DEF TimersFit, TimersHold
  <2>9. ScopesRun
    <3>1. m_scope \in Scopes /\ RunningOf(m_scope) = {}
      BY <2>1 DEF Scopes, RunningOf
    <3>2. QED
      BY <2>4, <3>1, FS_EmptySet DEF ScopesRun
  <2>10. QED
    BY <2>8, <2>9 DEF TimesInv
<1>2. Inv2 /\ [MetricsNext]_metricsVars => Inv2'
  <2> SUFFICES ASSUME Inv2, [MetricsNext]_metricsVars, program' = "trie monitor"
               PROVE  TimesInv'
    OBVIOUS
  <2>1. CASE program = "monitor" /\ Next /\ UNCHANGED <<program, trie, trieMonitor>>
    BY <2>1
  <2>2. CASE program = "trie" /\ T!Next /\ UNCHANGED <<program, vars, trieMonitor>>
    BY <2>2
  <2>3. CASE /\ program = "trie monitor" /\ M!MonitorNext
             /\ UNCHANGED <<program, monitor, scope, aborted, trie>>
    BY <2>3, TimesStep
  <2>4. CASE UNCHANGED metricsVars
    <3>1. /\ program' = program /\ m_nodes' = m_nodes /\ m_root' = m_root
          /\ m_cursor' = m_cursor /\ m_scope' = m_scope /\ running' = running
          /\ spent' = spent /\ now' = now
      BY <2>4 DEF metricsVars, vars, trieMonitor
    <3>2. QED
      BY <3>1 DEF TimesInv, TimersFit, TimersHold, ScopesRun
  <2>5. QED
    BY <2>1, <2>2, <2>3, <2>4 DEF MetricsNext
<1>3. Inv2 => TimesAreSpent
  BY TimersAreSpent, ReportsAreSpent DEF TimesAreSpent
<1>4. QED
  BY <1>1, <1>2, <1>3, PTL DEF MetricsSpec
==============================================================================
