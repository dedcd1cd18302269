---------------------------- MODULE MetricMonitor ----------------------------
(***************************************************************************)
(* haisu::metric::monitor<T, N> (src/haisu/metric.h): a stack of the       *)
(* metrics that run, a stack of the times they started at, and a table of  *)
(* what was measured.  The stack of metrics is a mono::overflow_stack      *)
(* (src/haisu/mono_stack.h), which counts what does not fit.               *)
(*                                                                         *)
(* The program measures with scopes, objects of the class monitor::metric, *)
(* each of which starts a metric and stops one, wherever it is moved.      *)
(***************************************************************************)
EXTENDS Integers, Sequences, FiniteSets

CONSTANTS N,        \* the capacity of the stacks
          Wrap,     \* size_type counts modulo this: 256 for N < 255
          SizeOfT,  \* sizeof(T)
          Id,       \* the metrics, numbers other than 0
          Scope,    \* the program's variables for scopes
          MaxTime,  \* bound: the clock stops there
          MaxCalls  \* bound: a path is measured so often

ASSUME NAssumption == N \in Nat \ {0}
ASSUME WrapAssumption == Wrap \in Nat /\ N < Wrap - 1
ASSUME SizeOfTAssumption == SizeOfT \in Nat \ {0}
ASSUME IdAssumption == Id \subseteq Nat
ASSUME ScopeAssumption == IsFiniteSet(Scope)
ASSUME MaxTimeAssumption == MaxTime \in Nat
ASSUME MaxCallsAssumption == MaxCalls \in Nat

VARIABLES
    now,       \* timer::now()
    path,      \* _path._stack
    overflow,  \* _path._overflow
    timers,    \* _timers
    table,     \* _table: the path a key was first stored with, and its aggregate
    scope,     \* _mon of each scope: null, or the monitor; gone if no scope
    aborted    \* an assertion has failed

vars == <<now, path, overflow, timers, table, scope, aborted>>
monitor == <<path, overflow, timers, table>>

Running == {s \in Scope : scope[s] = "running"}

\* Type invariant.
TypeOK ==
    /\ now \in 0 .. MaxTime
    /\ path \in Seq(Id) /\ Len(path) <= N
    /\ overflow \in 0 .. Wrap - 1
    /\ timers \in Seq(0 .. MaxTime) /\ Len(timers) <= N
    /\ \A p \in DOMAIN table : table[p] \in [calls : Nat, total : Nat]
    /\ scope \in [Scope -> {"gone", "null", "running"}]
    /\ aborted \in BOOLEAN

Init ==
    /\ now = 0
    /\ path = <<>>
    /\ overflow = 0
    /\ timers = <<>>
    /\ table = <<>>
    /\ scope = [s \in Scope |-> "gone"]
    /\ aborted = FALSE

\* Real time passes.
Tick ==
    /\ now < MaxTime
    /\ now' = now + 1
    /\ UNCHANGED <<monitor, scope, aborted>>

-----------------------------------------------------------------------------
(* overflow_stack and table                                                *)

Popped(s) == SubSeq(s, 1, Len(s) - 1)

\* size() is truncated to its type.
size == (Len(path) + overflow) % Wrap

full == size >= N

Push(id) ==
    IF Len(path) < N
    THEN path' = Append(path, id) /\ UNCHANGED overflow
    ELSE overflow' = (overflow + 1) % Wrap /\ UNCHANGED path

Pop ==
    IF overflow > 0
    THEN overflow' = overflow - 1 /\ UNCHANGED path
    ELSE path' = Popped(path) /\ UNCHANGED overflow

\* The stack's operator< compares as many bytes as byte_capacity() says, a
\* size_type as well; the cells that are not in use are 0.
byte_capacity == (N * SizeOfT) % Wrap

Cell(p, i) == IF i <= Len(p) THEN p[i] ELSE 0

SameKey(p, q) ==
    \A i \in 1 .. N : (i - 1) * SizeOfT < byte_capacity => Cell(p, i) = Cell(q, i)

\* table::store() and aggregate::add()
Stored(t, p, time) ==
    IF \E q \in DOMAIN t : SameKey(p, q)
    THEN [q \in DOMAIN t |->
            IF SameKey(p, q)
            THEN [calls |-> t[q].calls + 1, total |-> t[q].total + time]
            ELSE t[q]]
    ELSE [q \in DOMAIN t \cup {p} |->
            IF q = p THEN [calls |-> 1, total |-> time] ELSE t[q]]

-----------------------------------------------------------------------------
(* monitor                                                                 *)

\* The assertion of stack::push() fails.
Abort == aborted' = TRUE /\ UNCHANGED <<now, monitor, scope>>

\* Mutant: a metric is timed even if it is ignored.
Timed_always == TRUE

Timed == ~full

\* start(), when the assertion of _timers.push() holds.
start(id) ==
    /\ timers' = IF Timed THEN Append(timers, now) ELSE timers
    /\ Push(id)
    /\ UNCHANGED table

\* Mutant: the time is stored under the path around the metric.
stop_outside ==
    /\ IF overflow > 0 THEN UNCHANGED <<timers, table>>
       ELSE /\ timers' = Popped(timers)
            /\ table' = Stored(table, Popped(path), now - timers[Len(timers)])
    /\ Pop

\* stop(): that there is something to pop is NeverAborts.
stop ==
    /\ IF overflow > 0 THEN UNCHANGED <<timers, table>>
       ELSE /\ timers' = Popped(timers)
            /\ table' = Stored(table, path, now - timers[Len(timers)])
    /\ Pop

-----------------------------------------------------------------------------
(* monitor::metric                                                         *)

\* scope(), with the scope moved out of the function.
Open(s, id) ==
    /\ scope[s] = "gone"
    /\ \A p \in DOMAIN table : table[p].calls < MaxCalls
    /\ IF Timed /\ Len(timers) >= N THEN Abort
       ELSE /\ start(id)
            /\ scope' = [scope EXCEPT ![s] = "running"]
            /\ UNCHANGED <<now, aborted>>

\* What metric::stop() does to the monitor, and then scope' is f.
StopThen(s, f) ==
    \/ /\ scope[s] = "running"
       /\ stop
       /\ scope' = f
       /\ UNCHANGED <<now, aborted>>
    \/ /\ scope[s] = "null"
       /\ scope' = f
       /\ UNCHANGED <<now, monitor, aborted>>

\* metric::stop()
Stop(s) == StopThen(s, [scope EXCEPT ![s] = "null"])

\* ~metric()
Close(s) == StopThen(s, [scope EXCEPT ![s] = "gone"])

\* metric(metric&&), which assigns to a scope with no monitor.
MoveConstruct(s, r) ==
    /\ scope[s] = "gone"
    /\ scope[r] # "gone"
    /\ scope' = [scope EXCEPT ![s] = scope[r], ![r] = "null"]
    /\ UNCHANGED <<now, monitor, aborted>>

\* Mutant: both scopes have the monitor afterwards.
MoveAssign_copies(s, r) ==
    /\ scope[r] # "gone"
    /\ StopThen(s, [scope EXCEPT ![s] = scope[r]])

\* operator=(metric&&); r may be s, which stop() has set to null then.
MoveAssign(s, r) ==
    /\ scope[r] # "gone"
    /\ StopThen(s, IF s = r THEN [scope EXCEPT ![s] = "null"]
                   ELSE [scope EXCEPT ![s] = scope[r], ![r] = "null"])

Next ==
    \/ Tick
    \/ /\ ~aborted
       /\ \/ \E s \in Scope : Stop(s) \/ Close(s) \/ \E id \in Id : Open(s, id)
          \/ \E s, r \in Scope : MoveConstruct(s, r) \/ MoveAssign(s, r)

Spec == Init /\ [][Next]_vars

-----------------------------------------------------------------------------
(* Properties                                                              *)

\* Whatever the program does with its scopes, moving, stopping early and
\* destroying them in any order, every start() has one stop(): the stack is
\* as deep as there are scopes that run.
EveryStartIsStopped == size = Cardinality(Running) % Wrap

\* No assertion fails: the timers and the path are pushed and popped together,
\* and there is something to pop while a scope that is not ignored runs.
NeverAborts ==
    /\ TypeOK
    /\ ~aborted
    /\ Running # {} /\ overflow = 0 => path # <<>> /\ timers # <<>>

\* What is measured is the time of every metric that is not too deep, under
\* its own path.
Measured ==
    [i \in DOMAIN path |->
        [id |-> path[i],
         since |-> IF i \in DOMAIN timers THEN timers[i] ELSE -1]]

P == INSTANCE Profile WITH
        Depth <- N, totals <- table, ignored <- overflow, open <- Measured

ImplementsProfile == P!Spec
==============================================================================
