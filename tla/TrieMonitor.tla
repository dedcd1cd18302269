---------------------------- MODULE TrieMonitor ------------------------------
(***************************************************************************)
(* haisu::metric2::monitor<T> (src/haisu/metric2.h): metrics that are      *)
(* started and stopped on a metric2::trie of aggregate timers              *)
(* (src/haisu/metric.h).  A timer is one number, which start() turns from  *)
(* the time measured so far into a starting time and back; the monitor     *)
(* never calls stop(), which would count the calls.                        *)
(*                                                                         *)
(* The program measures with scopes and has one metric at the top, as the  *)
(* assertion of the trie asks.                                             *)
(***************************************************************************)
EXTENDS MetricTrie, FiniteSets

CONSTANTS Scope, MaxTime

VARIABLES
    now,    \* aggregate_timer::now()
    scope,  \* _mon of each scope: null, or the monitor; gone if no scope
    open,   \* history: the metrics that run, with the times they started at
    spent   \* history: the time spent in each path until its last stop

monitor == <<vars, open, spent>>
monitorVars == <<monitor, now, scope>>

MonitorInit ==
    /\ Init
    /\ now = 0
    /\ scope = [s \in Scope |-> "gone"]
    /\ open = <<>>
    /\ spent = <<>>

Tick ==
    /\ now < MaxTime
    /\ now' = now + 1
    /\ UNCHANGED <<monitor, scope>>

\* Mutant: the time measured before is forgotten.
Toggled_restarts == [elapsed \in 0 .. MaxTime |-> now]

\* aggregate_timer::start()
Toggled == [elapsed \in 0 .. MaxTime |-> now - elapsed]

Ids(o) == [i \in DOMAIN o |-> o[i].id]

start(id) ==
    /\ down(id, Toggled)
    /\ open' = Append(open, [id |-> id, since |-> now])
    /\ LET p == Append(Ids(open), id)
       IN  spent' = [q \in DOMAIN spent \cup {p} |-> IF q \in DOMAIN spent THEN spent[q] ELSE 0]

\* The assertion of up() is that something runs.
stop ==
    /\ up(Toggled)
    /\ open' = SubSeq(open, 1, Len(open) - 1)
    /\ spent' = [spent EXCEPT ![Ids(open)] = @ + now - open[Len(open)].since]

-----------------------------------------------------------------------------
(* monitor::metric, the same class as in metric.h but for the monitor      *)

Open(s, id) ==
    /\ scope[s] = "gone"
    /\ start(id)
    /\ scope' = [scope EXCEPT ![s] = "running"]
    /\ UNCHANGED now

\* What metric::stop() does to the monitor, and then scope' is f.
StopThen(s, f) ==
    /\ \/ scope[s] = "running" /\ stop
       \/ scope[s] = "null" /\ UNCHANGED monitor
    /\ scope' = f
    /\ UNCHANGED now

\* metric::stop(), ~metric()
Stop(s) == StopThen(s, [scope EXCEPT ![s] = "null"])
Close(s) == StopThen(s, [scope EXCEPT ![s] = "gone"])

\* operator=(metric&&); a scope that is assigned to itself stops.
MoveAssign(s, r) ==
    /\ scope[r] # "gone"
    /\ StopThen(s, IF s = r THEN [scope EXCEPT ![s] = "null"]
                   ELSE [scope EXCEPT ![s] = scope[r], ![r] = "null"])

\* metric(metric&&) assigns to a scope with no monitor.
MoveConstruct(s, r) ==
    /\ scope[s] = "gone" /\ scope[r] # "gone"
    /\ scope' = [scope EXCEPT ![s] = scope[r], ![r] = "null"]
    /\ UNCHANGED <<monitor, now>>

MonitorNext ==
    \/ Tick
    \/ \E s \in Scope : Stop(s) \/ Close(s) \/ \E id \in Key : Open(s, id)
    \/ \E s, r \in Scope : MoveConstruct(s, r) \/ MoveAssign(s, r)

-----------------------------------------------------------------------------
(* Properties                                                              *)

\* report() files every timer under its key alone: of those with one key, the
\* last that foreach() visits is reported.
Report ==
    [k \in {nodes[n].key : n \in Node} |->
        LET last == SelectLastInSeq(Visited, LAMBDA n : nodes[n].key = k)
        IN  nodes[Visited[last]].value]

\* A timer that is stopped holds the time spent in its path, and one that runs
\* what takes it there; the cursor is the path of the metrics that run, one for
\* each running scope.
TimesAreSpent ==
    /\ PathTo(cursor) = Ids(open)
    /\ Len(open) = Cardinality({s \in Scope : scope[s] = "running"})
    /\ {PathTo(n) : n \in Node} = DOMAIN spent
    /\ \A n \in Node : LET p == PathTo(n) IN
          nodes[n].value =
            IF IsPrefix(p, Ids(open)) THEN open[Len(p)].since - spent[p] ELSE spent[p]

\* A report made while nothing runs has the time spent in each metric, if no
\* two paths end with the same metric.
ReportIsSpent ==
    open = <<>> /\ (\A m, n \in Node : nodes[m].key = nodes[n].key => m = n) =>
        \A n \in Node : Report[nodes[n].key] = spent[PathTo(n)]

\* What operator[] of the report, a tree, gives for a path: for one of several
\* keys it makes a node, whose value nobody has written.
Unwritten == -1
ReportAt(p) == IF Len(p) = 1 /\ p[1] \in DOMAIN Report THEN Report[p[1]] ELSE Unwritten

\* The report has the time spent in every path, by the path.
ReportHasPaths ==
    open = <<>> => \A n \in Node : ReportAt(PathTo(n)) # Unwritten
=============================================================================
