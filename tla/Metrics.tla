------------------------------- MODULE Metrics -------------------------------
(***************************************************************************)
(* The ways to measure by path: the table of metric::monitor, and the tree *)
(* of metric2::trie, by itself or in a metric2::monitor.  A program uses   *)
(* one of them.                                                            *)
(***************************************************************************)
EXTENDS MetricMonitor, TLC

CONSTANTS Key, MaxPath, MaxNodes  \* of the trie, and how long paths are spelt out

ASSUME MaxNodesAssumption == MaxNodes \in Nat /\ MaxPath \in Nat

VARIABLES
    program,  \* "monitor", "trie" or "trie monitor"
    t_nodes, t_root, t_cursor, t_asked, t_answer,
    m_nodes, m_root, m_cursor, m_asked, m_answer,
    m_scope, running, spent  \* of the trie monitor, which shares `now'

trie == <<t_nodes, t_root, t_cursor, t_asked, t_answer>>
trieMonitor ==
    <<m_nodes, m_root, m_cursor, m_asked, m_answer, m_scope, running, spent>>
metricsVars == <<program, vars, trie, trieMonitor>>

Path == UNION {[1 .. n -> Key] : n \in 1 .. MaxPath}

\* What the program does with a value of the trie: it reads and changes it.
Func == {[v \in 0 .. 1 |-> 1 - v]}

T == INSTANCE MetricTrie WITH
        nodes <- t_nodes, root <- t_root, cursor <- t_cursor,
        asked <- t_asked, answer <- t_answer
M == INSTANCE TrieMonitor WITH
        Func <- [0 .. MaxTime -> 0 .. MaxTime],
        nodes <- m_nodes, root <- m_root, cursor <- m_cursor,
        asked <- m_asked, answer <- m_answer,
        scope <- m_scope, open <- running

MetricsInit ==
    /\ program \in {"monitor", "trie", "trie monitor"}
    /\ Init /\ T!Init /\ M!MonitorInit

MetricsNext ==
    \/ program = "monitor" /\ Next /\ UNCHANGED <<program, trie, trieMonitor>>
    \/ program = "trie" /\ T!Next /\ UNCHANGED <<program, vars, trieMonitor>>
    \/ /\ program = "trie monitor"
       /\ M!MonitorNext
       /\ UNCHANGED <<program, monitor, scope, aborted, trie>>

\* Which variable a scope is in makes no difference.
Symmetry == Permutations(Scope)

MetricsSpec == MetricsInit /\ [][MetricsNext]_metricsVars

-----------------------------------------------------------------------------
(* Properties                                                              *)

\* The two ways through the trie agree: going up from a node by its parents
\* and down again by children and siblings leads to the same node, and
\* foreach() visits every node once.  The trie never loses a node, and never
\* has two for a path.
UpAndDownAgree == T!UpAndDownAgree /\ M!UpAndDownAgree

\* The trie is a map of paths, and the cursor a path in it.
ImplementsPathMap == T!ImplementsPathMap

\* On the trie, every timer has the time spent in its path, however scopes are
\* moved and stopped; a report has it too if no two paths end alike.
TimesAreSpent == program = "trie monitor" => M!TimesAreSpent /\ M!ReportIsSpent

\* A report of metric2::monitor has nested metrics by their path.
ReportHasPaths == program = "trie monitor" => M!ReportHasPaths
==============================================================================
