------------------------------- MODULE Profile -------------------------------
(***************************************************************************)
(* What a metric monitor promises: the time between start() and stop() is  *)
(* added to the metric's path, the metrics that are open around it, and a  *)
(* metric that is nested too deep is ignored, and ignored completely.      *)
(***************************************************************************)
EXTENDS Integers, Sequences

CONSTANTS Id,      \* the metrics
          Depth,   \* how deep metrics are measured
          MaxTime  \* bound: the clock stops there

VARIABLES now,      \* the clock
          open,     \* the metrics that are running, the outermost first
          ignored,  \* how many are running beneath them, too deep
          totals    \* what has been measured of each path so far

vars == <<now, open, ignored, totals>>

PathOf(metrics) == [i \in DOMAIN metrics |-> metrics[i].id]

\* A call of the path p that took so long.
Added(t, p, time) ==
    [q \in DOMAIN t \cup {p} |->
        IF q # p THEN t[q]
        ELSE IF p \in DOMAIN t
             THEN [calls |-> t[p].calls + 1, total |-> t[p].total + time]
             ELSE [calls |-> 1, total |-> time]]

Init ==
    /\ now = 0
    /\ open = <<>>
    /\ ignored = 0
    /\ totals = <<>>

Tick ==
    /\ now < MaxTime
    /\ now' = now + 1
    /\ UNCHANGED <<open, ignored, totals>>

Start(id) ==
    /\ IF Len(open) < Depth
       THEN open' = Append(open, [id |-> id, since |-> now]) /\ UNCHANGED ignored
       ELSE ignored' = ignored + 1 /\ UNCHANGED open
    /\ UNCHANGED <<now, totals>>

Stop ==
    \/ /\ ignored > 0
       /\ ignored' = ignored - 1
       /\ UNCHANGED <<now, open, totals>>
    \/ /\ ignored = 0
       /\ open # <<>>
       /\ open' = SubSeq(open, 1, Len(open) - 1)
       /\ totals' = Added(totals, PathOf(open), now - open[Len(open)].since)
       /\ UNCHANGED <<now, ignored>>

Next == Tick \/ Stop \/ \E id \in Id : Start(id)

Spec == Init /\ [][Next]_vars
==============================================================================
