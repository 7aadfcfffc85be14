---------------------------- MODULE MCScheduler ----------------------------
(* Two Nodes and three Pods: `high' takes the whole of Node 1 and goes     *)
(* nowhere else, `low' takes half of it or Node 2, and the requests of     *)
(* `odd' are not accounted.                                                *)
EXTENDS Scheduler

CONSTANTS low, high, odd

Kinds == {"pods", "cpu"}
Load == [p \in Pods |-> [r \in Resources |-> IF r = "cpu" /\ p = high THEN 2 ELSE 1]]
Room == [n \in Nodes |-> [r \in Resources |-> IF n = 1 THEN 2 ELSE 1]]
Priorities == [p \in Pods |-> IF p = high THEN 1 ELSE 0]
Ranks == [p \in Pods |-> [n \in IF p = low THEN Nodes ELSE {1} |-> 0]]
=============================================================================
