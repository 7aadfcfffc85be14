----------------------------- MODULE MCRollout -----------------------------
(* The Deployments of Rollout that TLC considers.                          *)
EXTENDS Rollout

One == [n |-> 1, percent |-> FALSE]
Quarter == [n |-> 25, percent |-> TRUE]

\* A rolling update that keeps no history, losing Pods and restarting.
Rolling ==
    [strategy |-> "RollingUpdate", surge |-> One, unavailable |-> One,
     replicas |-> {2}, burst |-> 8, history |-> 0,
     edits |-> {"template", "restart", "podDelete"}, maxEdits |-> 2, maxPods |-> 3]

\* Recreate with rescaling, pauses and failing Pods.
Recreate ==
    [strategy |-> "Recreate", surge |-> One, unavailable |-> One,
     replicas |-> {1, 2}, burst |-> 8, history |-> 1,
     edits |-> {"template", "pause", "scale", "podUnready"}, maxEdits |-> 2, maxPods |-> 3]

\* Percentages and bursts of one, down to no replicas and deletion.
Percentages ==
    [strategy |-> "RollingUpdate", surge |-> Quarter, unavailable |-> Quarter,
     replicas |-> {0, 2}, burst |-> 1, history |-> 1,
     edits |-> {"template", "delete", "scale"}, maxEdits |-> 2, maxPods |-> 4]

\* A template change and its rollback, and Pods that only get ready.
Rollback ==
    [strategy |-> "RollingUpdate", surge |-> One, unavailable |-> One,
     replicas |-> {2}, burst |-> 8, history |-> 1,
     edits |-> {"template"}, maxEdits |-> 2, maxPods |-> 5]

MCSettings == {Rolling, Recreate, Percentages}
MCRollback == {Rollback}
=============================================================================
