----------------------------- MODULE MCTraffic ------------------------------
(* Two Pods, one of them on the proxy's node; they fit in one slice.       *)
EXTENDS Traffic

\* A Service is made again for both Pods, or for one of them at another port.
MCRemade == {[port |-> 80, sel |-> {1, 2}], [port |-> 81, sel |-> {1}]}
=============================================================================
