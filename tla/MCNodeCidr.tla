----------------------------- MODULE MCNodeCidr -----------------------------
(* An instance of NodeCidr for TLC; without symmetry, as liveness is checked. *)
EXTENDS NodeCidr, TLC
=============================================================================
