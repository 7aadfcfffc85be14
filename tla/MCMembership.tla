---------------------------- MODULE MCMembership ----------------------------
(* Two data directories that claim one node name, each at a server of its   *)
(* own.                                                                    *)
EXTENDS Membership
MCHome == [a \in Agents |-> IF a = "old" THEN 1 ELSE 2]
=============================================================================
