------------------------------ MODULE MCReads -------------------------------
(* Reads for TLC.  With one label value, Exists and Absent are In and NotIn. *)
EXTENDS Reads

MCRequirements ==
    {[op |-> "In", values |-> {"a"}], [op |-> "NotIn", values |-> {"a"}]}
=============================================================================
