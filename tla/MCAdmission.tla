---------------------------- MODULE MCAdmission -----------------------------
(* Two Services and two addresses, one of each other kind.                 *)
EXTENDS Admission
=============================================================================
