-------------------------- MODULE MCPostgresStore --------------------------
(* Instances of PostgresStore for TLC.                                     *)
EXTENDS PostgresStore, TLC

Symmetry == Permutations(Values) \cup Permutations(Clients)
=============================================================================
