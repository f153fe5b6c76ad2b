-------------------- MODULE MCPostgreSQLObservation --------------------
(* Symmetry for the safety run of PostgreSQLObservation: the sessions are *)
(* interchangeable.                                                       *)
EXTENDS PostgreSQLObservation, TLC

SessionSymmetry == Permutations(Sessions)
=============================================================================
