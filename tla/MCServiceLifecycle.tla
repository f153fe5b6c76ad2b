----------------------- MODULE MCServiceLifecycle -----------------------
(* Symmetry for the safety runs of ServiceLifecycle: requests, and singletons, *)
(* are interchangeable.                                                        *)
EXTENDS ServiceLifecycle, TLC

RequestAndTokenSymmetry == Permutations(Requests) \cup Permutations(Singletons)
=============================================================================
