-------------------------- MODULE MCHubConnection --------------------------
(* HubConnection for TLC: query ids are interchangeable. *)
EXTENDS HubConnection, TLC

QueryIdSymmetry == Permutations(QueryIds)
=============================================================================
