------------------------- MODULE MCCommandExecution -------------------------
(* CommandExecution for TLC: the scope lists that tell the cases apart. *)
EXTENDS CommandExecution, TLC

ChronicleAlone == {<<"chronicle">>}
ChronicleScopes == {<<"chronicle", "silent">>, <<"silent", "chronicle">>}
AllScopes ==
  {<<"opaque">>, <<"silent", "reporting">>, <<"chronicle", "reporting">>} \cup ChronicleScopes

\* Bound: beside an application's own participant one nested command is started,
\* two beside silent scopes.
SecondNestedBesideSilentScopes ==
  Cardinality({n \in Nested : nested[n] # "idle"}) = 2 => \A i \in DOMAIN kinds : kinds[i] # "reporting"
NestedSymmetry == Permutations(Nested)
=============================================================================
