----------------------- MODULE MCObservableSessions -----------------------
(* ObservableSessions for TLC: two sessions of one caller, under a tight  *)
(* server budget and under a tight caller budget.                         *)
EXTENDS ObservableSessions

OneCaller == [s \in Sessions |-> CHOOSE c \in Callers : TRUE]
TightBudgets == {[subscriptions |-> 1, perCaller |-> 2], [subscriptions |-> 2, perCaller |-> 1]}
=============================================================================
