----------------------------- MODULE LiveQuery -----------------------------
(***************************************************************************)
(* What an observable query promises its subscriber, whichever database    *)
(* feeds it: values never go back in time and are never invented, and a    *)
(* subscriber that lags behind the database is shown something newer or is *)
(* told that the observation ended.                                        *)
(*                                                                         *)
(* The database is a version per source (a table, a collection).  A query  *)
(* may read its sources one after the other, so a value shows a version of *)
(* each.  The module states the contract of Observable and of current() in *)
(* Source/MongoDB and Source/Drizzle; the two watchers implement it.       *)
(***************************************************************************)
EXTENDS Integers

CONSTANTS
  Subscribers,
  Sources,     \* what a query reads
  ReadsFrom    \* the sources of each subscriber's query

VARIABLES
  db,     \* the committed version of every source
  status, \* off, open (values are handed out on request), watched, ended
  view    \* the versions last handed out, -1 before the first

vars == <<db, status, view>>

Nothing(s) == [k \in ReadsFrom[s] |-> -1]
Init ==
  /\ db = [k \in Sources |-> 0]
  /\ status = [s \in Subscribers |-> "off"]
  /\ view = [s \in Subscribers |-> Nothing(s)]

Lagging(s) == status[s] = "watched" /\ \E k \in ReadsFrom[s] : view[s][k] # db[k]

Change(k) ==
  /\ db' = [db EXCEPT ![k] = @ + 1]
  /\ UNCHANGED <<status, view>>
Open(s) ==
  /\ status[s] = "off"
  /\ status' = [status EXCEPT ![s] = "open"]
  /\ UNCHANGED <<db, view>>
Watch(s) ==
  /\ status[s] \in {"off", "open"}
  /\ status' = [status EXCEPT ![s] = "watched"]
  /\ UNCHANGED <<db, view>>
Show(s) ==
  /\ status[s] \in {"open", "watched"}
  /\ \A k \in ReadsFrom[s] : view'[s][k] \in view[s][k] .. db[k] /\ view'[s][k] >= 0
  /\ \A t \in Subscribers \ {s} : view'[t] = view[t]
  /\ UNCHANGED <<db, status>>
\* The listener, the manager or the scope may end several at once.
End(S) ==
  /\ \A s \in S : status[s] # "ended"
  /\ status' = [s \in Subscribers |-> IF s \in S THEN "ended" ELSE status[s]]
  /\ UNCHANGED <<db, view>>

Next ==
  \/ \E k \in Sources : Change(k)
  \/ \E s \in Subscribers : Open(s) \/ Watch(s) \/ Show(s)
  \/ \E S \in SUBSET Subscribers : End(S)

\* Weak fairness of the progress of every subscriber, which is enabled exactly
\* while the subscriber lags.
Progress(s) == Show(s) \/ status'[s] = "ended"
FairDelivery(s) == []<>(~Lagging(s)) \/ []<><<Progress(s)>>_<<status[s], view[s]>>

Spec == Init /\ [][Next]_vars /\ \A s \in Subscribers : FairDelivery(s)
=============================================================================
