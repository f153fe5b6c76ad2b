--------------------------- MODULE HubConnection ---------------------------
(***************************************************************************)
(* Source/Core/queries/observable/HubConnection.ts and                     *)
(* HubSubscriptionRunner.ts: one physical WebSocket or SSE connection that *)
(* multiplexes revisioned query subscriptions.  Every accepted subscribe   *)
(* creates a generation: a HubSubscription with an asynchronous admission  *)
(* (admit) and, once its session is open, an asynchronous delivery         *)
(* (deliver).  Control messages, session outcomes, frame writes, log       *)
(* writes, a disconnect, the server closing the connection and the         *)
(* shutdown timer all interleave at the awaits; the code between two       *)
(* awaits is one step.                                                     *)
(*                                                                         *)
(* A session is what ObservableSessions returns: close() is memoised, its  *)
(* settlement is a step of its own, and it may fail.  A frame is written   *)
(* when output.send is called; the call settles later, and a failed write  *)
(* closes the output (both transports do so).                              *)
(***************************************************************************)
EXTENDS RevisionTable

CONSTANTS
  MaxGenerations,              \* bound: accepted subscribes on this connection
  HubSubscriptionsPerConnection, \* ObservableLimits.hubSubscriptionsPerConnection
  MaxInsertions,               \* bound: Map.set calls, checked where clients unsubscribe
  Stuck                        \* generations whose producer may never settle

Generations == 1..MaxGenerations

ASSUME LimitPositive == HubSubscriptionsPerConnection \in Nat \ {0}
ASSUME StuckGenerations == Stuck \subseteq Generations /\ MaxGenerations \in Nat

VARIABLES
  states,            \* #states, the revision table
  insertions,        \* number of Map.set calls on it
  now,               \* Date.now()
  subscriptions,     \* #subscriptions: the generation held for each query id
  sub,               \* the HubSubscription of each generation
  created,           \* number of generations created
  outputOpen,        \* ~output.signal.aborted
  closing,           \* progress of #closing
  transportClosing,  \* #transportClosing is set
  delivered,         \* progress of #delivery
  joined,            \* the subscriptions the running close waits for
  released,          \* #released
  closes             \* number of onClose calls

tableVars == <<states, insertions, now>>
lifeVars == <<transportClosing, delivered, joined, released, closes>>
vars == <<tableVars, subscriptions, sub, created, outputOpen, closing, lifeVars>>

Unborn == [query |-> None, revision |-> None, aborted |-> FALSE,
           session |-> "none", admission |-> "unborn", delivery |-> "none"]

Subscription ==
  [query : QueryIds \cup {None}, revision : RevisionArgs, aborted : BOOLEAN,
   session : {"none", "open", "closing", "closed", "failed"},
   admission : {"unborn", "opening", "sendUnknown", "sendRejection", "closeStale",
                "logging", "sendError", "done"},
   delivery : {"none", "next", "sending", "sendFinal", "logging", "sendFailure",
               "closing", "closingFailed", "done"}]

----------------------------------------------------------------------------
(* Shared by the handlers *)

closed == closing # "no" \/ transportClosing

\* current(): the generation still holds its query id on a live connection.
Current(g) ==
  /\ ~closed
  /\ outputOpen
  /\ subscriptions[sub[g].query] = g
  /\ IsActive(states, sub[g].query, sub[g].revision)

\* session?.close(): starts the close of an open session, otherwise joins it.
CloseSession(s) == IF s.session = "open" THEN [s EXCEPT !.session = "closing"] ELSE s
SessionSettled(s) == s.session \in {"none", "closed", "failed"}
AbortAndClose(s) == [CloseSession(s) EXCEPT !.aborted = TRUE]

\* completed(): a generation that still holds its query id gives it up.
CompletedKeepsState(g) ==
  LET id == sub[g].query IN
  /\ subscriptions' = IF subscriptions[id] = g THEN [subscriptions EXCEPT ![id] = None] ELSE subscriptions
  /\ UNCHANGED <<states, insertions>>
Completed(g) ==
  LET id == sub[g].query
      revision == sub[g].revision
  IN  IF subscriptions[id] = g
      THEN /\ subscriptions' = [subscriptions EXCEPT ![id] = None]
           /\ IF IsActive(states, id, revision)
              THEN /\ states' = AfterUnsubscribe(Prune(states, now), id, revision, now, insertions)
                   /\ insertions' = IF revision = None THEN insertions ELSE insertions + 1
              ELSE UNCHANGED <<states, insertions>>
      ELSE UNCHANGED <<subscriptions, states, insertions>>

\* output.close() by a handler: the abort listener calls close() at once.
CloseOutput ==
  /\ outputOpen' = FALSE
  /\ closing' = IF closed THEN closing ELSE "scheduled"
KeepOutput == UNCHANGED <<outputOpen, closing>>

\* A call of output.send that was accepted settles: written, or failed with the
\* output closed.
SendSettles(ok) == IF ok THEN KeepOutput ELSE CloseOutput

----------------------------------------------------------------------------
(* Control messages *)

\* How admit() of a new generation leaves its synchronous part: the pipeline is
\* opening, or an error frame for an unknown query or an unbindable request has
\* been written.
AdmissionStarts == {"opening", "sendUnknown", "sendError"}

\* Every generation g replaces is aborted and its session, if it has one, closed.
ReplaceKeepsSession(subs, g) == [subs EXCEPT ![g].aborted = TRUE]
Replace(subs, g) == [subs EXCEPT ![g] = AbortAndClose(@)]

HasRoom(id) == subscriptions[id] # None \/ activeCount(states) < HubSubscriptionsPerConnection

Subscribe(id, revision, key, start) ==
  LET found == Prune(states, now)
      previous == subscriptions[id]
      g == created + 1
      fresh == [Unborn EXCEPT !.query = id, !.revision = revision, !.admission = start]
      replaced == IF previous = None THEN sub ELSE Replace(sub, previous)
  IN  /\ ~closed
      /\ HasRoom(id)
      /\ IF TakesSubscribe(found, id, revision, key)
         THEN /\ created < MaxGenerations
              /\ created' = g
              /\ states' = With(found, id, Subscribed(revision, key, insertions))
              /\ insertions' = insertions + 1
              /\ sub' = [replaced EXCEPT ![g] = fresh]
              /\ subscriptions' = [subscriptions EXCEPT ![id] = g]
         ELSE /\ states' = found
              /\ UNCHANGED <<created, insertions, sub, subscriptions>>
      /\ UNCHANGED <<now, lifeVars>> /\ KeepOutput

\* unsubscribe() has no closed check: it also runs on a closing connection.
Unsubscribe(id, revision) ==
  LET found == Prune(states, now)
      current == subscriptions[id]
  IN  /\ insertions < MaxInsertions
      /\ IF TakesUnsubscribe(found, id, revision)
         THEN /\ states' = AfterUnsubscribe(found, id, revision, now, insertions)
              /\ insertions' = IF revision = None THEN insertions ELSE insertions + 1
              /\ subscriptions' = [subscriptions EXCEPT ![id] = None]
              /\ sub' = IF current = None THEN sub ELSE Replace(sub, current)
         ELSE /\ states' = found
              /\ UNCHANGED <<insertions, subscriptions, sub>>
      /\ UNCHANGED <<now, created, lifeVars>> /\ KeepOutput

Tick ==
  /\ now < MaxTime
  /\ now' = now + 1
  /\ UNCHANGED <<states, insertions, subscriptions, sub, created, outputOpen, closing, lifeVars>>

----------------------------------------------------------------------------
(* admit() after its first await *)

Admit(g, admission) == sub' = [sub EXCEPT ![g].admission = admission]

\* The session opened: it starts delivering, unless its generation was replaced,
\* unsubscribed or closed while it opened; then it is closed again.
OpenSucceedsUnchecked(g) ==
  /\ sub[g].admission = "opening"
  /\ sub' = [sub EXCEPT ![g].session = "open", ![g].admission = "done", ![g].delivery = "next"]
  /\ UNCHANGED <<tableVars, subscriptions, created, lifeVars>> /\ KeepOutput
OpenSucceeds(g) ==
  /\ sub[g].admission = "opening"
  /\ sub' = [sub EXCEPT ![g] =
       IF Current(g) THEN [@ EXCEPT !.session = "open", !.admission = "done", !.delivery = "next"]
                     ELSE [@ EXCEPT !.session = "closing", !.admission = "closeStale"]]
  /\ UNCHANGED <<tableVars, subscriptions, created, lifeVars>> /\ KeepOutput

\* The pipeline rejected the query; its session comes back closed.
OpenRejects(g) ==
  /\ sub[g].admission = "opening"
  /\ sub' = [sub EXCEPT ![g] =
       [@ EXCEPT !.session = "closed",
                 !.admission = IF Current(g) THEN "sendRejection" ELSE "closeStale"]]
  /\ UNCHANGED <<tableVars, subscriptions, created, lifeVars>> /\ KeepOutput

\* Opening threw: a stale generation ends, another reports its error, after
\* logging it when it is neither a bad request nor a limit.
OpenThrows(g, logged) ==
  /\ sub[g].admission = "opening"
  /\ Admit(g, IF ~Current(g) THEN "done" ELSE IF logged THEN "logging" ELSE "sendError")
  /\ UNCHANGED <<tableVars, subscriptions, created, lifeVars>> /\ KeepOutput

\* The frame for an unknown or rejected query settled; a failed write leaves the
\* rest to the close it caused.
RefusalSent(g, ok) ==
  /\ sub[g].admission \in {"sendUnknown", "sendRejection"}
  /\ Admit(g, "done")
  /\ IF ok THEN Completed(g) ELSE UNCHANGED <<subscriptions, states, insertions>>
  /\ SendSettles(ok)
  /\ UNCHANGED <<now, created, lifeVars>>

\* The logger settled: the error frame is written without asking again whether
\* the generation is current.  A closed output or a failing logger ends it.
AdmissionLogged(g, ok) ==
  /\ sub[g].admission = "logging"
  /\ IF ok /\ outputOpen
     THEN /\ Admit(g, "sendError")
          /\ UNCHANGED <<subscriptions, states, insertions>> /\ KeepOutput
     ELSE /\ Admit(g, "done")
          /\ Completed(g)
          /\ CloseOutput
  /\ UNCHANGED <<now, created, lifeVars>>

ErrorSent(g, ok) ==
  /\ sub[g].admission = "sendError"
  /\ Admit(g, "done")
  /\ Completed(g)
  /\ SendSettles(ok)
  /\ UNCHANGED <<now, created, lifeVars>>

StaleClosed(g) ==
  /\ sub[g].admission = "closeStale"
  /\ SessionSettled(sub[g])
  /\ Admit(g, "done")
  /\ UNCHANGED <<tableVars, subscriptions, created, lifeVars>> /\ KeepOutput

----------------------------------------------------------------------------
(* deliver() *)

Deliver(g, delivery) == sub' = [sub EXCEPT ![g].delivery = delivery]
\* The finally block: the session is closed, then the generation completes.
Finish(g, delivery) == sub' = [sub EXCEPT ![g] = [CloseSession(@) EXCEPT !.delivery = delivery]]

\* The session yields a result: a value, or a last one (unauthorized or failed).
ResultUnchecked(g, sending) ==
  /\ sub[g].delivery = "next" /\ sub[g].session \in {"open", "closing"}
  /\ Deliver(g, sending)
  /\ UNCHANGED <<tableVars, subscriptions, created, lifeVars>> /\ KeepOutput
Result(g, sending) ==
  /\ sub[g].delivery = "next" /\ sub[g].session \in {"open", "closing"}
  /\ IF Current(g) THEN Deliver(g, sending) ELSE Finish(g, "closing")
  /\ UNCHANGED <<tableVars, subscriptions, created, lifeVars>> /\ KeepOutput

ResultsEnd(g) ==
  /\ sub[g].delivery = "next"
  /\ Finish(g, "closing")
  /\ UNCHANGED <<tableVars, subscriptions, created, lifeVars>> /\ KeepOutput

ResultsThrow(g) ==
  /\ sub[g].delivery = "next"
  /\ IF Current(g) THEN Deliver(g, "logging") ELSE Finish(g, "closing")
  /\ UNCHANGED <<tableVars, subscriptions, created, lifeVars>> /\ KeepOutput

\* A value was written: its baseline is committed and the next result awaited
\* only by a current generation.  A transport failure is logged.
ResultSent(g, ok) ==
  /\ sub[g].delivery = "sending"
  /\ \/ ok /\ Current(g) /\ Deliver(g, "next")
     \/ ~(ok /\ Current(g)) /\ Finish(g, "closing")
     \/ ~ok /\ Deliver(g, "logging")
  /\ SendSettles(ok)
  /\ UNCHANGED <<tableVars, subscriptions, created, lifeVars>>

\* Leaving the loop returns the iterator, which may itself throw.
FinalSent(g, ok) ==
  /\ sub[g].delivery = "sendFinal"
  /\ \/ Finish(g, "closing")
     \/ (~ok \/ Current(g)) /\ Deliver(g, "logging")
  /\ SendSettles(ok)
  /\ UNCHANGED <<tableVars, subscriptions, created, lifeVars>>

DeliveryLogged(g, ok) ==
  /\ sub[g].delivery = "logging"
  /\ IF ok /\ Current(g)
     THEN Deliver(g, "sendFailure")
     ELSE Finish(g, IF ok THEN "closing" ELSE "closingFailed")
  /\ UNCHANGED <<tableVars, subscriptions, created, lifeVars>> /\ KeepOutput

FailureSent(g, ok) ==
  /\ sub[g].delivery = "sendFailure"
  /\ Finish(g, IF ok THEN "closing" ELSE "closingFailed")
  /\ SendSettles(ok)
  /\ UNCHANGED <<tableVars, subscriptions, created, lifeVars>>

\* A delivery that rejected closes the output.
DeliveryEnds(g) ==
  /\ sub[g].delivery \in {"closing", "closingFailed"}
  /\ SessionSettled(sub[g])
  /\ Deliver(g, "done")
  /\ Completed(g)
  /\ IF sub[g].delivery = "closing" THEN KeepOutput ELSE CloseOutput
  /\ UNCHANGED <<now, created, lifeVars>>

----------------------------------------------------------------------------
(* Sessions, as the connection sees them *)

ServerClosesSession(g) ==
  /\ sub[g].session = "open"
  /\ sub' = [sub EXCEPT ![g] = CloseSession(@)]
  /\ UNCHANGED <<tableVars, subscriptions, created, lifeVars>> /\ KeepOutput

SessionSettles(g, outcome) ==
  /\ sub[g].session = "closing"
  /\ sub' = [sub EXCEPT ![g].session = outcome]
  /\ UNCHANGED <<tableVars, subscriptions, created, lifeVars>> /\ KeepOutput

----------------------------------------------------------------------------
(* Closing the connection *)

\* The client went away, or a write, a keep-alive or a queue bound failed.
Disconnect ==
  /\ outputOpen
  /\ CloseOutput
  /\ UNCHANGED <<tableVars, subscriptions, sub, created, lifeVars>>

\* close() without a shutdown transaction: the work follows in a microtask.
Close ==
  /\ ~closed
  /\ closing' = "scheduled"
  /\ UNCHANGED <<tableVars, subscriptions, sub, created, outputOpen, lifeVars>>

Held == {subscriptions[id] : id \in QueryIds} \ {None}

\* Takes every held generation, aborts it and starts closing its session.
TakeSubscriptions ==
  /\ joined' = Held
  /\ subscriptions' = [id \in QueryIds |-> None]
  /\ sub' = [g \in Generations |-> IF g \in Held THEN AbortAndClose(sub[g]) ELSE sub[g]]
  /\ outputOpen' = FALSE

CloseRuns ==
  /\ closing = "scheduled"
  /\ closing' = "joining"
  /\ TakeSubscriptions
  /\ UNCHANGED <<tableVars, created, transportClosing, delivered, released, closes>>

\* releaseTransport() of a shutdown transaction.  Closing the output calls
\* close(), which starts joinDelivery() in the same step; a connection that is
\* already closing is left to its own close.
ReleaseTransport ==
  /\ ~closed
  /\ transportClosing' = TRUE
  /\ closing' = "coordinated"
  /\ delivered' = "joining"
  /\ TakeSubscriptions
  /\ UNCHANGED <<tableVars, created, released, closes>>

\* The wait for one subscription: its session, its admission, its delivery, in
\* that order; a session that fails to close ends the wait.
Joined(g) ==
  \/ sub[g].session = "failed"
  \/ SessionSettled(sub[g]) /\ sub[g].admission = "done" /\ sub[g].delivery \in {"none", "done"}
AllJoined == \A g \in joined : Joined(g)

\* releaseConnection()
ReleaseConnectionAgain ==
  /\ released' = TRUE
  /\ closes' = closes + 1
ReleaseConnection ==
  IF released THEN UNCHANGED <<released, closes>>
  ELSE released' = TRUE /\ closes' = closes + 1

\* The race of an uncoordinated close between its joins and the shutdown timer.
JoinSettles ==
  /\ closing = "joining" /\ AllJoined
  /\ closing' = "settled"
  /\ released' = TRUE /\ closes' = closes + 1
  /\ UNCHANGED <<tableVars, subscriptions, sub, created, outputOpen, transportClosing, delivered, joined>>
JoinTimesOut ==
  /\ closing = "joining" /\ ~AllJoined
  /\ closing' = "settled"
  /\ released' = TRUE /\ closes' = closes + 1
  /\ UNCHANGED <<tableVars, subscriptions, sub, created, outputOpen, transportClosing, delivered, joined>>

\* joinDelivery() ends; it may do so after the deadline of close().
DeliveryJoined ==
  /\ delivered = "joining" /\ AllJoined
  /\ delivered' = "done"
  /\ ReleaseConnection
  /\ UNCHANGED <<tableVars, subscriptions, sub, created, outputOpen, closing, transportClosing, joined>>

\* close() of a coordinated connection settles with the delivery or at its deadline.
CoordinatedCloseSettles ==
  /\ closing = "coordinated"
  /\ closing' = "settled"
  /\ ReleaseConnection
  /\ UNCHANGED <<tableVars, subscriptions, sub, created, outputOpen, transportClosing, delivered, joined>>

----------------------------------------------------------------------------
(* The specification *)

Init ==
  /\ states = [id \in {} |-> None]
  /\ insertions = 0 /\ now = 0 /\ created = 0
  /\ subscriptions = [id \in QueryIds |-> None]
  /\ sub = [g \in Generations |-> Unborn]
  /\ outputOpen = TRUE
  /\ closing = "no" /\ transportClosing = FALSE /\ delivered = "no" /\ joined = {}
  /\ released = FALSE /\ closes = 0

Admission(g) ==
  \/ OpenSucceeds(g) \/ OpenRejects(g) \/ \E logged \in BOOLEAN : OpenThrows(g, logged)
  \/ \E ok \in BOOLEAN : RefusalSent(g, ok) \/ AdmissionLogged(g, ok) \/ ErrorSent(g, ok)
  \/ StaleClosed(g)

\* The steps of a delivery that do not wait for the producer.
DeliveryStep(g) ==
  \/ \E ok \in BOOLEAN :
       ResultSent(g, ok) \/ FinalSent(g, ok) \/ DeliveryLogged(g, ok) \/ FailureSent(g, ok)
  \/ DeliveryEnds(g)

Produce(g) ==
  \/ \E sending \in {"sending", "sendFinal"} : Result(g, sending)
  \/ ResultsEnd(g)
  \/ ResultsThrow(g)

SessionCloses(g) == \E outcome \in {"closed", "failed"} : SessionSettles(g, outcome)

Next ==
  \/ \E id \in QueryIds, revision \in RevisionArgs, key \in RequestKeys, start \in AdmissionStarts :
       Subscribe(id, revision, key, start)
  \/ \E id \in QueryIds, revision \in RevisionArgs : Unsubscribe(id, revision)
  \/ Tick
  \/ \E g \in Generations :
       \/ Admission(g) \/ DeliveryStep(g) \/ Produce(g)
       \/ ServerClosesSession(g) \/ SessionCloses(g)
  \/ Disconnect \/ Close \/ CloseRuns \/ JoinSettles \/ JoinTimesOut
  \/ ReleaseTransport \/ DeliveryJoined \/ CoordinatedCloseSettles

Safety == Init /\ [][Next]_vars

\* Microtasks run, timers fire, writes and logs settle; sessions settle and
\* closed producers end, except those of Stuck generations.
Fairness ==
  /\ WF_vars(CloseRuns) /\ WF_vars(JoinSettles) /\ WF_vars(JoinTimesOut)
  /\ WF_vars(DeliveryJoined) /\ WF_vars(CoordinatedCloseSettles)
  /\ \A g \in Generations : WF_vars(DeliveryStep(g))
  /\ \A g \in Generations \ Stuck :
       /\ WF_vars(Admission(g))
       /\ WF_vars(SessionCloses(g))
       /\ WF_vars(sub[g].session # "open" /\ ResultsEnd(g))

Spec == Safety /\ Fairness

----------------------------------------------------------------------------
(* Properties *)

TypeOK ==
  /\ DOMAIN states \subseteq QueryIds
  /\ states \in [DOMAIN states -> RevisionState]
  /\ insertions \in Nat /\ now \in 0..MaxTime /\ created \in 0..MaxGenerations
  /\ subscriptions \in [QueryIds -> (1..created) \cup {None}]
  /\ sub \in [Generations -> Subscription]
  /\ outputOpen \in BOOLEAN /\ transportClosing \in BOOLEAN /\ released \in BOOLEAN
  /\ closing \in {"no", "scheduled", "joining", "coordinated", "settled"}
  /\ delivered \in {"no", "joining", "done"}
  /\ joined \subseteq 1..created /\ closes \in Nat

\* On a live connection the map of subscriptions and the revision table agree:
\* the same ids are active, each with the revision of the generation held for
\* it.  The two are changed in different handlers, by control messages and by
\* generations that end on their own (HubConnection.ts 91-139).
MapMatchesTable ==
  ~closed =>
    \A id \in QueryIds :
      /\ subscriptions[id] # None <=> Active(states, id)
      /\ subscriptions[id] # None =>
           /\ sub[subscriptions[id]].query = id
           /\ sub[subscriptions[id]].revision = states[id].revision

\* An open session is always held under its query id, where a replacement, an
\* unsubscribe or a close will find it: none is orphaned by a change that
\* happened while it was opening (HubSubscriptionRunner.ts 42-44).
NoOrphanSession ==
  \A g \in Generations : sub[g].session = "open" => subscriptions[sub[g].query] = g

AdmissionFrames == {"sendUnknown", "sendRejection", "sendError"}
DeliveryFrames == {"sending", "sendFinal", "sendFailure"}

\* A frame of g is handed to the output in this step; the error of an admission
\* that was logged first is left out (AdmissionLogged does not ask again).
Writes(g) ==
  \/ sub[g].admission \notin AdmissionFrames \cup {"logging"} /\ sub'[g].admission \in AdmissionFrames
  \/ sub[g].delivery \notin DeliveryFrames /\ sub'[g].delivery \in DeliveryFrames

\* The last subscribe accepted for the query of g is the one that created g.
Newest(g) == \A h \in (g + 1)..created : sub[h].query # sub[g].query

\* Whatever was replaced, unsubscribed, closed or completed while a generation
\* awaited its pipeline, its producer or the logger, a frame that carries its
\* query id is only written on a live connection, for a generation that nobody
\* gave up, and that is the newest the client asked for: the client never sees
\* an old revision after the new one (HubSubscriptionRunner.ts 43, 56-66, 79-103;
\* HubConnection.ts 91-139, where the map and the abort flags change).
FramesAreCurrent ==
  [][\A g \in Generations : Writes(g) => outputOpen /\ ~closed /\ ~sub[g].aborted /\ Newest(g)]_vars

\* A connection that starts closing gives its admission slot back exactly once,
\* whichever of the joins, the deadlines and the coordinated delivery come first,
\* and even when a producer never settles (shutdownTimeoutMs, HubConnection.ts
\* 205-219, 226-231, 239-250).
SlotReleased == closed ~> [](closes = 1)

\* A closing connection ends every session and every admission it ever started,
\* the replaced and unsubscribed ones included, unless the producer is stuck.
SessionsReleased ==
  \A g \in Generations \ Stuck :
    closed /\ g <= created ~> SessionSettled(sub[g]) /\ sub[g].admission = "done"
=============================================================================
