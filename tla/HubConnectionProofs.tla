------------------------ MODULE HubConnectionProofs ------------------------
(* Proofs about HubConnection, for any number of query ids, generations,   *)
(* revisions and tombstones.                                               *)
EXTENDS HubConnection, TLAPS

(***************************************************************************)
(* The revision table                                                      *)
(***************************************************************************)

IsTable(s) == DOMAIN s \subseteq QueryIds /\ s \in [DOMAIN s -> RevisionState]

\* The same ids are active in two tables, with the same entries.
SameActive(s, r, ids) ==
  \A id \in ids : (Active(s, id) <=> Active(r, id)) /\ (Active(s, id) => s[id] = r[id])

\* prune drops tombstones only, so it keeps every active entry as it is.
LEMMA PruneKeepsActive ==
  ASSUME NEW s, IsTable(s), NEW t
  PROVE  IsTable(Prune(s, t)) /\ SameActive(s, Prune(s, t), QueryIds)
<1> DEFINE r == Without(s, Expired(s, t))
           p == Without(r, CrowdedOut(r))
<1>1. Expired(s, t) \subseteq Tombstones(s) /\ CrowdedOut(r) \subseteq Tombstones(r)
  BY DEF Expired, CrowdedOut
<1>2. IsTable(r) /\ SameActive(s, r, QueryIds)
  BY <1>1 DEF IsTable, SameActive, Without, Tombstones, Active
<1> HIDE DEF r
<1>3. IsTable(p) /\ SameActive(r, p, QueryIds)
  BY <1>1, <1>2 DEF IsTable, SameActive, Without, Tombstones, Active
<1>4. Prune(s, t) = p
  BY DEF Prune, p, r
<1> HIDE DEF p
<1>5. QED
  BY <1>2, <1>3, <1>4 DEF SameActive

\* An accepted unsubscribe leaves its id inactive and disturbs no other.
LEMMA AfterUnsubscribeActive ==
  ASSUME NEW s, IsTable(s), NEW id \in QueryIds, NEW revision \in RevisionArgs,
         NEW t \in Nat, NEW n \in Nat
  PROVE  /\ IsTable(AfterUnsubscribe(s, id, revision, t, n))
         /\ SameActive(s, AfterUnsubscribe(s, id, revision, t, n), QueryIds \ {id})
         /\ ~Active(AfterUnsubscribe(s, id, revision, t, n), id)
<1>1. CASE revision = None
  BY <1>1 DEF AfterUnsubscribe, IsTable, SameActive, Without, Active
<1>2. CASE revision # None
  <2> DEFINE w == With(s, id, Tombstone(revision, t, n))
  <2>1. Tombstone(revision, t, n) \in RevisionState /\ ~Tombstone(revision, t, n).active
    BY DEF Tombstone, RevisionState
  <2>2. IsTable(w) /\ SameActive(s, w, QueryIds \ {id}) /\ ~Active(w, id)
    BY <2>1 DEF IsTable, SameActive, With, Active
  <2> HIDE DEF w
  <2>3. IsTable(Prune(w, t)) /\ SameActive(w, Prune(w, t), QueryIds)
    BY <2>2, PruneKeepsActive
  <2>4. AfterUnsubscribe(s, id, revision, t, n) = Prune(w, t)
    BY <1>2 DEF AfterUnsubscribe, w
  <2>5. QED
    BY <2>2, <2>3, <2>4 DEF SameActive
<1>3. QED
  BY <1>1, <1>2

\* An accepted subscribe makes its id active at its revision.
LEMMA SubscribedActive ==
  ASSUME NEW s, IsTable(s), NEW id \in QueryIds, NEW revision \in RevisionArgs,
         NEW key \in RequestKeys, NEW n \in Nat
  PROVE  /\ IsTable(With(s, id, Subscribed(revision, key, n)))
         /\ SameActive(s, With(s, id, Subscribed(revision, key, n)), QueryIds \ {id})
         /\ Active(With(s, id, Subscribed(revision, key, n)), id)
         /\ With(s, id, Subscribed(revision, key, n))[id].revision = revision
<1>1. /\ Subscribed(revision, key, n) \in RevisionState
      /\ Subscribed(revision, key, n).active
      /\ Subscribed(revision, key, n).revision = revision
  BY DEF Subscribed, RevisionState
<1>2. QED
  BY <1>1 DEF IsTable, SameActive, With, Active

(***************************************************************************)
(* The inductive invariant                                                 *)
(***************************************************************************)

\* What is known of a generation: one that was not created yet is Unborn, and a
\* session is open only once its admission is over.
GenerationOK(s) ==
  /\ s.admission = "unborn" => s = Unborn
  /\ s.admission # "unborn" => s.query \in QueryIds
  /\ s.session = "open" => s.admission = "done"

\* Whatever the state of the connection, what is held is a generation that was
\* created, under its own id.
HeldUnderItsQuery ==
  \A id \in QueryIds :
    subscriptions[id] # None =>
      sub[subscriptions[id]].query = id /\ sub[subscriptions[id]].admission # "unborn"

\* How far the two ways of closing can have come, and what they have released.
ClosingOK ==
  /\ released => closes = 1
  /\ ~released => closes = 0
  /\ closing \in {"no", "scheduled", "joining", "coordinated"} /\ delivered # "done" => ~released
  /\ delivered # "no" => transportClosing
  /\ transportClosing => closing \in {"coordinated", "settled"}

HubInv ==
  /\ TypeOK
  /\ MapMatchesTable /\ NoOrphanSession
  /\ \A g \in Generations : GenerationOK(sub[g])
  /\ HeldUnderItsQuery
  /\ ClosingOK

LEMMA InitHub == Init => HubInv
<1> SUFFICES ASSUME Init PROVE HubInv
  OBVIOUS
<1>1. Unborn \in Subscription
  BY DEF Unborn, Subscription, RevisionArgs
<1>2. DOMAIN states = {} /\ states \in [DOMAIN states -> RevisionState]
  BY DEF Init
<1>3. TypeOK
  <2>1. DOMAIN states \subseteq QueryIds /\ insertions \in Nat /\ now \in 0..MaxTime /\ created \in 0..MaxGenerations
    BY <1>2, BoundsNat, StuckGenerations DEF Init
  <2>2. subscriptions \in [QueryIds -> (1..created) \cup {None}] /\ sub \in [Generations -> Subscription]
    BY <1>1 DEF Init
  <2>3. QED
    BY <1>2, <2>1, <2>2 DEF Init, TypeOK
<1>4. MapMatchesTable /\ HeldUnderItsQuery
  BY <1>2 DEF Init, MapMatchesTable, HeldUnderItsQuery, Active
<1>5. NoOrphanSession /\ \A g \in Generations : GenerationOK(sub[g])
  BY DEF Init, NoOrphanSession, GenerationOK, Unborn
<1>6. QED
  BY <1>3, <1>4, <1>5 DEF Init, ClosingOK, HubInv

\* What CloseOutput and KeepOutput may do to a connection.
LEMMA OutputStep ==
  ASSUME TypeOK, ClosingOK, CloseOutput \/ KeepOutput, UNCHANGED lifeVars
  PROVE  /\ ClosingOK'
         /\ outputOpen' \in BOOLEAN /\ closing' \in {"no", "scheduled", "joining", "coordinated", "settled"}
         /\ ~closed' => ~closed
  BY DEF TypeOK, ClosingOK, CloseOutput, KeepOutput, lifeVars, closed

\* completed() makes the map and the table forget the same id.
LEMMA CompletedForgets ==
  ASSUME HubInv, NEW g \in Generations, sub[g].admission # "unborn", Completed(g)
  PROVE  /\ IsTable(states') /\ insertions' \in Nat
         /\ subscriptions' \in [QueryIds -> (1..created) \cup {None}]
         /\ \A id \in QueryIds :
              subscriptions'[id] = subscriptions[id] \/ (subscriptions'[id] = None /\ subscriptions[id] = g)
         /\ SameActive(states, states', {id \in QueryIds : subscriptions'[id] = subscriptions[id]})
         /\ ~closed => \A id \in QueryIds : subscriptions'[id] # subscriptions[id] => ~Active(states', id)
<1> DEFINE id == sub[g].query
           revision == sub[g].revision
           after == AfterUnsubscribe(Prune(states, now), id, revision, now, insertions)
<1>1. id \in QueryIds /\ revision \in RevisionArgs /\ now \in Nat /\ insertions \in Nat /\ IsTable(states)
  BY BoundsNat DEF HubInv, GenerationOK, TypeOK, Subscription, IsTable
<1>2. IsTable(Prune(states, now)) /\ SameActive(states, Prune(states, now), QueryIds)
  BY <1>1, PruneKeepsActive
<1> DEFINE pruned == Prune(states, now)
<1> HIDE DEF pruned, id, revision
<1>3. /\ IsTable(AfterUnsubscribe(pruned, id, revision, now, insertions))
      /\ SameActive(pruned, AfterUnsubscribe(pruned, id, revision, now, insertions), QueryIds \ {id})
      /\ ~Active(AfterUnsubscribe(pruned, id, revision, now, insertions), id)
  BY <1>1, <1>2, AfterUnsubscribeActive DEF pruned
<1>4. IsTable(after) /\ SameActive(states, after, QueryIds \ {id}) /\ ~Active(after, id)
  BY <1>2, <1>3 DEF pruned, SameActive
<1> HIDE DEF after
<1>5. subscriptions \in [QueryIds -> (1..created) \cup {None}]
  BY DEF HubInv, TypeOK
<1>6. SameActive(states, states, QueryIds)
  BY DEF SameActive
<1>7. CASE subscriptions[id] # g
  BY <1>1, <1>5, <1>6, <1>7 DEF Completed, id, SameActive
<1>8. CASE subscriptions[id] = g
  <2>1. subscriptions' = [subscriptions EXCEPT ![id] = None]
    BY <1>8 DEF Completed, id
  <2>2. g # None
    BY NoneIsUndefined DEF Generations
  <2>3. CASE IsActive(states, id, revision)
    <3>1. states' = after /\ insertions' \in Nat
      BY <1>1, <1>8, <2>3 DEF Completed, id, revision, after
    <3>2. {i \in QueryIds : subscriptions'[i] = subscriptions[i]} = QueryIds \ {id}
      BY <1>1, <1>5, <1>8, <2>1, <2>2
    <3>3. QED
      BY <1>1, <1>4, <1>5, <1>8, <2>1, <2>2, <3>1, <3>2
  <2>4. CASE ~IsActive(states, id, revision)
    <3>1. states' = states /\ insertions' = insertions
      BY <1>8, <2>4 DEF Completed, id, revision
    <3>2. closed
      <4>1. ASSUME ~closed PROVE FALSE
        <5>1. Active(states, id) /\ sub[g].revision = states[id].revision
          BY <1>1, <1>8, <2>2, <4>1 DEF HubInv, MapMatchesTable
        <5>2. QED
          BY <5>1, <2>4 DEF IsActive, revision
      <4>2. QED
        BY <4>1
    <3>3. QED
      BY <1>1, <1>5, <1>6, <1>8, <2>1, <3>1, <3>2 DEF SameActive
  <2>5. QED
    BY <2>3, <2>4
<1>9. QED
  BY <1>7, <1>8

\* A step of one generation: it keeps the query and the revision, opens a session
\* only while it is current, and completes only without an open session.
LEMMA GenerationStep ==
  ASSUME HubInv, NEW g \in Generations, NEW s \in Subscription,
         sub' = [sub EXCEPT ![g] = s],
         s.query = sub[g].query, s.revision = sub[g].revision,
         sub[g].admission # "unborn", s.admission # "unborn",
         s.session = "open" => s.admission = "done" /\ (sub[g].session = "open" \/ Current(g)),
         \/ UNCHANGED <<states, insertions, subscriptions>>
         \/ s.session # "open" /\ Completed(g),
         UNCHANGED <<now, created, lifeVars>>,
         CloseOutput \/ KeepOutput
  PROVE  HubInv'
<1>1. /\ IsTable(states') /\ insertions' \in Nat
      /\ subscriptions' \in [QueryIds -> (1..created) \cup {None}]
      /\ \A id \in QueryIds :
           subscriptions'[id] = subscriptions[id] \/ (subscriptions'[id] = None /\ subscriptions[id] = g)
      /\ SameActive(states, states', {id \in QueryIds : subscriptions'[id] = subscriptions[id]})
      /\ ~closed => \A id \in QueryIds : subscriptions'[id] # subscriptions[id] => ~Active(states', id)
  <2>1. CASE UNCHANGED <<states, insertions, subscriptions>>
    BY <2>1 DEF HubInv, TypeOK, IsTable, SameActive
  <2>2. CASE Completed(g)
    BY <2>2, CompletedForgets
  <2>3. QED
    BY <2>1, <2>2
<1>2. ClosingOK' /\ (~closed' => ~closed)
      /\ outputOpen' \in BOOLEAN /\ closing' \in {"no", "scheduled", "joining", "coordinated", "settled"}
  BY OutputStep DEF HubInv
<1>3. /\ sub \in [Generations -> Subscription]
      /\ sub' \in [Generations -> Subscription]
      /\ \A i \in Generations : sub'[i] = IF i = g THEN s ELSE sub[i]
      /\ \A i \in Generations : sub'[i].query = sub[i].query /\ sub'[i].revision = sub[i].revision
      /\ subscriptions \in [QueryIds -> (1..created) \cup {None}] /\ 1..created \subseteq Generations
  BY StuckGenerations DEF HubInv, TypeOK, Generations
<1>4. TypeOK'
  BY <1>1, <1>2, <1>3 DEF HubInv, TypeOK, IsTable, lifeVars
<1>5. HeldUnderItsQuery'
  BY <1>1, <1>3 DEF HubInv, HeldUnderItsQuery
<1>6. \A i \in Generations : GenerationOK(sub'[i])
  BY <1>3 DEF HubInv, GenerationOK
<1>7. MapMatchesTable'
  <2> SUFFICES ASSUME ~closed', NEW id \in QueryIds
               PROVE  /\ subscriptions'[id] # None <=> Active(states', id)
                      /\ subscriptions'[id] # None =>
                           /\ sub'[subscriptions'[id]].query = id
                           /\ sub'[subscriptions'[id]].revision = states'[id].revision
    BY DEF MapMatchesTable
  <2>1. /\ subscriptions[id] # None <=> Active(states, id)
        /\ subscriptions[id] # None =>
             /\ sub[subscriptions[id]].query = id
             /\ sub[subscriptions[id]].revision = states[id].revision
    BY <1>2 DEF HubInv, MapMatchesTable
  <2>2. QED
    BY <1>1, <1>2, <1>3, <2>1 DEF SameActive
<1>8. NoOrphanSession'
  <2> SUFFICES ASSUME NEW i \in Generations, sub'[i].session = "open"
               PROVE  subscriptions'[sub'[i].query] = i
    BY DEF NoOrphanSession
  <2>1. subscriptions[sub[i].query] = i
    BY <1>3 DEF HubInv, NoOrphanSession, Current
  <2>2. i = g => UNCHANGED subscriptions
    BY <1>3
  <2>3. sub[i].query \in QueryIds
    BY <1>3 DEF HubInv, GenerationOK, Unborn
  <2>4. QED
    BY <1>1, <1>3, <2>1, <2>2, <2>3, NoneIsUndefined DEF Generations
<1>9. QED
  BY <1>2, <1>4, <1>5, <1>6, <1>7, <1>8 DEF HubInv

(***************************************************************************)
(* The steps of a generation                                               *)
(***************************************************************************)

LEMMA AdmissionPreserves ==
  ASSUME HubInv, NEW g \in Generations, Admission(g)
  PROVE  HubInv'
<1> DEFINE with(x, y, z) == [sub[g] EXCEPT !.session = x, !.admission = y, !.delivery = z]
<1>1. sub \in [Generations -> Subscription] /\ sub[g] \in Subscription /\ GenerationOK(sub[g])
  BY DEF HubInv, TypeOK
<1> DEFINE s == sub'[g]
<1>2. CASE OpenSucceeds(g)
  <2>1. s = IF Current(g) THEN with("open", "done", "next") ELSE with("closing", "closeStale", sub[g].delivery)
    BY <1>1, <1>2 DEF OpenSucceeds, Subscription
  <2>2. s \in Subscription /\ sub' = [sub EXCEPT ![g] = s]
    BY <1>1, <1>2, <2>1 DEF OpenSucceeds, Subscription
  <2>3. /\ s.query = sub[g].query /\ s.revision = sub[g].revision /\ sub[g].admission # "unborn"
        /\ s.admission # "unborn"
        /\ s.session = "open" => s.admission = "done" /\ Current(g)
    BY <1>1, <1>2, <2>1 DEF OpenSucceeds, Subscription
  <2>4. UNCHANGED <<states, insertions, subscriptions, now, created, lifeVars>> /\ KeepOutput
    BY <1>2 DEF OpenSucceeds, tableVars
  <2> HIDE DEF s
  <2>5. QED
    BY <2>2, <2>3, <2>4, GenerationStep
<1>3. CASE OpenRejects(g)
  <2>1. s = with("closed", IF Current(g) THEN "sendRejection" ELSE "closeStale", sub[g].delivery)
    BY <1>1, <1>3 DEF OpenRejects, Subscription
  <2>2. s \in Subscription /\ sub' = [sub EXCEPT ![g] = s]
    BY <1>1, <1>3, <2>1 DEF OpenRejects, Subscription
  <2>3. /\ s.query = sub[g].query /\ s.revision = sub[g].revision /\ sub[g].admission # "unborn"
        /\ s.admission # "unborn"
        /\ s.session # "open"
    BY <1>1, <1>3, <2>1 DEF OpenRejects, Subscription
  <2>4. UNCHANGED <<states, insertions, subscriptions, now, created, lifeVars>> /\ KeepOutput
    BY <1>3 DEF OpenRejects, tableVars
  <2> HIDE DEF s
  <2>5. QED
    BY <2>2, <2>3, <2>4, GenerationStep
<1>4. ASSUME NEW logged \in BOOLEAN, OpenThrows(g, logged) PROVE HubInv'
  <2>1. PICK y \in {"done", "logging", "sendError"} : sub' = [sub EXCEPT ![g].admission = y]
    BY <1>4 DEF OpenThrows, Admit
  <2>2. s = with(sub[g].session, y, sub[g].delivery)
    BY <1>1, <2>1 DEF Subscription
  <2>3. s \in Subscription /\ sub' = [sub EXCEPT ![g] = s]
    BY <1>1, <2>1, <2>2 DEF Subscription
  <2>4. /\ s.query = sub[g].query /\ s.revision = sub[g].revision /\ sub[g].admission # "unborn"
        /\ s.admission # "unborn"
        /\ s.session # "open"
    BY <1>1, <1>4, <2>2 DEF OpenThrows, GenerationOK, Subscription
  <2>5. UNCHANGED <<states, insertions, subscriptions, now, created, lifeVars>> /\ KeepOutput
    BY <1>4 DEF OpenThrows, tableVars
  <2> HIDE DEF s
  <2>6. QED
    BY <2>3, <2>4, <2>5, GenerationStep
<1>5. ASSUME NEW ok \in BOOLEAN, RefusalSent(g, ok) \/ AdmissionLogged(g, ok) \/ ErrorSent(g, ok) PROVE HubInv'
  <2>1. PICK y \in {"done", "sendError"} : sub' = [sub EXCEPT ![g].admission = y]
    BY <1>5 DEF RefusalSent, AdmissionLogged, ErrorSent, Admit
  <2>2. s = with(sub[g].session, y, sub[g].delivery)
    BY <1>1, <2>1 DEF Subscription
  <2>3. s \in Subscription /\ sub' = [sub EXCEPT ![g] = s]
    BY <1>1, <2>1, <2>2 DEF Subscription
  <2>4. CloseOutput \/ KeepOutput
    BY <1>5 DEF RefusalSent, AdmissionLogged, ErrorSent, SendSettles
  <2>5. Completed(g) \/ UNCHANGED <<states, insertions, subscriptions>>
    BY <1>5 DEF RefusalSent, AdmissionLogged, ErrorSent
  <2>6. /\ sub[g].admission \notin {"unborn", "done"} /\ sub[g].session # "open"
        /\ UNCHANGED <<now, created, lifeVars>>
    BY <1>1, <1>5 DEF RefusalSent, AdmissionLogged, ErrorSent, GenerationOK
  <2>7. s.query = sub[g].query /\ s.revision = sub[g].revision /\ s.admission # "unborn" /\ s.session # "open"
    BY <1>1, <2>2, <2>6 DEF Subscription
  <2> HIDE DEF s
  <2>8. QED
    BY <2>3, <2>4, <2>5, <2>6, <2>7, GenerationStep
<1>6. CASE StaleClosed(g)
  <2>1. s = with(sub[g].session, "done", sub[g].delivery)
    BY <1>1, <1>6 DEF StaleClosed, Admit, Subscription
  <2>2. s \in Subscription /\ sub' = [sub EXCEPT ![g] = s]
    BY <1>1, <1>6, <2>1 DEF StaleClosed, Admit, Subscription
  <2>3. /\ s.query = sub[g].query /\ s.revision = sub[g].revision /\ sub[g].admission # "unborn"
        /\ s.admission # "unborn" /\ sub[g].session # "open" /\ s.session # "open"
    BY <1>1, <1>6, <2>1 DEF StaleClosed, GenerationOK, Subscription
  <2>4. UNCHANGED <<states, insertions, subscriptions, now, created, lifeVars>> /\ KeepOutput
    BY <1>6 DEF StaleClosed, tableVars
  <2> HIDE DEF s
  <2>5. QED
    BY <2>2, <2>3, <2>4, GenerationStep
<1>7. QED
  BY <1>2, <1>3, <1>4, <1>5, <1>6 DEF Admission

\* What Deliver and Finish leave of a generation.
LEMMA DeliverResult ==
  ASSUME HubInv, NEW g \in Generations,
         NEW y \in {"next", "sending", "sendFinal", "logging", "sendFailure", "closing", "closingFailed", "done"},
         sub[g].delivery # "none", Deliver(g, y) \/ Finish(g, y)
  PROVE  /\ sub' = [sub EXCEPT ![g] = sub'[g]] /\ sub'[g] \in Subscription
         /\ sub'[g].query = sub[g].query /\ sub'[g].revision = sub[g].revision
         /\ sub'[g].admission = sub[g].admission /\ sub[g].admission # "unborn"
         /\ sub'[g].session = "open" => sub[g].session = "open"
         /\ Deliver(g, y) => sub'[g].session = sub[g].session
<1>1. sub \in [Generations -> Subscription] /\ sub[g] \in Subscription /\ GenerationOK(sub[g])
  BY DEF HubInv, TypeOK
<1>2. sub[g].admission # "unborn"
  BY <1>1 DEF GenerationOK, Unborn
<1>3. sub'[g] = [sub[g] EXCEPT !.delivery = y] \/ sub'[g] = [sub[g] EXCEPT !.session = "closing", !.delivery = y]
  BY <1>1 DEF Deliver, Finish, CloseSession, Subscription
<1>4. sub' = [sub EXCEPT ![g] = sub'[g]]
  BY <1>1 DEF Deliver, Finish
<1>5. Deliver(g, y) => sub'[g].session = sub[g].session
  BY <1>1 DEF Deliver, Subscription
<1>6. QED
  BY <1>1, <1>2, <1>3, <1>4, <1>5 DEF Subscription

LEMMA DeliveryPreserves ==
  ASSUME HubInv, NEW g \in Generations, DeliveryStep(g) \/ Produce(g)
  PROVE  HubInv'
<1>1. GenerationOK(sub[g]) /\ sub[g] \in Subscription
  BY DEF HubInv, TypeOK
<1> DEFINE Frame == UNCHANGED <<states, insertions, subscriptions, now, created, lifeVars>>
           Delivers(Y) == \E y \in Y : Deliver(g, y) \/ Finish(g, y)
           Y == {"next", "sending", "sendFinal", "logging", "sendFailure", "closing", "closingFailed"}
<1>2. ASSUME sub[g].delivery # "none", Delivers(Y), Frame, CloseOutput \/ KeepOutput
      PROVE  HubInv'
  <2>1. PICK y \in Y : Deliver(g, y) \/ Finish(g, y)
    BY <1>2
  <2> DEFINE s == sub'[g]
  <2>2. /\ sub' = [sub EXCEPT ![g] = s] /\ s \in Subscription
        /\ s.query = sub[g].query /\ s.revision = sub[g].revision
        /\ s.admission = sub[g].admission /\ sub[g].admission # "unborn"
        /\ s.session = "open" => sub[g].session = "open"
    BY <1>2, <2>1, DeliverResult
  <2> HIDE DEF s
  <2>3. QED
    BY <1>1, <1>2, <2>2, GenerationStep DEF GenerationOK
<1>3. ASSUME NEW sending \in {"sending", "sendFinal"}, Result(g, sending) PROVE HubInv'
  <2>1. sub[g].delivery # "none" /\ Delivers(Y) /\ KeepOutput
    BY <1>3 DEF Result
  <2>2. QED
    BY <1>2, <1>3, <2>1 DEF Result, tableVars
<1>4. ASSUME ResultsEnd(g) \/ ResultsThrow(g) PROVE HubInv'
  <2>1. sub[g].delivery # "none" /\ Delivers(Y) /\ KeepOutput /\ Frame
    BY <1>4 DEF ResultsEnd, ResultsThrow, tableVars
  <2>2. QED
    BY <1>2, <2>1
<1>5. ASSUME NEW ok \in BOOLEAN, ResultSent(g, ok) \/ FinalSent(g, ok) \/ FailureSent(g, ok) PROVE HubInv'
  <2>1. sub[g].delivery # "none" /\ Delivers(Y)
    BY <1>5 DEF ResultSent, FinalSent, FailureSent
  <2>2. Frame /\ (CloseOutput \/ KeepOutput)
    BY <1>5 DEF ResultSent, FinalSent, FailureSent, SendSettles, tableVars
  <2>3. QED
    BY <1>2, <2>1, <2>2
<1>6. ASSUME NEW ok \in BOOLEAN, DeliveryLogged(g, ok) PROVE HubInv'
  <2>1. sub[g].delivery # "none" /\ Delivers(Y) /\ KeepOutput
    BY <1>6 DEF DeliveryLogged
  <2>2. QED
    BY <1>2, <1>6, <2>1 DEF DeliveryLogged, tableVars
<1>7. CASE DeliveryEnds(g)
  <2> DEFINE s == sub'[g]
  <2>1. /\ sub' = [sub EXCEPT ![g] = s] /\ s \in Subscription
        /\ s.query = sub[g].query /\ s.revision = sub[g].revision
        /\ s.admission = sub[g].admission /\ sub[g].admission # "unborn"
        /\ s.session = sub[g].session
    BY <1>7, DeliverResult DEF DeliveryEnds
  <2>2. s.session # "open"
    BY <1>7, <2>1 DEF DeliveryEnds, SessionSettled
  <2>3. (CloseOutput \/ KeepOutput) /\ Completed(g) /\ UNCHANGED <<now, created, lifeVars>>
    BY <1>7 DEF DeliveryEnds
  <2> HIDE DEF s
  <2>4. QED
    BY <2>1, <2>2, <2>3, GenerationStep
<1>8. QED
  BY <1>3, <1>4, <1>5, <1>6, <1>7 DEF DeliveryStep, Produce

LEMMA SessionPreserves ==
  ASSUME HubInv, NEW g \in Generations, ServerClosesSession(g) \/ SessionCloses(g)
  PROVE  HubInv'
<1>1. sub \in [Generations -> Subscription] /\ sub[g] \in Subscription /\ GenerationOK(sub[g])
  BY DEF HubInv, TypeOK
<1>2. PICK y \in {"closing", "closed", "failed"} : sub' = [sub EXCEPT ![g] = [sub[g] EXCEPT !.session = y]]
  <2>1. CASE ServerClosesSession(g)
    BY <1>1, <2>1 DEF ServerClosesSession, CloseSession
  <2>2. ASSUME NEW outcome \in {"closed", "failed"}, SessionSettles(g, outcome)
        PROVE  sub' = [sub EXCEPT ![g] = [sub[g] EXCEPT !.session = outcome]]
    BY <1>1, <2>2 DEF SessionSettles
  <2>3. QED
    BY <2>1, <2>2 DEF SessionCloses
<1>3. sub[g].session \in {"open", "closing"} /\ KeepOutput
      /\ UNCHANGED <<tableVars, subscriptions, created, lifeVars>>
  BY DEF ServerClosesSession, SessionCloses, SessionSettles
<1>4. sub[g].admission # "unborn"
  BY <1>1, <1>3 DEF GenerationOK, Unborn
<1> DEFINE s == [sub[g] EXCEPT !.session = y]
<1>5. s \in Subscription /\ s.query = sub[g].query /\ s.revision = sub[g].revision
      /\ s.admission = sub[g].admission /\ s.session = y
  BY <1>1 DEF Subscription
<1>6. sub' = [sub EXCEPT ![g] = s]
  BY <1>2
<1> HIDE DEF s
<1>7. QED
  BY <1>3, <1>4, <1>5, <1>6, GenerationStep DEF tableVars

(***************************************************************************)
(* Control messages                                                        *)
(***************************************************************************)

\* What a control message does to a generation it replaces.
LEMMA ReplaceResult ==
  ASSUME HubInv, NEW g \in Generations
  PROVE  /\ Replace(sub, g) \in [Generations -> Subscription]
         /\ \A i \in Generations :
              /\ i # g => Replace(sub, g)[i] = sub[i]
              /\ Replace(sub, g)[i].query = sub[i].query
              /\ Replace(sub, g)[i].revision = sub[i].revision
              /\ Replace(sub, g)[i].admission = sub[i].admission
              /\ Replace(sub, g)[i].delivery = sub[i].delivery
              /\ Replace(sub, g)[i].session = "open" => sub[i].session = "open" /\ i # g
<1>1. sub \in [Generations -> Subscription] /\ sub[g] \in Subscription
  BY DEF HubInv, TypeOK
<1>2. AbortAndClose(sub[g]) \in {[sub[g] EXCEPT !.aborted = TRUE], [sub[g] EXCEPT !.session = "closing", !.aborted = TRUE]}
  BY <1>1 DEF AbortAndClose, CloseSession, Subscription
<1>3. AbortAndClose(sub[g]).session # "open"
  BY <1>1 DEF AbortAndClose, CloseSession, Subscription
<1>4. /\ AbortAndClose(sub[g]) \in Subscription
      /\ AbortAndClose(sub[g]).query = sub[g].query /\ AbortAndClose(sub[g]).revision = sub[g].revision
      /\ AbortAndClose(sub[g]).admission = sub[g].admission
      /\ AbortAndClose(sub[g]).delivery = sub[g].delivery
  BY <1>1, <1>2 DEF Subscription
<1>5. QED
  BY <1>1, <1>3, <1>4 DEF Replace

\* A generation that is replaced exists.
LEMMA HeldExists ==
  ASSUME HubInv, NEW id \in QueryIds, subscriptions[id] # None
  PROVE  /\ subscriptions[id] \in 1..created /\ subscriptions[id] \in Generations
         /\ sub[subscriptions[id]].query = id /\ sub[subscriptions[id]].admission # "unborn"
<1>1. subscriptions[id] \in 1..created /\ 1..created \subseteq Generations
  BY StuckGenerations DEF HubInv, TypeOK, Generations
<1>2. QED
  BY <1>1 DEF HubInv, HeldUnderItsQuery

LEMMA SubscribePreserves ==
  ASSUME HubInv, NEW id \in QueryIds, NEW revision \in RevisionArgs, NEW key \in RequestKeys,
         NEW start \in AdmissionStarts, Subscribe(id, revision, key, start)
  PROVE  HubInv'
<1> DEFINE found == Prune(states, now)
           g == created + 1
           fresh == [Unborn EXCEPT !.query = id, !.revision = revision, !.admission = start]
           replaced == IF subscriptions[id] = None THEN sub ELSE Replace(sub, subscriptions[id])
           after == With(found, id, Subscribed(revision, key, insertions))
<1>1. /\ IsTable(states) /\ insertions \in Nat /\ created \in 0..MaxGenerations
      /\ subscriptions \in [QueryIds -> (1..created) \cup {None}] /\ sub \in [Generations -> Subscription]
  BY DEF HubInv, TypeOK, IsTable
<1>2. IsTable(found) /\ SameActive(states, found, QueryIds)
  BY <1>1, PruneKeepsActive
<1>3. ~closed /\ ~closed' /\ UNCHANGED <<now, lifeVars, outputOpen, closing>>
  BY DEF Subscribe, KeepOutput, closed, lifeVars
<1>4. ClosingOK'
  BY <1>3 DEF HubInv, ClosingOK, lifeVars
<1>5. CASE ~TakesSubscribe(found, id, revision, key)
  <2>1. states' = found /\ UNCHANGED <<created, insertions, sub, subscriptions>>
    BY <1>5 DEF Subscribe
  <2> HIDE DEF found
  <2>2. TypeOK'
    BY <1>1, <1>2, <1>3, <2>1 DEF HubInv, TypeOK, IsTable, lifeVars
  <2>3. MapMatchesTable'
    BY <1>2, <1>3, <2>1 DEF HubInv, MapMatchesTable, SameActive
  <2>4. QED
    BY <1>3, <1>4, <2>1, <2>2, <2>3 DEF HubInv, NoOrphanSession, HeldUnderItsQuery
<1>6. CASE TakesSubscribe(found, id, revision, key)
  <2>1. /\ created < MaxGenerations /\ created' = g /\ states' = after /\ insertions' = insertions + 1
        /\ sub' = [replaced EXCEPT ![g] = fresh] /\ subscriptions' = [subscriptions EXCEPT ![id] = g]
    BY <1>6 DEF Subscribe
  <2> HIDE DEF found
  <2>2. IsTable(after) /\ SameActive(found, after, QueryIds \ {id}) /\ Active(after, id) /\ after[id].revision = revision
    <3> USE DEF after
    <3>1. insertions \in Nat /\ IsTable(found)
      BY <1>1, <1>2
    <3>2. QED
      BY <3>1, SubscribedActive
  <2>3. SameActive(states, after, QueryIds \ {id})
    BY <1>2, <2>2 DEF SameActive
  <2>4. /\ g \in Generations /\ g \notin 1..created /\ g \in 1..created' /\ 1..created \subseteq 1..created'
        /\ 1..created \subseteq Generations /\ created' \in 0..MaxGenerations /\ g # None
    BY <1>1, <2>1, StuckGenerations, NoneIsUndefined DEF Generations
  <2>5. /\ fresh \in Subscription /\ fresh.query = id /\ fresh.revision = revision
        /\ fresh.admission # "unborn" /\ fresh.session = "none"
    BY DEF Unborn, Subscription, AdmissionStarts
  <2> HIDE DEF after, fresh, g
  <2>6. /\ replaced \in [Generations -> Subscription]
        /\ \A i \in Generations :
             /\ replaced[i].query = sub[i].query /\ replaced[i].revision = sub[i].revision
             /\ replaced[i].admission = sub[i].admission
             /\ replaced[i].session = "open" => sub[i].session = "open" /\ i # subscriptions[id]
             /\ sub[i].admission = "unborn" => replaced[i] = sub[i]
    <3>1. CASE subscriptions[id] = None
      BY <1>1, <3>1, NoneIsUndefined DEF Generations
    <3>2. CASE subscriptions[id] # None
      BY <3>2, HeldExists, ReplaceResult
    <3>3. QED
      BY <3>1, <3>2
  <2> HIDE DEF replaced
  <2>7. /\ sub' \in [Generations -> Subscription] /\ sub'[g] = fresh
        /\ \A i \in Generations : i # g => sub'[i] = replaced[i]
    BY <2>1, <2>4, <2>5, <2>6
  <2>8. /\ subscriptions' \in [QueryIds -> (1..created') \cup {None}] /\ subscriptions'[id] = g
        /\ \A o \in QueryIds : o # id => subscriptions'[o] = subscriptions[o]
    BY <1>1, <2>1, <2>4
  <2>9. TypeOK'
    <3>1. joined' \subseteq 1..created' /\ insertions' \in Nat
      BY <1>1, <1>3, <2>1, <2>4 DEF HubInv, TypeOK, lifeVars
    <3>2. QED
      BY <1>3, <2>1, <2>2, <2>4, <2>7, <2>8, <3>1 DEF HubInv, TypeOK, IsTable, lifeVars
  <2>10. \A i \in Generations : GenerationOK(sub'[i])
    <3>1. \A i \in Generations : GenerationOK(sub[i])
      BY DEF HubInv
    <3>2. QED
      BY <2>5, <2>6, <2>7, <3>1 DEF GenerationOK
  <2>11. HeldUnderItsQuery'
    BY <1>1, <2>4, <2>5, <2>6, <2>7, <2>8 DEF HubInv, HeldUnderItsQuery
  <2>12. MapMatchesTable'
    <3> SUFFICES ASSUME NEW o \in QueryIds
                 PROVE  /\ subscriptions'[o] # None <=> Active(states', o)
                        /\ subscriptions'[o] # None =>
                             /\ sub'[subscriptions'[o]].query = o
                             /\ sub'[subscriptions'[o]].revision = states'[o].revision
      BY DEF MapMatchesTable
    <3>1. CASE o = id
      BY <2>1, <2>2, <2>4, <2>5, <2>7, <2>8, <3>1
    <3>2. CASE o # id
      <4>1. /\ subscriptions[o] # None <=> Active(states, o)
            /\ subscriptions[o] # None =>
                 /\ sub[subscriptions[o]].query = o
                 /\ sub[subscriptions[o]].revision = states[o].revision
        BY <1>3 DEF HubInv, MapMatchesTable
      <4>2. subscriptions[o] # None => subscriptions[o] \in Generations /\ subscriptions[o] # g
        BY <1>1, <2>4
      <4>3. (Active(states, o) <=> Active(states', o)) /\ (Active(states, o) => states[o] = states'[o])
        BY <2>1, <2>3, <3>2 DEF SameActive
      <4>4. QED
        BY <2>6, <2>7, <2>8, <3>2, <4>1, <4>2, <4>3
    <3>3. QED
      BY <3>1, <3>2
  <2>13. NoOrphanSession'
    <3> SUFFICES ASSUME NEW i \in Generations, sub'[i].session = "open"
                 PROVE  subscriptions'[sub'[i].query] = i
      BY DEF NoOrphanSession
    <3>1. i # g /\ sub[i].session = "open" /\ i # subscriptions[id] /\ sub'[i].query = sub[i].query
      BY <2>5, <2>6, <2>7
    <3>2. subscriptions[sub[i].query] = i /\ sub[i].query \in QueryIds
      BY <3>1 DEF HubInv, NoOrphanSession, GenerationOK, Unborn
    <3>3. QED
      BY <2>8, <3>1, <3>2
  <2>14. QED
    BY <1>3, <1>4, <2>9, <2>10, <2>11, <2>12, <2>13 DEF HubInv
<1>7. QED
  BY <1>5, <1>6

LEMMA UnsubscribePreserves ==
  ASSUME HubInv, NEW id \in QueryIds, NEW revision \in RevisionArgs, Unsubscribe(id, revision)
  PROVE  HubInv'
<1> DEFINE found == Prune(states, now)
           replaced == IF subscriptions[id] = None THEN sub ELSE Replace(sub, subscriptions[id])
           after == AfterUnsubscribe(found, id, revision, now, insertions)
<1>1. /\ IsTable(states) /\ insertions \in Nat /\ now \in Nat
      /\ subscriptions \in [QueryIds -> (1..created) \cup {None}] /\ sub \in [Generations -> Subscription]
  BY BoundsNat DEF HubInv, TypeOK, IsTable
<1>2. IsTable(found) /\ SameActive(states, found, QueryIds)
  BY <1>1, PruneKeepsActive
<1>3. UNCHANGED <<closed, now, created, lifeVars, outputOpen, closing>>
  BY DEF Unsubscribe, KeepOutput, closed, lifeVars
<1>4. ClosingOK'
  BY <1>3 DEF HubInv, ClosingOK, lifeVars
<1>5. CASE ~TakesUnsubscribe(found, id, revision)
  <2>1. states' = found /\ UNCHANGED <<insertions, sub, subscriptions>>
    BY <1>5 DEF Unsubscribe
  <2> HIDE DEF found
  <2>2. TypeOK'
    BY <1>1, <1>2, <1>3, <2>1 DEF HubInv, TypeOK, IsTable, lifeVars
  <2>3. MapMatchesTable'
    BY <1>2, <1>3, <2>1 DEF HubInv, MapMatchesTable, SameActive
  <2>4. QED
    BY <1>3, <1>4, <2>1, <2>2, <2>3 DEF HubInv, NoOrphanSession, HeldUnderItsQuery
<1>6. CASE TakesUnsubscribe(found, id, revision)
  <2>1. /\ states' = after /\ insertions' \in {insertions, insertions + 1}
        /\ sub' = replaced /\ subscriptions' = [subscriptions EXCEPT ![id] = None]
    BY <1>6 DEF Unsubscribe
  <2> HIDE DEF found
  <2>2. IsTable(after) /\ SameActive(found, after, QueryIds \ {id}) /\ ~Active(after, id)
    BY <1>1, <1>2, AfterUnsubscribeActive
  <2>3. SameActive(states, after, QueryIds \ {id})
    BY <1>2, <2>2 DEF SameActive
  <2> HIDE DEF after
  <2>4. 1..created \subseteq Generations
    BY StuckGenerations DEF HubInv, TypeOK, Generations
  <2>5. /\ replaced \in [Generations -> Subscription]
        /\ \A i \in Generations :
             /\ replaced[i].query = sub[i].query /\ replaced[i].revision = sub[i].revision
             /\ replaced[i].admission = sub[i].admission
             /\ replaced[i].session = "open" => sub[i].session = "open" /\ i # subscriptions[id]
             /\ sub[i].admission = "unborn" => replaced[i] = sub[i]
    <3>1. CASE subscriptions[id] = None
      BY <1>1, <3>1, NoneIsUndefined DEF Generations
    <3>2. CASE subscriptions[id] # None
      BY <3>2, HeldExists, ReplaceResult
    <3>3. QED
      BY <3>1, <3>2
  <2> HIDE DEF replaced
  <2>6. /\ subscriptions' \in [QueryIds -> (1..created) \cup {None}] /\ subscriptions'[id] = None
        /\ \A o \in QueryIds : o # id => subscriptions'[o] = subscriptions[o]
    BY <1>1, <2>1
  <2>7. TypeOK'
    <3>1. insertions' \in Nat
      BY <1>1, <2>1
    <3>2. QED
      BY <1>3, <2>1, <2>2, <2>5, <2>6, <3>1 DEF HubInv, TypeOK, IsTable, lifeVars
  <2>8. \A i \in Generations : GenerationOK(sub'[i])
    <3>1. \A i \in Generations : GenerationOK(sub[i])
      BY DEF HubInv
    <3>2. QED
      BY <2>1, <2>5, <3>1 DEF GenerationOK
  <2>9. HeldUnderItsQuery'
    BY <1>1, <2>1, <2>4, <2>5, <2>6 DEF HubInv, HeldUnderItsQuery
  <2>10. MapMatchesTable'
    <3> SUFFICES ASSUME ~closed, NEW o \in QueryIds
                 PROVE  /\ subscriptions'[o] # None <=> Active(states', o)
                        /\ subscriptions'[o] # None =>
                             /\ sub'[subscriptions'[o]].query = o
                             /\ sub'[subscriptions'[o]].revision = states'[o].revision
      BY <1>3 DEF MapMatchesTable
    <3>1. CASE o = id
      BY <2>1, <2>2, <2>6, <3>1
    <3>2. CASE o # id
      <4>1. /\ subscriptions[o] # None <=> Active(states, o)
            /\ subscriptions[o] # None =>
                 /\ sub[subscriptions[o]].query = o
                 /\ sub[subscriptions[o]].revision = states[o].revision
        BY DEF HubInv, MapMatchesTable
      <4>2. subscriptions[o] # None => subscriptions[o] \in Generations
        BY <1>1, <2>4
      <4>3. (Active(states, o) <=> Active(states', o)) /\ (Active(states, o) => states[o] = states'[o])
        BY <2>1, <2>3, <3>2 DEF SameActive
      <4>4. QED
        BY <2>1, <2>5, <2>6, <3>2, <4>1, <4>2, <4>3
    <3>3. QED
      BY <3>1, <3>2
  <2>11. NoOrphanSession'
    <3> SUFFICES ASSUME NEW i \in Generations, sub'[i].session = "open"
                 PROVE  subscriptions'[sub'[i].query] = i
      BY DEF NoOrphanSession
    <3>1. sub[i].session = "open" /\ i # subscriptions[id] /\ sub'[i].query = sub[i].query
      BY <2>1, <2>5
    <3>2. subscriptions[sub[i].query] = i /\ sub[i].query \in QueryIds
      BY <3>1 DEF HubInv, NoOrphanSession, GenerationOK, Unborn
    <3>3. QED
      BY <2>6, <3>1, <3>2
  <2>12. QED
    BY <1>3, <1>4, <2>7, <2>8, <2>9, <2>10, <2>11 DEF HubInv
<1>7. QED
  BY <1>5, <1>6

(***************************************************************************)
(* Closing the connection                                                  *)
(***************************************************************************)

\* A step of a closing connection that only moves the close itself forward.
LEMMA ClosingStep ==
  ASSUME HubInv, ClosingOK', closed', released' \in BOOLEAN, closes' \in Nat,
         outputOpen' \in BOOLEAN, transportClosing' \in BOOLEAN,
         closing' \in {"no", "scheduled", "joining", "coordinated", "settled"},
         delivered' \in {"no", "joining", "done"},
         UNCHANGED <<tableVars, subscriptions, sub, created, joined>>
  PROVE  HubInv'
<1>1. TypeOK'
  BY DEF HubInv, TypeOK, tableVars
<1>2. MapMatchesTable'
  BY DEF MapMatchesTable
<1>3. NoOrphanSession' /\ HeldUnderItsQuery' /\ \A g \in Generations : GenerationOK(sub'[g])
  BY DEF HubInv, NoOrphanSession, HeldUnderItsQuery
<1>4. QED
  BY <1>1, <1>2, <1>3 DEF HubInv

\* Both ways of closing take every held generation, so no session stays open.
LEMMA TakePreserves ==
  ASSUME HubInv, TakeSubscriptions, ClosingOK', closed',
         transportClosing' \in BOOLEAN,
         closing' \in {"no", "scheduled", "joining", "coordinated", "settled"},
         delivered' \in {"no", "joining", "done"},
         UNCHANGED <<tableVars, created, released, closes>>
  PROVE  HubInv'
<1>1. /\ sub \in [Generations -> Subscription]
      /\ subscriptions \in [QueryIds -> (1..created) \cup {None}]
      /\ 1..created \subseteq Generations
  BY StuckGenerations DEF HubInv, TypeOK, Generations
<1>2. Held \subseteq 1..created
  BY <1>1 DEF Held
<1>3. \A g \in Generations :
        /\ AbortAndClose(sub[g]) \in Subscription
        /\ AbortAndClose(sub[g]).query = sub[g].query
        /\ AbortAndClose(sub[g]).admission = sub[g].admission
        /\ AbortAndClose(sub[g]).session # "open"
  <2> TAKE g \in Generations
  <2>1. sub[g] \in Subscription
    BY <1>1
  <2>2. AbortAndClose(sub[g]) \in {[sub[g] EXCEPT !.aborted = TRUE], [sub[g] EXCEPT !.session = "closing", !.aborted = TRUE]}
    BY <2>1 DEF AbortAndClose, CloseSession, Subscription
  <2>3. AbortAndClose(sub[g]).session # "open"
    BY <2>1 DEF AbortAndClose, CloseSession, Subscription
  <2>4. QED
    BY <2>1, <2>2, <2>3 DEF Subscription
<1>4. /\ joined' \subseteq 1..created /\ outputOpen' = FALSE
      /\ subscriptions' = [id \in QueryIds |-> None]
      /\ sub' \in [Generations -> Subscription]
      /\ \A g \in Generations : g \notin Held => sub'[g] = sub[g]
      /\ \A g \in Generations : g \in Held => sub'[g] = AbortAndClose(sub[g])
  BY <1>1, <1>2, <1>3 DEF TakeSubscriptions
<1>5. TypeOK'
  BY <1>4 DEF HubInv, TypeOK, tableVars
<1>6. MapMatchesTable' /\ HeldUnderItsQuery'
  BY <1>4 DEF MapMatchesTable, HeldUnderItsQuery
<1>7. \A g \in Generations : GenerationOK(sub'[g])
  <2> TAKE g \in Generations
  <2>1. GenerationOK(sub[g])
    BY DEF HubInv
  <2>2. CASE g \notin Held
    BY <1>4, <2>1, <2>2
  <2>3. CASE g \in Held
    <3>1. PICK id \in QueryIds : subscriptions[id] = g /\ subscriptions[id] # None
      BY <2>3 DEF Held
    <3>2. sub[g].admission # "unborn"
      BY <3>1 DEF HubInv, HeldUnderItsQuery
    <3>3. QED
      BY <1>3, <1>4, <2>1, <2>3, <3>2 DEF GenerationOK
  <2>4. QED
    BY <2>2, <2>3
<1>8. NoOrphanSession'
  <2> SUFFICES ASSUME NEW g \in Generations, sub'[g].session = "open" PROVE FALSE
    BY DEF NoOrphanSession
  <2>1. g \notin Held /\ sub[g].session = "open"
    BY <1>3, <1>4
  <2>2. subscriptions[sub[g].query] = g /\ sub[g].query \in QueryIds
    BY <2>1 DEF HubInv, NoOrphanSession, GenerationOK, Unborn
  <2>3. g # None
    BY NoneIsUndefined DEF Generations
  <2>4. QED
    BY <2>1, <2>2, <2>3 DEF Held
<1>9. QED
  BY <1>5, <1>6, <1>7, <1>8 DEF HubInv

LEMMA ConnectionPreserves ==
  ASSUME HubInv,
         \/ Disconnect \/ Close \/ CloseRuns \/ JoinSettles \/ JoinTimesOut
         \/ ReleaseTransport \/ DeliveryJoined \/ CoordinatedCloseSettles
  PROVE  HubInv'
<1>1. TypeOK /\ ClosingOK
  BY DEF HubInv
<1>2. CASE Disconnect
  <2>1. closed' /\ ClosingOK' /\ outputOpen' \in BOOLEAN
        /\ closing' \in {"no", "scheduled", "joining", "coordinated", "settled"}
    BY <1>1, <1>2 DEF Disconnect, CloseOutput, TypeOK, ClosingOK, closed, lifeVars
  <2>2. QED
    BY <1>1, <1>2, <2>1, ClosingStep DEF Disconnect, TypeOK, lifeVars
<1>3. CASE Close
  <2>1. closed' /\ ClosingOK'
    BY <1>1, <1>3 DEF Close, TypeOK, ClosingOK, closed, lifeVars
  <2>2. QED
    BY <1>1, <1>3, <2>1, ClosingStep DEF Close, TypeOK, lifeVars
<1>4. CASE CloseRuns
  <2>1. closed' /\ ClosingOK'
    BY <1>1, <1>4 DEF CloseRuns, TypeOK, ClosingOK, closed
  <2>2. QED
    BY <1>1, <1>4, <2>1, TakePreserves DEF CloseRuns, TypeOK
<1>5. CASE ReleaseTransport
  <2>1. closed' /\ ClosingOK'
    BY <1>1, <1>5 DEF ReleaseTransport, TypeOK, ClosingOK, closed
  <2>2. QED
    BY <1>1, <1>5, <2>1, TakePreserves DEF ReleaseTransport, TypeOK
<1>6. CASE JoinSettles \/ JoinTimesOut
  <2>1. closed' /\ ClosingOK' /\ closes' \in Nat
    BY <1>1, <1>6 DEF JoinSettles, JoinTimesOut, TypeOK, ClosingOK, closed
  <2>2. QED
    BY <1>1, <1>6, <2>1, ClosingStep DEF JoinSettles, JoinTimesOut, TypeOK
<1>7. CASE DeliveryJoined
  <2>1. released' = TRUE /\ closes' = 1
    <3>1. CASE released
      BY <1>1, <1>7, <3>1 DEF DeliveryJoined, ReleaseConnection, ClosingOK
    <3>2. CASE ~released
      BY <1>1, <1>7, <3>2 DEF DeliveryJoined, ReleaseConnection, ClosingOK
    <3>3. QED
      BY <3>1, <3>2
  <2>2. closed' /\ ClosingOK'
    BY <1>1, <1>7, <2>1 DEF DeliveryJoined, TypeOK, ClosingOK, closed
  <2>3. QED
    BY <1>1, <1>7, <2>1, <2>2, ClosingStep DEF DeliveryJoined, TypeOK
<1>8. CASE CoordinatedCloseSettles
  <2>1. released' = TRUE /\ closes' = 1
    <3>1. CASE released
      BY <1>1, <1>8, <3>1 DEF CoordinatedCloseSettles, ReleaseConnection, ClosingOK
    <3>2. CASE ~released
      BY <1>1, <1>8, <3>2 DEF CoordinatedCloseSettles, ReleaseConnection, ClosingOK
    <3>3. QED
      BY <3>1, <3>2
  <2>2. closed' /\ ClosingOK'
    BY <1>1, <1>8, <2>1 DEF CoordinatedCloseSettles, TypeOK, ClosingOK, closed
  <2>3. QED
    BY <1>1, <1>8, <2>1, <2>2, ClosingStep DEF CoordinatedCloseSettles, TypeOK
<1>9. QED
  BY <1>2, <1>3, <1>4, <1>5, <1>6, <1>7, <1>8

(***************************************************************************)
(* Frames are written for the newest generation only                       *)
(***************************************************************************)

\* Nobody gave up what is held, and it is the newest generation of its query.
HeldIsCurrent ==
  \A id \in QueryIds :
    subscriptions[id] # None => ~sub[subscriptions[id]].aborted /\ Newest(subscriptions[id])

NotBornYet == \A g \in Generations : g > created => sub[g] = Unborn

FrameInv == HubInv /\ HeldIsCurrent /\ NotBornYet /\ (~outputOpen => closed)

\* A current generation is held on a live connection, so it may write.
LEMMA CurrentMayWrite ==
  ASSUME FrameInv, NEW g \in Generations, sub[g].admission # "unborn", Current(g)
  PROVE  outputOpen /\ ~closed /\ ~sub[g].aborted /\ Newest(g)
<1>1. sub[g].query \in QueryIds /\ subscriptions[sub[g].query] = g /\ g # None
  BY NoneIsUndefined DEF FrameInv, HubInv, GenerationOK, Current, Generations
<1>2. QED
  BY <1>1 DEF FrameInv, HeldIsCurrent, Current

\* A step of one generation writes only while that generation is current, and
\* gives nobody's place away but its own.
OwnStep(g) ==
  /\ \A i \in Generations : sub'[i].query = sub[i].query /\ sub'[i].aborted = sub[i].aborted
  /\ \A i \in Generations : i # g => sub'[i] = sub[i]
  /\ sub'[g].admission # "unborn" /\ sub[g].admission # "unborn"
  /\ Writes(g) => Current(g)
  /\ \A id \in QueryIds : subscriptions'[id] \in {subscriptions[id], None}
  /\ UNCHANGED <<created, transportClosing>>
  /\ CloseOutput \/ KeepOutput

LEMMA OwnChange ==
  ASSUME HubInv, NEW g \in Generations, sub[g].admission # "unborn", sub'[g].admission # "unborn",
         \A i \in Generations : i # g => sub'[i] = sub[i],
         sub'[g].query = sub[g].query, sub'[g].aborted = sub[g].aborted,
         Writes(g) => Current(g),
         UNCHANGED subscriptions \/ Completed(g),
         UNCHANGED <<created, lifeVars>>, CloseOutput \/ KeepOutput
  PROVE  OwnStep(g)
<1>1. subscriptions \in [QueryIds -> (1..created) \cup {None}]
  BY DEF HubInv, TypeOK
<1>2. \A id \in QueryIds : subscriptions'[id] \in {subscriptions[id], None}
  BY <1>1 DEF Completed
<1>3. QED
  BY <1>2 DEF OwnStep, lifeVars

LEMMA AdmissionOwn ==
  ASSUME HubInv, NEW g \in Generations, Admission(g)
  PROVE  OwnStep(g)
<1> DEFINE is(x, y, z) == sub' = [sub EXCEPT ![g] = [@ EXCEPT !.session = x, !.admission = y, !.delivery = z]]
           Frame == /\ UNCHANGED subscriptions \/ Completed(g)
                    /\ UNCHANGED <<created, lifeVars>> /\ sub[g].admission # "unborn"
                    /\ CloseOutput \/ KeepOutput
<1>1. sub \in [Generations -> Subscription] /\ sub[g] \in Subscription
  BY DEF HubInv, TypeOK
<1>2. /\ sub[g].session \in {"none", "open", "closing", "closed", "failed"}
      /\ sub[g].delivery \in {"none", "next", "sending", "sendFinal", "logging", "sendFailure",
                              "closing", "closingFailed", "done"}
  BY <1>1 DEF Subscription
<1>3. ASSUME NEW x \in {"none", "open", "closing", "closed", "failed"},
             NEW y \in {"closeStale", "logging", "done"}, NEW z \in {"none", "next", sub[g].delivery},
             is(x, y, z), Frame
      PROVE  OwnStep(g)
  <2>1. /\ \A i \in Generations : i # g => sub'[i] = sub[i]
        /\ sub'[g].query = sub[g].query /\ sub'[g].aborted = sub[g].aborted
        /\ sub'[g].admission = y /\ sub'[g].delivery = z
    BY <1>1, <1>3 DEF Subscription
  <2>2. ~Writes(g)
    BY <2>1 DEF Writes, AdmissionFrames, DeliveryFrames
  <2>3. QED
    BY <1>3, <2>1, <2>2, OwnChange
<1>4. ASSUME NEW x \in {"none", "open", "closing", "closed", "failed"},
             NEW y \in {"sendRejection", "sendError"},
             is(x, y, sub[g].delivery), Frame, Current(g) \/ sub[g].admission = "logging"
      PROVE  OwnStep(g)
  <2>1. /\ \A i \in Generations : i # g => sub'[i] = sub[i]
        /\ sub'[g].query = sub[g].query /\ sub'[g].aborted = sub[g].aborted
        /\ sub'[g].admission = y /\ sub'[g].delivery = sub[g].delivery
    BY <1>1, <1>4 DEF Subscription
  <2>2. Writes(g) => Current(g)
    BY <1>4, <2>1 DEF Writes
  <2>3. QED
    BY <1>4, <2>1, <2>2, OwnChange
<1>5. CASE OpenSucceeds(g)
  <2>1. is("open", "done", "next") \/ is("closing", "closeStale", sub[g].delivery)
    BY <1>1, <1>5 DEF OpenSucceeds, Subscription
  <2>2. Frame
    BY <1>5 DEF OpenSucceeds
  <2> HIDE DEF is, Frame
  <2>3. QED
    BY <1>3, <2>1, <2>2
<1>6. CASE OpenRejects(g)
  <2>1. \/ Current(g) /\ is("closed", "sendRejection", sub[g].delivery)
        \/ is("closed", "closeStale", sub[g].delivery)
    BY <1>1, <1>6 DEF OpenRejects, Subscription
  <2>2. Frame
    BY <1>6 DEF OpenRejects
  <2> HIDE DEF is, Frame
  <2>3. QED
    BY <1>3, <1>4, <2>1, <2>2
<1>7. ASSUME NEW logged \in BOOLEAN, OpenThrows(g, logged) PROVE OwnStep(g)
  <2>1. \/ Current(g) /\ is(sub[g].session, "sendError", sub[g].delivery)
        \/ \E y \in {"logging", "done"} : is(sub[g].session, y, sub[g].delivery)
    BY <1>1, <1>7 DEF OpenThrows, Admit, Subscription
  <2>2. Frame
    BY <1>7 DEF OpenThrows
  <2> HIDE DEF is, Frame
  <2>3. QED
    BY <1>2, <1>3, <1>4, <2>1, <2>2
<1>8. ASSUME NEW ok \in BOOLEAN, RefusalSent(g, ok) \/ AdmissionLogged(g, ok) \/ ErrorSent(g, ok)
      PROVE  OwnStep(g)
  <2>1. \/ sub[g].admission = "logging" /\ is(sub[g].session, "sendError", sub[g].delivery)
        \/ is(sub[g].session, "done", sub[g].delivery)
    BY <1>1, <1>8 DEF RefusalSent, AdmissionLogged, ErrorSent, Admit, Subscription
  <2>2. Frame
    BY <1>8 DEF RefusalSent, AdmissionLogged, ErrorSent, SendSettles
  <2> HIDE DEF is, Frame
  <2>3. QED
    BY <1>2, <1>3, <1>4, <2>1, <2>2
<1>9. CASE StaleClosed(g)
  <2>1. is(sub[g].session, "done", sub[g].delivery)
    BY <1>1, <1>9 DEF StaleClosed, Admit, Subscription
  <2>2. Frame
    BY <1>9 DEF StaleClosed
  <2> HIDE DEF is, Frame
  <2>3. QED
    BY <1>2, <1>3, <2>1, <2>2
<1>10. QED
  BY <1>5, <1>6, <1>7, <1>8, <1>9 DEF Admission

LEMMA DeliveryOwn ==
  ASSUME HubInv, NEW g \in Generations,
         DeliveryStep(g) \/ Produce(g) \/ ServerClosesSession(g) \/ SessionCloses(g)
  PROVE  OwnStep(g)
<1> DEFINE is(x, z) == sub' = [sub EXCEPT ![g] = [@ EXCEPT !.session = x, !.admission = sub[g].admission, !.delivery = z]]
           Frame == /\ UNCHANGED subscriptions \/ Completed(g)
                    /\ UNCHANGED <<created, lifeVars>>
                    /\ sub[g].delivery # "none" \/ sub[g].session # "none"
                    /\ CloseOutput \/ KeepOutput
<1>1. sub \in [Generations -> Subscription] /\ sub[g] \in Subscription /\ GenerationOK(sub[g])
  BY DEF HubInv, TypeOK
<1>2. /\ sub[g].session \in {"none", "open", "closing", "closed", "failed"}
      /\ sub[g].delivery \in {"none", "next", "sending", "sendFinal", "logging", "sendFailure",
                              "closing", "closingFailed", "done"}
  BY <1>1 DEF Subscription
<1>3. ASSUME Frame
      PROVE  sub[g].admission # "unborn"
  BY <1>1, <1>3 DEF GenerationOK, Unborn, Subscription
<1>4. ASSUME NEW x \in {"none", "open", "closing", "closed", "failed"},
             NEW z \in {"next", "logging", "closing", "closingFailed", "done", sub[g].delivery},
             is(x, z), Frame
      PROVE  OwnStep(g)
  <2>1. /\ \A i \in Generations : i # g => sub'[i] = sub[i]
        /\ sub'[g].query = sub[g].query /\ sub'[g].aborted = sub[g].aborted
        /\ sub'[g].admission = sub[g].admission /\ sub'[g].delivery = z
    BY <1>1, <1>4 DEF Subscription
  <2>2. ~Writes(g)
    BY <2>1 DEF Writes, DeliveryFrames
  <2>3. sub[g].admission # "unborn"
    BY <1>3, <1>4
  <2>4. QED
    BY <1>4, <2>1, <2>2, <2>3, OwnChange
<1>5. ASSUME NEW z \in DeliveryFrames, is(sub[g].session, z), Frame, Current(g)
      PROVE  OwnStep(g)
  <2>1. /\ \A i \in Generations : i # g => sub'[i] = sub[i]
        /\ sub'[g].query = sub[g].query /\ sub'[g].aborted = sub[g].aborted
        /\ sub'[g].admission = sub[g].admission /\ sub'[g].delivery = z
    BY <1>1, <1>5 DEF Subscription
  <2>2. Writes(g) => Current(g)
    BY <1>5
  <2>3. sub[g].admission # "unborn"
    BY <1>3, <1>5
  <2>4. QED
    BY <1>5, <2>1, <2>2, <2>3, OwnChange
<1>6. \A z : Deliver(g, z) => is(sub[g].session, z)
  BY <1>1 DEF Deliver, Subscription
<1>7. \A z : Finish(g, z) => \E x \in {sub[g].session, "closing"} : is(x, z)
  BY <1>1 DEF Finish, CloseSession, Subscription
<1> HIDE DEF is
<1>8. ASSUME NEW z \in {"next", "logging", "closing", "closingFailed", "done"}, Frame,
             Deliver(g, z) \/ Finish(g, z)
      PROVE  OwnStep(g)
  BY <1>2, <1>4, <1>6, <1>7, <1>8
<1>9. ASSUME NEW sending \in {"sending", "sendFinal"}, Result(g, sending) PROVE OwnStep(g)
  <2>1. (Current(g) /\ Deliver(g, sending)) \/ Finish(g, "closing")
    BY <1>9 DEF Result
  <2>2. Frame
    BY <1>9 DEF Result
  <2> HIDE DEF Frame
  <2>3. QED
    BY <1>5, <1>6, <1>8, <2>1, <2>2 DEF DeliveryFrames
<1>10. ASSUME NEW ok \in BOOLEAN, DeliveryLogged(g, ok) PROVE OwnStep(g)
  <2>1. (Current(g) /\ Deliver(g, "sendFailure")) \/ Finish(g, "closing") \/ Finish(g, "closingFailed")
    BY <1>10 DEF DeliveryLogged
  <2>2. Frame
    BY <1>10 DEF DeliveryLogged
  <2> HIDE DEF Frame
  <2>3. QED
    BY <1>5, <1>6, <1>8, <2>1, <2>2 DEF DeliveryFrames
<1>11. ASSUME \/ ResultsEnd(g) \/ ResultsThrow(g) \/ DeliveryEnds(g)
              \/ \E ok \in BOOLEAN : ResultSent(g, ok) \/ FinalSent(g, ok) \/ FailureSent(g, ok)
       PROVE  OwnStep(g)
  <2>1. \E z \in {"next", "logging", "closing", "closingFailed", "done"} : Deliver(g, z) \/ Finish(g, z)
    BY <1>11 DEF ResultsEnd, ResultsThrow, DeliveryEnds, ResultSent, FinalSent, FailureSent
  <2>2. Frame
    BY <1>11 DEF ResultsEnd, ResultsThrow, DeliveryEnds, ResultSent, FinalSent, FailureSent, SendSettles
  <2> HIDE DEF Frame
  <2>3. QED
    BY <1>8, <2>1, <2>2
<1>12. ASSUME ServerClosesSession(g) \/ SessionCloses(g) PROVE OwnStep(g)
  <2>1. \E x \in {"closing", "closed", "failed"} : is(x, sub[g].delivery)
    BY <1>1, <1>12 DEF is, ServerClosesSession, SessionCloses, SessionSettles, CloseSession, Subscription
  <2>2. Frame
    BY <1>12 DEF ServerClosesSession, SessionCloses, SessionSettles
  <2> HIDE DEF Frame
  <2>3. QED
    BY <1>4, <2>1, <2>2
<1>13. QED
  BY <1>9, <1>10, <1>11, <1>12 DEF DeliveryStep, Produce

\* The steps of the connection itself and the control messages: only a subscribe
\* starts a generation, and only the generation that loses its place is aborted.
LEMMA OwnStepKeeps ==
  ASSUME FrameInv, NEW g \in Generations, OwnStep(g)
  PROVE  HeldIsCurrent' /\ NotBornYet' /\ (~outputOpen' => closed')
<1>1. subscriptions \in [QueryIds -> (1..created) \cup {None}] /\ 1..created \subseteq Generations
      /\ created \in Nat
  BY StuckGenerations DEF FrameInv, HubInv, TypeOK, Generations
<1>2. ASSUME NEW id \in QueryIds, subscriptions'[id] # None
      PROVE  ~sub'[subscriptions'[id]].aborted /\ Newest(subscriptions[id])'
  <2>1. subscriptions'[id] = subscriptions[id] /\ subscriptions[id] \in Generations
    BY <1>1, <1>2 DEF OwnStep
  <2>2. ~sub[subscriptions[id]].aborted /\ Newest(subscriptions[id])
    BY <1>2, <2>1 DEF FrameInv, HeldIsCurrent
  <2>3. (subscriptions[id] + 1)..created \subseteq Generations
    BY <2>1, <1>1, StuckGenerations DEF FrameInv, HubInv, TypeOK, Generations
  <2>4. QED
    BY <2>1, <2>2, <2>3 DEF OwnStep, Newest
<1>3. ~outputOpen' => closed'
  BY DEF OwnStep, FrameInv, CloseOutput, KeepOutput, closed
<1>4. NotBornYet'
  <2>1. ASSUME NEW i \in Generations, i > created PROVE sub[i] = Unborn /\ i # g
    <3>1. sub[i] = Unborn /\ sub[g].admission # "unborn"
      BY <2>1 DEF FrameInv, NotBornYet, OwnStep
    <3>2. Unborn.admission = "unborn"
      BY DEF Unborn
    <3>3. QED
      BY <3>1, <3>2
  <2>2. QED
    BY <2>1 DEF OwnStep, NotBornYet
<1>5. QED
  BY <1>2, <1>3, <1>4 DEF HeldIsCurrent

LEMMA SubscribeKeeps ==
  ASSUME FrameInv, NEW id \in QueryIds, NEW revision \in RevisionArgs, NEW key \in RequestKeys,
         NEW start \in AdmissionStarts, Subscribe(id, revision, key, start)
  PROVE  /\ HeldIsCurrent' /\ NotBornYet' /\ (~outputOpen' => closed')
         /\ \A i \in Generations : Writes(i) => outputOpen /\ ~closed /\ ~sub[i].aborted /\ Newest(i)
<1> DEFINE g == created + 1
           fresh == [Unborn EXCEPT !.query = id, !.revision = revision, !.admission = start]
           replaced == IF subscriptions[id] = None THEN sub ELSE Replace(sub, subscriptions[id])
<1>1. /\ HubInv /\ sub \in [Generations -> Subscription]
      /\ subscriptions \in [QueryIds -> (1..created) \cup {None}]
      /\ created \in 0..MaxGenerations /\ MaxGenerations \in Nat /\ 1..created \subseteq Generations
  BY StuckGenerations DEF FrameInv, HubInv, TypeOK, Generations
<1>2. outputOpen /\ ~closed /\ (~outputOpen' => closed')
  BY DEF Subscribe, FrameInv, KeepOutput, closed
<1>3. \/ UNCHANGED <<created, sub, subscriptions>>
      \/ /\ created < MaxGenerations /\ created' = g
         /\ sub' = [replaced EXCEPT ![g] = fresh]
         /\ subscriptions' = [subscriptions EXCEPT ![id] = g]
  BY DEF Subscribe
<1>4. CASE UNCHANGED <<created, sub, subscriptions>>
  BY <1>2, <1>4 DEF FrameInv, HeldIsCurrent, NotBornYet, Newest, Writes
<1>5. CASE /\ created < MaxGenerations /\ created' = g
           /\ sub' = [replaced EXCEPT ![g] = fresh]
           /\ subscriptions' = [subscriptions EXCEPT ![id] = g]
  <2>1. /\ replaced \in [Generations -> Subscription]
        /\ \A i \in Generations :
             /\ replaced[i].query = sub[i].query /\ replaced[i].admission = sub[i].admission
             /\ replaced[i].delivery = sub[i].delivery
             /\ i # subscriptions[id] => replaced[i].aborted = sub[i].aborted
    <3>1. CASE subscriptions[id] = None
      BY <1>1, <3>1, NoneIsUndefined DEF Generations
    <3>2. CASE subscriptions[id] # None
      BY <1>1, <3>2, HeldExists, ReplaceResult
    <3>3. QED
      BY <3>1, <3>2
  <2>2. fresh.query = id /\ ~fresh.aborted /\ fresh.delivery = "none"
    BY DEF Unborn
  <2>3. g \in Generations /\ g # None /\ g \in Nat
    BY <1>1, <1>5, NoneIsUndefined DEF Generations
  <2> HIDE DEF replaced, fresh
  <2>4. sub'[g] = fresh /\ \A i \in Generations : i # g => sub'[i] = replaced[i]
    BY <1>5, <2>1, <2>3
  <2>5. HeldIsCurrent'
    <3> SUFFICES ASSUME NEW o \in QueryIds, subscriptions'[o] # None
                 PROVE  ~sub'[subscriptions'[o]].aborted /\ Newest(subscriptions[o])'
      BY DEF HeldIsCurrent
    <3>1. CASE o = id
      <4>1. subscriptions'[o] = g
        BY <1>1, <1>5, <3>1
      <4>2. (g + 1)..created' = {}
        BY <1>5, <2>3
      <4>3. QED
        BY <2>2, <2>4, <4>1, <4>2 DEF Newest
    <3>2. CASE o # id
      <4> DEFINE h == subscriptions[o]
      <4>1. subscriptions'[o] = h /\ h \in 1..created /\ h \in Generations /\ h # g
        BY <1>1, <1>5, <3>2
      <4>2. sub[h].query = o /\ ~sub[h].aborted /\ Newest(h)
        BY <4>1, <1>1, HeldExists, NoneIsUndefined DEF FrameInv, HeldIsCurrent, Generations
      <4>3. h # subscriptions[id]
        BY <1>1, <3>2, <4>1, <4>2, HeldExists, NoneIsUndefined DEF Generations
      <4> HIDE DEF h
      <4>4. ~sub'[h].aborted /\ sub'[h].query = o
        BY <2>1, <2>4, <4>1, <4>2, <4>3
      <4>5. ASSUME NEW i \in (h + 1)..created' PROVE sub'[i].query # o
        <5>1. CASE i = g
          BY <2>2, <2>4, <3>2, <5>1
        <5>2. CASE i # g
          <6>1. i \in (h + 1)..created /\ i \in Generations
            BY <1>1, <1>5, <4>1, <4>5, <5>2
          <6>2. QED
            BY <2>1, <2>4, <4>2, <5>2, <6>1 DEF Newest
        <5>3. QED
          BY <5>1, <5>2
      <4>6. QED
        BY <4>1, <4>4, <4>5 DEF Newest
    <3>3. QED
      BY <3>1, <3>2
  <2>6. ASSUME NEW i \in Generations, Writes(i) PROVE ~sub[i].aborted /\ Newest(i)
    <3>1. i = g
      BY <2>1, <2>4, <2>6 DEF Writes
    <3>2. sub[i] = Unborn
      BY <1>1, <2>3, <3>1 DEF FrameInv, NotBornYet
    <3>3. (i + 1)..created = {}
      BY <2>3, <3>1, <1>1
    <3>4. QED
      BY <3>2, <3>3 DEF Unborn, Newest
  <2>7. NotBornYet'
    <3> SUFFICES ASSUME NEW i \in Generations, i > created' PROVE sub'[i] = Unborn
      BY DEF NotBornYet
    <3>1. i > created /\ i # g
      BY <1>1, <1>5, <2>3 DEF Generations
    <3>2. sub[i] = Unborn /\ i # subscriptions[id]
      BY <1>1, <3>1, NoneIsUndefined DEF FrameInv, NotBornYet, Generations
    <3>3. replaced[i] = sub[i]
      BY <1>1, <3>2, HeldExists, ReplaceResult, NoneIsUndefined DEF replaced, Generations
    <3>4. QED
      BY <2>4, <3>1, <3>2, <3>3
  <2>8. QED
    BY <1>2, <2>5, <2>6, <2>7
<1>6. QED
  BY <1>3, <1>4, <1>5

\* The other steps start no frame, and keep or clear what is held.
LEMMA ConnectionKeeps ==
  ASSUME FrameInv,
         \/ \E id \in QueryIds, revision \in RevisionArgs : Unsubscribe(id, revision)
         \/ Tick \/ UNCHANGED vars
         \/ Disconnect \/ Close \/ CloseRuns \/ JoinSettles \/ JoinTimesOut
         \/ ReleaseTransport \/ DeliveryJoined \/ CoordinatedCloseSettles
  PROVE  /\ HeldIsCurrent' /\ NotBornYet' /\ (~outputOpen' => closed')
         /\ \A i \in Generations : ~Writes(i)
<1>1. /\ HubInv /\ sub \in [Generations -> Subscription]
      /\ subscriptions \in [QueryIds -> (1..created) \cup {None}] /\ 1..created \subseteq Generations
      /\ created \in Nat
  BY StuckGenerations DEF FrameInv, HubInv, TypeOK, Generations
<1>2. ASSUME UNCHANGED <<sub, created, subscriptions>>
      PROVE  HeldIsCurrent' /\ NotBornYet' /\ \A i \in Generations : ~Writes(i)
  BY <1>2 DEF FrameInv, HeldIsCurrent, NotBornYet, Newest, Writes
<1>3. CASE Tick \/ UNCHANGED vars \/ Disconnect \/ Close \/ JoinSettles \/ JoinTimesOut
           \/ DeliveryJoined \/ CoordinatedCloseSettles
  <2>1. UNCHANGED <<sub, created, subscriptions>>
    BY <1>3 DEF Tick, vars, Disconnect, Close, JoinSettles, JoinTimesOut, DeliveryJoined,
       CoordinatedCloseSettles
  <2>2. ~outputOpen' => closed'
    BY <1>3 DEF Tick, vars, tableVars, lifeVars, Disconnect, CloseOutput, Close, JoinSettles,
       JoinTimesOut, DeliveryJoined, CoordinatedCloseSettles, FrameInv, closed
  <2>3. QED
    BY <1>2, <2>1, <2>2
<1>4. CASE CloseRuns \/ ReleaseTransport
  <2>1. TakeSubscriptions /\ UNCHANGED created /\ closed'
    BY <1>4 DEF CloseRuns, ReleaseTransport, closed
  <2>2. HeldIsCurrent'
    BY <2>1 DEF TakeSubscriptions, HeldIsCurrent
  <2>3. \A i \in Generations :
          /\ sub'[i].admission = sub[i].admission /\ sub'[i].delivery = sub[i].delivery
          /\ i > created => sub'[i] = sub[i]
    BY <1>1, <2>1 DEF TakeSubscriptions, AbortAndClose, CloseSession, Held, Subscription, Generations
  <2>4. NotBornYet' /\ \A i \in Generations : ~Writes(i)
    BY <2>1, <2>3 DEF FrameInv, NotBornYet, Writes
  <2>5. QED
    BY <2>1, <2>2, <2>4
<1>5. ASSUME NEW id \in QueryIds, NEW revision \in RevisionArgs, Unsubscribe(id, revision)
      PROVE  /\ HeldIsCurrent' /\ NotBornYet' /\ (~outputOpen' => closed')
             /\ \A i \in Generations : ~Writes(i)
  <2>1. UNCHANGED created /\ (~outputOpen' => closed')
    BY <1>5 DEF Unsubscribe, KeepOutput, FrameInv, closed, lifeVars
  <2>2. CASE UNCHANGED <<sub, subscriptions>>
    BY <1>2, <2>1, <2>2
  <2>3. CASE /\ subscriptions' = [subscriptions EXCEPT ![id] = None]
             /\ sub' = IF subscriptions[id] = None THEN sub ELSE Replace(sub, subscriptions[id])
    <3>1. \A i \in Generations :
            /\ sub'[i].query = sub[i].query
            /\ sub'[i].admission = sub[i].admission /\ sub'[i].delivery = sub[i].delivery
            /\ i # subscriptions[id] => sub'[i] = sub[i]
      <4>1. CASE subscriptions[id] = None
        BY <2>3, <4>1
      <4>2. CASE subscriptions[id] # None
        BY <1>1, <2>3, <4>2, HeldExists, ReplaceResult
      <4>3. QED
        BY <4>1, <4>2
    <3>2. ASSUME NEW o \in QueryIds, subscriptions'[o] # None
          PROVE  ~sub'[subscriptions'[o]].aborted /\ Newest(subscriptions[o])'
      <4>1. o # id /\ subscriptions'[o] = subscriptions[o] /\ subscriptions[o] \in 1..created
        BY <1>1, <2>3, <3>2
      <4>2. subscriptions[o] # subscriptions[id]
        BY <1>1, <4>1, HeldExists, NoneIsUndefined DEF Generations
      <4>3. ~sub[subscriptions[o]].aborted /\ Newest(subscriptions[o])
        BY <1>1, <4>1, NoneIsUndefined DEF FrameInv, HeldIsCurrent, Generations
      <4>4. (subscriptions[o] + 1)..created \subseteq Generations
        BY <1>1, <4>1
      <4>5. QED
        BY <1>1, <2>1, <3>1, <4>1, <4>2, <4>3, <4>4 DEF Newest
    <3>3. NotBornYet' /\ \A i \in Generations : ~Writes(i)
      <4>1. \A i \in Generations : i > created => i # subscriptions[id]
        BY <1>1, NoneIsUndefined DEF Generations
      <4>2. QED
        BY <2>1, <3>1, <4>1 DEF FrameInv, NotBornYet, Writes
    <3>4. QED
      BY <2>1, <3>2, <3>3 DEF HeldIsCurrent
  <2>4. QED
    BY <1>5, <2>2, <2>3 DEF Unsubscribe
<1>6. QED
  BY <1>3, <1>4, <1>5

(***************************************************************************)
(* The theorems                                                            *)
(***************************************************************************)

LEMMA HubNextPreserves == HubInv /\ [Next]_vars => HubInv'
<1> SUFFICES ASSUME HubInv, [Next]_vars PROVE HubInv'
  OBVIOUS
<1>1. CASE Tick
  <2>1. now' \in 0..MaxTime
    BY <1>1, BoundsNat DEF Tick, HubInv, TypeOK
  <2>2. TypeOK'
    BY <1>1, <2>1 DEF Tick, HubInv, TypeOK, lifeVars
  <2>3. QED
    BY <1>1, <2>2 DEF Tick, HubInv, MapMatchesTable, NoOrphanSession,
       HeldUnderItsQuery, ClosingOK, closed, lifeVars
<1>2. CASE UNCHANGED vars
  BY <1>2 DEF vars, tableVars, lifeVars, HubInv, TypeOK, MapMatchesTable, NoOrphanSession,
     HeldUnderItsQuery, ClosingOK, closed
<1>3. QED
  BY <1>1, <1>2, SubscribePreserves, UnsubscribePreserves, AdmissionPreserves, DeliveryPreserves,
     SessionPreserves, ConnectionPreserves DEF Next

\* The inductive invariant holds throughout.
THEOREM HubInvariant == Safety => []HubInv
<1>1. QED
  BY InitHub, HubNextPreserves, PTL DEF Safety

\* On a live connection the map of subscriptions and the revision table agree,
\* whatever control messages and self-ending generations interleave
\* (HubConnection.ts 91-139).
THEOREM MapAlwaysMatchesTable == Safety => []MapMatchesTable
<1>1. HubInv => MapMatchesTable
  BY DEF HubInv
<1>2. QED
  BY <1>1, HubInvariant, PTL

\* A session that opens after its generation was replaced, unsubscribed or closed
\* never stays open (HubSubscriptionRunner.ts 42-44).
THEOREM SessionsAlwaysFound == Safety => []NoOrphanSession
<1>1. HubInv => NoOrphanSession
  BY DEF HubInv
<1>2. QED
  BY <1>1, HubInvariant, PTL

LEMMA FramesNext ==
  ASSUME FrameInv, [Next]_vars
  PROVE  /\ HeldIsCurrent' /\ NotBornYet' /\ (~outputOpen' => closed')
         /\ \A i \in Generations : Writes(i) => outputOpen /\ ~closed /\ ~sub[i].aborted /\ Newest(i)
<1>1. ASSUME NEW g \in Generations,
             Admission(g) \/ DeliveryStep(g) \/ Produce(g) \/ ServerClosesSession(g) \/ SessionCloses(g)
      PROVE  /\ HeldIsCurrent' /\ NotBornYet' /\ (~outputOpen' => closed')
             /\ \A i \in Generations : Writes(i) => outputOpen /\ ~closed /\ ~sub[i].aborted /\ Newest(i)
  <2>1. OwnStep(g)
    BY <1>1, AdmissionOwn, DeliveryOwn DEF FrameInv
  <2>2. \A i \in Generations : Writes(i) => i = g /\ Current(g)
    BY <2>1 DEF OwnStep, Writes
  <2>3. QED
    BY <2>1, <2>2, OwnStepKeeps, CurrentMayWrite DEF OwnStep
<1>2. QED
  BY <1>1, SubscribeKeeps, ConnectionKeeps DEF Next

\* The invariant extended by what is held: nobody gave it up and nothing newer
\* was accepted for its query.
THEOREM FrameInvariant == Safety => []FrameInv
<1>1. Init => HeldIsCurrent /\ NotBornYet /\ outputOpen
  BY DEF Init, HeldIsCurrent, NotBornYet
<1>2. Init => FrameInv
  BY <1>1, InitHub DEF FrameInv
<1>3. FrameInv /\ [Next]_vars => FrameInv'
  BY FramesNext, HubNextPreserves DEF FrameInv
<1>4. QED
  BY <1>2, <1>3, PTL DEF Safety

\* A frame is only written on a live connection, for a generation that nobody
\* gave up and that is the newest of its query (HubSubscriptionRunner.ts 43,
\* 56-66, 79-103), for any number of queries, generations and messages.
THEOREM FramesAlwaysCurrent == Safety => FramesAreCurrent
<1>1. FrameInv /\ [Next]_vars =>
        [\A g \in Generations : Writes(g) => outputOpen /\ ~closed /\ ~sub[g].aborted /\ Newest(g)]_vars
  BY FramesNext
<1>2. QED
  BY <1>1, FrameInvariant, PTL DEF Safety, FramesAreCurrent

\* The admission slot of a connection is given back at most once, whichever of
\* close(), its deadline and joinDelivery() comes first (HubConnection.ts
\* 205-250): the safety half of SlotReleased.
THEOREM SlotReleasedAtMostOnce == Safety => [](closes <= 1)
<1>1. HubInv => closes <= 1
  BY DEF HubInv, TypeOK, ClosingOK
<1>2. QED
  BY <1>1, HubInvariant, PTL
=============================================================================
