----------------------- MODULE SubscriptionRevisions -----------------------
(***************************************************************************)
(* Source/Core/queries/observable/SubscriptionRevisions.ts: the table with *)
(* which a hub connection decides whether a subscribe or unsubscribe       *)
(* control message still counts.  Control messages reach a connection      *)
(* duplicated and out of order (every SSE control is an HTTP request of    *)
(* its own), so each carries a revision; a message older than what the     *)
(* table remembers is stale.  An unsubscribe leaves a tombstone that       *)
(* refuses late subscribes until it expires or until newer tombstones      *)
(* crowd it out.  Clients that send no revision (None) are "legacy".       *)
(***************************************************************************)
EXTENDS RevisionTable

CONSTANT
  MaxInsertions       \* bound: the number of Map.set calls

ASSUME InsertionsNat == MaxInsertions \in Nat

\* History: the revision, time and insertion number of an accepted unsubscribe.
Ending == [revision : Nat, at : Nat, inserted : Nat]

ASSUME NoneIsNoEnding == None \notin Ending

VARIABLES
  states,      \* #states: the Map from query id to RevisionState
  insertions,  \* number of Map.set calls so far
  now,         \* Date.now()
  ended        \* history: the last revisioned unsubscribe accepted for each id

revisionVars == <<states, insertions, now, ended>>

----------------------------------------------------------------------------
(* The calls a connection makes *)

subscribe(id, revision, key) ==
  LET found == Prune(states, now)
      accepted == TakesSubscribe(found, id, revision, key)
  IN  /\ insertions < MaxInsertions
      /\ states' = IF accepted THEN With(found, id, Subscribed(revision, key, insertions)) ELSE found
      /\ insertions' = IF accepted THEN insertions + 1 ELSE insertions
      /\ UNCHANGED <<now, ended>>

unsubscribe(id, revision) ==
  LET found == Prune(states, now)
      accepted == TakesUnsubscribe(found, id, revision)
      buried == accepted /\ revision # None
  IN  /\ insertions < MaxInsertions
      /\ states' = IF accepted THEN AfterUnsubscribe(found, id, revision, now, insertions) ELSE found
      /\ insertions' = IF buried THEN insertions + 1 ELSE insertions
      /\ ended' = IF buried
                  THEN [ended EXCEPT ![id] = [revision |-> revision, at |-> now, inserted |-> insertions]]
                  ELSE ended
      /\ UNCHANGED now

\* A finished subscription retires its own revision; nothing happens when it
\* is no longer the active one.
complete(id, revision) ==
  /\ IsActive(states, id, revision)
  /\ unsubscribe(id, revision)

Tick ==
  /\ now < MaxTime
  /\ now' = now + 1
  /\ UNCHANGED <<states, insertions, ended>>

RevisionsInit ==
  /\ states = [id \in {} |-> None]
  /\ insertions = 0
  /\ now = 0
  /\ ended = [id \in QueryIds |-> None]

RevisionsNext ==
  \/ \E id \in QueryIds, revision \in RevisionArgs, key \in RequestKeys : subscribe(id, revision, key)
  \/ \E id \in QueryIds, revision \in RevisionArgs : unsubscribe(id, revision)
  \/ \E id \in QueryIds, revision \in RevisionArgs : complete(id, revision)
  \/ Tick

RevisionsSpec == RevisionsInit /\ [][RevisionsNext]_revisionVars

----------------------------------------------------------------------------
(* Properties *)

\* Every entry is either an active subscription with its request and no
\* tombstone time, or a tombstone that remembers the revision it buried;
\* insertion numbers are those of past insertions (RevisionState, lines 4-9).
RevisionsTypeOK ==
  /\ DOMAIN states \subseteq QueryIds
  /\ states \in [DOMAIN states -> RevisionState]
  /\ \A id \in DOMAIN states :
       /\ states[id].inserted < insertions
       /\ states[id].active <=> states[id].tombstoneAt = None
       /\ states[id].active <=> states[id].requestKey # None
       /\ ~states[id].active => states[id].revision # None
  /\ insertions \in 0..MaxInsertions
  /\ now \in 0..MaxTime
  /\ ended \in [QueryIds -> Ending \cup {None}]

\* However many query ids a client retires, the table keeps at most
\* maximumTombstones tombstones between two calls (prune, lines 63-71).
TombstoneBound == Cardinality(Tombstones(states)) <= MaximumTombstones

\* The ids whose revisioned unsubscribe was accepted after the one of id, and
\* whether a tombstone may be forgotten at time t: it was retained for the whole
\* retention period, or maximumTombstones other ids were retired since.
EndedAfter(e, id) == {o \in QueryIds : e[o] # None /\ e[o].inserted > e[id].inserted}
Forgettable(e, t, id) ==
  \/ t - e[id].at >= RetentionMs
  \/ Cardinality(EndedAfter(e, id)) >= MaximumTombstones

\* A subscribe that arrives after an accepted unsubscribe of the same or a
\* higher revision, or without a revision, takes effect only once that
\* unsubscribe may be forgotten: a delayed or duplicated subscribe cannot revive
\* a query before that (tombstones, lines 31-56 and 63-71).
LateSubscribeRefused ==
  \A id \in QueryIds :
    /\ ended[id] # None
    /\ Active(states, id)
    /\ states[id].revision # None => states[id].revision <= ended[id].revision
    => Forgettable(ended, now, id)

\* No call for a remembered revision lowers it, turns it into a legacy entry or
\* makes an equal revision active again, and no active revision disappears: the
\* only way round the order of revisions is a tombstone that may be forgotten
\* (lines 34-36, 45-47 and 63-71).
Supersedes(after, before) ==
  /\ after.revision # None
  /\ after.revision >= before.revision
  /\ after.active /\ ~before.active => after.revision > before.revision
RevisionStep(id) ==
  IF id \in DOMAIN states'
  THEN Supersedes(states'[id], states[id]) \/ (~states[id].active /\ Forgettable(ended, now, id))
  ELSE ~states[id].active /\ Forgettable(ended', now', id)
RevisionPrecedence ==
  [][\A id \in DOMAIN states : states[id].revision # None => RevisionStep(id)]_revisionVars

----------------------------------------------------------------------------
(* The inductive invariant behind the three invariants above *)

\* No two entries were inserted by the same call.
Distinct(s) == \A i, j \in DOMAIN s : s[i].inserted = s[j].inserted => i = j

\* Every tombstone is the record of its id's last revisioned unsubscribe.
Matched(s, e) ==
  \A id \in Tombstones(s) :
    /\ e[id] # None
    /\ e[id].revision = s[id].revision
    /\ e[id].at = s[id].tombstoneAt
    /\ e[id].inserted = s[id].inserted

\* Every unsubscribe is still outranked by the entry of its id, or may be forgotten.
Outranks(s, e, id) ==
  /\ Revisioned(s, id)
  /\ IF s[id].active THEN s[id].revision > e[id].revision ELSE s[id].revision >= e[id].revision
Remembered(s, e, t) ==
  \A id \in QueryIds : e[id] # None => Outranks(s, e, id) \/ Forgettable(e, t, id)

\* The strengthening of LateSubscribeRefused and TombstoneBound that every call
\* of lines 31-71 preserves.
RevisionsInv ==
  /\ RevisionsTypeOK
  /\ TombstoneBound
  /\ Distinct(states)
  /\ Matched(states, ended)
  /\ Remembered(states, ended, now)
  /\ \A id \in QueryIds : ended[id] # None => ended[id].inserted < insertions

=============================================================================
