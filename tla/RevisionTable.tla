--------------------------- MODULE RevisionTable ---------------------------
(***************************************************************************)
(* Source/Core/queries/observable/SubscriptionRevisions.ts: the table with *)
(* which a hub connection decides whether a subscribe or unsubscribe       *)
(* control message still counts, and its methods as functions of the       *)
(* table.  SubscriptionRevisions drives the table on its own;              *)
(* HubConnection uses it as the code does.                                 *)
(*                                                                         *)
(* A JavaScript Map is a function on the ids it holds; its iteration       *)
(* order, which prune depends on, is the entries' insertion number.        *)
(***************************************************************************)
EXTENDS Integers, FiniteSets

CONSTANTS
  QueryIds,           \* the query ids a client uses on one connection
  RequestKeys,        \* the serialised subscription requests
  MaximumTombstones,  \* SubscriptionRevisions.maximumTombstones
  RetentionMs,        \* how long a tombstone is retained
  None,               \* undefined
  MaxRevision,        \* bound: the highest revision a client sends
  MaxTime             \* bound: the last value of Date.now()

ASSUME QueryIdsFinite == IsFiniteSet(QueryIds)
ASSUME TombstonesNat == MaximumTombstones \in Nat \ {0}
ASSUME RetentionPositive == RetentionMs \in Nat \ {0}
ASSUME NoneIsUndefined == None \notin Int \cup RequestKeys
ASSUME BoundsNat == MaxRevision \in Nat /\ MaxTime \in Nat

\* valid(): a revision on the wire is a positive integer; absent means legacy.
Revisions == 1..MaxRevision
RevisionArgs == Revisions \cup {None}

RevisionState ==
  [revision : RevisionArgs, active : BOOLEAN, requestKey : RequestKeys \cup {None},
   tombstoneAt : Nat \cup {None}, inserted : Nat]

----------------------------------------------------------------------------
(* The Map *)

Without(s, ids) == [id \in DOMAIN s \ ids |-> s[id]]
With(s, id, state) == [i \in DOMAIN s \cup {id} |-> IF i = id THEN state ELSE s[i]]

Revisioned(s, id) == id \in DOMAIN s /\ s[id].revision # None
Active(s, id) == id \in DOMAIN s /\ s[id].active

----------------------------------------------------------------------------
(* The methods, as functions of the table *)

ActiveIds(s) == {id \in DOMAIN s : s[id].active}
activeCount(s) == Cardinality(ActiveIds(s))

IsActive(s, id, revision) == Active(s, id) /\ s[id].revision = revision

Tombstones(s) == {id \in DOMAIN s : ~s[id].active /\ s[id].tombstoneAt # None}

Expired(s, t) == {id \in Tombstones(s) : t - s[id].tombstoneAt >= RetentionMs}

\* All but the MaximumTombstones most recently inserted tombstones.
CrowdedOutLoose(s) ==
  {id \in Tombstones(s) :
     Cardinality({o \in Tombstones(s) : s[o].inserted > s[id].inserted}) > MaximumTombstones}
CrowdedOutNewest(s) ==
  {id \in Tombstones(s) :
     Cardinality({o \in Tombstones(s) : s[o].inserted <= s[id].inserted}) > MaximumTombstones}
CrowdedOut(s) ==
  {id \in Tombstones(s) :
     Cardinality({o \in Tombstones(s) : s[o].inserted >= s[id].inserted}) > MaximumTombstones}

Prune(s, t) ==
  LET retained == Without(s, Expired(s, t))
  IN  Without(retained, CrowdedOut(retained))

\* Whether a subscribe or an unsubscribe that found the table s is accepted.
TakesSubscribeEqual(s, id, revision, key) ==
  IF Revisioned(s, id)
  THEN revision # None /\ revision >= s[id].revision
  ELSE ~(revision = None /\ Active(s, id) /\ s[id].requestKey = key)
TakesSubscribe(s, id, revision, key) ==
  IF Revisioned(s, id)
  THEN revision # None /\ revision > s[id].revision
  ELSE ~(revision = None /\ Active(s, id) /\ s[id].requestKey = key)

TakesUnsubscribe(s, id, revision) ==
  IF Revisioned(s, id)
  THEN revision # None /\ revision >= s[id].revision
  ELSE ~(revision = None /\ ~Active(s, id))

Subscribed(revision, key, n) ==
  [revision |-> revision, active |-> TRUE, requestKey |-> key, tombstoneAt |-> None, inserted |-> n]
Tombstone(revision, t, n) ==
  [revision |-> revision, active |-> FALSE, requestKey |-> None, tombstoneAt |-> t, inserted |-> n]

\* The table after an accepted unsubscribe that found the pruned table s.
AfterUnsubscribe(s, id, revision, t, n) ==
  IF revision = None
  THEN Without(s, {id})
  ELSE Prune(With(s, id, Tombstone(revision, t, n)), t)

=============================================================================
