-------------------- MODULE SubscriptionRevisionsProofs --------------------
(* Proofs about SubscriptionRevisions, for every set of ids and every limit. *)
EXTENDS SubscriptionRevisions, FiniteSetTheorems, WellFoundedInduction, TLAPS

(***************************************************************************)
(* Tables                                                                  *)
(***************************************************************************)

\* A table of revision states: what the conjuncts of RevisionsTypeOK say of
\* states, for any function s and any bound n on its insertion numbers.
IsTable(s, n) ==
  /\ DOMAIN s \subseteq QueryIds
  /\ s \in [DOMAIN s -> RevisionState]
  /\ \A id \in DOMAIN s :
       /\ s[id].inserted < n
       /\ s[id].active <=> s[id].tombstoneAt = None
       /\ s[id].active <=> s[id].requestKey # None
       /\ ~s[id].active => s[id].revision # None

\* The part of an ordered Map a deletion keeps is the Map it was.
LEMMA WithoutTable ==
  ASSUME NEW s, NEW n \in Nat, IsTable(s, n), NEW ids
  PROVE  /\ IsTable(Without(s, ids), n)
         /\ DOMAIN Without(s, ids) = DOMAIN s \ ids
         /\ \A id \in DOMAIN s \ ids : Without(s, ids)[id] = s[id]
         /\ Tombstones(Without(s, ids)) = Tombstones(s) \ ids
  BY DEF IsTable, Without, Tombstones

\* Tombstones are query ids, so there are finitely many of them.
LEMMA TombstonesFinite ==
  ASSUME NEW s, NEW n \in Nat, IsTable(s, n)
  PROVE  /\ Tombstones(s) \subseteq QueryIds
         /\ IsFiniteSet(Tombstones(s))
<1>1. Tombstones(s) \subseteq QueryIds
  BY DEF Tombstones, IsTable
<1>2. QED
  BY <1>1, QueryIdsFinite, FS_Subset

\* A non-empty set of tombstones has an oldest member.
LEMMA OldestTombstone ==
  ASSUME NEW s, NEW n \in Nat, IsTable(s, n),
         NEW K \in SUBSET Tombstones(s), K # {}
  PROVE  \E id \in K : \A o \in K : s[o].inserted >= s[id].inserted
<1> DEFINE stamps == {s[id].inserted : id \in K}
           R == OpToRel(<, Nat)
<1>1. stamps \subseteq Nat /\ stamps # {}
  BY DEF IsTable, Tombstones, RevisionState
<1>2. PICK m \in stamps : \A y \in stamps : ~(<<y, m>> \in R)
  <2>1. IsWellFoundedOn(R, Nat)
    BY NatLessThanWellFounded
  <2> HIDE DEF stamps, R
  <2>2. QED
    BY <1>1, <2>1, WFMin
<1>3. PICK id \in K : s[id].inserted = m
  BY <1>2
<1>4. \A o \in K : s[o].inserted \in Nat
  BY <1>1
<1>5. \A o \in K : ~(s[o].inserted < s[id].inserted)
  BY <1>1, <1>2, <1>3 DEF OpToRel
<1> HIDE DEF stamps, R
<1>6. \A o \in K : s[o].inserted >= s[id].inserted
  BY <1>4, <1>5
<1>7. QED
  BY <1>6

\* prune keeps entries as they are, drops only tombstones that expired or that
\* have too many tombstones at or after them, and leaves at most
\* MaximumTombstones tombstones.
LEMMA PruneTable ==
  ASSUME NEW s, NEW n \in Nat, IsTable(s, n), NEW t \in Nat
  PROVE  /\ IsTable(Prune(s, t), n)
         /\ DOMAIN Prune(s, t) \subseteq DOMAIN s
         /\ \A id \in DOMAIN Prune(s, t) : Prune(s, t)[id] = s[id]
         /\ \A id \in DOMAIN s \ DOMAIN Prune(s, t) :
              /\ id \in Tombstones(s)
              /\ \/ t - s[id].tombstoneAt >= RetentionMs
                 \/ Cardinality({o \in Tombstones(s) : s[o].inserted >= s[id].inserted})
                      > MaximumTombstones
         /\ Cardinality(Tombstones(Prune(s, t))) <= MaximumTombstones
<1> DEFINE r == Without(s, Expired(s, t))
           p == Without(r, CrowdedOut(r))
<1>1. /\ IsTable(r, n)
      /\ DOMAIN r = DOMAIN s \ Expired(s, t)
      /\ \A id \in DOMAIN r : r[id] = s[id]
      /\ Tombstones(r) = Tombstones(s) \ Expired(s, t)
  <2>1. /\ IsTable(Without(s, Expired(s, t)), n)
        /\ DOMAIN Without(s, Expired(s, t)) = DOMAIN s \ Expired(s, t)
        /\ \A id \in DOMAIN s \ Expired(s, t) : Without(s, Expired(s, t))[id] = s[id]
        /\ Tombstones(Without(s, Expired(s, t))) = Tombstones(s) \ Expired(s, t)
    BY WithoutTable, Zenon
  <2>2. QED
    BY <2>1
<1> HIDE DEF r
<1>2. /\ IsTable(p, n)
      /\ DOMAIN p = DOMAIN r \ CrowdedOut(r)
      /\ \A id \in DOMAIN p : p[id] = r[id]
      /\ Tombstones(p) = Tombstones(r) \ CrowdedOut(r)
  <2>1. /\ IsTable(Without(r, CrowdedOut(r)), n)
        /\ DOMAIN Without(r, CrowdedOut(r)) = DOMAIN r \ CrowdedOut(r)
        /\ \A id \in DOMAIN r \ CrowdedOut(r) : Without(r, CrowdedOut(r))[id] = r[id]
        /\ Tombstones(Without(r, CrowdedOut(r))) = Tombstones(r) \ CrowdedOut(r)
    BY <1>1, WithoutTable, Zenon
  <2>2. QED
    BY <2>1
<1> HIDE DEF p
<1>3. Prune(s, t) = p
  BY DEF Prune, r, p
<1>4. \A id \in DOMAIN s \ DOMAIN p :
        /\ id \in Tombstones(s)
        /\ \/ t - s[id].tombstoneAt >= RetentionMs
           \/ Cardinality({o \in Tombstones(s) : s[o].inserted >= s[id].inserted})
                > MaximumTombstones
  <2> TAKE id \in DOMAIN s \ DOMAIN p
  <2>1. CASE id \in Expired(s, t)
    BY <2>1 DEF Expired
  <2>2. CASE id \notin Expired(s, t)
    <3> DEFINE inR == {o \in Tombstones(r) : r[o].inserted >= r[id].inserted}
               inS == {o \in Tombstones(s) : s[o].inserted >= s[id].inserted}
    <3>1. id \in CrowdedOut(r) /\ id \in Tombstones(r) /\ id \in Tombstones(s)
      BY <1>1, <1>2, <2>2 DEF CrowdedOut
    <3>2. Cardinality(inR) > MaximumTombstones
      BY <3>1 DEF CrowdedOut
    <3>3. inR \subseteq inS
      BY <1>1, <3>1 DEF Tombstones
    <3>4. IsFiniteSet(inS)
      BY TombstonesFinite, FS_Subset
    <3> HIDE DEF inR, inS
    <3>5. Cardinality(inR) <= Cardinality(inS) /\ Cardinality(inR) \in Nat /\ Cardinality(inS) \in Nat
      BY <3>3, <3>4, FS_Subset, FS_CardinalityType
    <3>6. Cardinality(inS) > MaximumTombstones
      BY <3>2, <3>5, TombstonesNat
    <3>7. QED
      BY <3>1, <3>6 DEF inS
  <2>3. QED
    BY <2>1, <2>2
<1>5. Cardinality(Tombstones(p)) <= MaximumTombstones
  <2>1. CASE Tombstones(p) = {}
    BY <2>1, FS_EmptySet, TombstonesNat
  <2>2. CASE Tombstones(p) # {}
    <3>1. Tombstones(p) \in SUBSET Tombstones(r)
      BY <1>2
    <3>2. PICK id \in Tombstones(p) : \A o \in Tombstones(p) : r[o].inserted >= r[id].inserted
      BY <1>1, <2>2, <3>1, OldestTombstone
    <3> DEFINE later == {o \in Tombstones(r) : r[o].inserted >= r[id].inserted}
    <3>3. IsFiniteSet(later)
      BY <1>1, TombstonesFinite, FS_Subset
    <3>4. Tombstones(p) \subseteq later
      BY <3>1, <3>2
    <3>5. ~(Cardinality(later) > MaximumTombstones)
      BY <1>2, <3>1 DEF CrowdedOut
    <3> HIDE DEF later
    <3>6. Cardinality(Tombstones(p)) <= Cardinality(later)
          /\ Cardinality(later) \in Nat /\ Cardinality(Tombstones(p)) \in Nat
      BY <3>3, <3>4, FS_Subset, FS_CardinalityType
    <3>7. QED
      BY <3>5, <3>6, TombstonesNat
  <2>3. QED
    BY <2>1, <2>2
<1>6. QED
  BY <1>1, <1>2, <1>3, <1>4, <1>5

(***************************************************************************)
(* Forgetting                                                              *)
(***************************************************************************)

Endings == [QueryIds -> Ending \cup {None}]

\* What prune drops may be forgotten: it was retained long enough, or at least
\* MaximumTombstones unsubscribes of other ids came after it.
LEMMA DroppedForgettable ==
  ASSUME NEW s, NEW n \in Nat, IsTable(s, n), NEW t \in Nat,
         NEW e \in Endings, Matched(s, e), Distinct(s),
         NEW id \in DOMAIN s, id \notin DOMAIN Prune(s, t)
  PROVE  Forgettable(e, t, id)
<1> DEFINE late == {o \in Tombstones(s) : s[o].inserted >= s[id].inserted}
<1>1. /\ id \in Tombstones(s)
      /\ \/ t - s[id].tombstoneAt >= RetentionMs
         \/ Cardinality(late) > MaximumTombstones
  BY PruneTable
<1>2. CASE t - s[id].tombstoneAt >= RetentionMs
  BY <1>1, <1>2 DEF Matched, Forgettable
<1>3. CASE Cardinality(late) > MaximumTombstones
  <2>1. late \ {id} \subseteq EndedAfter(e, id)
    <3> SUFFICES ASSUME NEW o \in late, o # id
                 PROVE  o \in EndedAfter(e, id)
      OBVIOUS
    <3>1. s[o].inserted \in Nat /\ s[id].inserted \in Nat /\ o \in DOMAIN s /\ o \in QueryIds
      BY <1>1 DEF IsTable, RevisionState, Tombstones
    <3>2. s[o].inserted > s[id].inserted
      BY <3>1 DEF Distinct
    <3>3. QED
      BY <1>1, <3>1, <3>2 DEF Matched, EndedAfter
  <2>2. IsFiniteSet(late) /\ id \in late
    <3>1. id \in late
      BY <1>1 DEF IsTable, RevisionState, Tombstones
    <3>2. QED
      BY <3>1, TombstonesFinite, FS_Subset
  <2>3. IsFiniteSet(EndedAfter(e, id))
    BY QueryIdsFinite, FS_Subset DEF EndedAfter
  <2> HIDE DEF late
  <2>4. Cardinality(late \ {id}) = Cardinality(late) - 1
    BY <2>2, FS_RemoveElement
  <2>5. Cardinality(late \ {id}) <= Cardinality(EndedAfter(e, id))
    BY <2>1, <2>3, FS_Subset
  <2>6. Cardinality(late) \in Nat /\ Cardinality(EndedAfter(e, id)) \in Nat
    BY <2>2, <2>3, FS_CardinalityType
  <2>7. Cardinality(EndedAfter(e, id)) >= MaximumTombstones
    BY <1>3, <2>4, <2>5, <2>6, TombstonesNat
  <2>8. QED
    BY <2>7 DEF Forgettable
<1>4. QED
  BY <1>1, <1>2, <1>3

\* What the invariant says of a table, its history and the time.
Consistent(s, e, t, n) ==
  /\ IsTable(s, n)
  /\ Distinct(s)
  /\ Matched(s, e)
  /\ Remembered(s, e, t)
  /\ \A id \in QueryIds : e[id] # None => e[id].inserted < n

\* Pruning a consistent table leaves it consistent.
LEMMA PruneConsistent ==
  ASSUME NEW s, NEW n \in Nat, NEW t \in Nat, NEW e \in Endings, Consistent(s, e, t, n)
  PROVE  Consistent(Prune(s, t), e, t, n)
<1> DEFINE p == Prune(s, t)
<1> USE DEF Consistent
<1>1. /\ IsTable(p, n)
      /\ DOMAIN p \subseteq DOMAIN s
      /\ \A id \in DOMAIN p : p[id] = s[id]
  BY PruneTable
<1>2. \A id \in DOMAIN s : id \notin DOMAIN p => Forgettable(e, t, id)
  BY DroppedForgettable
<1> HIDE DEF p
<1>3. Distinct(p)
  BY <1>1 DEF Distinct
<1>4. Matched(p, e)
  BY <1>1 DEF Matched, Tombstones
<1>5. Remembered(p, e, t)
  <2> SUFFICES ASSUME NEW id \in QueryIds, e[id] # None, ~Forgettable(e, t, id)
               PROVE  Outranks(p, e, id)
    BY DEF Remembered
  <2>1. Outranks(s, e, id)
    BY DEF Remembered
  <2>2. id \in DOMAIN p
    BY <1>2, <2>1 DEF Outranks, Revisioned
  <2>3. QED
    BY <1>1, <2>1, <2>2 DEF Outranks, Revisioned
<1>6. QED
  BY <1>1, <1>3, <1>4, <1>5 DEF p

\* An unsubscribe that may be forgotten stays so while time passes and other ids
\* are retired.
LEMMA ForgettableLasts ==
  ASSUME NEW e \in Endings, NEW f \in Endings, NEW t \in Nat, NEW u \in Nat, u >= t,
         NEW id \in QueryIds, e[id] # None, f[id] = e[id],
         \A o \in QueryIds : e[o] # None => f[o] # None /\ f[o].inserted >= e[o].inserted,
         Forgettable(e, t, id)
  PROVE  Forgettable(f, u, id)
<1>1. e[id].at \in Nat /\ e[id].inserted \in Nat
  BY DEF Endings, Ending
<1>2. CASE t - e[id].at >= RetentionMs
  BY <1>1, <1>2, RetentionPositive DEF Forgettable
<1>3. CASE Cardinality(EndedAfter(e, id)) >= MaximumTombstones
  <2>1. EndedAfter(e, id) \subseteq EndedAfter(f, id)
    <3> SUFFICES ASSUME NEW o \in EndedAfter(e, id)
                 PROVE  o \in EndedAfter(f, id)
      OBVIOUS
    <3>1. /\ o \in QueryIds /\ e[o] # None /\ e[o].inserted > e[id].inserted
          /\ f[o] # None /\ f[o].inserted >= e[o].inserted
      BY DEF EndedAfter
    <3>2. e[o].inserted \in Nat /\ f[o].inserted \in Nat
      BY <3>1 DEF Endings, Ending
    <3>3. f[o].inserted > f[id].inserted
      BY <1>1, <3>1, <3>2
    <3>4. QED
      BY <3>1, <3>3 DEF EndedAfter
  <2>2. IsFiniteSet(EndedAfter(f, id))
    BY QueryIdsFinite, FS_Subset DEF EndedAfter
  <2>3. /\ Cardinality(EndedAfter(e, id)) <= Cardinality(EndedAfter(f, id))
        /\ Cardinality(EndedAfter(e, id)) \in Nat /\ Cardinality(EndedAfter(f, id)) \in Nat
    BY <2>1, <2>2, FS_Subset, FS_CardinalityType
  <2>4. Cardinality(EndedAfter(f, id)) >= MaximumTombstones
    BY <1>3, <2>3, TombstonesNat
  <2>5. QED
    BY <2>4 DEF Forgettable
<1>4. QED
  BY <1>2, <1>3 DEF Forgettable

(***************************************************************************)
(* What an accepted call does to a consistent table                        *)
(***************************************************************************)

\* An accepted subscribe outranks every unsubscribe that may not be forgotten.
LEMMA SubscribeConsistent ==
  ASSUME NEW s, NEW n \in Nat, NEW t \in Nat, NEW e \in Endings, Consistent(s, e, t, n),
         NEW id \in QueryIds, NEW revision \in RevisionArgs, NEW key \in RequestKeys,
         TakesSubscribe(s, id, revision, key)
  PROVE  /\ Consistent(With(s, id, Subscribed(revision, key, n)), e, t, n + 1)
         /\ Tombstones(With(s, id, Subscribed(revision, key, n))) = Tombstones(s) \ {id}
<1> DEFINE new == Subscribed(revision, key, n)
           w == With(s, id, new)
<1> USE DEF Consistent
<1>1. /\ new \in RevisionState /\ new.active /\ new.revision = revision /\ new.inserted = n
      /\ new.tombstoneAt = None /\ new.requestKey # None
  BY NoneIsUndefined DEF Subscribed, RevisionState
<1> HIDE DEF new
<1>2. /\ DOMAIN w = DOMAIN s \cup {id} /\ w[id] = new
      /\ \A o \in DOMAIN s : o # id => w[o] = s[o]
      /\ w \in [DOMAIN w -> RevisionState]
  BY <1>1 DEF With, IsTable
<1> HIDE DEF w
<1>3. \A o \in DOMAIN s : s[o].inserted \in Nat /\ s[o].inserted < n
  BY DEF IsTable, RevisionState
<1>4. IsTable(w, n + 1)
  BY <1>1, <1>2, <1>3 DEF IsTable
<1>5. Distinct(w)
  BY <1>1, <1>2, <1>3 DEF Distinct
<1>6. Tombstones(w) = Tombstones(s) \ {id}
  BY <1>1, <1>2 DEF Tombstones
<1>7. Matched(w, e)
  BY <1>2, <1>6 DEF Matched, Tombstones
<1>8. Remembered(w, e, t)
  <2> SUFFICES ASSUME NEW o \in QueryIds, e[o] # None, ~Forgettable(e, t, o)
               PROVE  Outranks(w, e, o)
    BY DEF Remembered
  <2>1. Outranks(s, e, o)
    BY DEF Remembered
  <2>2. CASE o # id
    BY <1>2, <2>1, <2>2 DEF Outranks, Revisioned
  <2>3. CASE o = id
    <3>1. revision # None /\ revision > s[id].revision
      BY <2>1, <2>3 DEF TakesSubscribe, Outranks
    <3>2. s[id].revision \in Nat /\ e[id].revision \in Nat /\ revision \in Nat
      BY <2>1, <2>3, <3>1, NoneIsUndefined
         DEF Outranks, Revisioned, IsTable, RevisionState, RevisionArgs, Revisions, Endings, Ending
    <3>3. s[id].revision >= e[id].revision
      BY <2>1, <2>3, <3>2 DEF Outranks
    <3>4. QED
      BY <1>1, <1>2, <2>3, <3>1, <3>2, <3>3 DEF Outranks, Revisioned
  <2>4. QED
    BY <2>2, <2>3
<1>9. \A o \in QueryIds : e[o] # None => e[o].inserted < n + 1
  BY DEF Endings, Ending
<1>10. QED
  BY <1>4, <1>5, <1>6, <1>7, <1>8, <1>9 DEF w, new

\* An accepted unsubscribe with a revision leaves its own tombstone and disturbs
\* no other entry.
LEMMA BuryConsistent ==
  ASSUME NEW s, NEW n \in Nat, NEW t \in Nat, NEW e \in Endings, Consistent(s, e, t, n),
         NEW id \in QueryIds, NEW revision \in Revisions,
         NEW f \in Endings,
         f = [e EXCEPT ![id] = [revision |-> revision, at |-> t, inserted |-> n]]
  PROVE  Consistent(With(s, id, Tombstone(revision, t, n)), f, t, n + 1)
<1> DEFINE new == Tombstone(revision, t, n)
           w == With(s, id, new)
<1> USE DEF Consistent
<1>1. /\ new \in RevisionState /\ ~new.active /\ new.revision = revision /\ new.inserted = n
      /\ new.tombstoneAt = t /\ new.tombstoneAt # None /\ new.requestKey = None /\ new.revision # None
  BY NoneIsUndefined, BoundsNat DEF Tombstone, RevisionState, RevisionArgs, Revisions
<1> HIDE DEF new
<1>2. /\ DOMAIN w = DOMAIN s \cup {id} /\ w[id] = new
      /\ \A o \in DOMAIN s : o # id => w[o] = s[o]
      /\ w \in [DOMAIN w -> RevisionState]
  BY <1>1 DEF With, IsTable
<1> HIDE DEF w
<1>3. \A o \in DOMAIN s : s[o].inserted \in Nat /\ s[o].inserted < n
  BY DEF IsTable, RevisionState
<1>4. /\ f[id].revision = revision /\ f[id].at = t /\ f[id].inserted = n /\ f[id] # None
      /\ \A o \in QueryIds : o # id => f[o] = e[o]
  <2>1. [revision |-> revision, at |-> t, inserted |-> n] \in Ending
    BY BoundsNat DEF Ending, Revisions
  <2>2. f[id] = [revision |-> revision, at |-> t, inserted |-> n]
    BY DEF Endings
  <2>3. f[id] # None
    BY <2>1, <2>2, NoneIsNoEnding
  <2>4. QED
    BY <2>2, <2>3 DEF Endings
<1>5. IsTable(w, n + 1)
  BY <1>1, <1>2, <1>3 DEF IsTable
<1>6. Distinct(w)
  BY <1>1, <1>2, <1>3 DEF Distinct
<1>7. Matched(w, f)
  BY <1>1, <1>2, <1>4 DEF Matched, Tombstones, IsTable
<1>8. \A o \in QueryIds : e[o] # None => f[o] # None /\ f[o].inserted >= e[o].inserted
  BY <1>4 DEF Endings, Ending
<1>9. Remembered(w, f, t)
  <2> SUFFICES ASSUME NEW o \in QueryIds, f[o] # None
               PROVE  Outranks(w, f, o) \/ Forgettable(f, t, o)
    BY DEF Remembered
  <2>1. CASE o = id
    BY <1>1, <1>2, <1>4, <2>1, BoundsNat DEF Outranks, Revisioned, Revisions
  <2>2. CASE o # id /\ Outranks(s, e, o)
    BY <1>2, <1>4, <2>2 DEF Outranks, Revisioned
  <2>3. CASE o # id /\ ~Outranks(s, e, o)
    <3>1. f[o] = e[o] /\ e[o] # None /\ Forgettable(e, t, o)
      BY <1>4, <2>3 DEF Remembered
    <3>2. t >= t
      OBVIOUS
    <3>3. QED
      BY <1>8, <3>1, <3>2, ForgettableLasts, Zenon
  <2>4. QED
    BY <2>1, <2>2, <2>3
<1>10. \A o \in QueryIds : f[o] # None => f[o].inserted < n + 1
  BY <1>4 DEF Endings, Ending
<1>11. QED
  BY <1>5, <1>6, <1>7, <1>9, <1>10 DEF w, new

\* An accepted legacy unsubscribe removes an entry that outranked nothing.
LEMMA LegacyUnsubscribeConsistent ==
  ASSUME NEW s, NEW n \in Nat, NEW t \in Nat, NEW e \in Endings, Consistent(s, e, t, n),
         NEW id \in QueryIds, ~Revisioned(s, id)
  PROVE  /\ Consistent(Without(s, {id}), e, t, n)
         /\ Tombstones(Without(s, {id})) = Tombstones(s) \ {id}
<1> DEFINE w == Without(s, {id})
<1> USE DEF Consistent
<1>1. /\ IsTable(w, n)
      /\ DOMAIN w = DOMAIN s \ {id}
      /\ \A o \in DOMAIN s \ {id} : w[o] = s[o]
      /\ Tombstones(w) = Tombstones(s) \ {id}
  BY WithoutTable, Zenon
<1> HIDE DEF w
<1>2. Distinct(w) /\ Matched(w, e)
  BY <1>1 DEF Distinct, Matched, Tombstones
<1>3. Remembered(w, e, t)
  BY <1>1 DEF Remembered, Outranks, Revisioned
<1>4. QED
  BY <1>1, <1>2, <1>3 DEF w

(***************************************************************************)
(* The theorems                                                            *)
(***************************************************************************)

Typed ==
  /\ insertions \in 0..MaxInsertions
  /\ now \in 0..MaxTime
  /\ ended \in Endings

\* The inductive invariant, in the terms of the lemmas above.
LEMMA InvIsConsistent ==
  RevisionsInv <=> Typed /\ TombstoneBound /\ Consistent(states, ended, now, insertions)
  BY DEF RevisionsInv, RevisionsTypeOK, Typed, Consistent, IsTable, Endings

\* Pruning before a call leaves a consistent table with few enough tombstones.
LEMMA FoundTable ==
  ASSUME RevisionsInv
  PROVE  /\ insertions \in Nat /\ now \in Nat /\ ended \in Endings
         /\ Consistent(Prune(states, now), ended, now, insertions)
         /\ Cardinality(Tombstones(Prune(states, now))) <= MaximumTombstones
         /\ IsFiniteSet(Tombstones(Prune(states, now)))
<1>1. insertions \in Nat /\ now \in Nat /\ ended \in Endings
  BY InvIsConsistent, BoundsNat, InsertionsNat DEF Typed
<1>2. Consistent(states, ended, now, insertions)
  BY InvIsConsistent
<1>3. Consistent(Prune(states, now), ended, now, insertions)
  BY <1>1, <1>2, PruneConsistent
<1>4. Cardinality(Tombstones(Prune(states, now))) <= MaximumTombstones
  BY <1>1, <1>2, PruneTable DEF Consistent
<1>5. IsFiniteSet(Tombstones(Prune(states, now)))
  BY <1>1, <1>3, TombstonesFinite DEF Consistent
<1>6. QED
  BY <1>1, <1>3, <1>4, <1>5

\* Removing a tombstone keeps the bound.
LEMMA FewerTombstones ==
  ASSUME NEW T, IsFiniteSet(T), Cardinality(T) <= MaximumTombstones, NEW id
  PROVE  Cardinality(T \ {id}) <= MaximumTombstones
<1>1. T \ {id} \subseteq T
  OBVIOUS
<1>2. Cardinality(T \ {id}) <= Cardinality(T) /\ Cardinality(T \ {id}) \in Nat /\ Cardinality(T) \in Nat
  BY <1>1, FS_Subset, FS_CardinalityType
<1>3. QED
  BY <1>2, TombstonesNat

\* Every subscribe preserves the inductive invariant.
LEMMA SubscribePreserves ==
  ASSUME RevisionsInv, NEW id \in QueryIds, NEW revision \in RevisionArgs,
         NEW key \in RequestKeys, subscribe(id, revision, key)
  PROVE  RevisionsInv'
<1> DEFINE found == Prune(states, now)
           w == With(found, id, Subscribed(revision, key, insertions))
<1>1. /\ insertions \in Nat /\ now \in Nat /\ ended \in Endings
      /\ Consistent(found, ended, now, insertions)
      /\ Cardinality(Tombstones(found)) <= MaximumTombstones
      /\ IsFiniteSet(Tombstones(found))
  BY FoundTable
<1>2. UNCHANGED <<now, ended>> /\ insertions < MaxInsertions
  BY DEF subscribe
<1>3. CASE TakesSubscribe(found, id, revision, key)
  <2>1. states' = w /\ insertions' = insertions + 1
    BY <1>3 DEF subscribe
  <2> HIDE DEF found
  <2>2. Consistent(w, ended, now, insertions + 1) /\ Tombstones(w) = Tombstones(found) \ {id}
    BY <1>1, <1>3, SubscribeConsistent
  <2> HIDE DEF w
  <2>3. Cardinality(Tombstones(w)) <= MaximumTombstones
    BY <1>1, <2>2, FewerTombstones
  <2>4. Typed'
    BY <1>1, <1>2, <2>1, InvIsConsistent, BoundsNat, InsertionsNat DEF Typed
  <2>5. (TombstoneBound /\ Consistent(states, ended, now, insertions))'
    BY <1>2, <2>1, <2>2, <2>3 DEF TombstoneBound, Consistent, IsTable, Tombstones, Distinct,
       Matched, Remembered, Outranks, Revisioned, Forgettable, EndedAfter
  <2>6. QED
    BY <2>4, <2>5, InvIsConsistent, PTL
<1>4. CASE ~TakesSubscribe(found, id, revision, key)
  <2>1. states' = found /\ insertions' = insertions
    BY <1>4 DEF subscribe
  <2> HIDE DEF found
  <2>2. Typed'
    BY <1>2, <2>1, InvIsConsistent DEF Typed
  <2>3. (TombstoneBound /\ Consistent(states, ended, now, insertions))'
    BY <1>1, <1>2, <2>1 DEF TombstoneBound, Consistent, IsTable, Tombstones, Distinct,
       Matched, Remembered, Outranks, Revisioned, Forgettable, EndedAfter
  <2>4. QED
    BY <2>2, <2>3, InvIsConsistent, PTL
<1>5. QED
  BY <1>3, <1>4

\* Every unsubscribe preserves the inductive invariant.
LEMMA UnsubscribePreserves ==
  ASSUME RevisionsInv, NEW id \in QueryIds, NEW revision \in RevisionArgs, unsubscribe(id, revision)
  PROVE  RevisionsInv'
<1> DEFINE found == Prune(states, now)
           buried == With(found, id, Tombstone(revision, now, insertions))
           f == [ended EXCEPT ![id] = [revision |-> revision, at |-> now, inserted |-> insertions]]
<1>1. /\ insertions \in Nat /\ now \in Nat /\ ended \in Endings
      /\ Consistent(found, ended, now, insertions)
      /\ Cardinality(Tombstones(found)) <= MaximumTombstones
      /\ IsFiniteSet(Tombstones(found))
  BY FoundTable
<1>2. now' = now /\ insertions < MaxInsertions
  BY DEF unsubscribe
<1>3. CASE TakesUnsubscribe(found, id, revision) /\ revision # None
  <2>1. states' = Prune(buried, now) /\ insertions' = insertions + 1 /\ ended' = f
    BY <1>3 DEF unsubscribe, AfterUnsubscribe
  <2>2. f \in Endings /\ revision \in Revisions
    BY <1>1, <1>3, BoundsNat DEF Endings, Ending, RevisionArgs, Revisions
  <2> HIDE DEF found
  <2>3. Consistent(buried, f, now, insertions + 1)
    BY <1>1, <2>2, BuryConsistent
  <2> HIDE DEF buried, f
  <2>4. Consistent(Prune(buried, now), f, now, insertions + 1)
    BY <1>1, <2>2, <2>3, PruneConsistent
  <2>5. Cardinality(Tombstones(Prune(buried, now))) <= MaximumTombstones
    BY <1>1, <2>3, PruneTable DEF Consistent
  <2>6. Typed'
    BY <1>1, <1>2, <2>1, <2>2, InvIsConsistent, BoundsNat, InsertionsNat DEF Typed
  <2>7. (TombstoneBound /\ Consistent(states, ended, now, insertions))'
    BY <1>2, <2>1, <2>4, <2>5 DEF TombstoneBound, Consistent, IsTable, Tombstones, Distinct,
       Matched, Remembered, Outranks, Revisioned, Forgettable, EndedAfter
  <2>8. QED
    BY <2>6, <2>7, InvIsConsistent, PTL
<1>4. CASE TakesUnsubscribe(found, id, revision) /\ revision = None
  <2> DEFINE w == Without(found, {id})
  <2>1. states' = w /\ insertions' = insertions /\ ended' = ended
    BY <1>4 DEF unsubscribe, AfterUnsubscribe
  <2>2. ~Revisioned(found, id)
    BY <1>4 DEF TakesUnsubscribe
  <2> HIDE DEF found
  <2>3. Consistent(w, ended, now, insertions) /\ Tombstones(w) = Tombstones(found) \ {id}
    BY <1>1, <2>2, LegacyUnsubscribeConsistent
  <2> HIDE DEF w
  <2>4. Cardinality(Tombstones(w)) <= MaximumTombstones
    BY <1>1, <2>3, FewerTombstones
  <2>5. Typed'
    BY <1>2, <2>1, InvIsConsistent DEF Typed
  <2>6. (TombstoneBound /\ Consistent(states, ended, now, insertions))'
    BY <1>2, <2>1, <2>3, <2>4 DEF TombstoneBound, Consistent, IsTable, Tombstones, Distinct,
       Matched, Remembered, Outranks, Revisioned, Forgettable, EndedAfter
  <2>7. QED
    BY <2>5, <2>6, InvIsConsistent, PTL
<1>5. CASE ~TakesUnsubscribe(found, id, revision)
  <2>1. states' = found /\ insertions' = insertions /\ ended' = ended
    BY <1>5 DEF unsubscribe
  <2> HIDE DEF found
  <2>2. Typed'
    BY <1>2, <2>1, InvIsConsistent DEF Typed
  <2>3. (TombstoneBound /\ Consistent(states, ended, now, insertions))'
    BY <1>1, <1>2, <2>1 DEF TombstoneBound, Consistent, IsTable, Tombstones, Distinct,
       Matched, Remembered, Outranks, Revisioned, Forgettable, EndedAfter
  <2>4. QED
    BY <2>2, <2>3, InvIsConsistent, PTL
<1>6. QED
  BY <1>3, <1>4, <1>5

\* The passing of time preserves the inductive invariant.
LEMMA TickPreserves ==
  ASSUME RevisionsInv, Tick
  PROVE  RevisionsInv'
<1>1. /\ now \in Nat /\ now' \in Nat /\ now' >= now /\ now' \in 0..MaxTime
      /\ UNCHANGED <<states, insertions, ended>> /\ ended \in Endings
  BY InvIsConsistent, BoundsNat, InsertionsNat DEF Tick, Typed
<1>2. Remembered(states, ended, now')
  <2> SUFFICES ASSUME NEW id \in QueryIds, ended[id] # None, Forgettable(ended, now, id)
               PROVE  Forgettable(ended, now', id)
    BY DEF RevisionsInv, Remembered
  <2>1. \A o \in QueryIds : ended[o] # None => ended[o].inserted >= ended[o].inserted
    BY <1>1 DEF Endings, Ending
  <2>2. QED
    BY <1>1, <2>1, ForgettableLasts, Zenon
<1>3. Typed'
  BY <1>1, InvIsConsistent DEF Typed
<1>4. (TombstoneBound /\ Consistent(states, ended, now, insertions))'
  BY <1>1, <1>2, InvIsConsistent DEF TombstoneBound, Consistent, IsTable, Tombstones, Distinct,
     Matched, Remembered, Outranks, Revisioned, Forgettable, EndedAfter
<1>5. QED
  BY <1>3, <1>4, InvIsConsistent, PTL

\* The inductive invariant holds in every reachable state.
THEOREM RevisionsInvariant == RevisionsSpec => []RevisionsInv
<1>1. RevisionsInit => RevisionsInv
  <2> SUFFICES ASSUME RevisionsInit PROVE RevisionsInv
    OBVIOUS
  <2>1. Tombstones(states) = {}
    BY DEF RevisionsInit, Tombstones
  <2>2. TombstoneBound
    BY <2>1, FS_EmptySet, TombstonesNat DEF TombstoneBound
  <2>3. QED
    BY <2>1, <2>2, BoundsNat, InsertionsNat DEF RevisionsInit, RevisionsInv, RevisionsTypeOK, Distinct, Matched, Remembered
<1>2. RevisionsInv /\ [RevisionsNext]_revisionVars => RevisionsInv'
  <2> SUFFICES ASSUME RevisionsInv, [RevisionsNext]_revisionVars
               PROVE  RevisionsInv'
    OBVIOUS
  <2>1. ASSUME NEW id \in QueryIds, NEW revision \in RevisionArgs, NEW key \in RequestKeys,
               subscribe(id, revision, key)
        PROVE  RevisionsInv'
    BY <2>1, SubscribePreserves
  <2>2. ASSUME NEW id \in QueryIds, NEW revision \in RevisionArgs, unsubscribe(id, revision)
        PROVE  RevisionsInv'
    BY <2>2, UnsubscribePreserves
  <2>3. CASE Tick
    BY <2>3, TickPreserves
  <2>4. CASE UNCHANGED revisionVars
    BY <2>4 DEF revisionVars, RevisionsInv, RevisionsTypeOK, TombstoneBound, Tombstones, Distinct,
       Matched, Remembered, Outranks, Revisioned, Forgettable, EndedAfter
  <2>5. QED
    BY <2>1, <2>2, <2>3, <2>4 DEF RevisionsNext, complete
<1>3. QED
  BY <1>1, <1>2, PTL DEF RevisionsSpec

\* The revision table is well formed after every sequence of calls.
THEOREM RevisionsTypeCorrect == RevisionsSpec => []RevisionsTypeOK
<1>1. RevisionsInv => RevisionsTypeOK
  BY DEF RevisionsInv
<1>2. QED
  BY <1>1, RevisionsInvariant, PTL

\* prune keeps the number of tombstones within its maximum for any number of
\* query ids, any limit and any retention period.
THEOREM TombstonesStayBounded == RevisionsSpec => []TombstoneBound
<1>1. RevisionsInv => TombstoneBound
  BY DEF RevisionsInv
<1>2. QED
  BY <1>1, RevisionsInvariant, PTL

\* No late or duplicated subscribe revives a query that was unsubscribed, unless
\* its tombstone expired or was crowded out by the configured number of others.
THEOREM LateSubscribesAreRefused == RevisionsSpec => []LateSubscribeRefused
<1>1. RevisionsInv => LateSubscribeRefused
  <2> SUFFICES ASSUME RevisionsInv, NEW id \in QueryIds, ended[id] # None, Active(states, id),
                      states[id].revision # None => states[id].revision <= ended[id].revision
               PROVE  Forgettable(ended, now, id)
    BY DEF LateSubscribeRefused
  <2>1. states[id].revision # None => states[id].revision \in Int /\ ended[id].revision \in Int
    BY BoundsNat DEF RevisionsInv, RevisionsTypeOK, RevisionState, RevisionArgs, Revisions, Ending, Active
  <2>2. ~Outranks(states, ended, id)
    BY <2>1 DEF Outranks, Revisioned, Active
  <2>3. QED
    BY <2>2 DEF RevisionsInv, Remembered
<1>2. QED
  BY <1>1, RevisionsInvariant, PTL

(***************************************************************************)
(* Precedence of revisions, as an action property                          *)
(***************************************************************************)

\* An entry that stays as it was supersedes itself.
LEMMA SupersedesItself ==
  ASSUME RevisionsInv, NEW id \in DOMAIN states, states[id].revision # None
  PROVE  Supersedes(states[id], states[id]) /\ states[id].revision \in Int
  BY BoundsNat DEF RevisionsInv, RevisionsTypeOK, RevisionState, RevisionArgs, Revisions, Supersedes

\* What the pruning at the start of a call does to an entry: it stays as it is,
\* or it was a tombstone that may be forgotten.
LEMMA FoundOrForgettable ==
  ASSUME RevisionsInv, NEW id \in DOMAIN states
  PROVE  IF id \in DOMAIN Prune(states, now)
         THEN Prune(states, now)[id] = states[id]
         ELSE ~states[id].active /\ Forgettable(ended, now, id)
<1>1. /\ insertions \in Nat /\ now \in Nat /\ ended \in Endings
      /\ Consistent(states, ended, now, insertions)
  BY FoundTable, InvIsConsistent
<1>2. CASE id \in DOMAIN Prune(states, now)
  BY <1>1, <1>2, PruneTable DEF Consistent
<1>3. CASE id \notin DOMAIN Prune(states, now)
  <2>1. id \in Tombstones(states)
    BY <1>1, <1>3, PruneTable DEF Consistent
  <2>2. Forgettable(ended, now, id)
    BY <1>1, <1>3, DroppedForgettable DEF Consistent
  <2>3. QED
    BY <1>3, <2>1, <2>2 DEF Tombstones
<1>4. QED
  BY <1>2, <1>3

\* Why prune drops one entry.
LEMMA PruneDrops ==
  ASSUME NEW s, NEW n \in Nat, IsTable(s, n), NEW t \in Nat,
         NEW id \in DOMAIN s, id \notin DOMAIN Prune(s, t)
  PROVE  /\ id \in Tombstones(s)
         /\ \/ t - s[id].tombstoneAt >= RetentionMs
            \/ Cardinality({o \in Tombstones(s) : s[o].inserted >= s[id].inserted})
                 > MaximumTombstones
  BY PruneTable

\* prune never drops the tombstone that was inserted last, at the current time.
LEMMA FreshTombstoneSurvives ==
  ASSUME NEW s, NEW n \in Nat, IsTable(s, n), NEW t \in Nat,
         NEW id \in DOMAIN s, s[id].tombstoneAt = t,
         \A o \in DOMAIN s : o # id => s[o].inserted < s[id].inserted
  PROVE  id \in DOMAIN Prune(s, t)
<1> DEFINE late == {o \in Tombstones(s) : s[o].inserted >= s[id].inserted}
<1> SUFFICES ASSUME id \notin DOMAIN Prune(s, t)
             PROVE  FALSE
  OBVIOUS
<1>1. /\ id \in Tombstones(s)
      /\ \/ t - s[id].tombstoneAt >= RetentionMs
         \/ Cardinality(late) > MaximumTombstones
  BY PruneDrops
<1>2. late = {id}
  BY <1>1 DEF IsTable, RevisionState, Tombstones
<1> HIDE DEF late
<1>3. Cardinality(late) = 1
  BY <1>2, FS_Singleton
<1>4. QED
  BY <1>1, <1>3, RetentionPositive, TombstonesNat

\* A subscribe keeps the precedence of revisions.
LEMMA SubscribePrecedence ==
  ASSUME RevisionsInv, NEW q \in QueryIds, NEW revision \in RevisionArgs,
         NEW key \in RequestKeys, subscribe(q, revision, key),
         NEW id \in DOMAIN states, states[id].revision # None
  PROVE  RevisionStep(id)
<1> DEFINE found == Prune(states, now)
<1>1. IF id \in DOMAIN found
      THEN found[id] = states[id]
      ELSE ~states[id].active /\ Forgettable(ended, now, id)
  BY FoundOrForgettable
<1>2. Supersedes(states[id], states[id]) /\ states[id].revision \in Int
  BY SupersedesItself
<1>3. /\ ended' = ended /\ now' = now
      /\ \/ states' = found
         \/ /\ TakesSubscribe(found, q, revision, key)
            /\ states' = With(found, q, Subscribed(revision, key, insertions))
  BY DEF subscribe
<1> HIDE DEF found
<1>4. CASE id \notin DOMAIN found
  BY <1>1, <1>3, <1>4 DEF RevisionStep
<1>5. CASE id \in DOMAIN found /\ (states' = found \/ id # q)
  BY <1>1, <1>2, <1>3, <1>5 DEF RevisionStep, With
<1>6. CASE id \in DOMAIN found /\ states' # found /\ id = q
  <2>1. revision # None /\ revision > states[id].revision
    BY <1>1, <1>3, <1>6 DEF TakesSubscribe, Revisioned
  <2>2. id \in DOMAIN states' /\ states'[id].revision = revision
    BY <1>3, <1>6 DEF With, Subscribed
  <2>3. revision \in Int
    BY <2>1, BoundsNat DEF RevisionArgs, Revisions
  <2>4. QED
    BY <1>2, <2>1, <2>2, <2>3 DEF RevisionStep, Supersedes
<1>7. QED
  BY <1>4, <1>5, <1>6

\* An unsubscribe keeps the precedence of revisions.
LEMMA UnsubscribePrecedence ==
  ASSUME RevisionsInv, NEW q \in QueryIds, NEW revision \in RevisionArgs, unsubscribe(q, revision),
         NEW id \in DOMAIN states, states[id].revision # None
  PROVE  RevisionStep(id)
<1> DEFINE found == Prune(states, now)
           buried == With(found, q, Tombstone(revision, now, insertions))
           f == [ended EXCEPT ![q] = [revision |-> revision, at |-> now, inserted |-> insertions]]
<1>1. IF id \in DOMAIN found
      THEN found[id] = states[id]
      ELSE ~states[id].active /\ Forgettable(ended, now, id)
  BY FoundOrForgettable
<1>2. Supersedes(states[id], states[id]) /\ states[id].revision \in Int
  BY SupersedesItself
<1>3. /\ insertions \in Nat /\ now \in Nat /\ ended \in Endings
      /\ Consistent(found, ended, now, insertions)
  BY FoundTable
<1>4. now' = now
  BY DEF unsubscribe
<1>5. CASE TakesUnsubscribe(found, q, revision) /\ revision # None
  <2>1. states' = Prune(buried, now) /\ ended' = f
    BY <1>5 DEF unsubscribe, AfterUnsubscribe
  <2>2. f \in Endings /\ revision \in Revisions /\ revision \in Int
    BY <1>3, <1>5, BoundsNat DEF Endings, Ending, RevisionArgs, Revisions
  <2>3. q \in DOMAIN found => found[q].revision = None \/ revision >= found[q].revision
    BY <1>5 DEF TakesUnsubscribe, Revisioned
  <2> HIDE DEF found
  <2>4. Consistent(buried, f, now, insertions + 1)
    BY <1>3, <2>2, BuryConsistent
  <2>5. /\ DOMAIN buried = DOMAIN found \cup {q}
        /\ \A o \in DOMAIN found : o # q => buried[o] = found[o]
        /\ buried[q].revision = revision /\ ~buried[q].active
        /\ buried[q].tombstoneAt = now /\ buried[q].inserted = insertions
    BY DEF With, Tombstone
  <2>6. /\ IsTable(buried, insertions + 1) /\ Matched(buried, f) /\ Distinct(buried)
        /\ \A o \in DOMAIN found : found[o].inserted < insertions
        /\ \A o \in QueryIds : ended[o] # None => ended[o].inserted < insertions
    BY <1>3, <2>4 DEF Consistent, IsTable
  <2> HIDE DEF buried
  <2>7. /\ DOMAIN Prune(buried, now) \subseteq DOMAIN buried
        /\ \A o \in DOMAIN Prune(buried, now) : Prune(buried, now)[o] = buried[o]
        /\ \A o \in DOMAIN buried \ DOMAIN Prune(buried, now) : o \in Tombstones(buried)
    <3>1. insertions + 1 \in Nat
      BY <1>3
    <3>2. QED
      BY <1>3, <2>6, <3>1, PruneTable
  <2>8. q \in DOMAIN Prune(buried, now)
    BY <1>3, <2>5, <2>6, FreshTombstoneSurvives
  <2>9. \A o \in DOMAIN buried : o \notin DOMAIN Prune(buried, now) => Forgettable(f, now, o)
    BY <1>3, <2>2, <2>6, DroppedForgettable
  <2>10. CASE id = q
    <3>1. id \in DOMAIN states' /\ states'[id].revision = revision /\ ~states'[id].active
      BY <2>1, <2>5, <2>7, <2>8, <2>10
    <3>2. CASE id \in DOMAIN found
      BY <1>1, <1>2, <1>5, <2>3, <2>10, <3>1, <3>2 DEF RevisionStep, Supersedes
    <3>3. CASE id \notin DOMAIN found
      BY <1>1, <3>1, <3>3 DEF RevisionStep
    <3>4. QED
      BY <3>2, <3>3
  <2>11. CASE id # q /\ id \in DOMAIN found
    <3>1. CASE id \in DOMAIN states'
      BY <1>1, <1>2, <2>1, <2>5, <2>7, <2>11, <3>1 DEF RevisionStep
    <3>2. CASE id \notin DOMAIN states'
      BY <1>1, <1>4, <2>1, <2>5, <2>7, <2>9, <2>11, <3>2 DEF RevisionStep, Tombstones
    <3>3. QED
      BY <3>1, <3>2
  <2>12. CASE id # q /\ id \notin DOMAIN found
    <3>1. id \notin DOMAIN states' /\ ~states[id].active /\ Forgettable(ended, now, id)
      BY <1>1, <2>1, <2>5, <2>7, <2>12
    <3>2. id \in QueryIds /\ id \in Tombstones(states) /\ ended[id] # None
      BY <3>1, NoneIsUndefined DEF RevisionsInv, RevisionsTypeOK, Tombstones, Matched
    <3>3. f[id] = ended[id]
      BY <1>3, <2>12, <3>2 DEF Endings
    <3>4. \A o \in QueryIds : ended[o] # None => f[o] # None /\ f[o].inserted >= ended[o].inserted
      <4> TAKE o \in QueryIds
      <4> HAVE ended[o] # None
      <4>1. ended[o].inserted \in Nat /\ ended[o].inserted < insertions
        BY <1>3, <2>6 DEF Endings, Ending
      <4>2. CASE o = q
        <5>1. q \in Tombstones(buried)
          BY <1>3, <2>5, NoneIsUndefined DEF Tombstones
        <5>2. f[o] # None /\ f[o].inserted = insertions
          BY <2>5, <2>6, <4>2, <5>1 DEF Matched
        <5> HIDE DEF f
        <5>3. QED
          BY <1>3, <4>1, <5>2
      <4>3. CASE o # q
        BY <1>3, <4>1, <4>3 DEF Endings
      <4>4. QED
        BY <4>2, <4>3
    <3>5. now >= now
      BY <1>3
    <3> HIDE DEF f
    <3>6. Forgettable(f, now, id)
      BY <1>3, <2>2, <3>1, <3>2, <3>3, <3>4, <3>5, ForgettableLasts, Zenon
    <3>7. QED
      BY <1>4, <2>1, <3>1, <3>6 DEF RevisionStep
  <2>13. QED
    BY <2>10, <2>11, <2>12
<1>6. CASE ~(TakesUnsubscribe(found, q, revision) /\ revision # None)
  <2>1. /\ ended' = ended
        /\ \/ states' = found
           \/ TakesUnsubscribe(found, q, revision) /\ revision = None /\ states' = Without(found, {q})
    BY <1>6 DEF unsubscribe, AfterUnsubscribe
  <2> HIDE DEF found
  <2>2. CASE id \notin DOMAIN found
    BY <1>1, <1>4, <2>1, <2>2 DEF RevisionStep, Without
  <2>3. CASE id \in DOMAIN found
    <3>1. id # q \/ states' = found
      BY <1>1, <2>1, <2>3 DEF TakesUnsubscribe, Revisioned
    <3>2. id \in DOMAIN states' /\ states'[id] = states[id]
      BY <1>1, <2>1, <2>3, <3>1 DEF Without
    <3>3. QED
      BY <1>2, <3>2 DEF RevisionStep
  <2>4. QED
    BY <2>2, <2>3
<1>7. QED
  BY <1>5, <1>6

\* The order in which revisions were issued decides, whatever the order in which
\* the control messages arrive, until a tombstone may be forgotten.
THEOREM RevisionsTakePrecedence == RevisionsSpec => RevisionPrecedence
<1>1. RevisionsInv /\ [RevisionsNext]_revisionVars =>
        [\A id \in DOMAIN states : states[id].revision # None => RevisionStep(id)]_revisionVars
  <2> SUFFICES ASSUME RevisionsInv, RevisionsNext,
                      NEW id \in DOMAIN states, states[id].revision # None
               PROVE  RevisionStep(id)
    BY DEF revisionVars
  <2>1. ASSUME NEW q \in QueryIds, NEW revision \in RevisionArgs, NEW key \in RequestKeys,
               subscribe(q, revision, key)
        PROVE  RevisionStep(id)
    BY <2>1, SubscribePrecedence
  <2>2. ASSUME NEW q \in QueryIds, NEW revision \in RevisionArgs, unsubscribe(q, revision)
        PROVE  RevisionStep(id)
    BY <2>2, UnsubscribePrecedence
  <2>3. CASE Tick
    BY <2>3, SupersedesItself DEF Tick, RevisionStep
  <2>4. QED
    BY <2>1, <2>2, <2>3 DEF RevisionsNext, complete
<1>2. QED
  BY <1>1, RevisionsInvariant, PTL DEF RevisionsSpec, RevisionPrecedence
=============================================================================
