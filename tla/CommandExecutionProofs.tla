----------------------- MODULE CommandExecutionProofs -----------------------
(* Proofs about CommandExecution, for any lists of execution scopes, any   *)
(* number of operations and any nested commands.                           *)
EXTENDS CommandExecution, FiniteSetTheorems, TLAPS

(***************************************************************************)
(* The inductive invariant                                                 *)
(***************************************************************************)

Opening == {"preflight", "dependencies", "beginning", "providing"}
Running == {"handling", "planning", "responding", "responded", "executing"}
Recovery == {"recovering", "compensating"}

\* Until its scopes complete the command has committed nothing, and recorded no
\* failure; once a stage past the scopes is reached all of them are recorded.
BeforeOK ==
  /\ pc \in Opening \cup Running =>
       /\ completions = <<>> /\ original = {} /\ stored = {} /\ compensated = <<>>
       /\ ~unit.completed /\ unit.disposition = "NoCommit"
       /\ pc # "responded" => result = {}
  /\ pc \in {"preflight", "dependencies"} => recorded = 0
  /\ pc \in Opening \cup {"handling"} => reported = "NoCommit"
  /\ pc \in Opening \cup {"handling", "planning"} => planned = NoJournal
  /\ pc \in Opening \cup (Running \ {"executing"}) => outcomes = <<>>
  /\ pc \in Running \cup {"providing"} => recorded = Len(kinds)
  /\ pc = "executing" =>
       /\ planned # NoJournal /\ outcomes # <<>>
       /\ \A i \in DOMAIN outcomes : i < Len(outcomes) => outcomes[i].completed

\* Only a handler starts nested commands or stages events, and every scope is
\* recorded by then; what the application's participant reports it recorded.
StagedOK ==
  /\ recorded # Len(kinds) =>
       /\ unit.entries = {} /\ unit.aggregate = "none"
       /\ \A n \in Nested : nested[n] = "idle"
  /\ reported = "Committed" => \E i \in 1..recorded : kinds[i] = "reporting"
  /\ Len(completions) <= recorded

\* A batch is appended by the one Chronicle scope, once, and not before it completes.
CommitOK ==
  /\ \A i \in 1..recorded : kinds[i] = "chronicle" =>
       /\ pc = "completing" /\ i <= Completing =>
            ~unit.completed /\ stored = {} /\ unit.disposition = "NoCommit"
       /\ pc \in {"appending", "observing"} => i = Completing
       /\ pc \in Recovery \cup {"done"} \/ (pc = "completing" /\ i > Completing) =>
            original # {} \/ (unit.completed /\ stored = unit.entries)
  /\ pc \in {"appending", "observing"} =>
       /\ Completing > 0 /\ kinds[Completing] = "chronicle"
       /\ unit.completed /\ ~unit.nestedFailure
       /\ result = {} /\ (planned # NoJournal => original = {})
  /\ pc = "appending" => stored = {} /\ unit.disposition = "Unknown"
  /\ pc = "observing" => stored = unit.entries /\ unit.disposition = "Committed"
  /\ stored # {} => unit.completed /\ \E i \in 1..recorded : kinds[i] = "chronicle"

\* A failed nested command poisons the batch for good.
NestedOK ==
  /\ (\E n \in Nested : nested[n] = "failed") => unit.nestedFailure
  /\ unit.nestedFailure => stored = {} /\ pc \notin {"appending", "observing"}

\* A stored batch is taken for an uncommitted one only when an observer failed,
\* and the snapshot keeps that failure.
ObservedOK ==
  planned # NoJournal /\ stored # {} /\ unit.disposition \in KnownAbsent => "observer" \in original

\* The journal: without a failure every operation has run, and recovery only
\* follows a failure that was captured.
JournalOK ==
  /\ pc \in {"completing", "appending", "observing", "done"} /\ planned # NoJournal /\ original = {} =>
       Len(outcomes) = planned /\ \A i \in DOMAIN outcomes : outcomes[i].completed
  /\ pc \in {"completing", "appending", "observing"} => compensated = <<>>
  /\ pc \in Recovery => planned # NoJournal /\ original # {} /\ commit \in KnownAbsent
  /\ original = {} => compensated = <<>>
  /\ pc \in Recovery \cup {"done"} /\ planned # NoJournal =>
       original \subseteq result /\ (original = {} <=> result = {})

\* Recovery: what is behind index is accounted for; nothing in front of it has
\* been touched.
Recovered(i) == Accounted(i, outcomes[i].compensation)
RecoveryOK ==
  /\ \A i, j \in DOMAIN compensated : i < j => compensated[i] > compensated[j]
  /\ pc = "recovering" => \A k \in DOMAIN compensated : compensated[k] > index
  /\ pc = "compensating" =>
       /\ compensated # <<>> /\ compensated[Len(compensated)] = index
       /\ index > 0 /\ index \in Compensable
  /\ pc \in Recovery => \A i \in DOMAIN outcomes : i > index => Recovered(i)
  /\ pc = "done" /\ result # {} /\ commit \in KnownAbsent => \A i \in DOMAIN outcomes : Recovered(i)
  /\ pc \in Recovery \/ compensated # <<>> =>
       (stored = {} /\ reported # "Committed") \/ "observer" \in result

\* TypeOK in the groups an action changes.
ResultTypes ==
  /\ kinds \in ScopeLists
  /\ pc \in Opening \cup Running \cup Recovery \cup {"completing", "appending", "observing", "done"}
  /\ canceled \in BOOLEAN /\ expired \in BOOLEAN
  /\ result \subseteq Failures /\ original \subseteq Failures
  /\ commit \in Dispositions /\ reported \in Dispositions
ScopeTypes == recorded \in 0..Len(kinds) /\ completions \in Seq(1..recorded)
JournalTypes ==
  /\ shape \in Shape
  /\ planned \in 0..MaxOperations \cup {NoJournal}
  /\ outcomes \in Seq(Outcome) /\ Len(outcomes) <= IF planned = NoJournal THEN 0 ELSE planned
  /\ failedIndex \in 0..Len(outcomes) /\ index \in 0..Len(outcomes)
NestedStates == {"idle", "admitting", "refused", "own", "running", "staged", "failing", "appending", "answered",
                 "succeeded", "failed", "late"}
Units == [entries : SUBSET (Nested \cup {"outer", "aggregate"}), aggregate : {"none", "pending", "staged"},
          nestedFailure : BOOLEAN, completed : BOOLEAN, disposition : Dispositions]
BatchTypes ==
  /\ unit \in Units /\ nested \in [Nested -> NestedStates]
  /\ stored \subseteq unit.entries /\ appends \in Nat
RecoveryTypes == compensated \in Seq(Operations)

CommandInv ==
  /\ ResultTypes /\ ScopeTypes /\ JournalTypes /\ BatchTypes /\ RecoveryTypes
  /\ BeforeOK /\ StagedOK /\ CommitOK /\ NestedOK /\ ObservedOK /\ JournalOK /\ RecoveryOK

\* Beside the batch.  What a nested command appends on its own was never staged,
\* and it appends only after the unit completed; a command with operations has no
\* nested ones (CommandOperationBoundary), so nothing is appended beside its batch.
InlineOK ==
  /\ inlined \subseteq Nested
  /\ \A n \in inlined : Outlived(n) /\ n \notin unit.entries
  /\ \A n \in Nested : nested[n] \in {"appending", "answered"} => unit.completed
  /\ \A n \in Nested : nested[n] \in {"idle", "admitting", "running", "appending", "answered"} => n \notin unit.entries
AloneOK ==
  /\ pc = "planning" \/ planned # NoJournal => \A n \in Nested : nested[n] = "idle"
  /\ compensated # <<>> => planned # NoJournal
BesideInv == InlineOK /\ AloneOK

USE DEF Opening, Running, Recovery, scopeVars, journalVars, recoveryVars, logVars, Accounted, Called

(***************************************************************************)
(* What the actions share                                                  *)
(***************************************************************************)

LEMMA KindsAreScopes ==
  ASSUME CommandInv
  PROVE  /\ kinds \in Seq(ScopeKind) /\ Len(kinds) \in Nat /\ DOMAIN kinds = 1..Len(kinds)
         /\ recorded \in Nat /\ recorded <= Len(kinds) /\ completions \in Seq(1..recorded)
         /\ Len(completions) \in Nat
         /\ \A i, j \in 1..recorded : kinds[i] = "chronicle" /\ kinds[j] = "chronicle" => i = j
<1>1. kinds \in ScopeLists /\ kinds \in Seq(ScopeKind)
  BY ScopesKnown DEF CommandInv, ResultTypes
<1>2. /\ Len(kinds) \in Nat /\ DOMAIN kinds = 1..Len(kinds)
      /\ recorded \in Nat /\ recorded <= Len(kinds)
  BY <1>1 DEF CommandInv, ScopeTypes
<1>3. completions \in Seq(1..recorded) /\ Len(completions) \in Nat
  BY DEF CommandInv, ScopeTypes
<1>4. \A i, j \in 1..recorded : i \in DOMAIN kinds /\ j \in DOMAIN kinds
  BY <1>2
<1>5. QED
  BY <1>1, <1>2, <1>3, <1>4, OneUnitOfWork

\* Up to the completion of the scopes nothing is committed and nothing recovered:
\* what later stages rely on holds on, if a step that leaves for them ran every
\* operation or captured its failure.
LEMMA EarlyMoves ==
  ASSUME CommandInv, pc \in Opening \cup Running,
         kinds' = kinds, completions' = completions, stored' = stored, compensated' = compensated,
         recorded' \in Nat, pc' \in Opening \cup Running \cup {"completing"},
         unit'.completed = unit.completed, unit'.disposition = unit.disposition,
         unit'.nestedFailure = unit.nestedFailure, nested' = nested,
         pc' = "completing" /\ planned' # NoJournal /\ original' = {} =>
           Len(outcomes') = planned' /\ \A i \in DOMAIN outcomes' : outcomes'[i].completed
  PROVE  CommitOK' /\ NestedOK' /\ ObservedOK' /\ JournalOK' /\ RecoveryOK'
<1>1. /\ completions = <<>> /\ stored = {} /\ compensated = <<>>
      /\ ~unit.completed /\ unit.disposition = "NoCommit"
  BY DEF CommandInv, BeforeOK
<1>2. CommitOK'
  <2>1. Len(completions') = 0
    BY <1>1
  <2>2. Completing' = recorded'
    <3>1. Completing' = recorded' - Len(completions')
      BY DEF Completing
    <3>2. recorded' \in Nat /\ \A k \in Nat : k - 0 = k
      OBVIOUS
    <3>3. QED
      BY <2>1, <3>1, <3>2
  <2>3. QED
    BY <1>1, <2>2 DEF CommitOK
<1>3. NestedOK' /\ ObservedOK'
  BY <1>1 DEF CommandInv, NestedOK, ObservedOK
<1>4. JournalOK'
  BY <1>1 DEF JournalOK
<1>5. RecoveryOK'
  BY <1>1 DEF RecoveryOK
<1>6. QED
  BY <1>2, <1>3, <1>4, <1>5

LEMMA FinishedResult ==
  ASSUME NEW os \in Seq(Outcome), os # <<>>
  PROVE  /\ Finished(os) \in Seq(Outcome) /\ Len(Finished(os)) = Len(os) /\ Len(os) \in Nat \ {0}
         /\ \A i \in 1..Len(os) : Finished(os)[i].completed <=> i = Len(os) \/ os[i].completed
<1>1. Len(os) \in Nat \ {0} /\ os[Len(os)] \in Outcome
  OBVIOUS
<1>2. [os[Len(os)] EXCEPT !.completed = TRUE] \in Outcome /\ [os[Len(os)] EXCEPT !.completed = TRUE].completed = TRUE
  BY <1>1 DEF Outcome
<1>3. Finished(os) = [os EXCEPT ![Len(os)] = [os[Len(os)] EXCEPT !.completed = TRUE]]
  BY DEF Finished
<1>4. QED
  BY <1>1, <1>2, <1>3

(***************************************************************************)
(* The actions up to the completion of the scopes                          *)
(***************************************************************************)

LEMMA PreflightKeeps ==
  ASSUME CommandInv, NEW outcome \in {"rejected", "validated", "accepted"}, Preflight(outcome)
  PROVE  CommandInv'
<1>1. /\ ResultTypes /\ ScopeTypes /\ JournalTypes /\ BatchTypes /\ RecoveryTypes
      /\ kinds \in Seq(ScopeKind) /\ Len(kinds) \in Nat /\ recorded \in Nat
  BY KindsAreScopes DEF CommandInv
<1>2. ResultTypes'
  BY <1>1 DEF Preflight, ResultTypes, Failures, Dispositions
<1>3. ScopeTypes'
  BY <1>1 DEF Preflight, ScopeTypes
<1>4. JournalTypes'
  BY <1>1 DEF Preflight, JournalTypes
<1>5. BatchTypes'
  BY <1>1 DEF Preflight, BatchTypes, Units, NestedStates
<1>6. RecoveryTypes'
  BY <1>1 DEF Preflight, RecoveryTypes
<1>7. BeforeOK'
  BY <1>1 DEF CommandInv, Preflight, BeforeOK, ResultTypes, ScopeTypes, JournalTypes, BatchTypes, RecoveryTypes, Units, NestedStates
<1>8. StagedOK'
  BY <1>1 DEF CommandInv, Preflight, StagedOK, ResultTypes, ScopeTypes, JournalTypes, BatchTypes, RecoveryTypes, Units, NestedStates
<1>9. /\ recorded = 0 /\ completions = <<>> /\ original = {} /\ stored = {} /\ compensated = <<>>
      /\ planned = NoJournal /\ outcomes = <<>> /\ reported = "NoCommit" /\ ~unit.completed
      /\ recorded' = recorded /\ completions' = completions /\ original' = original /\ stored' = stored
      /\ compensated' = compensated /\ planned' = planned /\ outcomes' = outcomes /\ pc' \in {"done", "dependencies"}
  BY DEF CommandInv, BeforeOK, Preflight
<1>10. CommitOK'
  BY <1>9 DEF CommitOK
<1>11. NestedOK'
  BY DEF CommandInv, Preflight, NestedOK
<1>12. ObservedOK'
  BY <1>9 DEF ObservedOK
<1>13. JournalOK'
  BY <1>9 DEF JournalOK
<1>14. RecoveryOK'
  BY <1>9 DEF RecoveryOK
<1>15. QED
  BY <1>2, <1>3, <1>4, <1>5, <1>6, <1>7, <1>8, <1>10, <1>11, <1>12, <1>13, <1>14 DEF CommandInv

LEMMA DependenciesSettleKeeps ==
  ASSUME CommandInv, NEW ok \in BOOLEAN, DependenciesSettle(ok)
  PROVE  CommandInv'
<1>1. /\ ResultTypes /\ ScopeTypes /\ JournalTypes /\ BatchTypes /\ RecoveryTypes
      /\ kinds \in Seq(ScopeKind) /\ Len(kinds) \in Nat /\ recorded \in Nat
  BY KindsAreScopes DEF CommandInv
<1>2. ResultTypes'
  BY <1>1 DEF DependenciesSettle, ResultTypes, Failures, Dispositions, ThrowIfCanceled, Throw, Capture, BeginNext, Go
<1>3. ScopeTypes'
  BY <1>1 DEF DependenciesSettle, ScopeTypes, ThrowIfCanceled, Throw, Capture, BeginNext, Go
<1>4. JournalTypes'
  BY <1>1 DEF DependenciesSettle, JournalTypes, ThrowIfCanceled, Throw, Capture, BeginNext, Go
<1>5. BatchTypes'
  BY <1>1 DEF DependenciesSettle, BatchTypes, Units, NestedStates, ThrowIfCanceled, Throw, Capture, BeginNext, Go
<1>6. RecoveryTypes'
  BY <1>1 DEF DependenciesSettle, RecoveryTypes, ThrowIfCanceled, Throw, Capture, BeginNext, Go
<1>7. BeforeOK'
  BY <1>1 DEF CommandInv, DependenciesSettle, BeforeOK, ThrowIfCanceled, Throw, Capture, BeginNext, Go, ResultTypes, ScopeTypes, JournalTypes, BatchTypes, RecoveryTypes, Units, NestedStates
<1>8. StagedOK'
  BY <1>1 DEF CommandInv, DependenciesSettle, StagedOK, ThrowIfCanceled, Throw, Capture, BeginNext, Go, ResultTypes, ScopeTypes, JournalTypes, BatchTypes, RecoveryTypes, Units, NestedStates
<1>9. CommitOK' /\ NestedOK' /\ ObservedOK' /\ JournalOK' /\ RecoveryOK'
  <2>1. /\ pc \in Opening \cup Running /\ kinds' = kinds /\ completions' = completions
        /\ stored' = stored /\ compensated' = compensated /\ nested' = nested
        /\ pc' \in Opening \cup Running \cup {"completing"}
    BY DEF DependenciesSettle, ThrowIfCanceled, Throw, Capture, BeginNext, Go
  <2>2. recorded' \in Nat
    BY <1>1 DEF DependenciesSettle, ThrowIfCanceled, Throw, Capture, BeginNext, Go, ScopeTypes
  <2>3. /\ unit'.completed = unit.completed /\ unit'.disposition = unit.disposition
        /\ unit'.nestedFailure = unit.nestedFailure
    BY <1>1 DEF DependenciesSettle, BatchTypes, Units
  <2>4. pc' = "completing" /\ planned' # NoJournal /\ original' = {} =>
          Len(outcomes') = planned' /\ \A i \in DOMAIN outcomes' : outcomes'[i].completed
    BY <1>1 DEF CommandInv, BeforeOK, DependenciesSettle, ThrowIfCanceled, Throw, Capture, BeginNext, Go
  <2>5. QED
    BY <2>1, <2>2, <2>3, <2>4, EarlyMoves
<1>10. QED
  BY <1>2, <1>3, <1>4, <1>5, <1>6, <1>7, <1>8, <1>9 DEF CommandInv

LEMMA BeginSettlesKeeps ==
  ASSUME CommandInv, NEW ok \in BOOLEAN, BeginSettles(ok)
  PROVE  CommandInv'
<1>1. /\ ResultTypes /\ ScopeTypes /\ JournalTypes /\ BatchTypes /\ RecoveryTypes
      /\ kinds \in Seq(ScopeKind) /\ Len(kinds) \in Nat /\ recorded \in Nat
  BY KindsAreScopes DEF CommandInv
<1>2. ResultTypes'
  BY <1>1 DEF BeginSettles, ResultTypes, Failures, Dispositions, ThrowIfCanceled, Throw, Capture, BeginNext, Go
<1>3. ScopeTypes'
  BY <1>1 DEF BeginSettles, ScopeTypes, ThrowIfCanceled, Throw, Capture, BeginNext, Go
<1>4. JournalTypes'
  BY <1>1 DEF BeginSettles, JournalTypes, ThrowIfCanceled, Throw, Capture, BeginNext, Go
<1>5. BatchTypes'
  BY <1>1 DEF BeginSettles, BatchTypes, Units, NestedStates, ThrowIfCanceled, Throw, Capture, BeginNext, Go
<1>6. RecoveryTypes'
  BY <1>1 DEF BeginSettles, RecoveryTypes, ThrowIfCanceled, Throw, Capture, BeginNext, Go
<1>7. BeforeOK'
  BY <1>1 DEF CommandInv, BeginSettles, BeforeOK, ThrowIfCanceled, Throw, Capture, BeginNext, Go, ResultTypes, ScopeTypes, JournalTypes, BatchTypes, RecoveryTypes, Units, NestedStates
<1>8. StagedOK'
  BY <1>1 DEF CommandInv, BeginSettles, StagedOK, ThrowIfCanceled, Throw, Capture, BeginNext, Go, ResultTypes, ScopeTypes, JournalTypes, BatchTypes, RecoveryTypes, Units, NestedStates
<1>9. CommitOK' /\ NestedOK' /\ ObservedOK' /\ JournalOK' /\ RecoveryOK'
  <2>1. /\ pc \in Opening \cup Running /\ kinds' = kinds /\ completions' = completions
        /\ stored' = stored /\ compensated' = compensated /\ nested' = nested
        /\ pc' \in Opening \cup Running \cup {"completing"}
    BY DEF BeginSettles, ThrowIfCanceled, Throw, Capture, BeginNext, Go
  <2>2. recorded' \in Nat
    BY <1>1 DEF BeginSettles, ThrowIfCanceled, Throw, Capture, BeginNext, Go, ScopeTypes
  <2>3. /\ unit'.completed = unit.completed /\ unit'.disposition = unit.disposition
        /\ unit'.nestedFailure = unit.nestedFailure
    BY <1>1 DEF BeginSettles, BatchTypes, Units
  <2>4. pc' = "completing" /\ planned' # NoJournal /\ original' = {} =>
          Len(outcomes') = planned' /\ \A i \in DOMAIN outcomes' : outcomes'[i].completed
    BY <1>1 DEF CommandInv, BeforeOK, BeginSettles, ThrowIfCanceled, Throw, Capture, BeginNext, Go
  <2>5. QED
    BY <2>1, <2>2, <2>3, <2>4, EarlyMoves
<1>10. QED
  BY <1>2, <1>3, <1>4, <1>5, <1>6, <1>7, <1>8, <1>9 DEF CommandInv

LEMMA ProvideSettlesKeeps ==
  ASSUME CommandInv, NEW outcome \in {"throws", "refuses", "provides"}, ProvideSettles(outcome)
  PROVE  CommandInv'
<1>1. /\ ResultTypes /\ ScopeTypes /\ JournalTypes /\ BatchTypes /\ RecoveryTypes
      /\ kinds \in Seq(ScopeKind) /\ Len(kinds) \in Nat /\ recorded \in Nat
  BY KindsAreScopes DEF CommandInv
<1>2. ResultTypes'
  BY <1>1 DEF ProvideSettles, ResultTypes, Failures, Dispositions, ThrowIfCanceled, Throw, Capture, Go
<1>3. ScopeTypes'
  BY <1>1 DEF ProvideSettles, ScopeTypes, ThrowIfCanceled, Throw, Capture, Go
<1>4. JournalTypes'
  BY <1>1 DEF ProvideSettles, JournalTypes, ThrowIfCanceled, Throw, Capture, Go
<1>5. BatchTypes'
  BY <1>1 DEF ProvideSettles, BatchTypes, Units, NestedStates, ThrowIfCanceled, Throw, Capture, Go
<1>6. RecoveryTypes'
  BY <1>1 DEF ProvideSettles, RecoveryTypes, ThrowIfCanceled, Throw, Capture, Go
<1>7. BeforeOK'
  BY <1>1 DEF CommandInv, ProvideSettles, BeforeOK, ThrowIfCanceled, Throw, Capture, Go, ResultTypes, ScopeTypes, JournalTypes, BatchTypes, RecoveryTypes, Units, NestedStates
<1>8. StagedOK'
  BY <1>1 DEF CommandInv, ProvideSettles, StagedOK, ThrowIfCanceled, Throw, Capture, Go, ResultTypes, ScopeTypes, JournalTypes, BatchTypes, RecoveryTypes, Units, NestedStates
<1>9. CommitOK' /\ NestedOK' /\ ObservedOK' /\ JournalOK' /\ RecoveryOK'
  <2>1. /\ pc \in Opening \cup Running /\ kinds' = kinds /\ completions' = completions
        /\ stored' = stored /\ compensated' = compensated /\ nested' = nested
        /\ pc' \in Opening \cup Running \cup {"completing"}
    BY DEF ProvideSettles, ThrowIfCanceled, Throw, Capture, Go
  <2>2. recorded' \in Nat
    BY <1>1 DEF ProvideSettles, ThrowIfCanceled, Throw, Capture, Go, ScopeTypes
  <2>3. /\ unit'.completed = unit.completed /\ unit'.disposition = unit.disposition
        /\ unit'.nestedFailure = unit.nestedFailure
    BY <1>1 DEF ProvideSettles, BatchTypes, Units
  <2>4. pc' = "completing" /\ planned' # NoJournal /\ original' = {} =>
          Len(outcomes') = planned' /\ \A i \in DOMAIN outcomes' : outcomes'[i].completed
    BY <1>1 DEF CommandInv, BeforeOK, ProvideSettles, ThrowIfCanceled, Throw, Capture, Go
  <2>5. QED
    BY <2>1, <2>2, <2>3, <2>4, EarlyMoves
<1>10. QED
  BY <1>2, <1>3, <1>4, <1>5, <1>6, <1>7, <1>8, <1>9 DEF CommandInv

LEMMA NestedStartsKeeps ==
  ASSUME CommandInv, NEW n \in Nested, NestedStarts(n)
  PROVE  CommandInv'
<1>1. /\ ResultTypes /\ ScopeTypes /\ JournalTypes /\ BatchTypes /\ RecoveryTypes
      /\ kinds \in Seq(ScopeKind) /\ Len(kinds) \in Nat /\ recorded \in Nat
  BY KindsAreScopes DEF CommandInv
<1>2. ResultTypes'
  BY <1>1 DEF NestedStarts, ResultTypes, Failures, Dispositions
<1>3. ScopeTypes'
  BY <1>1 DEF NestedStarts, ScopeTypes
<1>4. JournalTypes'
  BY <1>1 DEF NestedStarts, JournalTypes
<1>5. BatchTypes'
  BY <1>1 DEF NestedStarts, BatchTypes, Units, NestedStates
<1>6. RecoveryTypes'
  BY <1>1 DEF NestedStarts, RecoveryTypes
<1>7. BeforeOK'
  BY <1>1 DEF CommandInv, NestedStarts, BeforeOK, ResultTypes, ScopeTypes, JournalTypes, BatchTypes, RecoveryTypes, Units, NestedStates
<1>8. StagedOK'
  <2>1. recorded = Len(kinds)
    BY DEF CommandInv, BeforeOK, NestedStarts
  <2>2. QED
    BY <2>1 DEF CommandInv, NestedStarts, StagedOK
<1>9. CommitOK'
  BY <1>1 DEF CommandInv, NestedStarts, CommitOK, Completing, ResultTypes, ScopeTypes, JournalTypes, BatchTypes, RecoveryTypes, Units, NestedStates
<1>10. NestedOK'
  BY <1>1 DEF CommandInv, NestedStarts, NestedOK, ResultTypes, ScopeTypes, JournalTypes, BatchTypes, RecoveryTypes, Units, NestedStates
<1>11. ObservedOK'
  BY <1>1 DEF CommandInv, NestedStarts, ObservedOK, ResultTypes, ScopeTypes, JournalTypes, BatchTypes, RecoveryTypes, Units, NestedStates
<1>12. JournalOK'
  BY <1>1 DEF CommandInv, NestedStarts, JournalOK, ResultTypes, ScopeTypes, JournalTypes, BatchTypes, RecoveryTypes, Units, NestedStates
<1>13. RecoveryOK'
  BY <1>1 DEF CommandInv, NestedStarts, RecoveryOK, Recovered, ResultTypes, ScopeTypes, JournalTypes, BatchTypes, RecoveryTypes, Units, NestedStates
<1>14. QED
  BY <1>2, <1>3, <1>4, <1>5, <1>6, <1>7, <1>8, <1>9, <1>10, <1>11, <1>12, <1>13 DEF CommandInv

LEMMA NestedAdmittedKeeps ==
  ASSUME CommandInv, NEW n \in Nested, NEW ok \in BOOLEAN, NestedAdmitted(n, ok)
  PROVE  CommandInv'
<1>1. /\ ResultTypes /\ ScopeTypes /\ JournalTypes /\ BatchTypes /\ RecoveryTypes
      /\ kinds \in Seq(ScopeKind) /\ Len(kinds) \in Nat /\ recorded \in Nat
  BY KindsAreScopes DEF CommandInv
<1>2. ResultTypes'
  BY <1>1 DEF NestedAdmitted, ResultTypes, Failures, Dispositions
<1>3. ScopeTypes'
  BY <1>1 DEF NestedAdmitted, ScopeTypes
<1>4. JournalTypes'
  BY <1>1 DEF NestedAdmitted, JournalTypes
<1>5. BatchTypes'
  BY <1>1 DEF NestedAdmitted, BatchTypes, Units, NestedStates
<1>6. RecoveryTypes'
  BY <1>1 DEF NestedAdmitted, RecoveryTypes
<1>7. BeforeOK'
  BY <1>1 DEF CommandInv, NestedAdmitted, BeforeOK, ResultTypes, ScopeTypes, JournalTypes, BatchTypes, RecoveryTypes, Units, NestedStates
<1>8. StagedOK'
  BY <1>1 DEF CommandInv, NestedAdmitted, StagedOK, ResultTypes, ScopeTypes, JournalTypes, BatchTypes, RecoveryTypes, Units, NestedStates
<1>9. CommitOK'
  BY <1>1 DEF CommandInv, NestedAdmitted, CommitOK, Completing, ResultTypes, ScopeTypes, JournalTypes, BatchTypes, RecoveryTypes, Units, NestedStates
<1>10. NestedOK'
  BY <1>1 DEF CommandInv, NestedAdmitted, NestedOK, ResultTypes, ScopeTypes, JournalTypes, BatchTypes, RecoveryTypes, Units, NestedStates
<1>11. ObservedOK'
  BY <1>1 DEF CommandInv, NestedAdmitted, ObservedOK, ResultTypes, ScopeTypes, JournalTypes, BatchTypes, RecoveryTypes, Units, NestedStates
<1>12. JournalOK'
  BY <1>1 DEF CommandInv, NestedAdmitted, JournalOK, ResultTypes, ScopeTypes, JournalTypes, BatchTypes, RecoveryTypes, Units, NestedStates
<1>13. RecoveryOK'
  BY <1>1 DEF CommandInv, NestedAdmitted, RecoveryOK, Recovered, ResultTypes, ScopeTypes, JournalTypes, BatchTypes, RecoveryTypes, Units, NestedStates
<1>14. QED
  BY <1>2, <1>3, <1>4, <1>5, <1>6, <1>7, <1>8, <1>9, <1>10, <1>11, <1>12, <1>13 DEF CommandInv

LEMMA NestedStagesKeeps ==
  ASSUME CommandInv, NEW n \in Nested, NestedStages(n)
  PROVE  CommandInv'
<1>1. /\ ResultTypes /\ ScopeTypes /\ JournalTypes /\ BatchTypes /\ RecoveryTypes
      /\ kinds \in Seq(ScopeKind) /\ Len(kinds) \in Nat /\ recorded \in Nat
  BY KindsAreScopes DEF CommandInv
<1>2. ResultTypes'
  BY <1>1 DEF NestedStages, ResultTypes, Failures, Dispositions
<1>3. ScopeTypes'
  BY <1>1 DEF NestedStages, ScopeTypes
<1>4. JournalTypes'
  BY <1>1 DEF NestedStages, JournalTypes
<1>5. BatchTypes'
  BY <1>1 DEF NestedStages, BatchTypes, Units, NestedStates
<1>6. RecoveryTypes'
  BY <1>1 DEF NestedStages, RecoveryTypes
<1>7. /\ UNCHANGED <<kinds, pc, result, original, recorded, completions, planned, outcomes, index, expired,
                    commit, compensated, reported, stored>>
      /\ unit'.completed = unit.completed /\ unit'.disposition = unit.disposition
      /\ unit'.nestedFailure = unit.nestedFailure
      /\ unit.completed => unit' = unit
      /\ \A m \in Nested : nested'[m] = "failed" => nested[m] = "failed"
      /\ nested[n] # "idle"
  BY <1>1 DEF NestedStages, BatchTypes, Units, NestedStates
<1>8. BeforeOK'
  BY <1>7 DEF CommandInv, BeforeOK
<1>9. StagedOK'
  BY <1>7 DEF CommandInv, StagedOK
<1>10. CommitOK'
  BY <1>7 DEF CommandInv, CommitOK, Completing
<1>11. NestedOK' /\ ObservedOK'
  BY <1>7 DEF CommandInv, NestedOK, ObservedOK
<1>12. JournalOK' /\ RecoveryOK'
  BY <1>7 DEF CommandInv, JournalOK, RecoveryOK, Recovered
<1>13. QED
  BY <1>2, <1>3, <1>4, <1>5, <1>6, <1>8, <1>9, <1>10, <1>11, <1>12 DEF CommandInv

LEMMA NestedAppendSettlesKeeps ==
  ASSUME CommandInv, NEW n \in Nested, NEW kept \in BOOLEAN, NestedAppendSettles(n, kept)
  PROVE  CommandInv'
<1>1. /\ ResultTypes /\ ScopeTypes /\ JournalTypes /\ BatchTypes /\ RecoveryTypes
      /\ kinds \in Seq(ScopeKind) /\ Len(kinds) \in Nat /\ recorded \in Nat
  BY KindsAreScopes DEF CommandInv
<1>2. ResultTypes'
  BY <1>1 DEF NestedAppendSettles, ResultTypes, Failures, Dispositions
<1>3. ScopeTypes'
  BY <1>1 DEF NestedAppendSettles, ScopeTypes
<1>4. JournalTypes'
  BY <1>1 DEF NestedAppendSettles, JournalTypes
<1>5. BatchTypes'
  BY <1>1 DEF NestedAppendSettles, BatchTypes, Units, NestedStates
<1>6. RecoveryTypes'
  BY <1>1 DEF NestedAppendSettles, RecoveryTypes
<1>7. /\ UNCHANGED <<kinds, pc, result, original, recorded, completions, planned, outcomes, index, expired,
                    commit, compensated, reported, stored>>
      /\ unit'.completed = unit.completed /\ unit'.disposition = unit.disposition
      /\ unit'.nestedFailure = unit.nestedFailure
      /\ unit.completed => unit' = unit
      /\ \A m \in Nested : nested'[m] = "failed" => nested[m] = "failed"
      /\ nested[n] # "idle"
  BY <1>1 DEF NestedAppendSettles, BatchTypes, Units, NestedStates
<1>8. BeforeOK'
  BY <1>7 DEF CommandInv, BeforeOK
<1>9. StagedOK'
  BY <1>7 DEF CommandInv, StagedOK
<1>10. CommitOK'
  BY <1>7 DEF CommandInv, CommitOK, Completing
<1>11. NestedOK' /\ ObservedOK'
  BY <1>7 DEF CommandInv, NestedOK, ObservedOK
<1>12. JournalOK' /\ RecoveryOK'
  BY <1>7 DEF CommandInv, JournalOK, RecoveryOK, Recovered
<1>13. QED
  BY <1>2, <1>3, <1>4, <1>5, <1>6, <1>8, <1>9, <1>10, <1>11, <1>12 DEF CommandInv

LEMMA NestedCompletedKeeps ==
  ASSUME CommandInv, NEW n \in Nested, NEW ok \in BOOLEAN, NestedCompleted(n, ok)
  PROVE  CommandInv'
<1>1. /\ ResultTypes /\ ScopeTypes /\ JournalTypes /\ BatchTypes /\ RecoveryTypes
      /\ kinds \in Seq(ScopeKind) /\ Len(kinds) \in Nat /\ recorded \in Nat
  BY KindsAreScopes DEF CommandInv
<1>2. ResultTypes'
  BY <1>1 DEF NestedCompleted, ResultTypes, Failures, Dispositions
<1>3. ScopeTypes'
  BY <1>1 DEF NestedCompleted, ScopeTypes
<1>4. JournalTypes'
  BY <1>1 DEF NestedCompleted, JournalTypes
<1>5. BatchTypes'
  BY <1>1 DEF NestedCompleted, BatchTypes, Units, NestedStates
<1>6. RecoveryTypes'
  BY <1>1 DEF NestedCompleted, RecoveryTypes
<1>7. BeforeOK'
  BY <1>1 DEF CommandInv, NestedCompleted, BeforeOK, ResultTypes, ScopeTypes, JournalTypes, BatchTypes, RecoveryTypes, Units, NestedStates
<1>8. StagedOK'
  BY <1>1 DEF CommandInv, NestedCompleted, StagedOK, ResultTypes, ScopeTypes, JournalTypes, BatchTypes, RecoveryTypes, Units, NestedStates
<1>9. CommitOK'
  BY <1>1 DEF CommandInv, NestedCompleted, CommitOK, Completing, ResultTypes, ScopeTypes, JournalTypes, BatchTypes, RecoveryTypes, Units, NestedStates
<1>10. NestedOK'
  <2>1. ~unit.completed => stored = {} /\ pc \notin {"appending", "observing"}
    BY DEF CommandInv, CommitOK
  <2>2. pc' = pc /\ stored' = stored
    BY DEF NestedCompleted
  <2>3. CASE unit.completed
    <3>1. unit' = unit /\ \A m \in Nested : nested'[m] = "failed" => nested[m] = "failed"
      BY <1>1, <2>3 DEF NestedCompleted, BatchTypes
    <3>2. QED
      BY <2>2, <3>1 DEF CommandInv, NestedOK
  <2>4. CASE ~unit.completed
    <3>1. /\ unit.nestedFailure => unit'.nestedFailure
          /\ nested'[n] = "failed" => unit'.nestedFailure
          /\ \A m \in Nested \ {n} : nested'[m] = nested[m]
      BY <1>1, <2>4, ZenonT(40) DEF NestedCompleted, BatchTypes, Units, NestedStates
    <3>2. QED
      BY <2>1, <2>2, <2>4, <3>1 DEF CommandInv, NestedOK
  <2>5. QED
    BY <2>3, <2>4
<1>11. ObservedOK'
  BY <1>1 DEF CommandInv, NestedCompleted, ObservedOK, ResultTypes, ScopeTypes, JournalTypes, BatchTypes, RecoveryTypes, Units, NestedStates
<1>12. JournalOK'
  BY <1>1 DEF CommandInv, NestedCompleted, JournalOK, ResultTypes, ScopeTypes, JournalTypes, BatchTypes, RecoveryTypes, Units, NestedStates
<1>13. RecoveryOK'
  BY <1>1 DEF CommandInv, NestedCompleted, RecoveryOK, Recovered, ResultTypes, ScopeTypes, JournalTypes, BatchTypes, RecoveryTypes, Units, NestedStates
<1>14. QED
  BY <1>2, <1>3, <1>4, <1>5, <1>6, <1>7, <1>8, <1>9, <1>10, <1>11, <1>12, <1>13 DEF CommandInv

LEMMA HandleSettlesKeeps ==
  ASSUME CommandInv, NEW ok \in BOOLEAN, NEW s \in Shape, NEW report \in Dispositions, HandleSettles(ok, s, report)
  PROVE  CommandInv'
<1>1. /\ ResultTypes /\ ScopeTypes /\ JournalTypes /\ BatchTypes /\ RecoveryTypes
      /\ kinds \in Seq(ScopeKind) /\ Len(kinds) \in Nat /\ recorded \in Nat
  BY KindsAreScopes DEF CommandInv
<1>2. ResultTypes'
  BY <1>1 DEF HandleSettles, ResultTypes, Failures, Dispositions, ThrowIfCanceled, Throw, Capture, Go
<1>3. ScopeTypes'
  BY <1>1 DEF HandleSettles, ScopeTypes, ThrowIfCanceled, Throw, Capture, Go
<1>4. JournalTypes'
  BY <1>1 DEF HandleSettles, JournalTypes, ThrowIfCanceled, Throw, Capture, Go
<1>5. BatchTypes'
  BY <1>1 DEF HandleSettles, BatchTypes, Units, NestedStates, ThrowIfCanceled, Throw, Capture, Go
<1>6. RecoveryTypes'
  BY <1>1 DEF HandleSettles, RecoveryTypes, ThrowIfCanceled, Throw, Capture, Go
<1>7. BeforeOK'
  BY <1>1 DEF CommandInv, HandleSettles, BeforeOK, ThrowIfCanceled, Throw, Capture, Go, ResultTypes, ScopeTypes, JournalTypes, BatchTypes, RecoveryTypes, Units, NestedStates
<1>8. StagedOK'
  <2>1. recorded = Len(kinds) /\ reported = "NoCommit"
    BY DEF CommandInv, BeforeOK, HandleSettles
  <2>2. /\ recorded' = recorded /\ kinds' = kinds /\ completions' = completions /\ reported' = report
        /\ report # reported => \E i \in DOMAIN kinds : kinds[i] = "reporting"
    BY DEF HandleSettles
  <2>3. DOMAIN kinds = 1..recorded
    BY <2>1, KindsAreScopes
  <2>4. QED
    BY <2>1, <2>2, <2>3 DEF CommandInv, StagedOK
<1>9. CommitOK' /\ NestedOK' /\ ObservedOK' /\ JournalOK' /\ RecoveryOK'
  <2>1. /\ pc \in Opening \cup Running /\ kinds' = kinds /\ completions' = completions
        /\ stored' = stored /\ compensated' = compensated /\ nested' = nested
        /\ pc' \in Opening \cup Running \cup {"completing"}
    BY DEF HandleSettles, ThrowIfCanceled, Throw, Capture, Go
  <2>2. recorded' \in Nat
    BY <1>1 DEF HandleSettles, ThrowIfCanceled, Throw, Capture, Go, ScopeTypes
  <2>3. /\ unit'.completed = unit.completed /\ unit'.disposition = unit.disposition
        /\ unit'.nestedFailure = unit.nestedFailure
    BY <1>1 DEF HandleSettles, BatchTypes, Units
  <2>4. pc' = "completing" /\ planned' # NoJournal /\ original' = {} =>
          Len(outcomes') = planned' /\ \A i \in DOMAIN outcomes' : outcomes'[i].completed
    BY <1>1 DEF CommandInv, BeforeOK, HandleSettles, ThrowIfCanceled, Throw, Capture, Go
  <2>5. QED
    BY <2>1, <2>2, <2>3, <2>4, EarlyMoves
<1>10. QED
  BY <1>2, <1>3, <1>4, <1>5, <1>6, <1>7, <1>8, <1>9 DEF CommandInv

LEMMA PlanSettlesKeeps ==
  ASSUME CommandInv, NEW ok \in BOOLEAN, PlanSettles(ok)
  PROVE  CommandInv'
<1>1. /\ ResultTypes /\ ScopeTypes /\ JournalTypes /\ BatchTypes /\ RecoveryTypes
      /\ kinds \in Seq(ScopeKind) /\ Len(kinds) \in Nat /\ recorded \in Nat
  BY KindsAreScopes DEF CommandInv
<1>2. ResultTypes'
  BY <1>1 DEF PlanSettles, ResultTypes, Failures, Dispositions, Throw, Capture, Go
<1>3. ScopeTypes'
  BY <1>1 DEF PlanSettles, ScopeTypes, Throw, Capture, Go
<1>4. JournalTypes'
  <2>1. outcomes = <<>> /\ planned = NoJournal
    BY DEF CommandInv, BeforeOK, PlanSettles
  <2>2. planned' \in 0..MaxOperations \cup {NoJournal}
    BY <1>1, <2>1 DEF PlanSettles, JournalTypes, Shape
  <2>3. Len(outcomes) = 0 /\ 0 <= IF planned' = NoJournal THEN 0 ELSE planned'
    BY <2>1, <2>2, OperationsNat DEF NoJournal
  <2>4. UNCHANGED <<shape, outcomes, failedIndex, index>>
    BY DEF PlanSettles
  <2>5. QED
    BY <1>1, <2>2, <2>3, <2>4 DEF JournalTypes
<1>5. BatchTypes'
  BY <1>1 DEF PlanSettles, BatchTypes, Units, NestedStates, Throw, Capture, Go
<1>6. RecoveryTypes'
  BY <1>1 DEF PlanSettles, RecoveryTypes, Throw, Capture, Go
<1>7. BeforeOK'
  BY <1>1 DEF CommandInv, PlanSettles, BeforeOK, Throw, Capture, Go, ResultTypes, ScopeTypes, JournalTypes, BatchTypes, RecoveryTypes, Units, NestedStates
<1>8. StagedOK'
  BY <1>1 DEF CommandInv, PlanSettles, StagedOK, Throw, Capture, Go, ResultTypes, ScopeTypes, JournalTypes, BatchTypes, RecoveryTypes, Units, NestedStates
<1>9. CommitOK' /\ NestedOK' /\ ObservedOK' /\ JournalOK' /\ RecoveryOK'
  <2>1. /\ pc \in Opening \cup Running /\ kinds' = kinds /\ completions' = completions
        /\ stored' = stored /\ compensated' = compensated /\ nested' = nested
        /\ pc' \in Opening \cup Running \cup {"completing"}
    BY DEF PlanSettles, Throw, Capture, Go
  <2>2. recorded' \in Nat
    BY <1>1 DEF PlanSettles, Throw, Capture, Go, ScopeTypes
  <2>3. /\ unit'.completed = unit.completed /\ unit'.disposition = unit.disposition
        /\ unit'.nestedFailure = unit.nestedFailure
    BY <1>1 DEF PlanSettles, BatchTypes, Units
  <2>4. pc' = "completing" /\ planned' # NoJournal /\ original' = {} =>
          Len(outcomes') = planned' /\ \A i \in DOMAIN outcomes' : outcomes'[i].completed
    BY <1>1 DEF CommandInv, BeforeOK, PlanSettles, Throw, Capture, Go
  <2>5. QED
    BY <2>1, <2>2, <2>3, <2>4, EarlyMoves
<1>10. QED
  BY <1>2, <1>3, <1>4, <1>5, <1>6, <1>7, <1>8, <1>9 DEF CommandInv

LEMMA StageEventsKeeps ==
  ASSUME CommandInv, StageEvents
  PROVE  CommandInv'
<1>1. /\ ResultTypes /\ ScopeTypes /\ JournalTypes /\ BatchTypes /\ RecoveryTypes
      /\ kinds \in Seq(ScopeKind) /\ Len(kinds) \in Nat /\ recorded \in Nat
  BY KindsAreScopes DEF CommandInv
<1>2. ResultTypes'
  BY <1>1 DEF StageEvents, ResultTypes, Failures, Dispositions
<1>3. ScopeTypes'
  BY <1>1 DEF StageEvents, ScopeTypes
<1>4. JournalTypes'
  BY <1>1 DEF StageEvents, JournalTypes
<1>5. BatchTypes'
  BY <1>1 DEF StageEvents, BatchTypes, Units, NestedStates
<1>6. RecoveryTypes'
  BY <1>1 DEF StageEvents, RecoveryTypes
<1>7. BeforeOK'
  BY <1>1 DEF CommandInv, StageEvents, BeforeOK, ResultTypes, ScopeTypes, JournalTypes, BatchTypes, RecoveryTypes, Units, NestedStates
<1>8. StagedOK'
  <2>1. recorded = Len(kinds)
    BY DEF CommandInv, BeforeOK, StageEvents
  <2>2. QED
    BY <2>1 DEF CommandInv, StageEvents, StagedOK
<1>9. CommitOK' /\ NestedOK' /\ ObservedOK' /\ JournalOK' /\ RecoveryOK'
  <2>1. /\ pc \in Opening \cup Running /\ kinds' = kinds /\ completions' = completions
        /\ stored' = stored /\ compensated' = compensated /\ nested' = nested
        /\ pc' \in Opening \cup Running \cup {"completing"}
    BY DEF StageEvents
  <2>2. recorded' \in Nat
    BY <1>1 DEF StageEvents, ScopeTypes
  <2>3. /\ unit'.completed = unit.completed /\ unit'.disposition = unit.disposition
        /\ unit'.nestedFailure = unit.nestedFailure
    BY <1>1 DEF StageEvents, BatchTypes, Units
  <2>4. pc' = "completing" /\ planned' # NoJournal /\ original' = {} =>
          Len(outcomes') = planned' /\ \A i \in DOMAIN outcomes' : outcomes'[i].completed
    BY <1>1 DEF CommandInv, BeforeOK, StageEvents
  <2>5. QED
    BY <2>1, <2>2, <2>3, <2>4, EarlyMoves
<1>10. QED
  BY <1>2, <1>3, <1>4, <1>5, <1>6, <1>7, <1>8, <1>9 DEF CommandInv

LEMMA RespondSettlesKeeps ==
  ASSUME CommandInv, NEW ok \in BOOLEAN, RespondSettles(ok)
  PROVE  CommandInv'
<1>1. /\ ResultTypes /\ ScopeTypes /\ JournalTypes /\ BatchTypes /\ RecoveryTypes
      /\ kinds \in Seq(ScopeKind) /\ Len(kinds) \in Nat /\ recorded \in Nat
  BY KindsAreScopes DEF CommandInv
<1>2. ResultTypes'
  BY <1>1 DEF RespondSettles, ResultTypes, Failures, Dispositions, ThrowIfCanceled, Throw, Capture
<1>3. ScopeTypes'
  BY <1>1 DEF RespondSettles, ScopeTypes, ThrowIfCanceled, Throw, Capture
<1>4. JournalTypes'
  BY <1>1 DEF RespondSettles, JournalTypes, ThrowIfCanceled, Throw, Capture
<1>5. BatchTypes'
  BY <1>1 DEF RespondSettles, BatchTypes, Units, NestedStates, ThrowIfCanceled, Throw, Capture
<1>6. RecoveryTypes'
  BY <1>1 DEF RespondSettles, RecoveryTypes, ThrowIfCanceled, Throw, Capture
<1>7. BeforeOK'
  BY <1>1 DEF CommandInv, RespondSettles, BeforeOK, ThrowIfCanceled, Throw, Capture, ResultTypes, ScopeTypes, JournalTypes, BatchTypes, RecoveryTypes, Units, NestedStates
<1>8. StagedOK'
  BY <1>1 DEF CommandInv, RespondSettles, StagedOK, ThrowIfCanceled, Throw, Capture, ResultTypes, ScopeTypes, JournalTypes, BatchTypes, RecoveryTypes, Units, NestedStates
<1>9. CommitOK' /\ NestedOK' /\ ObservedOK' /\ JournalOK' /\ RecoveryOK'
  <2>1. /\ pc \in Opening \cup Running /\ kinds' = kinds /\ completions' = completions
        /\ stored' = stored /\ compensated' = compensated /\ nested' = nested
        /\ pc' \in Opening \cup Running \cup {"completing"}
    BY DEF RespondSettles, ThrowIfCanceled, Throw, Capture
  <2>2. recorded' \in Nat
    BY <1>1 DEF RespondSettles, ThrowIfCanceled, Throw, Capture, ScopeTypes
  <2>3. /\ unit'.completed = unit.completed /\ unit'.disposition = unit.disposition
        /\ unit'.nestedFailure = unit.nestedFailure
    BY <1>1 DEF RespondSettles, BatchTypes, Units
  <2>4. pc' = "completing" /\ planned' # NoJournal /\ original' = {} =>
          Len(outcomes') = planned' /\ \A i \in DOMAIN outcomes' : outcomes'[i].completed
    BY <1>1 DEF CommandInv, BeforeOK, RespondSettles, ThrowIfCanceled, Throw, Capture
  <2>5. QED
    BY <2>1, <2>2, <2>3, <2>4, EarlyMoves
<1>10. QED
  BY <1>2, <1>3, <1>4, <1>5, <1>6, <1>7, <1>8, <1>9 DEF CommandInv

LEMMA ExecuteKeeps ==
  ASSUME CommandInv, NEW ok \in BOOLEAN, Execute(ok)
  PROVE  CommandInv'
<1>1. /\ ResultTypes /\ ScopeTypes /\ JournalTypes /\ BatchTypes /\ RecoveryTypes
      /\ kinds \in Seq(ScopeKind) /\ Len(kinds) \in Nat /\ recorded \in Nat
  BY KindsAreScopes DEF CommandInv
<1>2. ResultTypes'
  BY <1>1, ZenonT(40) DEF Execute, ResultTypes, Failures, Dispositions, ThrowIfCanceled, Throw, Capture, Go
<1>3. ScopeTypes'
  BY <1>1 DEF Execute, ScopeTypes, ThrowIfCanceled, Throw, Capture, Go
<1>0. /\ pc = "responded" /\ outcomes = <<>> /\ failedIndex = 0 /\ index = 0
      /\ planned \in Int /\ (planned # NoJournal => planned >= 0)
      /\ shape' = shape /\ planned' = planned /\ failedIndex' = failedIndex /\ index' = index
      /\ completions' = completions /\ stored' = stored /\ compensated' = compensated /\ unit' = unit
      /\ reported' = reported /\ recorded' = recorded /\ kinds' = kinds
  <2>1. pc = "responded" /\ outcomes = <<>>
    BY DEF CommandInv, BeforeOK, Execute
  <2>2. Len(outcomes) = 0
    BY <2>1
  <2>3. planned \in Int /\ (planned # NoJournal => planned >= 0)
    BY <1>1, OperationsNat DEF JournalTypes, NoJournal
  <2>4. failedIndex = 0 /\ index = 0
    BY <1>1, <2>2 DEF JournalTypes
  <2>5. QED
    BY <2>1, <2>3, <2>4 DEF Execute
<1>16. \/ outcomes' = outcomes /\ pc' = "completing" /\ (original' # {} \/ planned = NoJournal \/ planned = 0)
       \/ /\ outcomes' = <<Started>> /\ planned # NoJournal /\ planned > 0 /\ pc' = "executing"
          /\ result = {} /\ result' = result /\ original' = original
  BY <1>0 DEF Execute, ThrowIfCanceled, Throw, Capture, Go, NoJournal
<1>17. Started \in Outcome
  BY DEF Started, Outcome
<1>18. <<Started>> \in Seq(Outcome) /\ Len(<<Started>>) = 1 /\ <<Started>> # <<>> /\ DOMAIN <<Started>> = 1..1
  BY <1>17
<1>4. JournalTypes'
  <2>1. CASE outcomes' = outcomes
    BY <1>0, <1>1, <2>1 DEF JournalTypes
  <2>2. CASE outcomes' = <<Started>> /\ planned # NoJournal /\ planned > 0
    BY <1>0, <1>1, <1>18, <2>2 DEF JournalTypes
  <2>3. QED
    BY <1>16, <2>1, <2>2
<1>5. BatchTypes'
  BY <1>1 DEF Execute, BatchTypes, Units, NestedStates, ThrowIfCanceled, Throw, Capture, Go
<1>6. RecoveryTypes'
  BY <1>1 DEF Execute, RecoveryTypes, ThrowIfCanceled, Throw, Capture, Go
<1>7. BeforeOK'
  <2>1. CASE pc' = "completing"
    BY <2>1 DEF BeforeOK
  <2>2. CASE /\ outcomes' = <<Started>> /\ planned # NoJournal /\ pc' = "executing"
             /\ result = {} /\ result' = result /\ original' = original
    <3>1. /\ completions = <<>> /\ original = {} /\ stored = {} /\ compensated = <<>>
          /\ ~unit.completed /\ unit.disposition = "NoCommit" /\ recorded = Len(kinds)
      BY <1>0 DEF CommandInv, BeforeOK
    <3>2. \A i \in DOMAIN outcomes' : ~(i < Len(outcomes'))
      BY <1>18, <2>2
    <3>3. QED
      BY <1>0, <1>18, <2>2, <3>1, <3>2 DEF BeforeOK
  <2>3. QED
    BY <1>16, <2>1, <2>2
<1>8. StagedOK'
  BY <1>1 DEF CommandInv, Execute, StagedOK, ThrowIfCanceled, Throw, Capture, Go, ResultTypes, ScopeTypes, JournalTypes, BatchTypes, RecoveryTypes, Units, NestedStates
<1>9. CommitOK' /\ NestedOK' /\ ObservedOK' /\ JournalOK' /\ RecoveryOK'
  <2>1. /\ pc \in Opening \cup Running /\ kinds' = kinds /\ completions' = completions
        /\ stored' = stored /\ compensated' = compensated /\ nested' = nested
        /\ pc' \in Opening \cup Running \cup {"completing"}
    BY DEF Execute, ThrowIfCanceled, Throw, Capture, Go
  <2>2. recorded' \in Nat
    BY <1>1 DEF Execute, ThrowIfCanceled, Throw, Capture, Go, ScopeTypes
  <2>3. /\ unit'.completed = unit.completed /\ unit'.disposition = unit.disposition
        /\ unit'.nestedFailure = unit.nestedFailure
    BY <1>1 DEF Execute, BatchTypes, Units
  <2>4. pc' = "completing" /\ planned' # NoJournal /\ original' = {} =>
          Len(outcomes') = planned' /\ \A i \in DOMAIN outcomes' : outcomes'[i].completed
    <3>1. Len(outcomes) = 0 /\ DOMAIN outcomes = {}
      BY <1>0
    <3>2. QED
      BY <1>0, <1>16, <3>1
  <2>5. QED
    BY <2>1, <2>2, <2>3, <2>4, EarlyMoves
<1>10. QED
  BY <1>2, <1>3, <1>4, <1>5, <1>6, <1>7, <1>8, <1>9 DEF CommandInv

LEMMA OperationSettlesKeeps ==
  ASSUME CommandInv, NEW ok \in BOOLEAN, OperationSettles(ok)
  PROVE  CommandInv'
<1>1. /\ ResultTypes /\ ScopeTypes /\ JournalTypes /\ BatchTypes /\ RecoveryTypes
      /\ kinds \in Seq(ScopeKind) /\ Len(kinds) \in Nat /\ recorded \in Nat
  BY KindsAreScopes DEF CommandInv
<1>2. ResultTypes'
  BY <1>1 DEF OperationSettles, ResultTypes, Failures, Dispositions, ThrowIfCanceled, Throw, Capture, Go, Finished, Started
<1>3. ScopeTypes'
  BY <1>1 DEF OperationSettles, ScopeTypes, ThrowIfCanceled, Throw, Capture, Go, Finished, Started
<1>0. /\ pc = "executing" /\ outcomes \in Seq(Outcome) /\ outcomes # <<>> /\ planned # NoJournal
      /\ planned \in Nat /\ Len(outcomes) <= planned /\ result = {}
      /\ failedIndex \in 0..Len(outcomes) /\ index \in 0..Len(outcomes)
      /\ shape' = shape /\ planned' = planned /\ index' = index
      /\ completions' = completions /\ stored' = stored /\ compensated' = compensated /\ unit' = unit
      /\ reported' = reported /\ recorded' = recorded /\ kinds' = kinds
  <2>1. pc = "executing" /\ outcomes # <<>> /\ planned # NoJournal /\ result = {}
    BY DEF CommandInv, BeforeOK, OperationSettles
  <2>2. planned \in Nat /\ Len(outcomes) <= planned
    BY <1>1, <2>1, OperationsNat DEF JournalTypes
  <2>3. QED
    BY <1>1, <2>1, <2>2 DEF JournalTypes, OperationSettles
<1>16. DEFINE done == Finished(outcomes)
<1>17. /\ done \in Seq(Outcome) /\ Len(done) = Len(outcomes) /\ Len(outcomes) \in Nat \ {0}
       /\ \A i \in 1..Len(outcomes) : done[i].completed <=> i = Len(outcomes) \/ outcomes[i].completed
  BY <1>0, FinishedResult
<1>18. \A i \in 1..Len(outcomes) : done[i].completed
  <2>1. \A i \in 1..Len(outcomes) : i < Len(outcomes) => outcomes[i].completed
    BY <1>0 DEF CommandInv, BeforeOK
  <2>2. \A i \in 1..Len(outcomes) : i < Len(outcomes) \/ i = Len(outcomes)
    BY <1>17
  <2> HIDE DEF done
  <2>3. QED
    BY <1>17, <2>1, <2>2
<1>19. /\ Started \in Outcome
       /\ Append(done, Started) \in Seq(Outcome) /\ Len(Append(done, Started)) = Len(outcomes) + 1
       /\ Append(done, Started) # <<>>
       /\ \A i \in 1..Len(outcomes) : Append(done, Started)[i] = done[i]
  <2>1. Started \in Outcome
    BY DEF Started, Outcome
  <2> HIDE DEF done
  <2>2. QED
    BY <1>17, <2>1
<1>20. \/ outcomes' = outcomes /\ failedIndex' = Len(outcomes) /\ pc' = "completing" /\ original' # {}
       \/ outcomes' = done /\ failedIndex' = failedIndex /\ pc' = "completing" /\ original' # {}
       \/ /\ outcomes' = Append(done, Started) /\ failedIndex' = failedIndex /\ Len(outcomes) < planned
          /\ pc' = "executing" /\ result' = result /\ original' = original
       \/ outcomes' = done /\ failedIndex' = failedIndex /\ pc' = "completing" /\ Len(outcomes) = planned
  <2>1. Len(outcomes) < planned \/ Len(outcomes) = planned
    BY <1>0, <1>17
  <2>2. QED
    BY <2>1 DEF OperationSettles, ThrowIfCanceled, Throw, Capture, Go
<1> HIDE DEF done
<1>4. JournalTypes'
  <2>1. CASE outcomes' = outcomes /\ failedIndex' = Len(outcomes)
    BY <1>0, <1>1, <1>17, <2>1 DEF JournalTypes
  <2>2. CASE outcomes' = done /\ failedIndex' = failedIndex
    BY <1>0, <1>1, <1>17, <2>2 DEF JournalTypes
  <2>3. CASE outcomes' = Append(done, Started) /\ failedIndex' = failedIndex /\ Len(outcomes) < planned
    <3>1. Len(outcomes') <= planned /\ failedIndex' \in 0..Len(outcomes') /\ index' \in 0..Len(outcomes')
      BY <1>0, <1>17, <1>19, <2>3
    <3>2. QED
      BY <1>0, <1>1, <1>19, <2>3, <3>1 DEF JournalTypes
  <2>4. QED
    BY <1>20, <2>1, <2>2, <2>3
<1>5. BatchTypes'
  BY <1>1 DEF OperationSettles, BatchTypes, Units, NestedStates, ThrowIfCanceled, Throw, Capture, Go, Finished, Started
<1>6. RecoveryTypes'
  BY <1>1 DEF OperationSettles, RecoveryTypes, ThrowIfCanceled, Throw, Capture, Go, Finished, Started
<1>7. BeforeOK'
  <2>1. CASE pc' = "completing"
    BY <2>1 DEF BeforeOK
  <2>2. CASE /\ outcomes' = Append(done, Started) /\ pc' = "executing" /\ result' = result /\ original' = original
    <3>1. /\ completions = <<>> /\ original = {} /\ stored = {} /\ compensated = <<>>
          /\ ~unit.completed /\ unit.disposition = "NoCommit" /\ recorded = Len(kinds)
      BY <1>0 DEF CommandInv, BeforeOK
    <3>2. DOMAIN outcomes' = 1..Len(outcomes') /\ Len(outcomes') = Len(outcomes) + 1
      BY <1>19, <2>2
    <3>3. \A i \in DOMAIN outcomes' : i < Len(outcomes') => i \in 1..Len(outcomes)
      BY <1>17, <3>2
    <3>4. \A i \in DOMAIN outcomes' : i < Len(outcomes') => outcomes'[i].completed
      BY <1>18, <1>19, <2>2, <3>3
    <3>5. QED
      BY <1>0, <1>19, <2>2, <3>1, <3>4 DEF BeforeOK
  <2>3. QED
    BY <1>20, <2>1, <2>2
<1>8. StagedOK'
  BY <1>1 DEF CommandInv, OperationSettles, StagedOK, ThrowIfCanceled, Throw, Capture, Go, Finished, Started, ResultTypes, ScopeTypes, JournalTypes, BatchTypes, RecoveryTypes, Units, NestedStates
<1>9. CommitOK' /\ NestedOK' /\ ObservedOK' /\ JournalOK' /\ RecoveryOK'
  <2>1. /\ pc \in Opening \cup Running /\ kinds' = kinds /\ completions' = completions
        /\ stored' = stored /\ compensated' = compensated /\ nested' = nested
        /\ pc' \in Opening \cup Running \cup {"completing"}
    BY DEF OperationSettles, ThrowIfCanceled, Throw, Capture, Go, Finished, Started
  <2>2. recorded' \in Nat
    BY <1>1 DEF OperationSettles, ThrowIfCanceled, Throw, Capture, Go, Finished, Started, ScopeTypes
  <2>3. /\ unit'.completed = unit.completed /\ unit'.disposition = unit.disposition
        /\ unit'.nestedFailure = unit.nestedFailure
    BY <1>1 DEF OperationSettles, BatchTypes, Units
  <2>4. pc' = "completing" /\ planned' # NoJournal /\ original' = {} =>
          Len(outcomes') = planned' /\ \A i \in DOMAIN outcomes' : outcomes'[i].completed
    <3>1. DOMAIN done = 1..Len(outcomes)
      BY <1>17
    <3>2. QED
      BY <1>0, <1>17, <1>18, <1>20, <3>1
  <2>5. QED
    BY <2>1, <2>2, <2>3, <2>4, EarlyMoves
<1>10. QED
  BY <1>2, <1>3, <1>4, <1>5, <1>6, <1>7, <1>8, <1>9 DEF CommandInv

LEMMA BudgetExpiresKeeps ==
  ASSUME CommandInv, BudgetExpires
  PROVE  CommandInv'
<1>1. /\ ResultTypes /\ ScopeTypes /\ JournalTypes /\ BatchTypes /\ RecoveryTypes
      /\ kinds \in Seq(ScopeKind) /\ Len(kinds) \in Nat /\ recorded \in Nat
  BY KindsAreScopes DEF CommandInv
<1>2. ResultTypes'
  BY <1>1 DEF BudgetExpires, ResultTypes, Failures, Dispositions
<1>3. ScopeTypes'
  BY <1>1 DEF BudgetExpires, ScopeTypes
<1>4. JournalTypes'
  BY <1>1 DEF BudgetExpires, JournalTypes
<1>5. BatchTypes'
  BY <1>1 DEF BudgetExpires, BatchTypes, Units, NestedStates
<1>6. RecoveryTypes'
  BY <1>1 DEF BudgetExpires, RecoveryTypes
<1>7. BeforeOK'
  BY <1>1 DEF CommandInv, BudgetExpires, BeforeOK, ResultTypes, ScopeTypes, JournalTypes, BatchTypes, RecoveryTypes, Units, NestedStates
<1>8. StagedOK'
  BY <1>1 DEF CommandInv, BudgetExpires, StagedOK, ResultTypes, ScopeTypes, JournalTypes, BatchTypes, RecoveryTypes, Units, NestedStates
<1>9. CommitOK'
  BY <1>1 DEF CommandInv, BudgetExpires, CommitOK, Completing, ResultTypes, ScopeTypes, JournalTypes, BatchTypes, RecoveryTypes, Units, NestedStates
<1>10. NestedOK'
  BY <1>1 DEF CommandInv, BudgetExpires, NestedOK, ResultTypes, ScopeTypes, JournalTypes, BatchTypes, RecoveryTypes, Units, NestedStates
<1>11. ObservedOK'
  BY <1>1 DEF CommandInv, BudgetExpires, ObservedOK, ResultTypes, ScopeTypes, JournalTypes, BatchTypes, RecoveryTypes, Units, NestedStates
<1>12. JournalOK'
  BY <1>1 DEF CommandInv, BudgetExpires, JournalOK, ResultTypes, ScopeTypes, JournalTypes, BatchTypes, RecoveryTypes, Units, NestedStates
<1>13. RecoveryOK'
  BY <1>1 DEF CommandInv, BudgetExpires, RecoveryOK, Recovered, ResultTypes, ScopeTypes, JournalTypes, BatchTypes, RecoveryTypes, Units, NestedStates
<1>14. QED
  BY <1>2, <1>3, <1>4, <1>5, <1>6, <1>7, <1>8, <1>9, <1>10, <1>11, <1>12, <1>13 DEF CommandInv

LEMMA CancelKeeps ==
  ASSUME CommandInv, Cancel
  PROVE  CommandInv'
<1>1. /\ ResultTypes /\ ScopeTypes /\ JournalTypes /\ BatchTypes /\ RecoveryTypes
      /\ kinds \in Seq(ScopeKind) /\ Len(kinds) \in Nat /\ recorded \in Nat
  BY KindsAreScopes DEF CommandInv
<1>2. ResultTypes'
  BY <1>1 DEF Cancel, ResultTypes, Failures, Dispositions
<1>3. ScopeTypes'
  BY <1>1 DEF Cancel, ScopeTypes
<1>4. JournalTypes'
  BY <1>1 DEF Cancel, JournalTypes
<1>5. BatchTypes'
  BY <1>1 DEF Cancel, BatchTypes, Units, NestedStates
<1>6. RecoveryTypes'
  BY <1>1 DEF Cancel, RecoveryTypes
<1>7. BeforeOK'
  BY <1>1 DEF CommandInv, Cancel, BeforeOK, ResultTypes, ScopeTypes, JournalTypes, BatchTypes, RecoveryTypes, Units, NestedStates
<1>8. StagedOK'
  BY <1>1 DEF CommandInv, Cancel, StagedOK, ResultTypes, ScopeTypes, JournalTypes, BatchTypes, RecoveryTypes, Units, NestedStates
<1>9. CommitOK'
  BY <1>1 DEF CommandInv, Cancel, CommitOK, Completing, ResultTypes, ScopeTypes, JournalTypes, BatchTypes, RecoveryTypes, Units, NestedStates
<1>10. NestedOK'
  BY <1>1 DEF CommandInv, Cancel, NestedOK, ResultTypes, ScopeTypes, JournalTypes, BatchTypes, RecoveryTypes, Units, NestedStates
<1>11. ObservedOK'
  BY <1>1 DEF CommandInv, Cancel, ObservedOK, ResultTypes, ScopeTypes, JournalTypes, BatchTypes, RecoveryTypes, Units, NestedStates
<1>12. JournalOK'
  BY <1>1 DEF CommandInv, Cancel, JournalOK, ResultTypes, ScopeTypes, JournalTypes, BatchTypes, RecoveryTypes, Units, NestedStates
<1>13. RecoveryOK'
  BY <1>1 DEF CommandInv, Cancel, RecoveryOK, Recovered, ResultTypes, ScopeTypes, JournalTypes, BatchTypes, RecoveryTypes, Units, NestedStates
<1>14. QED
  BY <1>2, <1>3, <1>4, <1>5, <1>6, <1>7, <1>8, <1>9, <1>10, <1>11, <1>12, <1>13 DEF CommandInv

(***************************************************************************)
(* Completing the scopes                                                   *)
(***************************************************************************)

\* A completed scope leaves one less, and the failure captured first in place.
LEMMA ScopeDoneResult ==
  ASSUME CommandInv, NEW res \in SUBSET Failures, ScopeDone(res),
         pc \in {"completing", "appending", "observing"}, Completing > 0,
         UNCHANGED <<kinds, canceled, recorded, shape, journalVars, recoveryVars>>
  PROVE  /\ ScopeTypes' /\ JournalTypes' /\ RecoveryTypes'
         /\ BeforeOK' /\ JournalOK' /\ RecoveryOK'
         /\ Completing \in 1..recorded /\ Completing' = Completing - 1
         /\ Len(completions') <= recorded'
         /\ original' \subseteq Failures /\ (original # {} => original' = original)
         /\ (original' = {} => res = {}) /\ pc' = "completing" /\ result' = res
<1>1. /\ ResultTypes /\ ScopeTypes /\ JournalTypes /\ RecoveryTypes
      /\ recorded \in Nat /\ completions \in Seq(1..recorded) /\ Len(completions) \in Nat
  BY KindsAreScopes DEF CommandInv
<1>2. Completing \in 1..recorded
  BY <1>1 DEF Completing
<1>3. completions' = Append(completions, Completing) /\ recorded' = recorded /\ kinds' = kinds
  BY DEF ScopeDone
<1>4. completions' \in Seq(1..recorded) /\ Len(completions') = Len(completions) + 1
  BY <1>1, <1>2, <1>3
<1>5. Completing' = Completing - 1 /\ Len(completions') <= recorded'
  BY <1>1, <1>2, <1>3, <1>4 DEF Completing
<1>6. ScopeTypes'
  BY <1>1, <1>3, <1>4 DEF ScopeTypes
<1>7. JournalTypes' /\ RecoveryTypes'
  BY <1>1 DEF JournalTypes, RecoveryTypes
<1>8. /\ original' \subseteq Failures /\ (original # {} => original' = original)
      /\ (original' = {} => res = {} /\ original = {}) /\ pc' = "completing" /\ result' = res
  BY <1>1 DEF ScopeDone, Capture, ResultTypes
<1>9. BeforeOK'
  BY <1>8 DEF BeforeOK
<1>10. compensated = <<>>
  BY DEF CommandInv, JournalOK
<1>11. JournalOK'
  BY <1>8, <1>10 DEF CommandInv, JournalOK
<1>12. RecoveryOK'
  BY <1>8, <1>10 DEF RecoveryOK
<1>13. QED
  BY <1>2, <1>5, <1>6, <1>7, <1>8, <1>9, <1>11, <1>12

\* The Chronicle scope is done: the command failed, or its batch is stored whole.
LEMMA ChronicleScopeDone ==
  ASSUME CommandInv, Completing \in 1..recorded, kinds[Completing] = "chronicle",
         kinds' = kinds, recorded' = recorded, pc' = "completing", Completing' = Completing - 1,
         original' # {} \/ (unit'.completed /\ stored' = unit'.entries),
         stored' # {} => unit'.completed
  PROVE  CommitOK'
<1>1. \A i \in 1..recorded : kinds[i] = "chronicle" => i = Completing
  BY KindsAreScopes
<1>2. recorded \in Nat /\ Completing \in Int /\ ~(Completing <= Completing - 1)
  BY KindsAreScopes
<1>3. QED
  BY <1>1, <1>2 DEF CommitOK

LEMMA ScopeCompletesKeeps ==
  ASSUME CommandInv, NEW outcome \in {"returns", "throws", "clears", "fails"}, NEW report \in Dispositions,
         ScopeCompletes(outcome, report)
  PROVE  CommandInv'
<1>1. /\ ResultTypes /\ ScopeTypes /\ BatchTypes /\ recorded \in Nat /\ Len(completions) \in Nat
  BY KindsAreScopes DEF CommandInv
<1>2. /\ pc = "completing" /\ Completing > 0 /\ kinds[Completing] # "chronicle"
      /\ UNCHANGED <<kinds, canceled, recorded, shape, journalVars, recoveryVars>>
      /\ unit' = unit /\ nested' = nested /\ stored' = stored /\ appends' = appends
      /\ reported' = report /\ (report # reported => kinds[Completing] = "reporting")
  BY DEF ScopeCompletes
<1>3. PICK res \in SUBSET Failures : ScopeDone(res)
  <2>1. Restore(result) \subseteq Failures
    BY <1>1 DEF ResultTypes, Restore
  <2>2. QED
    BY <2>1 DEF ScopeCompletes, Failures
<1>4. /\ ScopeTypes' /\ JournalTypes' /\ RecoveryTypes' /\ BeforeOK' /\ JournalOK' /\ RecoveryOK'
      /\ Completing \in 1..recorded /\ Completing' = Completing - 1
      /\ Len(completions') <= recorded'
      /\ original' \subseteq Failures /\ (original # {} => original' = original)
      /\ pc' = "completing" /\ result' = res
  BY <1>2, <1>3, ScopeDoneResult
<1>5. ResultTypes'
  BY <1>1, <1>2, <1>3, <1>4 DEF ResultTypes
<1>6. BatchTypes'
  BY <1>1, <1>2 DEF BatchTypes
<1>7. StagedOK'
  BY <1>1, <1>2, <1>4 DEF CommandInv, StagedOK
<1>8. CommitOK'
  <2>1. \A i \in 1..recorded : kinds[i] = "chronicle" =>
          /\ i <= Completing - 1 => ~unit.completed /\ stored = {} /\ unit.disposition = "NoCommit"
          /\ i > Completing - 1 => original # {} \/ (unit.completed /\ stored = unit.entries)
    <3>1. SUFFICES ASSUME NEW i \in 1..recorded, kinds[i] = "chronicle"
                   PROVE  /\ i <= Completing - 1 => ~unit.completed /\ stored = {} /\ unit.disposition = "NoCommit"
                          /\ i > Completing - 1 => original # {} \/ (unit.completed /\ stored = unit.entries)
      OBVIOUS
    <3>2. i # Completing
      BY <1>2, <3>1
    <3>3. (i <= Completing - 1 => i <= Completing) /\ (i > Completing - 1 => i > Completing)
      BY <1>1, <1>4, <3>2
    <3>4. QED
      BY <1>2, <3>1, <3>3 DEF CommandInv, CommitOK
  <2>2. stored # {} => unit.completed /\ \E i \in 1..recorded : kinds[i] = "chronicle"
    BY DEF CommandInv, CommitOK
  <2>3. QED
    BY <1>2, <1>4, <2>1, <2>2 DEF CommitOK
<1>9. NestedOK' /\ ObservedOK'
  BY <1>2, <1>4 DEF CommandInv, NestedOK, ObservedOK
<1>10. QED
  BY <1>4, <1>5, <1>6, <1>7, <1>8, <1>9 DEF CommandInv

LEMMA AggregatesStageKeeps ==
  ASSUME CommandInv, NEW ok \in BOOLEAN, AggregatesStage(ok)
  PROVE  CommandInv'
<1>1. /\ ResultTypes /\ ScopeTypes /\ JournalTypes /\ BatchTypes /\ RecoveryTypes
      /\ recorded \in Nat /\ Len(completions) \in Nat
  BY KindsAreScopes DEF CommandInv
<1>2. /\ pc = "completing" /\ Completing > 0 /\ kinds[Completing] = "chronicle"
      /\ UNCHANGED <<kinds, canceled, recorded, shape, journalVars, recoveryVars>>
      /\ nested' = nested /\ stored' = stored /\ appends' = appends /\ reported' = reported
      /\ unit.aggregate = "pending"
  BY DEF AggregatesStage
<1>3. Completing \in 1..recorded
  BY <1>1, <1>2 DEF Completing
<1>4. /\ ~unit.completed /\ stored = {} /\ unit.disposition = "NoCommit"
      /\ \A i \in 1..recorded : kinds[i] = "chronicle" => i = Completing
  <2>1. Completing <= Completing
    BY <1>3
  <2>2. QED
    BY <1>2, <1>3, <2>1, KindsAreScopes DEF CommandInv, CommitOK
<1>5. CASE /\ pc' = pc /\ result' = result /\ original' = original /\ completions' = completions
           /\ unit' = [unit EXCEPT !.entries = @ \cup {"aggregate"}, !.aggregate = "staged"]
  <2>1. /\ unit' \in Units /\ unit'.completed = unit.completed /\ unit'.disposition = unit.disposition
        /\ unit'.nestedFailure = unit.nestedFailure
    BY <1>1, <1>5 DEF BatchTypes, Units
  <2>2. ResultTypes' /\ ScopeTypes' /\ JournalTypes' /\ RecoveryTypes'
    BY <1>1, <1>2, <1>5 DEF ResultTypes, ScopeTypes, JournalTypes, RecoveryTypes
  <2>3. BatchTypes'
    BY <1>1, <1>2, <1>4, <2>1 DEF BatchTypes
  <2>4. BeforeOK'
    BY <1>2, <1>5 DEF BeforeOK
  <2>5. StagedOK'
    <3>1. recorded = Len(kinds)
      BY <1>2 DEF CommandInv, StagedOK
    <3>2. QED
      BY <1>2, <1>5, <3>1 DEF CommandInv, StagedOK
  <2>6. Completing' = Completing
    BY <1>2, <1>5 DEF Completing
  <2>7. CommitOK'
    <3>1. ~(Completing > Completing)
      BY <1>3
    <3>2. QED
      BY <1>2, <1>4, <1>5, <2>1, <2>6, <3>1 DEF CommitOK
  <2>8. NestedOK' /\ ObservedOK'
    BY <1>2, <1>4, <1>5, <2>1 DEF CommandInv, NestedOK, ObservedOK
  <2>9. JournalOK'
    BY <1>2, <1>5 DEF CommandInv, JournalOK
  <2>10. RecoveryOK'
    BY <1>2, <1>5 DEF CommandInv, RecoveryOK, Recovered
  <2>11. QED
    BY <2>2, <2>3, <2>4, <2>5, <2>7, <2>8, <2>9, <2>10 DEF CommandInv
<1>6. CASE ScopeDone({"scope"}) /\ unit' = unit
  <2>0. {"scope"} \in SUBSET Failures
    BY DEF Failures
  <2>1. /\ ScopeTypes' /\ JournalTypes' /\ RecoveryTypes' /\ BeforeOK' /\ JournalOK' /\ RecoveryOK'
        /\ Completing' = Completing - 1
        /\ Len(completions') <= recorded'
        /\ original' \subseteq Failures /\ original' # {}
        /\ pc' = "completing" /\ result' = {"scope"}
    BY <1>2, <1>6, <2>0, ScopeDoneResult
  <2>2. ResultTypes'
    BY <1>1, <1>2, <2>0, <2>1 DEF ResultTypes
  <2>3. BatchTypes'
    BY <1>1, <1>2, <1>6 DEF BatchTypes
  <2>4. StagedOK'
    BY <1>1, <1>2, <1>6, <2>1 DEF CommandInv, StagedOK
  <2>5. CommitOK'
    BY <1>2, <1>3, <1>4, <2>1, ChronicleScopeDone
  <2>6. NestedOK' /\ ObservedOK'
    BY <1>2, <1>4, <1>6, <2>1 DEF CommandInv, NestedOK, ObservedOK
  <2>7. QED
    BY <2>1, <2>2, <2>3, <2>4, <2>5, <2>6 DEF CommandInv
<1>7. QED
  BY <1>5, <1>6 DEF AggregatesStage

LEMMA CommitKeeps ==
  ASSUME CommandInv, Commit
  PROVE  CommandInv'
<1>1. /\ ResultTypes /\ ScopeTypes /\ JournalTypes /\ BatchTypes /\ RecoveryTypes
      /\ recorded \in Nat /\ Len(completions) \in Nat
  BY KindsAreScopes DEF CommandInv
<1>2. /\ pc = "completing" /\ Completing > 0 /\ kinds[Completing] = "chronicle"
      /\ UNCHANGED <<kinds, canceled, recorded, shape, journalVars, recoveryVars>>
      /\ nested' = nested /\ stored' = stored /\ reported' = reported
  BY DEF Commit
<1>3. Completing \in 1..recorded
  BY <1>1, <1>2 DEF Completing
<1>4. /\ ~unit.completed /\ stored = {} /\ unit.disposition = "NoCommit"
      /\ \A i \in 1..recorded : kinds[i] = "chronicle" => i = Completing
  <2>1. Completing <= Completing
    BY <1>3
  <2>2. QED
    BY <1>2, <1>3, <2>1, KindsAreScopes DEF CommandInv, CommitOK
<1>5. /\ unit' \in Units /\ unit'.completed = TRUE /\ unit'.nestedFailure = unit.nestedFailure
      /\ unit'.entries = unit.entries /\ unit'.aggregate = unit.aggregate
  BY <1>1, ZenonT(40) DEF Commit, BatchTypes, Units, Dispositions
<1>6. StagedOK
  BY DEF CommandInv
<1>7. CASE \E res \in SUBSET Failures :
             ScopeDone(res) /\ appends' = appends /\ (res # {} \/ unit.entries = {})
  <2>1. PICK res \in SUBSET Failures :
             ScopeDone(res) /\ appends' = appends /\ (res # {} \/ unit.entries = {})
    BY <1>7
  <2>2. /\ ScopeTypes' /\ JournalTypes' /\ RecoveryTypes' /\ BeforeOK' /\ JournalOK' /\ RecoveryOK'
        /\ Completing' = Completing - 1
        /\ Len(completions') <= recorded'
        /\ original' \subseteq Failures /\ (original' = {} => res = {})
        /\ pc' = "completing" /\ result' = res
    BY <1>2, <2>1, ScopeDoneResult
  <2>3. ResultTypes'
    BY <1>1, <1>2, <2>1, <2>2 DEF ResultTypes
  <2>4. BatchTypes'
    BY <1>1, <1>2, <1>4, <1>5, <2>1 DEF BatchTypes
  <2>5. StagedOK'
    BY <1>2, <1>5, <1>6, <2>2 DEF StagedOK
  <2>6. CommitOK'
    BY <1>2, <1>3, <1>4, <1>5, <2>1, <2>2, ChronicleScopeDone
  <2>7. NestedOK' /\ ObservedOK'
    BY <1>2, <1>4, <1>5, <2>2 DEF CommandInv, NestedOK, ObservedOK
  <2>8. QED
    BY <2>2, <2>3, <2>4, <2>5, <2>6, <2>7 DEF CommandInv
<1>8. CASE /\ pc' = "appending" /\ appends' = appends + 1 /\ result' = {} /\ original' = original
           /\ completions' = completions /\ unit'.disposition = "Unknown" /\ ~unit.nestedFailure
           /\ (planned # NoJournal => original = {})
  <2>1. Completing' = Completing
    BY <1>2, <1>8 DEF Completing
  <2>2. ResultTypes' /\ ScopeTypes' /\ JournalTypes' /\ RecoveryTypes'
    BY <1>1, <1>2, <1>8 DEF ResultTypes, ScopeTypes, JournalTypes, RecoveryTypes
  <2>3. BatchTypes'
    BY <1>1, <1>2, <1>4, <1>5, <1>8 DEF BatchTypes
  <2>4. BeforeOK'
    BY <1>8 DEF BeforeOK
  <2>5. StagedOK'
    BY <1>2, <1>5, <1>6, <1>8 DEF StagedOK
  <2>6. CommitOK'
    BY <1>2, <1>3, <1>4, <1>5, <1>8, <2>1 DEF CommitOK
  <2>7. NestedOK' /\ ObservedOK'
    BY <1>2, <1>4, <1>5, <1>8 DEF CommandInv, NestedOK, ObservedOK
  <2>8. JournalOK'
    BY <1>2, <1>8 DEF CommandInv, JournalOK
  <2>9. RecoveryOK'
    <3>1. compensated = <<>>
      BY <1>2 DEF CommandInv, JournalOK
    <3>2. QED
      BY <1>2, <1>8, <3>1 DEF RecoveryOK
  <2>10. QED
    BY <2>2, <2>3, <2>4, <2>5, <2>6, <2>7, <2>8, <2>9 DEF CommandInv
<1>9. QED
  <2>1. Restore(result) \subseteq Failures
    BY <1>1 DEF ResultTypes, Restore
  <2>2. Restore(result) = {} => result = {} /\ (planned # NoJournal => original = {})
    BY DEF Restore
  <2>3. unit.nestedFailure \in BOOLEAN
    BY <1>1 DEF BatchTypes, Units
  <2>4. {"nested"} \in SUBSET Failures /\ {"canceled"} \in SUBSET Failures /\ {} \in SUBSET Failures
    BY DEF Failures
  <2>5. [unit EXCEPT !.completed = TRUE, !.disposition = "Unknown"].disposition = "Unknown"
    BY <1>1 DEF BatchTypes, Units
  <2>6. CASE Restore(result) # {}
    BY <1>7, <2>1, <2>6 DEF Commit
  <2>7. CASE Restore(result) = {} /\ unit.nestedFailure
    BY <1>7, <2>4, <2>7 DEF Commit
  <2>8. CASE Restore(result) = {} /\ ~unit.nestedFailure /\ unit.entries # {} /\ canceled
    BY <1>7, <2>4, <2>8 DEF Commit
  <2>9. CASE Restore(result) = {} /\ ~unit.nestedFailure /\ unit.entries = {}
    BY <1>7, <2>4, <2>9 DEF Commit
  <2>10. CASE Restore(result) = {} /\ ~unit.nestedFailure /\ unit.entries # {} /\ ~canceled
    BY <1>8, <2>2, <2>5, <2>10 DEF Commit
  <2>11. QED
    BY <2>6, <2>7, <2>8, <2>9, <2>10

LEMMA AppendSettlesKeeps ==
  ASSUME CommandInv, NEW answer \in {"accepted", "rejected", "unclear"}, NEW kept \in SUBSET unit.entries,
         AppendSettles(answer, kept)
  PROVE  CommandInv'
<1>1. /\ ResultTypes /\ ScopeTypes /\ JournalTypes /\ BatchTypes /\ RecoveryTypes /\ StagedOK
      /\ recorded \in Nat /\ Len(completions) \in Nat
  BY KindsAreScopes DEF CommandInv
<1>2. /\ pc = "appending" /\ Completing > 0 /\ kinds[Completing] = "chronicle"
      /\ UNCHANGED <<kinds, canceled, recorded, shape, journalVars, recoveryVars>>
      /\ nested' = nested /\ reported' = reported /\ appends' = appends
      /\ unit.completed /\ ~unit.nestedFailure /\ result = {} /\ (planned # NoJournal => original = {})
      /\ stored = {} /\ unit.disposition = "Unknown"
  BY DEF AppendSettles, CommandInv, CommitOK
<1>3. Completing \in 1..recorded
  BY <1>1, <1>2 DEF Completing
<1>4. \A i \in 1..recorded : kinds[i] = "chronicle" => i = Completing
  BY <1>2, <1>3, KindsAreScopes
<1>5. /\ unit' \in Units /\ unit'.completed = TRUE /\ ~unit'.nestedFailure
      /\ unit'.entries = unit.entries /\ unit'.aggregate = unit.aggregate
  BY <1>1, <1>2 DEF AppendSettles, BatchTypes, Units, Dispositions
<1>6. stored' \subseteq unit.entries
  BY DEF AppendSettles
<1>7. BatchTypes'
  BY <1>1, <1>2, <1>5, <1>6 DEF BatchTypes
<1>8. CASE pc' = "observing"
  <2>1. /\ result' = result /\ original' = original /\ completions' = completions
        /\ stored' = unit.entries /\ unit'.disposition = "Committed"
    BY <1>1, <1>8 DEF AppendSettles, Go, ScopeDone, BatchTypes, Units
  <2>2. Completing' = Completing
    BY <1>2, <2>1 DEF Completing
  <2>3. ResultTypes' /\ ScopeTypes' /\ JournalTypes' /\ RecoveryTypes'
    BY <1>1, <1>2, <1>8, <2>1 DEF ResultTypes, ScopeTypes, JournalTypes, RecoveryTypes
  <2>4. BeforeOK'
    BY <1>8 DEF BeforeOK
  <2>5. StagedOK'
    BY <1>1, <1>2, <1>5, <2>1 DEF StagedOK
  <2>6. CommitOK'
    BY <1>2, <1>3, <1>4, <1>5, <1>8, <2>1, <2>2 DEF CommitOK
  <2>7. NestedOK' /\ ObservedOK'
    BY <1>2, <1>5, <2>1 DEF CommandInv, NestedOK, ObservedOK, KnownAbsent
  <2>8. JournalOK'
    BY <1>2, <1>8, <2>1 DEF CommandInv, JournalOK
  <2>9. RecoveryOK'
    <3>1. compensated = <<>>
      BY <1>2 DEF CommandInv, JournalOK
    <3>2. QED
      BY <1>2, <1>8, <3>1 DEF RecoveryOK
  <2>10. QED
    BY <1>7, <2>3, <2>4, <2>5, <2>6, <2>7, <2>8, <2>9 DEF CommandInv
<1>9. CASE \E res \in SUBSET Failures :
             /\ ScopeDone(res)
             /\ \/ stored' = unit.entries /\ unit'.disposition = "Committed"
                \/ res # {} /\ stored' = {}
                \/ res # {} /\ unit'.disposition = "Unknown"
  <2>1. PICK res \in SUBSET Failures :
             /\ ScopeDone(res)
             /\ \/ stored' = unit.entries /\ unit'.disposition = "Committed"
                \/ res # {} /\ stored' = {}
                \/ res # {} /\ unit'.disposition = "Unknown"
    BY <1>9
  <2>2. /\ ScopeTypes' /\ JournalTypes' /\ RecoveryTypes' /\ BeforeOK' /\ JournalOK' /\ RecoveryOK'
        /\ Completing' = Completing - 1
        /\ Len(completions') <= recorded'
        /\ original' \subseteq Failures /\ (original' = {} => res = {})
        /\ pc' = "completing" /\ result' = res
    BY <1>2, <2>1, ScopeDoneResult
  <2>3. ResultTypes'
    BY <1>1, <1>2, <2>1, <2>2 DEF ResultTypes
  <2>4. StagedOK'
    BY <1>1, <1>2, <1>5, <2>2 DEF StagedOK
  <2>5. CommitOK'
    BY <1>2, <1>3, <1>5, <2>1, <2>2, ChronicleScopeDone
  <2>6. NestedOK' /\ ObservedOK'
    BY <1>2, <1>5, <2>1, <2>2 DEF CommandInv, NestedOK, ObservedOK, KnownAbsent
  <2>7. QED
    BY <1>7, <2>2, <2>3, <2>4, <2>5, <2>6 DEF CommandInv
<1>10. QED
  <2>1. result \in SUBSET Failures /\ result \cup {"append"} \in SUBSET Failures
    BY <1>1 DEF ResultTypes, Failures
  <2>2. CASE answer = "accepted"
    <3>1. stored' = unit.entries /\ unit'.disposition = "Committed"
      BY <1>1, <2>2 DEF AppendSettles, BatchTypes, Units
    <3>2. pc' = "observing" \/ ScopeDone(result)
      BY <2>2 DEF AppendSettles, Go
    <3>3. QED
      BY <1>8, <1>9, <2>1, <3>1, <3>2
  <2>3. CASE answer = "rejected"
    BY <1>9, <2>1, <2>3 DEF AppendSettles
  <2>4. CASE answer = "unclear"
    BY <1>2, <1>9, <2>1, <2>4 DEF AppendSettles
  <2>5. QED
    BY <2>2, <2>3, <2>4

LEMMA ObserversSettleKeeps ==
  ASSUME CommandInv, NEW ok \in BOOLEAN, ObserversSettle(ok)
  PROVE  CommandInv'
<1>1. /\ ResultTypes /\ BatchTypes /\ StagedOK /\ recorded \in Nat /\ Len(completions) \in Nat
  BY KindsAreScopes DEF CommandInv
<1>2. /\ pc = "observing" /\ Completing > 0 /\ kinds[Completing] = "chronicle"
      /\ UNCHANGED <<kinds, canceled, recorded, shape, journalVars, recoveryVars>>
      /\ nested' = nested /\ reported' = reported /\ appends' = appends /\ stored' = stored
      /\ unit.completed /\ ~unit.nestedFailure /\ result = {} /\ (planned # NoJournal => original = {})
      /\ stored = unit.entries /\ unit.disposition = "Committed"
  BY DEF ObserversSettle, CommandInv, CommitOK
<1>3. Completing \in 1..recorded
  BY <1>1, <1>2 DEF Completing
<1>4. /\ unit' \in Units /\ unit'.completed = TRUE /\ ~unit'.nestedFailure
      /\ unit'.entries = unit.entries /\ unit'.aggregate = unit.aggregate
  BY <1>1, <1>2 DEF ObserversSettle, BatchTypes, Units, Dispositions
<1>5. PICK res \in SUBSET Failures :
           /\ ScopeDone(res)
           /\ (res = {} /\ unit'.disposition = "Committed") \/ res = {"observer"}
  <2>1. {} \in SUBSET Failures /\ {"observer"} \in SUBSET Failures /\ result \cup {"observer"} = {"observer"}
    BY <1>2 DEF Failures
  <2>2. QED
    BY <1>2, <2>1 DEF ObserversSettle
<1>6. /\ ScopeTypes' /\ JournalTypes' /\ RecoveryTypes' /\ BeforeOK' /\ JournalOK' /\ RecoveryOK'
      /\ Completing' = Completing - 1
      /\ Len(completions') <= recorded'
      /\ original' \subseteq Failures
      /\ pc' = "completing" /\ result' = res
  BY <1>2, <1>5, ScopeDoneResult
<1>7. planned # NoJournal /\ unit'.disposition # "Committed" => "observer" \in original'
  BY <1>2, <1>5 DEF ScopeDone, Capture
<1>8. ResultTypes'
  BY <1>1, <1>2, <1>5, <1>6 DEF ResultTypes
<1>9. BatchTypes'
  BY <1>1, <1>2, <1>4 DEF BatchTypes
<1>10. StagedOK'
  BY <1>1, <1>2, <1>4, <1>6 DEF StagedOK
<1>11. CommitOK'
  BY <1>2, <1>3, <1>4, <1>5, <1>6, ChronicleScopeDone
<1>12. NestedOK' /\ ObservedOK'
  BY <1>2, <1>4, <1>6, <1>7 DEF CommandInv, NestedOK, ObservedOK, KnownAbsent
<1>13. QED
  BY <1>6, <1>8, <1>9, <1>10, <1>11, <1>12 DEF CommandInv

(***************************************************************************)
(* Recovery                                                                *)
(***************************************************************************)

\* What the participant reports is believed only when there is one participant.
\* A known absence is then true, unless an observer of a stored batch failed.
LEMMA KnownAbsence ==
  ASSUME CommandInv, planned # NoJournal, Disposition \in KnownAbsent
  PROVE  reported # "Committed" /\ (stored # {} => "observer" \in original)
<1>1. /\ recorded \in Nat /\ BatchTypes
  BY KindsAreScopes DEF CommandInv
<1>2. IsFiniteSet(Participants)
  <2>1. IsFiniteSet(1..recorded)
    BY <1>1, FS_Interval
  <2>2. QED
    BY <2>1, FS_Subset DEF Participants
<1>3. \A i, j \in Participants : i = j
  <2>1. Cardinality(Participants) \in Nat /\ ~(Cardinality(Participants) > 1)
    BY <1>2, FS_CardinalityType DEF Disposition, KnownAbsent, Conflict
  <2>2. SUFFICES ASSUME NEW i \in Participants, NEW j \in Participants, i # j
                 PROVE  FALSE
    OBVIOUS
  <2>3. Cardinality({i}) = 1 /\ IsFiniteSet({i})
    BY FS_Singleton
  <2>4. Cardinality({i} \cup {j}) = 2
    BY <2>2, <2>3, FS_AddElement
  <2>5. Cardinality({i} \cup {j}) <= Cardinality(Participants)
    BY <1>2, FS_Subset, {i} \cup {j} \subseteq Participants
  <2>6. QED
    BY <2>1, <2>4, <2>5
<1>4. reported # "Committed"
  <2>1. SUFFICES ASSUME reported = "Committed"
                 PROVE  FALSE
    OBVIOUS
  <2>2. PICK i \in 1..recorded : kinds[i] = "reporting"
    BY <2>1 DEF CommandInv, StagedOK
  <2>3. i \in Participants
    BY <2>2 DEF Participants
  <2>4. Disposition \in {Conflict, reported}
    BY <2>2, <2>3 DEF Disposition
  <2>5. QED
    BY <2>1, <2>4 DEF KnownAbsent, Conflict
<1>5. ASSUME stored # {}
      PROVE  "observer" \in original
  <2>1. unit.entries # {}
    BY <1>1, <1>5 DEF BatchTypes
  <2>2. PICK i \in 1..recorded : kinds[i] = "chronicle"
    BY <1>5 DEF CommandInv, CommitOK
  <2>3. i \in Participants
    BY <2>1, <2>2 DEF Participants, hasStagedEvents
  <2>4. ~ \E j \in Participants : kinds[j] = "reporting"
    BY <1>3, <2>2, <2>3
  <2>5. Disposition \in {Conflict, ChronicleDisposition}
    BY <2>3, <2>4 DEF Disposition
  <2>6. unit.disposition \in KnownAbsent
    BY <2>5 DEF ChronicleDisposition, KnownAbsent, Conflict
  <2>7. QED
    BY <1>5, <2>6 DEF CommandInv, ObservedOK
<1>6. QED
  BY <1>4, <1>5

LEMMA FinishScopesKeeps ==
  ASSUME CommandInv, NEW output \in BOOLEAN, FinishScopes(output)
  PROVE  CommandInv'
<1>1. /\ ResultTypes /\ ScopeTypes /\ JournalTypes /\ BatchTypes /\ RecoveryTypes
      /\ recorded \in Nat /\ Len(completions) \in Nat
  BY KindsAreScopes DEF CommandInv
<1> DEFINE restored == Restore(result)
           checked == IF restored = {} /\ ~output THEN {"output"} ELSE restored
           known == IF Disposition = Conflict THEN "Unknown" ELSE Disposition
           judged == IF Disposition = Conflict THEN checked \cup {"disposition"}
                     ELSE IF checked = {} /\ known \in {"Unknown", "Mixed"} THEN {"indeterminate"}
                     ELSE checked
           suppressed == [i \in DOMAIN outcomes |-> [outcomes[i] EXCEPT !.compensation = "Suppressed"]]
<1>2. /\ pc = "completing" /\ Completing = 0
      /\ UNCHANGED <<kinds, canceled, scopeVars, shape, planned, failedIndex, expired, compensated,
                     reported, unit, nested, logVars>>
  BY DEF FinishScopes
<1>3. compensated = <<>>
  BY <1>2 DEF CommandInv, JournalOK
<1>4. checked \subseteq Failures /\ judged \subseteq Failures /\ known \in Dispositions
  <2>1. checked \subseteq Failures
    BY <1>1 DEF ResultTypes, Restore, Failures
  <2>2. judged \subseteq Failures
    BY <2>1 DEF Failures
  <2>3. Disposition \in Dispositions \cup {Conflict}
    BY <1>1 DEF Disposition, ChronicleDisposition, Dispositions, ResultTypes, BatchTypes, Units
  <2>4. QED
    BY <2>1, <2>2, <2>3 DEF Dispositions
<1>5. suppressed \in Seq(Outcome) /\ Len(suppressed) = Len(outcomes)
  <2>1. outcomes \in Seq(Outcome)
    BY <1>1 DEF JournalTypes
  <2>2. DOMAIN outcomes = 1..Len(outcomes) /\ Len(outcomes) \in Nat
    BY <2>1
  <2>3. \A i \in 1..Len(outcomes) : suppressed[i] \in Outcome
    <3>1. \A o \in Outcome : [o EXCEPT !.compensation = "Suppressed"] \in Outcome
      BY DEF Outcome
    <3>2. QED
      BY <2>1, <2>2, <3>1
  <2>4. QED
    BY <2>2, <2>3
<1>6. /\ planned # NoJournal => original \subseteq judged /\ (original # {} => judged # {})
      /\ known \in KnownAbsent => Disposition = known
  BY DEF Restore, KnownAbsent
<1>7. CASE planned = NoJournal
  <2>1. /\ result' = checked /\ original' = (IF original = {} THEN checked ELSE original)
        /\ pc' = "done" /\ outcomes' = outcomes /\ index' = index /\ commit' = commit
    BY <1>7 DEF FinishScopes, Capture
  <2>2. DOMAIN outcomes = {}
    BY <1>1, <1>7 DEF JournalTypes
  <2> HIDE DEF restored, checked, known, judged, suppressed
  <2>3. ResultTypes' /\ ScopeTypes' /\ JournalTypes' /\ RecoveryTypes'
    BY <1>1, <1>2, <1>4, <2>1 DEF ResultTypes, ScopeTypes, JournalTypes, RecoveryTypes
  <2>4. JournalOK'
    BY <1>2, <1>3, <1>7, <2>1 DEF JournalOK
  <2>5. RecoveryOK'
    BY <1>2, <1>3, <2>1, <2>2 DEF RecoveryOK
  <2>6. (original' = {} => original = {}) /\ pc' = "done"
    BY <2>1
  <2>7. QED
    BY <1>1, <1>2, <1>7, <2>3, <2>4, <2>5, <2>6
       DEF CommandInv, BatchTypes, BeforeOK, StagedOK, CommitOK, NestedOK, ObservedOK, Completing
<1>8. CASE planned # NoJournal
  <2>1. /\ result' = judged /\ original' = (IF original = {} THEN judged ELSE original)
        /\ commit' = known /\ index' = Len(outcomes)
        /\ outcomes' = (IF judged = {} \/ known \in KnownAbsent THEN outcomes ELSE suppressed)
        /\ pc' = (IF judged # {} /\ known \in KnownAbsent THEN "recovering" ELSE "done")
    BY <1>8 DEF FinishScopes, Capture
  <2> HIDE DEF restored, checked, known, judged, suppressed
  <2>2. /\ outcomes' \in Seq(Outcome) /\ Len(outcomes') = Len(outcomes)
        /\ outcomes \in Seq(Outcome) /\ Len(outcomes) \in Nat
    BY <1>1, <1>5, <2>1 DEF JournalTypes
  <2>3. ResultTypes' /\ ScopeTypes' /\ RecoveryTypes'
    BY <1>1, <1>2, <1>4, <2>1 DEF ResultTypes, ScopeTypes, RecoveryTypes
  <2>4. JournalTypes'
    BY <1>1, <1>2, <2>1, <2>2 DEF JournalTypes
  <2>5. /\ original' = {} <=> judged = {}
        /\ original' \subseteq judged /\ (original' = {} => original = {}) /\ original \subseteq original'
    BY <1>6, <1>8, <2>1
  <2>6. JournalOK'
    <3>1. original' = {} => outcomes' = outcomes /\ original = {} /\ pc' = "done"
      BY <2>1, <2>5
    <3>2. original = {} => Len(outcomes) = planned /\ \A i \in DOMAIN outcomes : outcomes[i].completed
      BY <1>2, <1>8 DEF CommandInv, JournalOK
    <3>3. original' = {} => Len(outcomes') = planned' /\ \A i \in DOMAIN outcomes' : outcomes'[i].completed
      BY <1>2, <3>1, <3>2
    <3>4. pc' \in {"recovering", "done"} /\ (pc' = "recovering" => judged # {} /\ commit' \in KnownAbsent)
      BY <2>1
    <3>5. QED
      BY <1>2, <1>3, <1>8, <2>1, <2>5, <3>3, <3>4 DEF JournalOK
  <2>7. RecoveryOK'
    <3>1. pc' = "recovering" => (stored = {} /\ reported # "Committed") \/ "observer" \in result'
      BY <1>6, <1>8, <2>1, KnownAbsence
    <3>2. \A i \in DOMAIN outcomes' : ~(i > index')
      BY <2>1, <2>2
    <3>3. pc' = "done" => ~(result' # {} /\ commit' \in KnownAbsent)
      BY <2>1
    <3>4. pc' \in {"recovering", "done"} /\ compensated' = <<>> /\ DOMAIN compensated' = {}
      BY <1>2, <1>3, <2>1
    <3>5. QED
      BY <1>2, <3>1, <3>2, <3>3, <3>4 DEF RecoveryOK
  <2>8. pc' \in {"recovering", "done"}
    BY <2>1
  <2>9. CommitOK'
    BY <1>1, <1>2, <2>5, <2>8 DEF CommandInv, CommitOK, Completing
  <2>10. BeforeOK' /\ StagedOK' /\ NestedOK' /\ BatchTypes'
    BY <1>1, <1>2, <2>8 DEF CommandInv, BatchTypes, BeforeOK, StagedOK, NestedOK
  <2>11. ObservedOK'
    BY <1>2, <2>5 DEF CommandInv, ObservedOK
  <2>12. QED
    BY <2>3, <2>4, <2>6, <2>7, <2>9, <2>10, <2>11 DEF CommandInv
<1>9. QED
  BY <1>7, <1>8

LEMMA CompensationResult ==
  ASSUME NEW os \in Seq(Outcome), NEW i \in 1..Len(os),
         NEW answer \in {"NotAvailable", "BudgetExpired", "Completed", "Failed"}
  PROVE  /\ [os EXCEPT ![i].compensation = answer] \in Seq(Outcome)
         /\ Len([os EXCEPT ![i].compensation = answer]) = Len(os)
<1>1. os[i] \in Outcome
  OBVIOUS
<1>2. [os[i] EXCEPT !.compensation = answer] \in Outcome
  BY <1>1 DEF Outcome
<1>3. [os EXCEPT ![i].compensation = answer] = [os EXCEPT ![i] = [os[i] EXCEPT !.compensation = answer]]
  OBVIOUS
<1>4. QED
  BY <1>2, <1>3

LEMMA RecordedCompensation ==
  ASSUME NEW os \in Seq(Outcome), NEW i \in 1..Len(os), NEW answer
  PROVE  /\ [os EXCEPT ![i].compensation = answer][i].compensation = answer
         /\ \A j \in DOMAIN os : j # i => [os EXCEPT ![i].compensation = answer][j] = os[j]
<1>1. os[i] \in Outcome /\ i \in DOMAIN os
  OBVIOUS
<1>2. [os[i] EXCEPT !.compensation = answer].compensation = answer
  BY <1>1 DEF Outcome
<1>3. [os EXCEPT ![i].compensation = answer] = [os EXCEPT ![i] = [os[i] EXCEPT !.compensation = answer]]
  OBVIOUS
<1>4. QED
  BY <1>1, <1>2, <1>3

\* Recovery changes nothing but the journal and what it has compensated.
LEMMA RecoveryMoves ==
  ASSUME CommandInv, pc \in Recovery, pc' \in Recovery \cup {"done"},
         outcomes' \in Seq(Outcome), Len(outcomes') = Len(outcomes), index' \in 0..Len(outcomes),
         compensated' \in Seq(Operations),
         UNCHANGED <<kinds, canceled, result, original, scopeVars, shape, planned, failedIndex, expired, commit,
                     reported, unit, nested, logVars>>,
         RecoveryOK'
  PROVE  CommandInv'
<1>1. /\ ResultTypes /\ ScopeTypes /\ JournalTypes /\ BatchTypes
      /\ recorded \in Nat /\ Len(completions) \in Nat
  BY KindsAreScopes DEF CommandInv
<1>2. ResultTypes' /\ ScopeTypes' /\ BatchTypes' /\ RecoveryTypes'
  BY <1>1 DEF ResultTypes, ScopeTypes, BatchTypes, RecoveryTypes
<1>3. JournalTypes'
  BY <1>1 DEF JournalTypes
<1>4. BeforeOK' /\ StagedOK' /\ NestedOK' /\ ObservedOK'
  BY DEF CommandInv, BeforeOK, StagedOK, NestedOK, ObservedOK
<1>5. CommitOK'
  BY <1>1 DEF CommandInv, CommitOK, Completing
<1>6. JournalOK'
  <2>1. planned # NoJournal /\ original # {} /\ commit \in KnownAbsent /\ original \subseteq result
    BY DEF CommandInv, JournalOK
  <2>2. QED
    BY <2>1 DEF JournalOK
<1>7. QED
  BY <1>2, <1>3, <1>4, <1>5, <1>6 DEF CommandInv

LEMMA RecoverKeeps ==
  ASSUME CommandInv, Recover
  PROVE  CommandInv'
<1>1. /\ pc = "recovering"
      /\ outcomes \in Seq(Outcome) /\ Len(outcomes) \in Nat /\ index \in 0..Len(outcomes)
      /\ compensated \in Seq(Operations) /\ Len(compensated) \in Nat /\ DOMAIN outcomes = 1..Len(outcomes)
      /\ UNCHANGED <<kinds, canceled, result, original, scopeVars, shape, planned, failedIndex, expired, commit,
                     reported, unit, nested, logVars>>
  BY DEF CommandInv, JournalTypes, RecoveryTypes, Recover
<1>2. /\ \A i, j \in DOMAIN compensated : i < j => compensated[i] > compensated[j]
      /\ \A k \in DOMAIN compensated : compensated[k] > index
      /\ \A i \in DOMAIN outcomes : i > index => Recovered(i)
      /\ (stored = {} /\ reported # "Committed") \/ "observer" \in result
  BY <1>1 DEF CommandInv, RecoveryOK
<1>3. CASE index = 0 /\ pc' = "done" /\ UNCHANGED <<outcomes, index, compensated>>
  <2>1. \A i \in DOMAIN outcomes : Recovered(i)
    BY <1>1, <1>2, <1>3
  <2>2. RecoveryOK'
    BY <1>1, <1>2, <1>3, <2>1 DEF RecoveryOK, Recovered
  <2>3. QED
    BY <1>1, <1>3, <2>2, RecoveryMoves
<1>4. CASE /\ index > 0 /\ (index \notin Compensable \/ expired)
           /\ outcomes' = [outcomes EXCEPT ![index].compensation =
                             IF index \notin Compensable THEN "NotAvailable" ELSE "BudgetExpired"]
           /\ index' = index - 1 /\ UNCHANGED <<pc, compensated>>
  <2>1. outcomes' \in Seq(Outcome) /\ Len(outcomes') = Len(outcomes) /\ index \in 1..Len(outcomes)
    <3>1. index \in 1..Len(outcomes)
      BY <1>1, <1>4
    <3>2. CASE index \notin Compensable
      BY <1>1, <1>4, <3>1, <3>2, CompensationResult
    <3>3. CASE index \in Compensable
      BY <1>1, <1>4, <3>1, <3>3, CompensationResult
    <3>4. QED
      BY <3>2, <3>3
  <2>2. \A i \in DOMAIN outcomes : i > index - 1 => Recovered(i)'
    <3>1. SUFFICES ASSUME NEW i \in DOMAIN outcomes, i > index - 1
                   PROVE  Recovered(i)'
      OBVIOUS
    <3>2. i = index \/ (i > index /\ i # index)
      BY <1>1, <3>1
    <3>3. CASE i = index
      <4>1. outcomes'[i].compensation = IF index \notin Compensable THEN "NotAvailable" ELSE "BudgetExpired"
        BY <1>1, <1>4, <2>1, <3>3, RecordedCompensation
      <4>2. QED
        BY <1>1, <1>4, <3>3, <4>1 DEF Recovered
    <3>4. CASE i > index /\ i # index
      <4>1. outcomes'[i] = outcomes[i]
        BY <1>1, <1>4, <2>1, <3>4, RecordedCompensation
      <4>2. QED
        BY <1>1, <1>2, <1>4, <3>4, <4>1 DEF Recovered
    <3>5. QED
      BY <3>2, <3>3, <3>4
  <2>3. \A k \in DOMAIN compensated : compensated[k] > index - 1
    <3>1. \A k \in DOMAIN compensated : compensated[k] \in Int
      BY <1>1, OperationsNat DEF Operations
    <3>2. QED
      BY <1>1, <1>2, <3>1
  <2>4. DOMAIN outcomes' = DOMAIN outcomes
    BY <1>1, <2>1
  <2>5. RecoveryOK'
    BY <1>1, <1>2, <1>4, <2>2, <2>3, <2>4 DEF RecoveryOK
  <2>6. index' \in 0..Len(outcomes)
    BY <1>4, <2>1
  <2>7. QED
    BY <1>1, <1>4, <2>1, <2>5, <2>6, RecoveryMoves
<1>5. CASE /\ index > 0 /\ index \in Compensable /\ ~expired
           /\ pc' = "compensating" /\ compensated' = Append(compensated, index)
           /\ UNCHANGED <<outcomes, index>>
  <2>1. index \in Operations
    BY <1>5, OperationsNat
  <2>2. /\ compensated' \in Seq(Operations) /\ Len(compensated') = Len(compensated) + 1
        /\ compensated' # <<>> /\ compensated'[Len(compensated')] = index
        /\ DOMAIN compensated' = 1..Len(compensated')
        /\ \A k \in 1..Len(compensated) : compensated'[k] = compensated[k]
    BY <1>1, <1>5, <2>1
  <2>3. \A i, j \in DOMAIN compensated' : i < j => compensated'[i] > compensated'[j]
    <3>1. SUFFICES ASSUME NEW i \in DOMAIN compensated', NEW j \in DOMAIN compensated', i < j
                   PROVE  compensated'[i] > compensated'[j]
      OBVIOUS
    <3>2. i \in 1..Len(compensated) /\ (j \in 1..Len(compensated) \/ j = Len(compensated'))
      BY <1>1, <2>2, <3>1
    <3>3. DOMAIN compensated = 1..Len(compensated)
      BY <1>1
    <3>4. QED
      BY <1>2, <2>2, <3>1, <3>2, <3>3
  <2>4. \A i \in DOMAIN outcomes : Recovered(i) => Recovered(i)'
    <3>1. SUFFICES ASSUME NEW i \in DOMAIN outcomes, NEW k \in DOMAIN compensated, compensated[k] = i
                   PROVE  \E l \in DOMAIN compensated' : compensated'[l] = i
      BY <1>1, <1>5 DEF Recovered
    <3>2. k \in DOMAIN compensated' /\ compensated'[k] = i
      BY <1>1, <2>2, <3>1
    <3>3. QED
      BY <3>2
  <2>5. RecoveryOK'
    BY <1>1, <1>2, <1>5, <2>2, <2>3, <2>4 DEF RecoveryOK
  <2>6. QED
    BY <1>1, <1>5, <2>2, <2>5, RecoveryMoves
<1>6. QED
  BY <1>3, <1>4, <1>5 DEF Recover

LEMMA CompensationSettlesKeeps ==
  ASSUME CommandInv, NEW ok \in BOOLEAN, CompensationSettles(ok)
  PROVE  CommandInv'
<1>1. /\ pc = "compensating" /\ pc' = "recovering" /\ index' = index - 1 /\ compensated' = compensated
      /\ outcomes \in Seq(Outcome) /\ Len(outcomes) \in Nat /\ index \in 0..Len(outcomes)
      /\ compensated \in Seq(Operations) /\ Len(compensated) \in Nat /\ DOMAIN outcomes = 1..Len(outcomes)
      /\ UNCHANGED <<kinds, canceled, result, original, scopeVars, shape, planned, failedIndex, expired, commit,
                     reported, unit, nested, logVars>>
  BY DEF CommandInv, JournalTypes, RecoveryTypes, CompensationSettles
<1>2. /\ \A i, j \in DOMAIN compensated : i < j => compensated[i] > compensated[j]
      /\ \A i \in DOMAIN outcomes : i > index => Recovered(i)
      /\ compensated # <<>> /\ compensated[Len(compensated)] = index /\ index > 0
      /\ (stored = {} /\ reported # "Committed") \/ "observer" \in result
  BY <1>1 DEF CommandInv, RecoveryOK
<1>3. outcomes' \in Seq(Outcome) /\ Len(outcomes') = Len(outcomes) /\ index \in 1..Len(outcomes)
  <2>1. index \in 1..Len(outcomes)
    BY <1>1, <1>2
  <2>2. CASE outcomes' = [outcomes EXCEPT ![index].compensation = "Failed"]
    BY <1>1, <2>1, <2>2, CompensationResult
  <2>3. CASE outcomes' = [outcomes EXCEPT ![index].compensation = "BudgetExpired"]
    BY <1>1, <2>1, <2>3, CompensationResult
  <2>4. CASE outcomes' = [outcomes EXCEPT ![index].compensation = "Completed"]
    BY <1>1, <2>1, <2>4, CompensationResult
  <2>5. QED
    BY <2>2, <2>3, <2>4 DEF CompensationSettles
<1>4. DOMAIN compensated = 1..Len(compensated) /\ Len(compensated) \in DOMAIN compensated
  BY <1>1, <1>2
<1>5. \A i \in DOMAIN outcomes : i > index - 1 => Recovered(i)'
  <2>1. SUFFICES ASSUME NEW i \in DOMAIN outcomes, i > index - 1
                 PROVE  Recovered(i)'
    OBVIOUS
  <2>2. i = index \/ (i > index /\ i # index)
    BY <1>1, <2>1
  <2>3. CASE i = index
    <3>1. outcomes'[i].compensation = IF ~ok THEN "Failed" ELSE IF expired THEN "BudgetExpired" ELSE "Completed"
      BY <1>1, <1>3, <2>3, RecordedCompensation DEF CompensationSettles
    <3>2. index \in Compensable
      BY <1>1 DEF CommandInv, RecoveryOK
    <3>3. compensated'[Len(compensated)] = i /\ Len(compensated) \in DOMAIN compensated'
      BY <1>1, <1>2, <1>4, <2>3
    <3>4. QED
      BY <1>1, <2>3, <3>1, <3>2, <3>3 DEF Recovered
  <2>4. CASE i > index /\ i # index
    <3>1. outcomes'[i] = outcomes[i]
      BY <1>1, <1>3, <2>4, RecordedCompensation DEF CompensationSettles
    <3>2. QED
      BY <1>1, <1>2, <2>4, <3>1 DEF Recovered
  <2>5. QED
    BY <2>2, <2>3, <2>4
<1>6. \A k \in DOMAIN compensated : compensated[k] > index - 1
  <2>1. SUFFICES ASSUME NEW k \in DOMAIN compensated
                 PROVE  compensated[k] > index - 1
    OBVIOUS
  <2>2. compensated[k] \in Int
    BY <1>1, OperationsNat DEF Operations
  <2>3. k = Len(compensated) \/ k < Len(compensated)
    BY <1>1, <1>4
  <2>4. compensated[k] = index \/ compensated[k] > index
    BY <1>2, <1>4, <2>3
  <2>5. QED
    BY <1>1, <2>2, <2>4
<1>7. DOMAIN outcomes' = DOMAIN outcomes
  BY <1>1, <1>3
<1>8. RecoveryOK'
  BY <1>1, <1>2, <1>5, <1>6, <1>7 DEF RecoveryOK
<1>9. index' \in 0..Len(outcomes)
  BY <1>1, <1>3
<1>10. QED
  BY <1>1, <1>3, <1>8, <1>9, RecoveryMoves

(***************************************************************************)
(* The theorems                                                            *)
(***************************************************************************)

LEMMA InitEstablishes == Init => CommandInv
<1>1. SUFFICES ASSUME Init
               PROVE  CommandInv
  OBVIOUS
<1>2. kinds \in ScopeLists /\ kinds \in Seq(ScopeKind) /\ Len(kinds) \in Nat
  BY <1>1, ScopesKnown DEF Init
<1>3. ResultTypes /\ ScopeTypes /\ RecoveryTypes
  <2>1. ResultTypes
    BY <1>1, <1>2 DEF Init, ResultTypes, Dispositions
  <2>2. ScopeTypes
    BY <1>1, <1>2 DEF Init, ScopeTypes
  <2>3. RecoveryTypes
    BY <1>1 DEF Init, RecoveryTypes
  <2>4. QED
    BY <2>1, <2>2, <2>3
<1>4. JournalTypes
  BY <1>1, OperationsNat DEF Init, JournalTypes, Nothing, Shape, NoJournal
<1>5. BatchTypes
  BY <1>1 DEF Init, BatchTypes, Units, NestedStates, Dispositions
<1>6. BeforeOK /\ StagedOK /\ NestedOK /\ ObservedOK /\ JournalOK /\ RecoveryOK
  BY <1>1, <1>2 DEF Init, BeforeOK, StagedOK, NestedOK, ObservedOK, JournalOK, RecoveryOK
<1>7. CommitOK
  BY <1>1 DEF Init, CommitOK
<1>8. QED
  BY <1>3, <1>4, <1>5, <1>6, <1>7 DEF CommandInv

LEMMA NextKeeps == CommandInv /\ [Next]_vars => CommandInv'
<1>1. SUFFICES ASSUME CommandInv, [Next]_vars
               PROVE  CommandInv'
  OBVIOUS
<1>2. CASE Step
  <2>1. ASSUME NEW kept \in SUBSET unit.entries, AppendSettles("unclear", kept)
        PROVE  CommandInv'
    BY <1>1, <2>1, AppendSettlesKeeps
  <2>2. ASSUME NEW answer \in {"accepted", "rejected"}, AppendSettles(answer, {})
        PROVE  CommandInv'
    BY <1>1, <2>2, AppendSettlesKeeps
  <2>3. QED
    BY <1>1, <1>2, <2>1, <2>2, PreflightKeeps, DependenciesSettleKeeps, BeginSettlesKeeps, ProvideSettlesKeeps,
       HandleSettlesKeeps, PlanSettlesKeeps, StageEventsKeeps, RespondSettlesKeeps, ExecuteKeeps,
       OperationSettlesKeeps, ScopeCompletesKeeps, AggregatesStageKeeps, CommitKeeps, ObserversSettleKeeps,
       FinishScopesKeeps, RecoverKeeps, CompensationSettlesKeeps DEF Step
<1>3. CASE Cancel \/ BudgetExpires
  BY <1>1, <1>3, CancelKeeps, BudgetExpiresKeeps
<1>4. CASE \E n \in Nested : NestedStarts(n) \/ NestedStep(n)
  BY <1>1, <1>4, NestedStartsKeeps, NestedAdmittedKeeps, NestedStagesKeeps, NestedAppendSettlesKeeps,
     NestedCompletedKeeps DEF NestedStep
<1>5. CASE UNCHANGED vars
  <2>1. ResultTypes' /\ ScopeTypes' /\ JournalTypes' /\ BatchTypes' /\ RecoveryTypes'
    BY <1>1, <1>5 DEF vars, CommandInv, ResultTypes, ScopeTypes, JournalTypes, BatchTypes, RecoveryTypes
  <2>2. BeforeOK'
    BY <1>1, <1>5 DEF vars, CommandInv, BeforeOK
  <2>3. StagedOK'
    BY <1>1, <1>5 DEF vars, CommandInv, StagedOK
  <2>4. CommitOK'
    BY <1>1, <1>5 DEF vars, CommandInv, CommitOK, Completing
  <2>5. NestedOK' /\ ObservedOK'
    BY <1>1, <1>5 DEF vars, CommandInv, NestedOK, ObservedOK
  <2>6. JournalOK'
    BY <1>1, <1>5 DEF vars, CommandInv, JournalOK
  <2>7. RecoveryOK'
    BY <1>1, <1>5 DEF vars, CommandInv, RecoveryOK, Recovered
  <2>8. QED
    BY <2>1, <2>2, <2>3, <2>4, <2>5, <2>6, <2>7 DEF CommandInv
<1>6. QED
  BY <1>1, <1>2, <1>3, <1>4, <1>5 DEF Next

\* What is beside the batch only changes with the nested commands, the entries
\* and the journal.
LEMMA BesideKept ==
  ASSUME CommandInv, BesideInv, inlined' = inlined, nested' = nested,
         unit'.entries \cap Nested = unit.entries \cap Nested, unit.completed => unit'.completed,
         pc' = "planning" \/ planned' # NoJournal =>
           pc = "planning" \/ planned # NoJournal \/ \A n \in Nested : nested[n] = "idle",
         planned # NoJournal => planned' # NoJournal,
         compensated' # <<>> => compensated # <<>> \/ planned # NoJournal
  PROVE  BesideInv'
<1>1. InlineOK'
  BY DEF BesideInv, InlineOK, Outlived
<1>2. AloneOK'
  BY DEF BesideInv, AloneOK
<1>3. QED
  BY <1>1, <1>2 DEF BesideInv

LEMMA NestedBeside ==
  ASSUME CommandInv, BesideInv, NEW n \in Nested, NestedStarts(n) \/ NestedStep(n)
  PROVE  BesideInv'
<1>1. /\ nested \in [Nested -> NestedStates] /\ unit \in Units /\ inlined \subseteq Nested
      /\ planned' = planned /\ compensated' = compensated /\ pc' = pc
      /\ pc = "handling" => planned = NoJournal
  BY DEF CommandInv, BatchTypes, BeforeOK, BesideInv, InlineOK,
         NestedStarts, NestedStep, NestedStages, NestedAdmitted, NestedAppendSettles, NestedCompleted
<1>2. AloneOK'
  <2>1. CASE NestedStarts(n)
    BY <1>1, <2>1 DEF BesideInv, AloneOK, NestedStarts
  <2>2. CASE NestedStep(n)
    <3>1. nested[n] # "idle"
      BY <2>2 DEF NestedStep, NestedStages, NestedAdmitted, NestedAppendSettles, NestedCompleted
    <3>2. QED
      BY <1>1, <3>1 DEF BesideInv, AloneOK
  <2>3. QED
    BY <2>1, <2>2
<1>3. InlineOK'
  <2>1. CASE NestedStarts(n)
    BY <1>1, <2>1 DEF BesideInv, InlineOK, Outlived, NestedStarts
  <2>2. ASSUME NEW ok \in BOOLEAN, NestedAdmitted(n, ok)
        PROVE  InlineOK'
    BY <1>1, <2>2 DEF BesideInv, InlineOK, Outlived, NestedAdmitted
  <2>3. CASE NestedStages(n)
    <3>1. \A m \in Nested : m # n => nested'[m] = nested[m] /\ (m \in unit'.entries <=> m \in unit.entries)
      BY <1>1, <2>3 DEF NestedStages, Units
    <3>2. /\ inlined' = inlined /\ unit'.completed = unit.completed /\ n \notin inlined /\ n \notin unit.entries
          /\ nested'[n] = "appending" => unit.completed
          /\ nested'[n] \in {"failing", "staged", "appending"}
          /\ nested'[n] # "staged" => n \notin unit'.entries
      BY <1>1, <2>3 DEF NestedStages, Units, BesideInv, InlineOK, Outlived
    <3>3. QED
      BY <1>1, <3>1, <3>2 DEF BesideInv, InlineOK, Outlived
  <2>4. ASSUME NEW kept \in BOOLEAN, NestedAppendSettles(n, kept)
        PROVE  InlineOK'
    BY <1>1, <2>4 DEF BesideInv, InlineOK, Outlived, NestedAppendSettles
  <2>5. ASSUME NEW ok \in BOOLEAN, NestedCompleted(n, ok)
        PROVE  InlineOK'
    <3>1. /\ unit'.entries = unit.entries /\ unit'.completed = unit.completed /\ inlined' = inlined
          /\ \A m \in Nested : m # n => nested'[m] = nested[m]
          /\ nested'[n] \in {"late", "succeeded", "failed"} /\ (unit.completed => nested'[n] = "late")
      BY <1>1, <2>5 DEF NestedCompleted, Units
    <3>2. n \in inlined => unit.completed
      BY <2>5 DEF BesideInv, InlineOK, Outlived, NestedCompleted
    <3>3. QED
      BY <1>1, <3>1, <3>2 DEF BesideInv, InlineOK, Outlived
  <2>6. QED
    BY <2>1, <2>2, <2>3, <2>4, <2>5 DEF NestedStep
<1>4. QED
  BY <1>2, <1>3 DEF BesideInv

LEMMA StepBeside ==
  ASSUME CommandInv, BesideInv, Step
  PROVE  BesideInv'
<1>1. inlined' = inlined /\ nested' = nested
  BY DEF Step, Preflight, ProvideSettles, DependenciesSettle, BeginSettles, PlanSettles, RespondSettles, Execute,
         OperationSettles, AggregatesStage, ObserversSettle, FinishScopes, CompensationSettles, HandleSettles,
         ScopeCompletes, StageEvents, Commit, AppendSettles, Recover
<1>2. unit \in Units /\ "outer" \notin Nested /\ "aggregate" \notin Nested
  BY NestedFinite DEF CommandInv, BatchTypes
<1>3. unit'.entries \cap Nested = unit.entries \cap Nested /\ (unit.completed => unit'.completed)
  <2> DEFINE Kept == unit'.entries \cap Nested = unit.entries \cap Nested /\ (unit.completed => unit'.completed)
  <2>1. ASSUME unit' = unit
        PROVE  Kept
    BY <2>1
  <2>2. CASE StageEvents
    BY <1>2, <2>2 DEF StageEvents, Units
  <2>3. ASSUME NEW ok \in BOOLEAN, AggregatesStage(ok)
        PROVE  Kept
    <3>1. unit' = unit \/ unit' = [unit EXCEPT !.entries = @ \cup {"aggregate"}, !.aggregate = "staged"]
      BY <2>3 DEF AggregatesStage
    <3>2. CASE unit' = [unit EXCEPT !.entries = @ \cup {"aggregate"}, !.aggregate = "staged"]
      <4>1. unit'.entries = unit.entries \cup {"aggregate"} /\ unit'.completed = unit.completed
        BY <1>2, <3>2 DEF Units
      <4>2. QED
        BY <1>2, <4>1
    <3>3. QED
      BY <3>1, <3>2
  <2>4. CASE Commit
    BY <1>2, <2>4 DEF Commit, Units
  <2>5. ASSUME NEW ok \in BOOLEAN, ObserversSettle(ok)
        PROVE  Kept
    BY <1>2, <2>5 DEF ObserversSettle, Units
  <2>6. ASSUME NEW answer, NEW kept, AppendSettles(answer, kept)
        PROVE  Kept
    BY <1>2, <2>6 DEF AppendSettles, Units
  <2>7. ASSUME NEW ok, NEW s, NEW report, HandleSettles(ok, s, report)
        PROVE  Kept
    BY <1>2, <2>7 DEF HandleSettles, Units
  <2>8. CASE ~(StageEvents \/ Commit \/ (\E ok \in BOOLEAN : AggregatesStage(ok) \/ ObserversSettle(ok))
               \/ (\E answer, kept : AppendSettles(answer, kept))
               \/ (\E ok, s, report : HandleSettles(ok, s, report)))
    <3>1. unit' = unit
      BY <2>8 DEF Step, Preflight, ProvideSettles, DependenciesSettle, BeginSettles, PlanSettles, RespondSettles,
             Execute, OperationSettles, FinishScopes, CompensationSettles, ScopeCompletes, Recover
    <3>2. QED
      BY <2>1, <3>1
  <2> HIDE DEF Kept
  <2>9. QED
    BY <2>2, <2>3, <2>4, <2>5, <2>6, <2>7, <2>8 DEF Kept
<1>4. pc' = "planning" \/ planned' # NoJournal =>
        pc = "planning" \/ planned # NoJournal \/ \A n \in Nested : nested[n] = "idle"
  BY DEF Step, Preflight, ProvideSettles, DependenciesSettle, BeginSettles, PlanSettles, RespondSettles, Execute,
         OperationSettles, AggregatesStage, ObserversSettle, FinishScopes, CompensationSettles, HandleSettles,
         ScopeCompletes, StageEvents, Commit, AppendSettles, Recover, Throw, ThrowIfCanceled, Go, ScopeDone,
         BeginNext, OperationsAllowed
<1>5. planned # NoJournal => planned' # NoJournal
  BY DEF CommandInv, BeforeOK, Step, Preflight, ProvideSettles, DependenciesSettle, BeginSettles, PlanSettles,
         RespondSettles, Execute, OperationSettles, AggregatesStage, ObserversSettle, FinishScopes,
         CompensationSettles, HandleSettles, ScopeCompletes, StageEvents, Commit, AppendSettles, Recover
<1>6. compensated' # <<>> => compensated # <<>> \/ planned # NoJournal
  BY DEF CommandInv, JournalOK, Step, Preflight, ProvideSettles, DependenciesSettle, BeginSettles, PlanSettles,
         RespondSettles, Execute, OperationSettles, AggregatesStage, ObserversSettle, FinishScopes,
         CompensationSettles, HandleSettles, ScopeCompletes, StageEvents, Commit, AppendSettles, Recover
<1>7. QED
  BY <1>1, <1>3, <1>4, <1>5, <1>6, BesideKept

LEMMA NextBeside == CommandInv /\ BesideInv /\ [Next]_vars => BesideInv'
<1>1. SUFFICES ASSUME CommandInv, BesideInv, [Next]_vars
               PROVE  BesideInv'
  OBVIOUS
<1>2. CASE Step
  BY <1>1, <1>2, StepBeside
<1>3. CASE Cancel \/ BudgetExpires \/ UNCHANGED vars
  BY <1>1, <1>3, BesideKept DEF Cancel, BudgetExpires, vars
<1>4. CASE \E n \in Nested : NestedStarts(n) \/ NestedStep(n)
  BY <1>1, <1>4, NestedBeside
<1>5. QED
  BY <1>1, <1>2, <1>3, <1>4 DEF Next

\* The inductive invariant of the command execution: what each stage of
\* executeCommandOperation may rely on about the batch, the journal and the
\* failures, whatever is canceled and whatever settles first.
THEOREM CommandInvariant == Spec => []CommandInv
<1>1. Init => CommandInv
  BY InitEstablishes
<1>2. CommandInv /\ [Next]_vars => CommandInv'
  BY NextKeeps
<1>3. QED
  BY <1>1, <1>2, PTL DEF Spec

\* Nothing is appended beside the batch but by nested commands that outlived the
\* unit, and never an event of the batch (ChronicleResponseHandler.handle).
THEOREM BesideInvariant == Spec => []BesideInv
<1>1. Init => BesideInv
  BY DEF Init, BesideInv, InlineOK, AloneOK
<1>2. CommandInv /\ BesideInv /\ [Next]_vars => BesideInv'
  BY NextBeside
<1>3. QED
  BY <1>1, <1>2, CommandInvariant, PTL DEF Spec

\* Once a nested command has failed no staged event is ever stored, and what the
\* chain stores nevertheless was appended by a nested command that outlived the
\* unit (ChronicleUnitOfWork.nestedCompleted and commit).
THEOREM FailureDiscardsStaged == Spec => []NestedFailureDiscardsBatch
<1>1. CommandInv /\ BesideInv => NestedFailureDiscardsBatch
  BY DEF CommandInv, NestedOK, BesideInv, InlineOK, NestedFailureDiscardsBatch
<1>2. QED
  BY <1>1, CommandInvariant, BesideInvariant, PTL

\* With operations, no scope can hide the failure captured first
\* (CommandFailureSnapshot.capture and restore).
THEOREM FirstFailureAlwaysKept == Spec => []FirstFailureKept
<1>1. CommandInv => FirstFailureKept
  BY DEF CommandInv, JournalOK, FirstFailureKept
<1>2. QED
  BY <1>1, CommandInvariant, PTL

\* A success has run every operation, compensated none and stored the whole
\* batch (executeCommandOperation, ChronicleUnitOfWork.commit).
THEOREM SuccessAlwaysWhole == Spec => []SuccessIsWhole
<1>1. CommandInv /\ BesideInv => SuccessIsWhole
  <2>1. SUFFICES ASSUME CommandInv, BesideInv, pc = "done", result = {}, original = {}
                 PROVE  /\ planned # NoJournal => Len(outcomes) = planned /\ \A i \in DOMAIN outcomes : outcomes[i].completed
                        /\ compensated = <<>>
                        /\ Chronicle => stored = unit.entries /\ inlined \cap stored = {}
    BY DEF SuccessIsWhole
  <2>2. /\ planned # NoJournal => Len(outcomes) = planned /\ \A i \in DOMAIN outcomes : outcomes[i].completed
        /\ compensated = <<>>
    BY <2>1 DEF CommandInv, JournalOK
  <2>3. ASSUME Chronicle
        PROVE  stored = unit.entries
    <3>1. CASE recorded = Len(kinds)
      <4>1. PICK i \in 1..recorded : kinds[i] = "chronicle"
        BY <2>1, <2>3, <3>1, KindsAreScopes DEF Chronicle
      <4>2. QED
        BY <2>1, <4>1 DEF CommandInv, CommitOK
    <3>2. CASE recorded # Len(kinds)
      BY <2>1, <3>2 DEF CommandInv, StagedOK, BatchTypes
    <3>3. QED
      BY <3>1, <3>2
  <2>4. Chronicle => inlined \cap stored = {}
    BY <2>1, <2>3 DEF BesideInv, InlineOK
  <2>5. QED
    BY <2>2, <2>3, <2>4
<1>2. QED
  BY <1>1, CommandInvariant, BesideInvariant, PTL

\* Nothing is compensated that was committed, but for the batch whose observer
\* failed after it was stored (CommandOperationExecution.recover).
THEOREM CompensationsJustified == Spec => []CompensatesUncommittedOrObserved
<1>1. CommandInv /\ BesideInv => CompensatesUncommittedOrObserved
  <2>1. SUFFICES ASSUME CommandInv, BesideInv, compensated # <<>>
                 PROVE  (stored = {} /\ inlined = {} /\ reported # "Committed") \/ "observer" \in result
    BY DEF CompensatesUncommittedOrObserved, CompensatesOnlyUncommitted
  <2>2. inlined = {}
    BY <2>1 DEF BesideInv, AloneOK, InlineOK, Outlived
  <2>3. QED
    BY <2>1, <2>2 DEF CommandInv, RecoveryOK
<1>2. QED
  BY <1>1, CommandInvariant, BesideInvariant, PTL

\* Recovery reaches every operation that was started, once, from the last to the
\* first (CommandOperationExecution.recover).
THEOREM RecoveryAlwaysComplete == Spec => []RecoveryIsComplete
<1>1. CommandInv => RecoveryIsComplete
  BY DEF CommandInv, RecoveryOK, Recovered, RecoveryIsComplete
<1>2. QED
  BY <1>1, CommandInvariant, PTL

\* After the cancellation no scope is begun, no operation started, nothing
\* staged and no batch sent (throwIfCanceled before each of them).
THEOREM CancellationStopsStages == Spec => NothingStartsAfterCancel
<1>1. CommandInv /\ [Next]_vars => [CancellationStep]_vars
  <2> DEFINE Stopped == /\ recorded' = recorded /\ Len(outcomes') = Len(outcomes)
                        /\ unit'.entries = unit.entries /\ appends' = appends
  <2>1. SUFFICES ASSUME CommandInv, canceled, Next
                 PROVE  Stopped
    BY DEF CancellationStep
  <2>2. /\ outcomes \in Seq(Outcome) /\ Len(outcomes) \in Nat /\ index \in 0..Len(outcomes) /\ unit \in Units
        /\ (pc = "executing" => outcomes # <<>>)
    BY <2>1 DEF CommandInv, JournalTypes, BatchTypes, BeforeOK
  <2>3. \A d, b : /\ [unit EXCEPT !.completed = b, !.disposition = d].entries = unit.entries
                  /\ [unit EXCEPT !.disposition = d].entries = unit.entries
                  /\ [unit EXCEPT !.nestedFailure = b].entries = unit.entries
                  /\ [unit EXCEPT !.aggregate = d].entries = unit.entries
    BY <2>2 DEF Units
  <2>4. ASSUME NEW outcome \in {"rejected", "validated", "accepted"}, Preflight(outcome)
        PROVE  Stopped
    BY <2>4 DEF Preflight
  <2>5. ASSUME NEW outcome \in {"throws", "refuses", "provides"}, ProvideSettles(outcome)
        PROVE  Stopped
    BY <2>5 DEF ProvideSettles
  <2>6. ASSUME NEW ok \in BOOLEAN, DependenciesSettle(ok) \/ BeginSettles(ok)
        PROVE  Stopped
    BY <2>1, <2>6 DEF DependenciesSettle, BeginSettles, ThrowIfCanceled
  <2>7. ASSUME NEW ok \in BOOLEAN, PlanSettles(ok) \/ RespondSettles(ok) \/ Execute(ok)
        PROVE  Stopped
    BY <2>1, <2>7 DEF PlanSettles, RespondSettles, Execute, ThrowIfCanceled
  <2>8. ASSUME NEW ok \in BOOLEAN, OperationSettles(ok)
        PROVE  Stopped
    <3>1. Len(Finished(outcomes)) = Len(outcomes)
      BY <2>2, <2>8, FinishedResult DEF OperationSettles
    <3>2. QED
      BY <2>1, <2>8, <3>1 DEF OperationSettles
  <2>9. ASSUME NEW ok \in BOOLEAN, AggregatesStage(ok) \/ ObserversSettle(ok)
        PROVE  Stopped
    BY <2>1, <2>3, <2>9 DEF AggregatesStage, ObserversSettle
  <2>10. ASSUME NEW ok \in BOOLEAN, FinishScopes(ok)
         PROVE  Stopped
    <3>1. Len([i \in DOMAIN outcomes |-> [outcomes[i] EXCEPT !.compensation = "Suppressed"]]) = Len(outcomes)
      <4>1. DOMAIN outcomes = 1..Len(outcomes)
        BY <2>2
      <4>2. QED
        BY <2>2, <4>1
    <3>2. QED
      BY <2>10, <3>1 DEF FinishScopes
  <2>11. ASSUME NEW ok \in BOOLEAN, CompensationSettles(ok) \/ Recover
         PROVE  Stopped
    <3>1. \A i \in DOMAIN outcomes : \A v : Len([outcomes EXCEPT ![i].compensation = v]) = Len(outcomes)
      BY <2>2
    <3>2. index > 0 => index \in DOMAIN outcomes
      BY <2>2
    <3>3. pc = "compensating" => index > 0
      BY <2>1 DEF CommandInv, RecoveryOK
    <3>4. QED
      BY <2>11, <3>1, <3>2, <3>3 DEF CompensationSettles, Recover
  <2>12. ASSUME NEW ok \in BOOLEAN, NEW s \in Shape, NEW report \in Dispositions, HandleSettles(ok, s, report)
         PROVE  Stopped
    BY <2>3, <2>12 DEF HandleSettles
  <2>13. ASSUME NEW outcome \in {"returns", "throws", "clears", "fails"}, NEW report \in Dispositions,
                ScopeCompletes(outcome, report)
         PROVE  Stopped
    BY <2>13 DEF ScopeCompletes
  <2>14. ASSUME StageEvents \/ Commit
         PROVE  Stopped
    <3>1. CASE StageEvents
      BY <2>1, <3>1 DEF StageEvents
    <3>2. CASE Commit
      <4>1. /\ recorded' = recorded /\ outcomes' = outcomes
            /\ unit'.entries = unit.entries
        BY <2>2, <3>2 DEF Commit, Units
      <4>2. appends' = appends
        BY <2>1, <3>2 DEF Commit
      <4>3. QED
        BY <4>1, <4>2
    <3>3. QED
      BY <2>14, <3>1, <3>2
  <2>15. ASSUME NEW answer, NEW kept, AppendSettles(answer, kept)
         PROVE  Stopped
    BY <2>3, <2>15 DEF AppendSettles
  <2>16. ASSUME NEW n \in Nested, NestedStarts(n) \/ NestedStep(n)
         PROVE  Stopped
    BY <2>1, <2>3, <2>16, ZenonT(40) DEF NestedStarts, NestedStep, NestedStages, NestedAdmitted,
       NestedAppendSettles, NestedCompleted
  <2>17. ASSUME Cancel \/ BudgetExpires
         PROVE  Stopped
    BY <2>17 DEF Cancel, BudgetExpires
  <2> HIDE DEF Stopped
  <2>18. QED
    BY <2>1, <2>4, <2>5, <2>6, <2>7, <2>8, <2>9, <2>10, <2>11, <2>12, <2>13, <2>14, <2>15, <2>16, <2>17
       DEF Next, Step
<1>2. QED
  BY <1>1, CommandInvariant, PTL DEF Spec, NothingStartsAfterCancel
=============================================================================
