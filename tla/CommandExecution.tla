-------------------------- MODULE CommandExecution --------------------------
(***************************************************************************)
(* Source/Core/commands/executeCommandOperation.ts,                        *)
(* CommandOperationExecution.ts, prepareCommandResponse.ts,                *)
(* processCommandResponse.ts, and the Chronicle integration that commits   *)
(* inside it (ChronicleUnitOfWork.ts, ChronicleCommandScope.ts,            *)
(* runChronicleCommand.ts, waitForProjectionCompletion.ts): one outermost  *)
(* command, the execution scopes around it, the operations its handler     *)
(* declared, and the batch of events it and its nested commands stage.     *)
(*                                                                         *)
(* Every action is the settlement of one await and the code that runs up   *)
(* to the next one.  The request can be canceled between any two of them,  *)
(* nested commands run beside the handler, the event log may answer        *)
(* anything, and the compensation budget may expire.                       *)
(*                                                                         *)
(* A result is the set of its failures, {} for success; a failure is named *)
(* after the stage it comes from.  What is stored is kept apart from what  *)
(* the program believes of it.                                             *)
(***************************************************************************)
EXTENDS Integers, Sequences, FiniteSets

CONSTANTS
  ScopeLists,         \* the lists of execution scopes the command may run in
  MaxOperations,      \* bound: operations one command declares
  Compensable,        \* the operations that have a compensate method
  Nested,             \* nested commands the handler may start
  DetachedNested,     \* whether the handler may return without awaiting them
  WaitsForObservers   \* whether completionTimeoutMs is configured

\* "opaque" scopes report nothing about commits; "silent" ones promise to
\* commit nothing; "reporting" is an application's own commit participant.
ScopeKind == {"opaque", "silent", "reporting", "chronicle"}
Operations == 1..MaxOperations

ASSUME ScopesKnown == ScopeLists \subseteq Seq(ScopeKind)
\* withChronicle a second time would register its services twice, which no
\* application can be built with (ServiceRegistry.ts 54).
ASSUME OneUnitOfWork ==
  \A l \in ScopeLists : \A i, j \in DOMAIN l : l[i] = "chronicle" /\ l[j] = "chronicle" => i = j
ASSUME OperationsNat == MaxOperations \in Nat /\ Compensable \subseteq Operations
ASSUME NestedFinite == IsFiniteSet(Nested) /\ "outer" \notin Nested /\ "aggregate" \notin Nested
ASSUME Switches == DetachedNested \in BOOLEAN /\ WaitsForObservers \in BOOLEAN

Dispositions == {"NoCommit", "NotCommitted", "Committed", "Unknown", "Mixed"}
KnownAbsentOrUnknown == {"NoCommit", "NotCommitted", "Unknown"}
KnownAbsent == {"NoCommit", "NotCommitted"}
Failures == {"canceled", "rejected", "dependencies", "begin", "provide", "refused", "handler",
             "prepare", "response", "encode", "early", "operation", "scope", "mutated", "nested",
             "append", "observer", "output", "disposition", "indeterminate"}
NoJournal == -1

VARIABLES
  kinds,        \* the scopes of this execution
  pc,           \* the await the execution is at
  canceled,     \* context.signal.aborted
  result,       \* the command result: its failures
  original,     \* snapshot.original: the failures captured first, {} if none
  recorded,     \* scopes recorded before their begin
  shape,        \* what the handler returned
  planned,      \* number of operations in the journal, NoJournal without one
  outcomes,     \* journal.outcomes
  failedIndex,  \* journal.failedIndex, 0 for undefined
  index,        \* recovery: the outcome being compensated
  expired,      \* the compensation budget has expired
  commit,       \* the disposition recovery used
  reported,     \* disposition of the application's own participant
  unit,         \* the Chronicle unit of work
  nested,       \* progress of each nested command
  stored,       \* ground truth: whose events of the batch the event log holds
  inlined,      \* ground truth: the nested commands that appended outside the batch
  appends,      \* history: appendMany calls
  completions,  \* history: the scopes completed, in order
  compensated   \* history: the operations whose compensate was called, in order

scopeVars == <<recorded, completions>>
journalVars == <<planned, outcomes, failedIndex>>
recoveryVars == <<index, expired, commit, compensated>>
logVars == <<stored, inlined, appends>>
vars == <<kinds, pc, canceled, result, original, scopeVars, shape, journalVars, recoveryVars,
          reported, unit, nested, logVars>>

Outcome == [completed : BOOLEAN,
            compensation : {"NotNeeded", "Suppressed", "NotAvailable", "BudgetExpired", "Completed", "Failed"}]
\* An operation list (or none), ordinary response values, and a denial or
\* validation failure among the leaves.
Shape == [operations : 0..MaxOperations \cup {NoJournal},
          ordinary : {"none", "value", "events"}, refused : BOOLEAN, aggregate : BOOLEAN]
Nothing == [operations |-> NoJournal, ordinary |-> "none", refused |-> FALSE, aggregate |-> FALSE]

----------------------------------------------------------------------------
(* The unit of work *)

Chronicle == \E i \in DOMAIN kinds : kinds[i] = "chronicle"
hasStagedEvents == unit.entries # {} \/ unit.aggregate = "pending"

\* ChronicleCommandScope.getCommitDisposition
ChronicleDisposition ==
  IF unit.disposition = "NoCommit" /\ hasStagedEvents THEN "NotCommitted" ELSE unit.disposition

\* isCommitParticipant of the recorded scopes
Participants ==
  {i \in 1..recorded : kinds[i] = "reporting" \/ (kinds[i] = "chronicle" /\ hasStagedEvents)}

\* disposition(): Conflict stands for the error of two participants.
Conflict == "Conflict"
Disposition ==
  IF Cardinality(Participants) > 1 THEN Conflict
  ELSE IF \E i \in Participants : kinds[i] = "reporting" THEN reported
  ELSE IF Participants # {} THEN ChronicleDisposition
  ELSE "NoCommit"

----------------------------------------------------------------------------
(* Results *)

Capture(res) == original' = IF original = {} THEN res ELSE original
RestoreNothing(res) == res
Restore(res) == IF planned = NoJournal THEN res ELSE res \cup original

\* The catch and finally of executeCommandOperation: the failure is recorded and
\* the recorded scopes are completed.
Throw(cause) ==
  /\ result' = result \cup {cause}
  /\ Capture(result \cup {cause})
  /\ pc' = "completing"

ThrowIfCanceled == canceled /\ Throw("canceled")
Go(stage) == pc' = stage /\ UNCHANGED <<result, original>>

----------------------------------------------------------------------------
(* Before the handler *)

\* preflight(): no scope exists yet, so a rejection or a cancellation returns.
Preflight(outcome) ==
  /\ pc = "preflight"
  /\ \/ /\ canceled \/ outcome = "rejected"
        /\ result' = {IF canceled THEN "canceled" ELSE "rejected"} /\ pc' = "done"
     \/ /\ ~canceled /\ outcome = "validated"
        /\ result' = {} /\ pc' = "done"
     \/ /\ ~canceled /\ outcome = "accepted"
        /\ pc' = "dependencies" /\ UNCHANGED result
  /\ UNCHANGED <<kinds, canceled, original, scopeVars, shape, journalVars, recoveryVars, reported, unit, nested, logVars>>

\* A scope is recorded before its begin is awaited; provide follows the last one.
BeginNext ==
  IF recorded < Len(kinds)
  THEN Go("beginning") /\ recorded' = recorded + 1
  ELSE Go("providing") /\ UNCHANGED recorded

DependenciesSettle(ok) ==
  /\ pc = "dependencies"
  /\ \/ ThrowIfCanceled /\ UNCHANGED recorded
     \/ ~canceled /\ ~ok /\ Throw("dependencies") /\ UNCHANGED recorded
     \/ ~canceled /\ ok /\ BeginNext
  /\ UNCHANGED <<kinds, canceled, completions, shape, journalVars, recoveryVars, reported, unit, nested, logVars>>

BeginSettles(ok) ==
  /\ pc = "beginning"
  /\ \/ ~ok /\ Throw("begin") /\ UNCHANGED recorded
     \/ ok /\ ThrowIfCanceled /\ UNCHANGED recorded
     \/ ok /\ ~canceled /\ BeginNext
  /\ UNCHANGED <<kinds, canceled, completions, shape, journalVars, recoveryVars, reported, unit, nested, logVars>>

\* A provide that denies or rejects skips the handler; its result is not captured.
ProvideSettles(outcome) ==
  /\ pc = "providing"
  /\ \/ outcome = "throws" /\ Throw("provide")
     \/ outcome # "throws" /\ ThrowIfCanceled
     \/ /\ outcome = "refuses" /\ ~canceled
        /\ result' = {"refused"} /\ pc' = "completing" /\ UNCHANGED original
     \/ outcome = "provides" /\ ~canceled /\ Go("handling")
  /\ UNCHANGED <<kinds, canceled, recorded, completions, shape, journalVars, recoveryVars, reported, unit, nested, logVars>>

----------------------------------------------------------------------------
(* Nested commands, on the unit of work of the outer one *)

\* Authorization, parsing and filters come before the execution runner, so a
\* refusal there never reaches the unit of work (runCommandOperation.ts 28-65).
\* A command admitted after the unit completed starts a batch of its own.
NestedStarts(n) ==
  /\ pc = "handling"
  /\ nested[n] = "idle"
  /\ nested' = [nested EXCEPT ![n] = "admitting"]
  /\ UNCHANGED <<kinds, pc, canceled, result, original, scopeVars, shape, journalVars, recoveryVars, reported, unit, logVars>>

NestedAdmitted(n, ok) ==
  /\ nested[n] = "admitting"
  /\ nested' = [nested EXCEPT ![n] = IF ~ok \/ canceled THEN "refused"
                                     ELSE IF unit.completed THEN "own" ELSE "running"]
  /\ UNCHANGED <<kinds, pc, canceled, result, original, scopeVars, shape, journalVars, recoveryVars, reported, unit, logVars>>

\* ChronicleResponseHandler.handle(): returned events join the batch.  A completed
\* unit is no longer active(), so a nested command that outlived it appends its
\* events at once, on its own.
NestedStages(n) ==
  /\ nested[n] = "running" /\ Chronicle
  /\ \/ canceled /\ nested' = [nested EXCEPT ![n] = "failing"] /\ UNCHANGED <<unit, appends>>
     \/ /\ ~canceled /\ ~unit.completed
        /\ nested' = [nested EXCEPT ![n] = "staged"]
        /\ unit' = [unit EXCEPT !.entries = @ \cup {n}] /\ UNCHANGED appends
     \/ /\ ~canceled /\ unit.completed
        /\ nested' = [nested EXCEPT ![n] = "appending"]
        /\ appends' = appends + 1 /\ UNCHANGED unit
  /\ UNCHANGED <<kinds, pc, canceled, result, original, scopeVars, shape, journalVars, recoveryVars, reported,
                 stored, inlined>>

\* The answer to that append: what was kept is stored whatever becomes of the command.
NestedAppendSettles(n, kept) ==
  /\ nested[n] = "appending"
  /\ nested' = [nested EXCEPT ![n] = "answered"]
  /\ inlined' = IF kept THEN inlined \cup {n} ELSE inlined
  /\ UNCHANGED <<kinds, pc, canceled, result, original, scopeVars, shape, journalVars, recoveryVars, reported, unit,
                 stored, appends>>

\* nestedCompleted(): a failure poisons the batch.  Once the unit has completed it
\* throws instead: the caller of that command, which the handler did not await,
\* gets a failure, also when its own append was accepted.
NestedCompletedForgiving(n, ok) ==
  /\ nested[n] \in {"running", "staged", "failing", "answered"}
  /\ nested' = [nested EXCEPT ![n] = IF unit.completed THEN "late" ELSE IF ok /\ @ # "failing" THEN "succeeded" ELSE "failed"]
  /\ UNCHANGED <<kinds, pc, canceled, result, original, scopeVars, shape, journalVars, recoveryVars, reported, unit, logVars>>
NestedCompleted(n, ok) ==
  /\ nested[n] \in {"running", "staged", "failing", "answered"}
  /\ LET succeeds == ok /\ nested[n] # "failing"
     IN  /\ nested' = [nested EXCEPT ![n] = IF unit.completed THEN "late" ELSE IF succeeds THEN "succeeded" ELSE "failed"]
         /\ unit' = IF unit.completed THEN unit ELSE [unit EXCEPT !.nestedFailure = @ \/ ~succeeds]
  /\ UNCHANGED <<kinds, pc, canceled, result, original, scopeVars, shape, journalVars, recoveryVars, reported, logVars>>

NestedPending == {n \in Nested :
  nested[n] \in {"admitting", "running", "staged", "failing", "appending", "answered"}}

----------------------------------------------------------------------------
(* The handler and its response *)

\* completedCommandResponse(): the outcome of a handler that finished after the
\* cancellation is kept when no later stage is needed to classify it.
Effectless(s) == s.operations = NoJournal /\ (Chronicle => s.ordinary = "none")

\* CommandOperationBoundary.validate and the scopes' compatibility
OperationsAllowed ==
  /\ \A n \in Nested : nested[n] = "idle"
  /\ \A i \in 1..recorded : kinds[i] # "opaque"

\* The application's participant may have committed while the handler ran.
HandleSettles(ok, s, report) ==
  /\ pc = "handling"
  /\ DetachedNested \/ NestedPending = {}
  /\ (s.ordinary = "events" \/ s.aggregate) => Chronicle
  /\ report # reported => \E i \in DOMAIN kinds : kinds[i] = "reporting"
  /\ reported' = report
  /\ unit' = IF s.aggregate THEN [unit EXCEPT !.aggregate = "pending"] ELSE unit
  /\ shape' = s
  /\ \/ ~ok /\ Throw("handler")
     \/ /\ ok /\ canceled /\ Effectless(s)
        /\ pc' = "responded" /\ result' = IF s.refused THEN {"refused"} ELSE {}
        /\ UNCHANGED original
     \/ ok /\ ~Effectless(s) /\ ThrowIfCanceled
     \/ ok /\ ~canceled /\ s.operations # NoJournal /\ ~OperationsAllowed /\ Throw("prepare")
     \/ ok /\ ~canceled /\ s.operations # NoJournal /\ OperationsAllowed /\ Go("planning")
     \/ ok /\ ~canceled /\ s.operations = NoJournal /\ Go("responding")
  /\ UNCHANGED <<kinds, canceled, recorded, completions, journalVars, recoveryVars, nested, logVars>>

\* CommandOperationExecution.plan()
PlanSettles(ok) ==
  /\ pc = "planning"
  /\ IF ok THEN planned' = shape.operations /\ Go("responding") ELSE Throw("prepare") /\ UNCHANGED planned
  /\ UNCHANGED <<kinds, canceled, recorded, completions, shape, outcomes, failedIndex, recoveryVars, reported, unit, nested, logVars>>

\* The response handlers: returned events are staged, but not beside operations
\* that a denial or validation failure keeps from running.
Stages == shape.ordinary = "events" /\ (planned = NoJournal \/ ~shape.refused)
StageEvents ==
  /\ pc = "responding" /\ Stages /\ "outer" \notin unit.entries
  /\ ~canceled
  /\ unit' = [unit EXCEPT !.entries = @ \cup {"outer"}]
  /\ UNCHANGED <<kinds, pc, canceled, result, original, scopeVars, shape, journalVars, recoveryVars, reported, nested, logVars>>

RespondSettles(ok) ==
  /\ pc = "responding"
  /\ \/ ThrowIfCanceled
     \/ ~canceled /\ ~ok /\ Throw("response")
     \/ /\ ~canceled /\ ok /\ (Stages => "outer" \in unit.entries)
        /\ pc' = "responded" /\ result' = IF shape.refused THEN {"refused"} ELSE {}
        /\ UNCHANGED original
  /\ UNCHANGED <<kinds, canceled, scopeVars, shape, journalVars, recoveryVars, reported, unit, nested, logVars>>

----------------------------------------------------------------------------
(* Operations *)

Started == [completed |-> FALSE, compensation |-> "NotNeeded"]
Finished(os) == [os EXCEPT ![Len(os)].completed = TRUE]

\* The response is encoded and captured; operations start only when the
\* participant has not committed yet.
Execute(encodes) ==
  /\ pc = "responded"
  /\ \/ /\ result = {} /\ ~encodes /\ Throw("encode") /\ UNCHANGED outcomes
     \/ /\ result # {} \/ (planned = NoJournal /\ encodes)
        /\ Capture(result) /\ pc' = "completing" /\ UNCHANGED <<result, outcomes>>
     \/ /\ result = {} /\ encodes /\ planned # NoJournal
        /\ \/ ThrowIfCanceled /\ UNCHANGED outcomes
           \/ ~canceled /\ Disposition \notin KnownAbsent /\ Throw("early") /\ UNCHANGED outcomes
           \/ /\ ~canceled /\ Disposition \in KnownAbsent
              /\ IF planned > 0
                 THEN Go("executing") /\ outcomes' = <<Started>>
                 ELSE Go("completing") /\ UNCHANGED outcomes
  /\ UNCHANGED <<kinds, canceled, recorded, completions, shape, planned, failedIndex, recoveryVars, reported, unit, nested, logVars>>

\* An invocation is recorded before it is called.
OperationSettlesUnchecked(ok) ==
  /\ pc = "executing"
  /\ \/ ~ok /\ failedIndex' = Len(outcomes) /\ Throw("operation") /\ UNCHANGED outcomes
     \/ /\ ok /\ UNCHANGED failedIndex
        /\ IF Len(outcomes) < planned
           THEN Go("executing") /\ outcomes' = Append(Finished(outcomes), Started)
           ELSE Go("completing") /\ outcomes' = Finished(outcomes)
  /\ UNCHANGED <<kinds, canceled, recorded, completions, shape, planned, recoveryVars, reported, unit, nested, logVars>>
OperationSettlesSwallowed(ok) ==
  /\ pc = "executing"
  /\ IF Len(outcomes) < planned
     THEN Go("executing") /\ outcomes' = Append(IF ok THEN Finished(outcomes) ELSE outcomes, Started)
     ELSE Go("completing") /\ outcomes' = IF ok THEN Finished(outcomes) ELSE outcomes
  /\ UNCHANGED <<kinds, canceled, recorded, completions, shape, planned, failedIndex, recoveryVars, reported, unit, nested, logVars>>
OperationSettles(ok) ==
  /\ pc = "executing"
  /\ \/ ~ok /\ failedIndex' = Len(outcomes) /\ Throw("operation") /\ UNCHANGED outcomes
     \/ ok /\ ThrowIfCanceled /\ outcomes' = Finished(outcomes) /\ UNCHANGED failedIndex
     \/ /\ ok /\ ~canceled /\ UNCHANGED failedIndex
        /\ IF Len(outcomes) < planned
           THEN Go("executing") /\ outcomes' = Append(Finished(outcomes), Started)
           ELSE Go("completing") /\ outcomes' = Finished(outcomes)
  /\ UNCHANGED <<kinds, canceled, recorded, completions, shape, planned, recoveryVars, reported, unit, nested, logVars>>

----------------------------------------------------------------------------
(* Completing the scopes, in reverse order *)

Completing == recorded - Len(completions)
ScopeDone(res) ==
  /\ result' = res /\ Capture(res)
  /\ pc' = "completing"
  /\ completions' = Append(completions, Completing)

\* complete() of a scope other than Chronicle's: it may throw, and it may
\* overwrite the result it is given.
ScopeCompletes(outcome, report) ==
  LET given == Restore(result) IN
  /\ pc = "completing" /\ Completing > 0
  /\ kinds[Completing] # "chronicle"
  /\ report # reported => kinds[Completing] = "reporting" /\ reported \in KnownAbsent
  /\ reported' = report
  /\ ScopeDone(CASE outcome = "returns" -> given
                 [] outcome = "throws" -> given \cup {"scope"}
                 [] outcome = "clears" -> {}
                 [] outcome = "fails" -> {"mutated"})
  /\ UNCHANGED <<kinds, canceled, recorded, shape, journalVars, recoveryVars, unit, nested, logVars>>

\* ChronicleCommandScope.complete() stages what aggregates still hold.
AggregatesStage(ok) ==
  /\ pc = "completing" /\ Completing > 0 /\ kinds[Completing] = "chronicle"
  /\ Restore(result) = {} /\ unit.aggregate = "pending"
  /\ IF ok /\ ~canceled
     THEN /\ unit' = [unit EXCEPT !.entries = @ \cup {"aggregate"}, !.aggregate = "staged"]
          /\ UNCHANGED <<pc, result, original, completions>>
     ELSE ScopeDone({"scope"}) /\ UNCHANGED unit
  /\ UNCHANGED <<kinds, canceled, recorded, shape, journalVars, recoveryVars, reported, nested, logVars>>

\* commit(), up to its append
Commit ==
  LET given == Restore(result)
      refusal == IF given # {} THEN given
                 ELSE IF unit.nestedFailure THEN {"nested"}
                 ELSE IF unit.entries # {} /\ canceled THEN {"canceled"} ELSE {}
      aborted == given = {} /\ ~unit.nestedFailure /\ unit.entries # {} /\ canceled
  IN  /\ pc = "completing" /\ Completing > 0 /\ kinds[Completing] = "chronicle"
      /\ given = {} => unit.aggregate # "pending"
      /\ IF refusal # {} \/ unit.entries = {}
         THEN /\ unit' = [unit EXCEPT !.completed = TRUE,
                                      !.disposition = IF aborted THEN "NotCommitted" ELSE @]
              /\ ScopeDone(refusal)
              /\ UNCHANGED appends
         ELSE /\ unit' = [unit EXCEPT !.completed = TRUE, !.disposition = "Unknown"]
              /\ pc' = "appending" /\ appends' = appends + 1
              /\ result' = given /\ UNCHANGED <<original, completions>>
      /\ UNCHANGED <<kinds, canceled, recorded, shape, journalVars, recoveryVars, reported, nested, stored, inlined>>

\* The event log's answer, as checkResults() reads it: every event accepted, all
\* rejected, or an error, a partial or no acknowledgment, which leaves open
\* whether events were stored.
AppendSettles(answer, kept) ==
  /\ pc = "appending"
  /\ stored' = CASE answer = "accepted" -> unit.entries [] answer = "rejected" -> {} [] answer = "unclear" -> kept
  /\ \/ /\ answer = "accepted"
        /\ unit' = [unit EXCEPT !.disposition = "Committed"]
        /\ IF WaitsForObservers /\ ~canceled
           THEN Go("observing") /\ UNCHANGED completions
           ELSE ScopeDone(result)
     \/ /\ answer = "rejected"
        /\ unit' = [unit EXCEPT !.disposition = "NotCommitted"]
        /\ ScopeDone(result \cup {"append"})
     \/ answer = "unclear" /\ UNCHANGED unit /\ ScopeDone(result \cup {"append"})
  /\ UNCHANGED <<kinds, canceled, recorded, shape, journalVars, recoveryVars, reported, nested, inlined, appends>>

\* waitForProjectionCompletion() settles.  An observer failure reaches the catch
\* of commit(), which takes every disposition but Unknown for a failed append.
ObserversSettle(ok) ==
  /\ pc = "observing"
  /\ IF ok \/ canceled
     THEN ScopeDone(result) /\ UNCHANGED unit
     ELSE ScopeDone(result \cup {"observer"}) /\ unit' = [unit EXCEPT !.disposition = "NotCommitted"]
  /\ UNCHANGED <<kinds, canceled, recorded, shape, journalVars, recoveryVars, reported, nested, logVars>>

----------------------------------------------------------------------------
(* Recovery *)

\* After the last scope: the client output is checked again, and a journal is
\* recovered from by the participant's disposition.
FinishScopes(output) ==
  LET restored == Restore(result)
      checked == IF restored = {} /\ ~output THEN {"output"} ELSE restored
      known == IF Disposition = Conflict THEN "Unknown" ELSE Disposition
      judged == IF Disposition = Conflict THEN checked \cup {"disposition"}
                ELSE IF checked = {} /\ known \in {"Unknown", "Mixed"} THEN {"indeterminate"}
                ELSE checked
  IN  /\ pc = "completing" /\ Completing = 0
      /\ IF planned = NoJournal
         THEN /\ result' = checked /\ Capture(checked)
              /\ pc' = "done" /\ UNCHANGED <<outcomes, index, commit>>
         ELSE /\ result' = judged /\ Capture(judged)
              /\ commit' = known /\ index' = Len(outcomes)
              /\ outcomes' = IF judged = {} \/ known \in KnownAbsent THEN outcomes
                             ELSE [i \in DOMAIN outcomes |-> [outcomes[i] EXCEPT !.compensation = "Suppressed"]]
              /\ pc' = IF judged # {} /\ known \in KnownAbsent THEN "recovering" ELSE "done"
      /\ UNCHANGED <<kinds, canceled, scopeVars, shape, planned, failedIndex, expired, compensated, reported, unit, nested, logVars>>

\* recover() looks at one started invocation, from the last to the first.
RecoverSkipsFailed ==
  /\ pc = "recovering"
  /\ IF index = 0 THEN pc' = "done" /\ UNCHANGED <<outcomes, index, compensated>>
     ELSE IF index \in Compensable /\ ~expired /\ outcomes[index].completed
     THEN pc' = "compensating" /\ compensated' = Append(compensated, index) /\ UNCHANGED <<outcomes, index>>
     ELSE pc' = pc /\ index' = index - 1 /\ UNCHANGED <<outcomes, compensated>>
  /\ UNCHANGED <<kinds, canceled, result, original, scopeVars, shape, planned, failedIndex, expired, commit,
                 reported, unit, nested, logVars>>
Recover ==
  /\ pc = "recovering"
  /\ \/ index = 0 /\ pc' = "done" /\ UNCHANGED <<outcomes, index, compensated>>
     \/ /\ index > 0 /\ (index \notin Compensable \/ expired)
        /\ outcomes' = [outcomes EXCEPT ![index].compensation =
                          IF index \notin Compensable THEN "NotAvailable" ELSE "BudgetExpired"]
        /\ index' = index - 1 /\ UNCHANGED <<pc, compensated>>
     \/ /\ index > 0 /\ index \in Compensable /\ ~expired
        /\ pc' = "compensating" /\ compensated' = Append(compensated, index)
        /\ UNCHANGED <<outcomes, index>>
  /\ UNCHANGED <<kinds, canceled, result, original, scopeVars, shape, planned, failedIndex, expired, commit,
                 reported, unit, nested, logVars>>

CompensationSettles(ok) ==
  /\ pc = "compensating"
  /\ outcomes' = [outcomes EXCEPT ![index].compensation =
                    IF ~ok THEN "Failed" ELSE IF expired THEN "BudgetExpired" ELSE "Completed"]
  /\ index' = index - 1 /\ pc' = "recovering"
  /\ UNCHANGED <<kinds, canceled, result, original, scopeVars, shape, planned, failedIndex, expired, commit,
                 compensated, reported, unit, nested, logVars>>

BudgetExpires ==
  /\ pc = "compensating" /\ ~expired
  /\ expired' = TRUE
  /\ UNCHANGED <<kinds, pc, canceled, result, original, scopeVars, shape, journalVars, index, commit, compensated,
                 reported, unit, nested, logVars>>

Cancel ==
  /\ pc # "done" /\ ~canceled
  /\ canceled' = TRUE
  /\ UNCHANGED <<kinds, pc, result, original, scopeVars, shape, journalVars, recoveryVars, reported, unit, nested, logVars>>

----------------------------------------------------------------------------
(* The specification *)

Init ==
  /\ kinds \in ScopeLists
  /\ pc = "preflight" /\ canceled = FALSE
  /\ result = {} /\ original = {}
  /\ recorded = 0 /\ completions = <<>> /\ shape = Nothing
  /\ planned = NoJournal /\ outcomes = <<>> /\ failedIndex = 0
  /\ index = 0 /\ expired = FALSE /\ commit = "NoCommit" /\ compensated = <<>>
  /\ reported = "NoCommit"
  /\ unit = [entries |-> {}, aggregate |-> "none", nestedFailure |-> FALSE, completed |-> FALSE,
             disposition |-> "NoCommit"]
  /\ nested = [n \in Nested |-> "idle"]
  /\ stored = {} /\ inlined = {} /\ appends = 0

\* One settlement of the command's own execution.
Step ==
  \/ \E outcome \in {"rejected", "validated", "accepted"} : Preflight(outcome)
  \/ \E outcome \in {"throws", "refuses", "provides"} : ProvideSettles(outcome)
  \/ \E ok \in BOOLEAN :
       \/ DependenciesSettle(ok) \/ BeginSettles(ok) \/ PlanSettles(ok) \/ RespondSettles(ok)
       \/ Execute(ok) \/ OperationSettles(ok) \/ AggregatesStage(ok) \/ ObserversSettle(ok)
       \/ FinishScopes(ok) \/ CompensationSettles(ok)
  \/ \E ok \in BOOLEAN, s \in Shape, report \in Dispositions : HandleSettles(ok, s, report)
  \/ \E outcome \in {"returns", "throws", "clears", "fails"}, report \in Dispositions :
       ScopeCompletes(outcome, report)
  \/ StageEvents \/ Commit
  \/ \E answer \in {"accepted", "rejected"} : AppendSettles(answer, {})
  \/ \E kept \in SUBSET unit.entries : AppendSettles("unclear", kept)
  \/ Recover

NestedStep(n) ==
  \/ NestedStages(n)
  \/ \E ok \in BOOLEAN : NestedAdmitted(n, ok) \/ NestedAppendSettles(n, ok) \/ NestedCompleted(n, ok)

Next ==
  \/ Step
  \/ Cancel \/ BudgetExpires
  \/ \E n \in Nested : NestedStarts(n) \/ NestedStep(n)

Spec == Init /\ [][Next]_vars

----------------------------------------------------------------------------
(* Properties *)

TypeOK ==
  /\ kinds \in ScopeLists
  /\ pc \in {"preflight", "dependencies", "beginning", "providing", "handling", "planning", "responding",
             "responded", "executing", "completing", "appending", "observing", "recovering", "compensating", "done"}
  /\ canceled \in BOOLEAN /\ expired \in BOOLEAN
  /\ result \subseteq Failures /\ original \subseteq Failures
  /\ recorded \in 0..Len(kinds) /\ completions \in Seq(1..recorded)
  /\ shape \in Shape
  /\ planned \in 0..MaxOperations \cup {NoJournal}
  /\ outcomes \in Seq(Outcome) /\ Len(outcomes) <= IF planned = NoJournal THEN 0 ELSE planned
  /\ failedIndex \in 0..Len(outcomes) /\ index \in 0..Len(outcomes)
  /\ commit \in Dispositions /\ reported \in Dispositions
  /\ unit \in [entries : SUBSET (Nested \cup {"outer", "aggregate"}), aggregate : {"none", "pending", "staged"},
               nestedFailure : BOOLEAN, completed : BOOLEAN, disposition : Dispositions]
  /\ nested \in [Nested -> {"idle", "admitting", "refused", "own", "running", "staged", "failing",
                        "appending", "answered", "succeeded", "failed", "late"}]
  /\ stored \subseteq unit.entries /\ inlined \subseteq Nested /\ appends \in Nat
  /\ compensated \in Seq(Operations)

\* An operation is compensated only when nothing was committed: neither the event
\* batch, nor a nested command's events, nor the application's own change
\* (CommandOperationExecution.ts 63-71).
CompensatesOnlyUncommitted ==
  compensated # <<>> => stored = {} /\ inlined = {} /\ reported # "Committed"

\* The same, but for the one case in which the code breaks it: the batch was
\* stored and an observer of it then failed (ChronicleUnitOfWork.ts 71-81).
CompensatesUncommittedOrObserved ==
  CompensatesOnlyUncommitted \/ "observer" \in result

\* A failed command that committed nothing recovers every operation it started,
\* the failing one included, from the last to the first, and reports of each what
\* became of it: its compensate was called once and answered, it has none, or the
\* budget ran out before it was called or answered (CommandOperationExecution.ts
\* 68-101).
Called(i) == \E k \in DOMAIN compensated : compensated[k] = i
Accounted(i, compensation) ==
  IF i \notin Compensable THEN compensation = "NotAvailable"
  ELSE \/ Called(i) /\ compensation \in {"Completed", "Failed"}
       \/ expired /\ compensation = "BudgetExpired"
RecoveryIsComplete ==
  /\ \A i, j \in DOMAIN compensated : i < j => compensated[i] > compensated[j]
  /\ pc = "done" /\ result # {} /\ commit \in KnownAbsent =>
       \A i \in DOMAIN outcomes : Accounted(i, outcomes[i].compensation)

\* A nested command that was still running when the unit completed.
Outlived(n) == nested[n] \in {"appending", "answered", "late"}

\* A command that succeeds has executed every operation it declared, compensated
\* none, and stored exactly the events that were staged, all of them in the batch
\* and none a second time.  (original = {}: without operations a scope may turn a
\* failure it is given into a success.)
SuccessIsWhole ==
  pc = "done" /\ result = {} /\ original = {} =>
    /\ planned # NoJournal => Len(outcomes) = planned /\ \A i \in DOMAIN outcomes : outcomes[i].completed
    /\ compensated = <<>>
    /\ Chronicle => stored = unit.entries /\ inlined \cap stored = {}

\* The batch is all or nothing over the chain of commands: once the execution of
\* a nested command has failed none of the staged events is stored.  What the
\* event log may then hold of the chain are events that were never staged, of a
\* nested command that outlived the unit (ChronicleUnitOfWork.ts 48-60,
\* ChronicleResponseHandler.ts 85-91).
NestedFailureDiscardsBatch ==
  (\E n \in Nested : nested[n] = "failed") =>
    /\ stored = {}
    /\ \A n \in inlined : Outlived(n) /\ n \notin unit.entries

\* With operations, the first failure survives every scope, even one that
\* overwrites the result it is given (CommandFailureSnapshot.ts).
FirstFailureKept ==
  pc = "done" /\ planned # NoJournal => original \subseteq result /\ (original = {} <=> result = {})

\* A canceled command admits no new stage: it begins no scope, starts no
\* operation, stages nothing and sends no batch (throwIfCanceled.ts).
CancellationStep ==
  canceled =>
    /\ recorded' = recorded
    /\ Len(outcomes') = Len(outcomes)
    /\ unit'.entries = unit.entries
    /\ appends' = appends
NothingStartsAfterCancel == [][CancellationStep]_vars
=============================================================================
