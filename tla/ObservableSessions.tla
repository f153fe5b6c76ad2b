------------------------- MODULE ObservableSessions -------------------------
(***************************************************************************)
(* Source/Core/queries/observable/ObservableSessions.ts,                   *)
(* ObservableQuerySession.ts and toEmissions.ts: the live query sessions   *)
(* of a server, their admission budgets, and how they end.                 *)
(*                                                                         *)
(* openSession reserves a place, runs the query pipeline, and registers    *)
(* the session in the pool its callers are charged for.  The caller reads  *)
(* a current value or consumes one stream of results, and closes the       *)
(* session.  A shutdown either closes what is open (without participants)  *)
(* or takes every session into a transaction whose release, work and scope *)
(* phases follow each other; and the service registry may be shut down     *)
(* under the sessions, by a failing singleton or by the owner it was       *)
(* borrowed from.  (Not modelled: a shutdown with participants that begins *)
(* while a server on a borrowed registry is being disposed by itself.)     *)
(* All of this interleaves at the awaits; the code between two awaits is   *)
(* one step.                                                               *)
(*                                                                         *)
(* The query pipeline, emission guards and the source are external: what   *)
(* they answer and when is a choice.  A source that ignores cancellation   *)
(* is given up after a second (releaseIterator), so its release always     *)
(* settles.                                                                *)
(***************************************************************************)
EXTENDS Integers, FiniteSets

CONSTANTS
  Sessions,   \* the calls of openSession
  Callers,    \* observableCallerKey values
  CallerOf,   \* the caller of each session
  Budgets,    \* the configurations: [subscriptions, perCaller]
  Streaming   \* bound: the sessions whose caller gets as far as results()

ASSUME CallersKnown == CallerOf \in [Sessions -> Callers]
ASSUME BudgetsPositive == Budgets \subseteq [subscriptions : Nat \ {0}, perCaller : Nat \ {0}]
ASSUME SessionsFinite == IsFiniteSet(Sessions) /\ Streaming \subseteq Sessions

VARIABLES
  limits,   \* ObservableLimits
  ses,      \* every ObservableQuerySession with the state of the call that opens it
  pool,     \* the Sets of ObservableSessions
  shutdown, \* how far a shutdown has come
  owned,    \* the sessions a shutdown without participants closes
  registry  \* ServiceRegistry: #state, and how far its own shutdown has come

vars == <<limits, ses, pool, shutdown, owned, registry>>

PoolName == {"observable", "snapshot", "retiring", "opening", "releasedOpening"}
Admission == {"subscription", "snapshot"}

\* call: openSession before it returns ("opening" runs the pipeline, the next
\* three await close()), then the session in its caller's hands, or given up.
OpeningCall == {"opening", "rejecting", "throwing", "closingLate"}

Fresh ==
  [call |-> "idle", admission |-> "snapshot",
   reserved |-> FALSE,   \* counted in #openingOwners
   lateCancel |-> FALSE, \* history: the caller canceled it while it was opening
   held |-> FALSE,       \* held.session is set
   coordinated |-> FALSE,\* #transaction is set
   aborted |-> FALSE,    \* #context.signal: the caller's or #controller's
   released |-> FALSE,   \* #released
   read |-> "no",        \* current(): at the source, or in a tracked operation
   stream |-> "none",    \* where the results() generator stands
   returning |-> FALSE,  \* generator.return() was called
   producer |-> "none",  \* the source's iterator or subscription
   closing |-> "no",     \* #closed: what close() awaits
   work |-> "no",        \* joinWork(): what it awaits
   scope |-> "none",     \* #scope and #scopeClosed
   taken |-> "no"]       \* whether the registry itself closes or closed #scope

Stream == {"none", "created", "pulling", "emitting", "yielded", "yieldedLast", "releasing", "failing",
           "finishing", "done"}
SessionState ==
  [call : {"idle", "open", "done"} \cup OpeningCall, admission : Admission, reserved : BOOLEAN,
   lateCancel : BOOLEAN, held : BOOLEAN, coordinated : BOOLEAN, aborted : BOOLEAN,
   released : BOOLEAN, read : {"no", "source", "operation", "done"}, stream : Stream,
   returning : BOOLEAN, producer : {"none", "open", "closing", "released"},
   closing : {"no", "producer", "stream", "scope", "done"},
   work : {"no", "operations", "stream", "close", "done"},
   scope : {"none", "open", "joining", "disposing", "disposed"},
   taken : {"no", "closing", "closed"}]

----------------------------------------------------------------------------
(* Budgets *)

OwnedBy(c) == {s \in pool.observable : CallerOf[s] = c}
OpeningFor(a) == {s \in Sessions : ses[s].call \in OpeningCall /\ ses[s].admission = a}
ReservedBy(c) == {s \in Sessions : ses[s].reserved /\ CallerOf[s] = c}
disposed == shutdown # "no"
servicesDisposed == registry # "running"

IgnoresReservations(c) ==
  /\ Cardinality(pool.observable) + Cardinality(OpeningFor("subscription")) < limits.subscriptions
  /\ Cardinality(OwnedBy(c)) < limits.perCaller
hasSubscriptionCapacity(c) ==
  /\ Cardinality(pool.observable) + Cardinality(OpeningFor("subscription")) < limits.subscriptions
  /\ Cardinality(OwnedBy(c)) + Cardinality(ReservedBy(c)) < limits.perCaller
hasSessionCapacity(c) == ~disposed /\ hasSubscriptionCapacity(c)
hasSnapshotCapacity ==
  Cardinality(OpeningFor("snapshot")) + 1 + Cardinality(pool.snapshot) <= limits.subscriptions

----------------------------------------------------------------------------
(* The parts of a session's end *)

Operations(r) ==
  {o \in {"pipeline", "emission", "current"} :
     \/ o = "pipeline" /\ r.call = "opening"
     \/ o = "emission" /\ r.stream = "emitting"
     \/ o = "current" /\ r.read = "operation"}

releaseAdmission(r) == [r EXCEPT !.released = TRUE, !.lateCancel = FALSE]

\* disposeScope(): once; under a transaction the scope first outlasts the operations.
disposeScope(r) ==
  IF r.scope # "open" THEN r
  ELSE [releaseAdmission(r) EXCEPT !.scope = IF r.coordinated THEN "joining" ELSE "disposing"]
\* closeScope(): under a transaction the scope is left to the scope phase.
closeScope(r) == IF r.coordinated THEN releaseAdmission(r) ELSE disposeScope(r)

releaseProducer(r) ==
  [r EXCEPT !.aborted = TRUE, !.producer = IF r.producer = "open" THEN "closing" ELSE r.producer]

CloseKeepsStream(r) ==
  IF r.closing # "no" THEN r ELSE [disposeScope(r) EXCEPT !.aborted = TRUE, !.closing = "scope"]

\* close(): with a transaction it awaits the producer and closeScope, without
\* one it returns the stream and disposes the scope.
close(r) ==
  CASE r.closing # "no" -> r
    [] r.closing = "no" /\ r.coordinated ->
         [releaseProducer(releaseAdmission(r)) EXCEPT !.closing = "producer"]
    [] r.closing = "no" /\ ~r.coordinated /\ r.stream = "none" ->
         [disposeScope(r) EXCEPT !.aborted = TRUE, !.closing = "scope"]
    [] OTHER ->
         [releaseAdmission(r) EXCEPT !.aborted = TRUE, !.returning = TRUE, !.closing = "stream"]

\* onRelease and onClose, called by the step that takes session s from b to r.
onReleaseForgets(p, s, held) ==
  IF held
  THEN [p EXCEPT !.observable = @ \ {s}, !.snapshot = @ \ {s}, !.retiring = @ \cup {s}]
  ELSE [p EXCEPT !.opening = @ \ {s}]
onRelease(p, s, held) ==
  IF held
  THEN [p EXCEPT !.observable = @ \ {s}, !.snapshot = @ \ {s}, !.retiring = @ \cup {s}]
  ELSE [p EXCEPT !.releasedOpening = @ \cup {s}]
onClose(p, s, held) ==
  [n \in PoolName |-> IF held \/ n \in {"opening", "releasedOpening"} THEN p[n] \ {s} ELSE p[n]]
Pools(p, s, b, r) ==
  IF r.released /\ ~b.released THEN onRelease(p, s, r.held)
  ELSE IF r.scope = "disposed" /\ b.scope # "disposed" THEN onClose(p, s, r.held)
  ELSE p

\* Nothing refers to a session that has ended in every respect any more.
Gone == [Fresh EXCEPT !.call = "done", !.closing = "done", !.scope = "disposed"]
Collected(r) ==
  /\ r.call = "done" /\ r.closing = "done" /\ r.scope = "disposed"
  /\ r.stream \in {"none", "done"}
  /\ r.coordinated => r.work = "done"
Put(s, r) == ses' = [ses EXCEPT ![s] = IF Collected(r) THEN Gone ELSE r]

\* A step of session s alone.
Step(s, r) ==
  /\ Put(s, r)
  /\ pool' = Pools(pool, s, ses[s], r)
  /\ UNCHANGED <<limits, shutdown, owned, registry>>

----------------------------------------------------------------------------
(* openSession *)

openSession(s, a) ==
  /\ ses[s].call = "idle"
  /\ ~disposed /\ ~servicesDisposed
  /\ IF a = "subscription" THEN hasSessionCapacity(CallerOf[s]) ELSE hasSnapshotCapacity
  /\ ses' = [ses EXCEPT ![s] = [Fresh EXCEPT !.call = "opening", !.admission = a,
                                             !.reserved = a = "subscription", !.scope = "open"]]
  /\ pool' = [pool EXCEPT !.opening = @ \cup {s}]
  /\ UNCHANGED <<limits, shutdown, owned, registry>>

\* The caller's signal aborts; releaseOwner() gives up the caller's reservation.
\* On a session that is canceled already it would change nothing else.
Cancel(s) ==
  LET r == ses[s] IN
  /\ r.call \in OpeningCall \cup {"open"}
  /\ ~r.aborted \/ r.reserved
  /\ Step(s, [r EXCEPT !.aborted = TRUE, !.reserved = FALSE, !.lateCancel = r.call \in OpeningCall /\ ~r.released])

Admitted(p, s) ==
  [p EXCEPT !.opening = @ \ {s},
            ![IF ses[s].admission = "snapshot" THEN "snapshot" ELSE "observable"] = @ \cup {s}]

\* The pipeline succeeded on a session no transaction has canceled.
PipelineSucceeds(s) ==
  LET r == [ses[s] EXCEPT !.held = TRUE] IN
  /\ r.call = "opening"
  /\ ~(r.coordinated /\ r.aborted)
  /\ IF disposed \/ servicesDisposed
     THEN LET c == close([r EXCEPT !.call = "closingLate"]) IN
          /\ ses' = [ses EXCEPT ![s] = c]
          /\ pool' = Pools([pool EXCEPT !.opening = @ \ {s}], s, r, c)
     ELSE /\ ses' = [ses EXCEPT ![s] = [r EXCEPT !.call = "open", !.reserved = FALSE]]
          /\ pool' = Admitted(pool, s)
  /\ UNCHANGED <<limits, shutdown, owned, registry>>
\* It was refused, or succeeded too late ("rejecting"), or threw: the session is closed.
PipelineFails(s, how) ==
  /\ ses[s].call = "opening"
  /\ Step(s, close([ses[s] EXCEPT !.call = how]))
\* The call ends with that close; a thrown error leaves held.session unset.
OpeningEnds(s) ==
  LET r == ses[s] IN
  /\ r.call \in {"rejecting", "throwing", "closingLate"}
  /\ r.closing = "done"
  /\ Put(s, [r EXCEPT !.call = "done", !.reserved = FALSE, !.held = r.call # "throwing"])
  /\ pool' = IF r.call = "rejecting" THEN [pool EXCEPT !.opening = @ \ {s}] ELSE pool
  /\ UNCHANGED <<limits, shutdown, owned, registry>>

----------------------------------------------------------------------------
(* The caller: a current value, then at most one stream, then close() *)

ReadCurrent(s) ==
  /\ ses[s].call = "open" /\ ses[s].stream = "none"
  /\ ses[s].read = "no" /\ ses[s].closing = "no"
  /\ Step(s, [ses[s] EXCEPT !.read = "source"])
\* The source answers; a value is rendered and guarded in a tracked operation,
\* which the registry refuses once it is shutting down.
SourceReads(s, value) ==
  /\ ses[s].read = "source"
  /\ Step(s, [ses[s] EXCEPT !.read = IF value /\ ~servicesDisposed THEN "operation" ELSE "done"])
ReadSettles(s) ==
  /\ ses[s].read = "operation"
  /\ Step(s, [ses[s] EXCEPT !.read = "done"])

\* A snapshot request that waits for its first result is charged like a subscription.
reserveSession(s) ==
  /\ ses[s].call = "open" /\ s \in pool.snapshot
  /\ ses[s].read = "done"
  /\ hasSessionCapacity(CallerOf[s])
  /\ pool' = [pool EXCEPT !.snapshot = @ \ {s}, !.observable = @ \cup {s}]
  /\ UNCHANGED <<limits, ses, shutdown, owned, registry>>
results(s) ==
  /\ s \in Streaming
  /\ ses[s].call = "open" /\ ses[s].stream = "none" /\ ses[s].read \in {"no", "done"}
  /\ ses[s].admission = "subscription" \/ s \in pool.observable
  /\ Step(s, [ses[s] EXCEPT !.stream = "created"])

CallerCloses(s) ==
  /\ ses[s].call = "open"
  /\ ses[s].read \in {"no", "done"}
  /\ Step(s, close([ses[s] EXCEPT !.call = "done"]))

----------------------------------------------------------------------------
(* streamResults() over toEmissions() *)

\* The generator leaves its loop: the source is returned first.
Unwind(r) ==
  IF r.producer = "none" THEN [closeScope(r) EXCEPT !.stream = "finishing"]
  ELSE [r EXCEPT !.stream = "releasing", !.producer = IF r.producer = "open" THEN "closing" ELSE r.producer]

\* next() on a suspended generator: the source is opened by the first.
Pull(s) ==
  LET r == ses[s] IN
  /\ ~r.returning
  /\ r.stream \in {"created", "yielded", "yieldedLast"}
  /\ Step(s, IF r.aborted \/ r.stream = "yieldedLast" THEN Unwind(r)
             ELSE [r EXCEPT !.stream = "pulling", !.producer = "open"])
\* A value is rendered and guarded in tracked operations; a registry that is
\* shutting down refuses them, and the stream fails.
SourceEmits(s) ==
  /\ ses[s].stream = "pulling" /\ ~ses[s].aborted /\ ~servicesDisposed
  /\ Step(s, [ses[s] EXCEPT !.stream = "emitting"])
PullEnds(s) ==
  /\ ses[s].stream = "pulling"
  /\ Step(s, Unwind(ses[s]))
\* The source or the rendering throws: after the release one failing result is
\* yielded, unless the session was canceled.
StreamFails(s) ==
  /\ ses[s].stream \in {"pulling", "emitting"}
  /\ Step(s, [Unwind(ses[s]) EXCEPT !.stream = IF ses[s].aborted THEN "releasing" ELSE "failing"])
\* The guards have decided: "yielded" an allowed result, "yieldedLast" a failed or
\* denied one, "pulling" a suppressed one.
EmissionSettles(s, next) ==
  LET r == ses[s] IN
  /\ r.stream = "emitting"
  /\ Step(s, IF (r.coordinated \/ next = "pulling") /\ r.aborted THEN Unwind(r)
             ELSE [r EXCEPT !.stream = next])

\* generator.return(): a generator that has not started is done at once, a
\* suspended one unwinds, a running one is asked again when it next suspends.
ReturnTaken(s) ==
  LET r == ses[s] IN
  /\ r.returning
  /\ \/ /\ r.stream = "created"
        /\ Step(s, [r EXCEPT !.stream = "done"])
     \/ /\ r.stream \in {"yielded", "yieldedLast"}
        /\ Step(s, Unwind(r))

\* iterator.return() settled, or was given up after cancellationTimeoutMs.
ProducerReleased(s) ==
  /\ ses[s].producer = "closing"
  /\ Step(s, [ses[s] EXCEPT !.producer = "released"])
ReleaseAwaited(s) ==
  LET r == ses[s] IN
  /\ r.producer = "released"
  /\ \/ /\ r.stream = "releasing"
        /\ Step(s, [closeScope(r) EXCEPT !.stream = "finishing"])
     \/ /\ r.stream = "failing"
        /\ Step(s, IF r.aborted THEN [r EXCEPT !.stream = "releasing"]
                   ELSE [r EXCEPT !.stream = "yieldedLast"])
StreamDone(s) ==
  /\ ses[s].stream = "finishing"
  /\ ses[s].scope \in {"open", "disposed"}
  /\ Step(s, [ses[s] EXCEPT !.stream = "done"])

----------------------------------------------------------------------------
(* close() and the scope *)

CloseProceeds(s) ==
  LET r == ses[s] IN
  \/ /\ r.closing = "producer" /\ r.producer # "closing"
     /\ Step(s, [closeScope(r) EXCEPT !.closing = "done"])
  \/ /\ r.closing = "stream" /\ r.stream = "done"
     /\ Step(s, [disposeScope(r) EXCEPT !.closing = "scope"])
  \/ /\ r.closing = "scope" /\ r.scope = "disposed"
     /\ Step(s, [r EXCEPT !.closing = "done"])

OperationsJoined(s) ==
  /\ ses[s].scope = "joining" /\ Operations(ses[s]) = {}
  /\ Step(s, [ses[s] EXCEPT !.scope = "disposing"])
\* A scope the registry closes already is joined, not disposed again.
ScopeDisposed(s) ==
  /\ ses[s].scope = "disposing" /\ ses[s].taken # "closing"
  /\ Step(s, [ses[s] EXCEPT !.scope = "disposed"])

----------------------------------------------------------------------------
(* Shutdown *)

sessions == pool.observable \cup pool.snapshot \cup pool.retiring
coordinatedSessions == pool.opening \cup pool.releasedOpening \cup sessions
\* coordinateShutdown of every session: it is canceled and its release begins.
coordinateShutdown ==
  /\ shutdown = "no" /\ registry = "running"
  /\ shutdown' = "release" /\ registry' = "coordinated"
  /\ ses' = [s \in Sessions |->
       IF s \in coordinatedSessions THEN releaseProducer([ses[s] EXCEPT !.coordinated = TRUE]) ELSE ses[s]]
  /\ UNCHANGED <<limits, pool, owned>>
Coordinated == {s \in Sessions : ses[s].coordinated}

ReleaseSettled ==
  /\ shutdown = "release"
  /\ \A s \in Coordinated : ses[s].producer # "closing"
  /\ shutdown' = "work"
  /\ ses' = [s \in Sessions |-> IF s \in Coordinated THEN [ses[s] EXCEPT !.work = "operations"] ELSE ses[s]]
  /\ UNCHANGED <<limits, pool, owned, registry>>
JoinsWithoutReturn(s) ==
  LET r == ses[s] IN
  \/ /\ r.work = "operations" /\ Operations(r) = {}
     /\ Step(s, IF r.stream = "none" THEN close([r EXCEPT !.work = "close"]) ELSE [r EXCEPT !.work = "stream"])
  \/ /\ r.work = "stream" /\ r.stream = "done"
     /\ Step(s, close([r EXCEPT !.work = "close"]))
  \/ /\ r.work = "close" /\ r.closing = "done"
     /\ Step(s, [r EXCEPT !.work = "done"])
joinWork(s) ==
  LET r == ses[s] IN
  \/ /\ r.work = "operations" /\ Operations(r) = {}
     /\ Step(s, IF r.stream = "none" THEN close([r EXCEPT !.work = "close"])
                ELSE [r EXCEPT !.work = "stream", !.returning = TRUE])
  \/ /\ r.work = "stream" /\ r.stream = "done"
     /\ Step(s, close([r EXCEPT !.work = "close"]))
  \/ /\ r.work = "close" /\ r.closing = "done"
     /\ Step(s, [r EXCEPT !.work = "done"])
WorkSettled ==
  /\ shutdown = "work"
  /\ \A s \in Coordinated : ses[s].work = "done"
  /\ shutdown' = "scopes"
  /\ UNCHANGED <<limits, ses, pool, owned, registry>>
finishScope(s) ==
  /\ shutdown = "scopes"
  /\ ses[s].coordinated /\ ses[s].scope = "open"
  /\ Step(s, disposeScope(ses[s]))
ScopesSettled ==
  /\ shutdown = "scopes"
  /\ \A s \in Coordinated : ses[s].scope = "disposed"
  /\ shutdown' = "ended"
  /\ UNCHANGED <<limits, ses, pool, owned, registry>>

\* disposeObservableServer: the sessions open now are closed once hub and
\* sockets have been.
disposeServer ==
  /\ shutdown = "no"
  /\ shutdown' = "draining"
  /\ owned' = sessions
  /\ UNCHANGED <<limits, ses, pool, registry>>
CloseOwned(s) ==
  /\ shutdown = "draining"
  /\ s \in owned /\ ses[s].closing = "no"
  /\ Step(s, close(ses[s]))
OwnedClosed ==
  /\ shutdown = "draining"
  /\ \A s \in owned : ses[s].closing = "done"
  /\ shutdown' = "disposed"
  /\ UNCHANGED <<limits, ses, pool, owned, registry>>

----------------------------------------------------------------------------
(* The shutdown of a registry without participants: markSingletonFailure, or *)
(* dispose by the server or by the owner the registry was borrowed from      *)

Registry(next) == registry' = next /\ UNCHANGED <<limits, pool, shutdown, owned>>

beginShutdown ==
  /\ registry = "running"
  /\ Registry("draining") /\ UNCHANGED ses
\* The operations admitted before have settled, and none was admitted since.
ExecutionsSettled ==
  /\ registry = "draining"
  /\ \A s \in Sessions : Operations(ses[s]) = {}
  /\ Registry("closing") /\ UNCHANGED ses

\* The scopes that are still registered are closed one after the other, whatever
\* their sessions do; one that its session disposes is awaited.
Unclosed(s) == ses[s].scope \notin {"none", "disposed"} /\ ses[s].taken # "closed"
closeServiceScope(s) ==
  /\ registry = "closing"
  /\ ses[s].scope \in {"open", "joining"} /\ ses[s].taken = "no"
  /\ \A t \in Sessions : ses[t].taken # "closing"
  /\ ses' = [ses EXCEPT ![s].taken = "closing"]
  /\ UNCHANGED <<limits, pool, shutdown, owned, registry>>
ServiceScopeClosed(s) ==
  /\ ses[s].taken = "closing"
  /\ ses' = [ses EXCEPT ![s].taken = "closed"]
  /\ UNCHANGED <<limits, pool, shutdown, owned, registry>>
RegistryClosed ==
  /\ registry = "closing"
  /\ \A s \in Sessions : ~Unclosed(s)
  /\ Registry("closed") /\ UNCHANGED ses

----------------------------------------------------------------------------
Init ==
  /\ limits \in Budgets
  /\ ses = [s \in Sessions |-> Fresh]
  /\ pool = [n \in PoolName |-> {}]
  /\ shutdown = "no"
  /\ owned = {}
  /\ registry = "running"

\* What the session's own code does next, and what its pipeline, guards and
\* source answer.
Runs(s) ==
  \/ PipelineSucceeds(s) \/ \E how \in {"rejecting", "throwing"} : PipelineFails(s, how)
  \/ OpeningEnds(s)
  \/ \E value \in BOOLEAN : SourceReads(s, value)
  \/ ReadSettles(s)
  \/ \E next \in {"yielded", "yieldedLast", "pulling"} : EmissionSettles(s, next)
  \/ ReturnTaken(s) \/ ProducerReleased(s) \/ ReleaseAwaited(s) \/ StreamDone(s)
  \/ CloseProceeds(s) \/ OperationsJoined(s) \/ ScopeDisposed(s)
  \/ ses[s].aborted /\ PullEnds(s)
\* What a shutdown does with session s.
Ends(s) == joinWork(s) \/ finishScope(s) \/ CloseOwned(s)
Settles == ReleaseSettled \/ WorkSettled \/ ScopesSettled \/ OwnedClosed
RegistryShutdown ==
  \/ ExecutionsSettled \/ RegistryClosed
  \/ \E s \in Sessions : closeServiceScope(s) \/ ServiceScopeClosed(s)

Next ==
  \/ \E s \in Sessions :
       \/ \E a \in Admission : openSession(s, a)
       \/ Cancel(s) \/ ReadCurrent(s) \/ reserveSession(s) \/ results(s) \/ CallerCloses(s)
       \/ Pull(s) \/ SourceEmits(s) \/ PullEnds(s) \/ StreamFails(s)
       \/ Runs(s) \/ Ends(s)
  \/ Settles
  \/ coordinateShutdown \/ disposeServer
  \/ beginShutdown \/ RegistryShutdown

\* Every await in Runs settles: the pipeline, guards and source answers are
\* awaited without a limit, the release of a source has its timer.
Spec ==
  /\ Init /\ [][Next]_vars
  /\ \A s \in Sessions : WF_vars(Runs(s)) /\ WF_vars(Ends(s))
  /\ WF_vars(Settles) /\ WF_vars(RegistryShutdown)

----------------------------------------------------------------------------
(* Properties *)

\* Every session and every pool has the shape of the code's fields.
TypeOK ==
  /\ limits \in Budgets
  /\ ses \in [Sessions -> SessionState]
  /\ pool \in [PoolName -> SUBSET Sessions]
  /\ shutdown \in {"no", "release", "work", "scopes", "ended", "draining", "disposed"}
  /\ owned \in SUBSET Sessions
  /\ registry \in {"running", "coordinated", "draining", "closing", "closed"}

\* However openings, snapshots that turn into subscriptions and cancellations
\* interleave, the live subscriptions and the ones still opening stay within
\* maxObservableSubscriptions (hasSessionCapacity, lines 55-61, is asked before
\* an await, and its answer used after it in lines 141-147), and those of a caller
\* within its own budget.  That one does not count the sessions whose signal
\* aborted while they were opening: their place is given up at once
\* (releaseOwner, lines 84-91), yet they are registered when the pipeline returns.
SubscriptionBudgets ==
  /\ Cardinality(pool.observable) + Cardinality(OpeningFor("subscription")) <= limits.subscriptions
  /\ \A c \in Callers :
       Cardinality({s \in OwnedBy(c) \cup ReservedBy(c) : ~ses[s].lateCancel}) <= limits.perCaller

\* A session whose scope is not disposed is in one of the sets a coordinated
\* shutdown goes through, at every step of its opening and of its end: none can
\* be left behind (onCreate, onRelease and onClose, lines 107-133).
EverySessionIsFound ==
  \A s \in Sessions : ses[s].scope \notin {"none", "disposed"} => s \in coordinatedSessions

\* A session disposes its scope only once its source has been returned or given
\* up and none of its tracked operations uses the scope; only current(), when no
\* transaction owns the session, is not waited for (closeUncoordinated, lines
\* 159-174, and disposeScope, lines 242-259).  The registry, which closes a scope
\* under its session and while the source is still pulled, does so when no tracked
\* operation uses it, and none does ever after (ServiceRegistry.ts 231-241).
ScopeOutlivesWork ==
  [][\A s \in Sessions :
       /\ ses[s].scope \in {"open", "joining"} /\ ses'[s].scope \in {"disposing", "disposed"} =>
            /\ ses[s].producer \in {"none", "released"}
            /\ Operations(ses'[s]) \subseteq IF ses[s].coordinated THEN {} ELSE {"current"}
       /\ ses'[s].taken # "no" => Operations(ses'[s]) = {}]_vars

\* A coordinated shutdown leaves no session registered and no scope undisposed.
NothingLeft ==
  /\ \A n \in PoolName : pool[n] = {}
  /\ \A s \in Sessions : ses[s].scope \in {"none", "disposed"}
ShutdownSettled ==
  /\ shutdown \in {"no", "disposed"} \/ (shutdown = "ended" /\ NothingLeft)
  /\ registry \in {"running", "coordinated", "closed"}

\* A shutdown that has begun ends, that of the server and that of the registry, in
\* whatever order they begin: its phases never wait for a stream that waits for
\* them (joinWork, lines 131-136; settle, ShutdownTransaction.ts lines 14-31), and
\* neither of the two that close scopes waits for the other in vain.  The sessions
\* that were opening or closing when it began are included.
ShutdownEnds == shutdown # "no" \/ registry = "draining" ~> ShutdownSettled
=============================================================================
