-------------------------- MODULE ServiceLifecycle --------------------------
(***************************************************************************)
(* Source/Core/dependencyInjection/ServiceRegistry.ts and ServiceScope.ts, *)
(* with Source/Core/execution/runOwned.ts and runInScope.ts: one service   *)
(* registry, the requests that run on it, the scopes and services they     *)
(* create, and the registry's shutdown, with or without a shutdown         *)
(* participant.                                                            *)
(*                                                                         *)
(* Handlers, factories and disposers are user code: between its start and  *)
(* its end each may resolve services, start nested requests and ask for    *)
(* the registry's disposal, awaiting what it started or not.  They are the *)
(* actors of the model; an actor's lineage, the actors it was started      *)
(* from, is what AsyncLocalStorage carries from one to the other.          *)
(***************************************************************************)
EXTENDS Integers, Sequences, FiniteSets

CONSTANTS
  Requests,      \* operations, each run by runOwned or runInScope
  HostScope,     \* a scope the host creates with createScope
  Root,          \* #singletons, the scope of the singletons
  Singletons,    \* tokens by lifetime
  Scoped,
  Transients,
  MaxNodes,      \* bound: construction attempts
  WithHostScope,   \* whether the host creates a scope
  WithParticipant, \* whether the host registers a shutdown participant
  None

Tokens == Singletons \cup Scoped \cup Transients
Nodes == 1..MaxNodes
Scopes == Requests \cup {HostScope, Root}

ASSUME ScopesDistinct == Root # HostScope /\ {Root, HostScope} \cap Requests = {}
ASSUME LifetimesDisjoint ==
  /\ Singletons \cap Scoped = {} /\ Singletons \cap Transients = {} /\ Scoped \cap Transients = {}
ASSUME NodesNat == MaxNodes \in Nat /\ WithParticipant \in BOOLEAN /\ WithHostScope \in BOOLEAN
ASSUME RequestsFinite == IsFiniteSet(Requests)

\* The actors, and the registry's shutdown as something an actor may await.
Handler(e) == <<"handler", e>>
Factory(n) == <<"factory", n>>
Disposer(n) == <<"disposer", n>>   \* of the service that attempt n created
Participant == <<"participant">>
Host == <<"host">>
Shutdown == <<"shutdown">>
Actors == {Handler(e) : e \in Requests} \cup {Factory(n) : n \in Nodes}
          \cup {Disposer(n) : n \in Nodes} \cup {Participant}

ASSUME NoneIsNothing == None \notin Scopes \cup Tokens /\ None \notin Nodes /\ None \notin Actors \cup {Shutdown}

VARIABLES
  registry,      \* #state
  failed,        \* #singletonFailed
  phase,         \* the await beginShutdown is at
  participant,   \* whether a participant is registered; frozen when shutdown begins
  scopes,        \* #scopes, in the order of admission
  joining,       \* shutdown: the executions it waits for
  closing,       \* shutdown: the scopes it still has to close
  scope,         \* the state of each scope, its #created and the service being disposed
  node,          \* the construction attempts
  attempts,      \* number of construction attempts
  waits,         \* #waits: pairs <<waiting attempt, awaited attempt>>
  request,       \* progress of each request
  lineage,       \* the actors an actor was started from
  awaits,        \* what an actor's code awaits
  hostAwaits,    \* attempts the host itself resolved on its scope
  uses,          \* history: pairs <<actor, attempt>> of services obtained by awaiting
  disposed       \* history: the services disposed, in order

registryVars == <<registry, failed, phase, participant, joining, closing>>
actorVars == <<lineage, awaits>>
vars == <<registryVars, scopes, scope, node, attempts, waits, request, actorVars, hostAwaits, uses, disposed>>

Node == [scope : Scopes, token : Tokens, state : {"pending", "ready", "failed"}, value : Nodes \cup {None}]
NoNode == [scope |-> None, token |-> None, state |-> "none", value |-> None]

----------------------------------------------------------------------------
(* What the code can find out about its caller *)

Context(a) == {a} \cup lineage[a]
Pending(n) == node[n].state = "pending"
Executing(e) == request[e].state \in {"running", "closing"}

hasLivingExecution(as) == \E e \in Requests : Handler(e) \in as /\ Executing(e)
hasLivingServiceResolution(as) == \E n \in Nodes : Factory(n) \in as /\ Pending(n)
hasLivingServiceDisposal(as) ==
  \E n \in Nodes : Disposer(n) \in as /\ \E s \in Scopes : scope[s].disposing = n
ParticipantRuns == phase \in {"stopping", "draining"}

assertLive == registry = "Running" /\ ~failed

assertCanDisposeUnchecked(as) == TRUE
assertCanDispose(as) ==
  /\ ~hasLivingExecution(as) /\ ~hasLivingServiceResolution(as) /\ ~hasLivingServiceDisposal(as)
  /\ ~(Participant \in as /\ ParticipantRuns)

\* Whether what an actor awaits has settled, so that its code runs again.
Settled(target) ==
  \/ target = None
  \/ \E n \in Nodes : target = Factory(n) /\ node[n].state \in {"ready", "failed"}
  \/ \E e \in Requests : target = Handler(e) /\ request[e].state = "done"
  \/ target = Shutdown /\ registry = "Closed"
Alive(a) ==
  \/ \E e \in Requests : a = Handler(e) /\ request[e].state = "running"
  \/ \E n \in Nodes : a = Factory(n) /\ Pending(n)
  \/ \E n \in Nodes : a = Disposer(n) /\ \E s \in Scopes : scope[s].disposing = n
  \/ a = Participant /\ ParticipantRuns
Free(a) == Alive(a) /\ Settled(awaits[a])
Ends(a) == awaits' = [awaits EXCEPT ![a] = None] /\ UNCHANGED lineage

----------------------------------------------------------------------------
(* Shutdown begins *)

\* beginShutdown(), which every caller shares; fails is TRUE for a singleton
\* whose factory failed.
BeginShutdown(fails) ==
  /\ failed' = (failed \/ fails)
  /\ IF phase # "none" THEN UNCHANGED <<registry, phase, joining, closing>>
     ELSE /\ registry' = "Draining"
          /\ joining' = {e \in Requests : Executing(e)}
          /\ closing' = scopes
          /\ phase' = IF participant THEN "release" ELSE "executions"
  /\ UNCHANGED participant

\* dispose(); a rejected self-join changes nothing.
Dispose(a) ==
  /\ IF a = Host THEN UNCHANGED awaits
     ELSE /\ Free(a) /\ assertCanDispose(Context(a))
          /\ awaits' = [awaits EXCEPT ![a] = Shutdown]
  /\ BeginShutdown(FALSE)
  /\ UNCHANGED <<scopes, scope, node, attempts, waits, request, lineage, hostAwaits, uses, disposed>>

addShutdownParticipant ==
  /\ WithParticipant /\ assertLive /\ ~participant
  /\ participant' = TRUE
  /\ UNCHANGED <<registry, failed, phase, joining, closing, scopes, scope, node, attempts, waits, request, actorVars,
                 hostAwaits, uses, disposed>>

removeShutdownParticipant ==
  /\ participant /\ phase = "none"
  /\ participant' = FALSE
  /\ UNCHANGED <<registry, failed, phase, joining, closing, scopes, scope, node, attempts, waits, request, actorVars,
                 hostAwaits, uses, disposed>>

----------------------------------------------------------------------------
(* Scopes *)

OpenScope == [state |-> "Open", created |-> <<>>, disposing |-> 0]

createScope ==
  /\ WithHostScope /\ assertLive /\ scope[HostScope].state = "none"
  /\ scope' = [scope EXCEPT ![HostScope] = OpenScope]
  /\ scopes' = Append(scopes, HostScope)
  /\ UNCHANGED <<registryVars, node, attempts, waits, request, actorVars, hostAwaits, uses, disposed>>

\* closeInternal()
Closed(s) == IF scope[s].state = "Open" THEN [scope EXCEPT ![s].state = "Closing"] ELSE scope

HostDisposes ==
  /\ scope[HostScope].state = "Open"
  /\ scope' = Closed(HostScope)
  /\ UNCHANGED <<registryVars, scopes, node, attempts, waits, request, actorVars, hostAwaits, uses, disposed>>

\* release()
Without(list, s) ==
  IF \A i \in DOMAIN list : list[i] # s THEN list
  ELSE LET p == CHOOSE i \in DOMAIN list : list[i] = s
       IN  [i \in 1..Len(list) - 1 |-> list[IF i < p THEN i ELSE i + 1]]

PendingIn(s) == {n \in Nodes : Pending(n) /\ node[n].scope = s}

\* The services of a scope are disposed one by one, in reverse order; the next
\* one starts when the last has settled, whether it failed or not.
DisposeNextForward(s) ==
  LET left == scope[s].created IN
  IF left = <<>>
  THEN /\ scope' = [scope EXCEPT ![s].state = "Closed", ![s].disposing = 0]
       /\ UNCHANGED disposed
  ELSE /\ scope' = [scope EXCEPT ![s].created = Tail(left), ![s].disposing = Head(left)]
       /\ disposed' = Append(disposed, Head(left))
DisposeNext(s) ==
  LET left == scope[s].created
      next == left[Len(left)] IN
  IF left = <<>>
  THEN /\ scope' = [scope EXCEPT ![s].state = "Closed", ![s].disposing = 0]
       /\ UNCHANGED disposed
  ELSE /\ scope' = [scope EXCEPT ![s].created = SubSeq(left, 1, Len(left) - 1), ![s].disposing = next]
       /\ disposed' = Append(disposed, next)

\* closeCore(): no attempt is pending in the scope any more.
ScopeQuiesces(s) ==
  /\ scope[s].state = "Closing" /\ scope[s].disposing = 0 /\ PendingIn(s) = {}
  /\ IF s = Root THEN scope' = [scope EXCEPT ![s].state = "Closed"] /\ UNCHANGED disposed
     ELSE DisposeNext(s)
  /\ scopes' = IF scope'[s].state = "Closed" THEN Without(scopes, s) ELSE scopes
  /\ UNCHANGED <<registryVars, node, attempts, waits, request, actorVars, hostAwaits, uses>>

DisposerSettles(s) ==
  /\ scope[s].disposing # 0 /\ Free(Disposer(scope[s].disposing))
  /\ DisposeNext(s)
  /\ scopes' = IF scope'[s].state = "Closed" THEN Without(scopes, s) ELSE scopes
  /\ Ends(Disposer(scope[s].disposing))
  /\ UNCHANGED <<registryVars, node, attempts, waits, request, hostAwaits, uses>>


----------------------------------------------------------------------------
(* Resolving services *)

ScopeOf(a) ==
  CASE a[1] = "handler" -> request[a[2]].scope [] a[1] = "factory" -> node[a[2]].scope [] OTHER -> HostScope

\* A closing scope only serves its own attempts that are still pending.
canResolve(s, as) ==
  /\ ~failed
  /\ \/ scope[s].state = "Open"
     \/ scope[s].state = "Closing" /\ \E n \in PendingIn(s) : Factory(n) \in as

\* The pending attempts the caller runs in, and the innermost of them.
Chain(as) == {n \in Nodes : Factory(n) \in as /\ Pending(n)}
Innermost(chain) == CHOOSE n \in chain : \A m \in chain : m <= n

\* reaches(): every set of pending attempts that holds from and, with an attempt,
\* all pending attempts it waits for, also holds target.
ReachesNothing(from, target) == FALSE
Reaches(from, target) ==
  \A S \in SUBSET {n \in Nodes : Pending(n)} :
    from \in S /\ (\A w \in waits : w[1] \in S /\ Pending(w[2]) => w[2] \in S) => target \in S

\* waitFor()
Edge(chain, m) == IF chain = {} THEN {} ELSE {<<Innermost(chain), m>>}

Cached(s, token) ==
  {n \in Nodes : node[n].scope = s /\ node[n].token = token /\ node[n].state \in {"pending", "ready"}}
  \ {n \in Nodes : node[n].token \in Transients}

\* What the caller does with the attempt it was given.
Obtain(a, m, awaited) ==
  IF a = Host THEN hostAwaits' = hostAwaits \cup {m} /\ UNCHANGED <<awaits, uses>>
  ELSE /\ awaits' = [awaits EXCEPT ![a] = IF awaited THEN Factory(m) ELSE None]
       /\ uses' = IF awaited THEN uses \cup {<<a, m>>} ELSE uses
       /\ UNCHANGED hostAwaits

\* resolve() and resolveInChain(); a rejected resolution changes nothing.
Resolves(a, token, owner) ==
  /\ a = Host \/ Free(a)
  /\ scope[ScopeOf(a)].state # "none"
  /\ owner = IF token \in Singletons THEN Root ELSE ScopeOf(a)
  /\ ScopeOf(a) = Root => token \in Singletons
  /\ LET as == IF a = Host THEN {} ELSE Context(a)
     IN  /\ canResolve(ScopeOf(a), as) /\ canResolve(owner, as)
         /\ \A n \in Chain(as) : ~(node[n].scope = owner /\ node[n].token = token)

ResolveCached(a, token, m, awaited) ==
  LET chain == IF a = Host THEN {} ELSE Chain(Context(a)) IN
  /\ Resolves(a, token, node[m].scope)
  /\ m \in Cached(node[m].scope, token)
  /\ Pending(m) /\ chain # {} => ~Reaches(m, Innermost(chain))
  /\ waits' = IF Pending(m) THEN waits \cup Edge(chain, m) ELSE waits
  /\ Obtain(a, m, awaited)
  /\ UNCHANGED <<registryVars, scopes, scope, node, attempts, request, lineage, disposed>>

ResolveNew(a, token, awaited) ==
  LET owner == IF token \in Singletons THEN Root ELSE ScopeOf(a)
      n == attempts + 1
  IN  /\ attempts < MaxNodes
      /\ Resolves(a, token, owner)
      /\ Cached(owner, token) = {}
      /\ attempts' = n
      /\ node' = [node EXCEPT ![n] = [scope |-> owner, token |-> token, state |-> "pending", value |-> None]]
      /\ lineage' = [lineage EXCEPT ![Factory(n)] = IF a = Host THEN {} ELSE Context(a)]
      /\ waits' = waits \cup Edge(IF a = Host THEN {} ELSE Chain(Context(a)), n)
      /\ Obtain(a, n, awaited)
      /\ UNCHANGED <<registryVars, scopes, scope, request, disposed>>

----------------------------------------------------------------------------
(* Factories settle *)

Released(n) == waits' = {w \in waits : w[2] # n} /\ hostAwaits' = hostAwaits \ {n}

\* claim(): a value that has no owner yet belongs to the scope.
FactoryCreates(n) ==
  /\ Free(Factory(n))
  /\ node' = [node EXCEPT ![n].state = "ready", ![n].value = n]
  /\ scope' = [scope EXCEPT ![node[n].scope].created = Append(@, n)]
  /\ Released(n) /\ Ends(Factory(n))
  /\ UNCHANGED <<registryVars, scopes, attempts, request, uses, disposed>>

\* A value owned by the same scope or by the registry keeps its owner.
Claimable(n, m) == node[node[m].value].scope \in {node[n].scope, Root}
FactoryAliasesOwned(n, m) ==
  /\ Free(Factory(n)) /\ node[m].state = "ready" /\ Claimable(n, m)
  /\ node' = [node EXCEPT ![n].state = "ready", ![n].value = node[m].value]
  /\ scope' = [scope EXCEPT ![node[n].scope].created = Append(@, node[m].value)]
  /\ Released(n) /\ Ends(Factory(n))
  /\ UNCHANGED <<registryVars, scopes, attempts, request, uses, disposed>>
FactoryAliases(n, m) ==
  /\ Free(Factory(n)) /\ node[m].state = "ready" /\ Claimable(n, m)
  /\ node' = [node EXCEPT ![n].state = "ready", ![n].value = node[m].value]
  /\ Released(n) /\ Ends(Factory(n))
  /\ UNCHANGED <<registryVars, scopes, scope, attempts, request, uses, disposed>>

\* A failed attempt leaves the cache; that of a singleton poisons the registry,
\* and one the host awaited disposes the host's scope.
FactoryFails(n) ==
  /\ Free(Factory(n))
  /\ node' = [node EXCEPT ![n].state = "failed"]
  /\ scope' = IF n \in hostAwaits THEN Closed(HostScope) ELSE scope
  /\ IF node[n].scope = Root THEN BeginShutdown(TRUE) ELSE UNCHANGED registryVars
  /\ Released(n) /\ Ends(Factory(n))
  /\ UNCHANGED <<scopes, attempts, request, uses, disposed>>

----------------------------------------------------------------------------
(* Requests *)

Start(e, a, s, awaited) ==
  /\ assertLive /\ request[e].state = "idle"
  /\ a = Host \/ Free(a)
  /\ request' = [request EXCEPT ![e] = [state |-> "running", scope |-> s]]
  /\ lineage' = [lineage EXCEPT ![Handler(e)] = IF a = Host THEN {} ELSE Context(a)]
  /\ awaits' = IF a = Host THEN awaits ELSE [awaits EXCEPT ![a] = IF awaited THEN Handler(e) ELSE None]
  /\ UNCHANGED <<registryVars, node, attempts, waits, hostAwaits, uses, disposed>>

\* runOwned(): the request has a scope of its own.
runOwned(e, a, awaited) ==
  /\ Start(e, a, e, awaited)
  /\ scope' = [scope EXCEPT ![e] = OpenScope]
  /\ scopes' = Append(scopes, e)

\* runInScope(): it borrows the host's.
runInScope(e, a, awaited) ==
  /\ scope[HostScope].state = "Open"
  /\ Start(e, a, HostScope, awaited)
  /\ UNCHANGED <<scope, scopes>>

HandlerSettles(e) ==
  /\ Free(Handler(e))
  /\ IF request[e].scope = e
     THEN request' = [request EXCEPT ![e].state = "closing"] /\ scope' = Closed(e)
     ELSE request' = [request EXCEPT ![e].state = "done"] /\ UNCHANGED scope
  /\ Ends(Handler(e)) /\ uses' = {u \in uses : u[1] # Handler(e)}
  /\ UNCHANGED <<registryVars, scopes, node, attempts, waits, hostAwaits, disposed>>

\* The execution ends with its scope.  After a singleton failed, its caller gets
\* the result when the registry is closed, unless that would be a self-join or a
\* participant may be waiting for the result.
JoinsShutdownAlways(e) == failed /\ assertCanDispose(lineage[Handler(e)])
JoinsShutdown(e) ==
  /\ failed /\ ~participant
  /\ assertCanDispose(lineage[Handler(e)])
RequestDrained(e) ==
  /\ request[e].state = "closing" /\ scope[e].state = "Closed"
  /\ request' = [request EXCEPT ![e].state = IF JoinsShutdown(e) THEN "joining" ELSE "done"]
  /\ UNCHANGED <<registryVars, scopes, scope, node, attempts, waits, actorVars, hostAwaits, uses, disposed>>

RequestReturns(e) ==
  /\ request[e].state = "joining" /\ registry = "Closed"
  /\ request' = [request EXCEPT ![e].state = "done"]
  /\ UNCHANGED <<registryVars, scopes, scope, node, attempts, waits, actorVars, hostAwaits, uses, disposed>>

----------------------------------------------------------------------------
(* The phases of a shutdown *)

\* The phases that wait for a participant or for the observable resources.
Advance(from, to) ==
  /\ phase = from
  /\ phase' = to
  /\ UNCHANGED <<registry, failed, participant, joining, closing, scopes, scope, node, attempts, waits, request, actorVars,
                 hostAwaits, uses, disposed>>
TransportsReleased == Advance("release", "stopping")
ParticipantStopped == Free(Participant) /\ Advance("stopping", "draining")
ParticipantDrained == Free(Participant) /\ Advance("draining", "work")
WorkSettled == Advance("work", "executions")
SessionScopesSettled == Advance("sessions", "scopes")

ExecutionsIgnored == Advance("executions", IF participant THEN "sessions" ELSE "scopes")
ExecutionsSettled ==
  /\ \A e \in joining : ~Executing(e)
  /\ Advance("executions", IF participant THEN "sessions" ELSE "scopes")

\* The scopes are closed one after the other.
CloseNextScope ==
  /\ phase = "scopes" /\ closing # <<>>
  /\ \/ scope[Head(closing)].state = "Open" /\ scope' = Closed(Head(closing)) /\ UNCHANGED closing
     \/ scope[Head(closing)].state = "Closed" /\ closing' = Tail(closing) /\ UNCHANGED scope
  /\ UNCHANGED <<registry, failed, phase, participant, joining, scopes, node, attempts, waits, request, actorVars,
                 hostAwaits, uses, disposed>>

CloseSingletons ==
  /\ phase = "scopes" /\ closing = <<>>
  /\ phase' = "root" /\ scope' = Closed(Root)
  /\ UNCHANGED <<registry, failed, participant, joining, closing, scopes, node, attempts, waits, request, actorVars,
                 hostAwaits, uses, disposed>>

DisposeSingletons ==
  /\ phase = "root" /\ scope[Root].state = "Closed"
  /\ phase' = "singletons"
  /\ DisposeNext(Root)
  /\ UNCHANGED <<registry, failed, participant, joining, closing, scopes, node, attempts, waits, request, actorVars,
                 hostAwaits, uses>>

ShutdownEnds ==
  /\ phase = "singletons" /\ scope[Root].disposing = 0
  /\ phase' = "done" /\ registry' = "Closed" /\ waits' = {}
  /\ UNCHANGED <<failed, participant, joining, closing, scopes, scope, node, attempts, request, actorVars,
                 hostAwaits, uses, disposed>>

----------------------------------------------------------------------------
(* The specification *)

Init ==
  /\ registry = "Running" /\ failed = FALSE /\ phase = "none" /\ participant = FALSE
  /\ scopes = <<>> /\ joining = {} /\ closing = <<>>
  /\ scope = [s \in Scopes |-> [OpenScope EXCEPT !.state = IF s = Root THEN "Open" ELSE "none"]]
  /\ node = [n \in Nodes |-> NoNode] /\ attempts = 0 /\ waits = {}
  /\ request = [e \in Requests |-> [state |-> "idle", scope |-> e]]
  /\ lineage = [a \in Actors |-> {}] /\ awaits = [a \in Actors |-> None]
  /\ hostAwaits = {} /\ uses = {} /\ disposed = <<>>

UserCode(a) ==
  \/ \E e \in Requests, awaited \in BOOLEAN : runOwned(e, a, awaited) \/ runInScope(e, a, awaited)
  \/ Dispose(a)
Resolution(a) ==
  \E token \in Tokens, awaited \in BOOLEAN :
    ResolveNew(a, token, awaited) \/ \E m \in Nodes : ResolveCached(a, token, m, awaited)
FactorySettles(n) == FactoryCreates(n) \/ FactoryFails(n) \/ \E m \in Nodes : FactoryAliases(n, m)

RegistryStep ==
  \/ TransportsReleased \/ ParticipantStopped \/ WorkSettled \/ ExecutionsSettled \/ SessionScopesSettled
  \/ CloseNextScope \/ CloseSingletons \/ DisposeSingletons \/ ShutdownEnds

Next ==
  \/ \E a \in Actors \cup {Host} : UserCode(a)
  \/ \E a \in {Handler(e) : e \in Requests} \cup {Factory(n) : n \in Nodes} \cup {Host} : Resolution(a)
  \/ \E n \in Nodes : FactorySettles(n)
  \/ \E e \in Requests : HandlerSettles(e) \/ RequestDrained(e) \/ RequestReturns(e)
  \/ createScope \/ HostDisposes
  \/ \E s \in Scopes : ScopeQuiesces(s) \/ DisposerSettles(s)
  \/ addShutdownParticipant \/ removeShutdownParticipant
  \/ RegistryStep \/ ParticipantDrained

Safety == Init /\ [][Next]_vars

\* User code that awaits nothing ends; a participant may keep draining until every
\* request it admitted has returned.
AllReturned == \A e \in Requests : request[e].state \in {"idle", "done"}
Fairness ==
  /\ WF_vars(RegistryStep)
  /\ WF_vars(AllReturned /\ ParticipantDrained)
  /\ \A n \in Nodes : WF_vars(FactorySettles(n))
  /\ \A e \in Requests : WF_vars(HandlerSettles(e) \/ RequestDrained(e) \/ RequestReturns(e))
  /\ \A s \in Scopes : WF_vars(ScopeQuiesces(s) \/ DisposerSettles(s))

Spec == Safety /\ Fairness

----------------------------------------------------------------------------
(* Properties *)

TypeOK ==
  /\ registry \in {"Running", "Draining", "Closed"} /\ failed \in BOOLEAN /\ participant \in BOOLEAN
  /\ phase \in {"none", "release", "stopping", "draining", "work", "executions", "sessions", "scopes",
                "root", "singletons", "done"}
  /\ scopes \in Seq(Scopes) /\ closing \in Seq(Scopes) /\ joining \subseteq Requests
  /\ scope \in [Scopes -> [state : {"none", "Open", "Closing", "Closed"}, created : Seq(Nodes),
                           disposing : Nodes \cup {0}]]
  /\ attempts \in 0..MaxNodes
  /\ \A n \in Nodes : IF n <= attempts THEN node[n] \in Node ELSE node[n] = NoNode
  /\ waits \subseteq (1..attempts) \X (1..attempts)
  /\ request \in [Requests -> [state : {"idle", "running", "closing", "joining", "done"}, scope : Scopes]]
  /\ lineage \in [Actors -> SUBSET Actors]
  /\ awaits \in [Actors -> Actors \cup {None, Shutdown}]
  /\ hostAwaits \subseteq 1..attempts /\ uses \subseteq Actors \X (1..attempts)
  /\ disposed \in Seq(1..attempts)

\* A service is disposed at most once, also when factories hand out services that
\* others own, and the shutdown leaves none behind (ServiceRegistry.ts 141-153).
Owned == {n \in Nodes : node[n].value = n}
DisposedOnce ==
  /\ \A i, j \in DOMAIN disposed : disposed[i] = disposed[j] => i = j
  /\ registry = "Closed" => \A n \in Owned : \E i \in DOMAIN disposed : disposed[i] = n

\* Nothing that runs loses a service it awaited: neither a handler, nor a factory
\* that outlives the request that started it (ServiceScope.ts 238-241,
\* ServiceRegistry.ts 228-245).  Only the host may take its own scope away from a
\* handler that borrowed it.
NotDisposedInUse ==
  \A u \in uses :
    Alive(u[1]) /\ node[u[2]].state = "ready" =>
      \/ \A i \in DOMAIN disposed : disposed[i] # node[u[2]].value
      \/ u[1][1] = "handler" /\ node[node[u[2]].value].scope = HostScope

\* A service is disposed before the services its factory awaited, in its scope and
\* across the two lifetimes (ServiceScope.ts 245, ServiceRegistry.ts 238-244).
DependentsFirst ==
  \A n \in Owned, m \in Nodes :
    <<Factory(n), m>> \in uses /\ node[m].state = "ready" /\ node[m].value # n =>
      \A i \in DOMAIN disposed : disposed[i] = node[m].value => \E j \in 1..i : disposed[j] = n

\* No handlers and factories wait for each other in a circle, though factories
\* find their dependencies while they run and join attempts that other requests
\* started (waitFor, ServiceRegistry.ts 117-139).  A request that is closing its
\* scope has no edge to the disposers it runs, so a disposer that waits for such a
\* request is no part of it (the code looks only at the caller's own ancestry there,
\* ServiceScope.ts 214).
NoCircularWait ==
  \A D \in SUBSET {a \in Actors : Alive(a) /\ ~Free(a)} : D # {} => \E a \in D : awaits[a] \notin D

\* A shutdown ends, whoever asked for it, whatever failed and whoever waits for
\* whom.
ShutdownTerminates == registry = "Draining" ~> registry = "Closed"

\* Every request returns: services never wait for each other in a circle, and no
\* request waits for a shutdown that waits for it.
RequestsReturn == \A e \in Requests : request[e].state = "running" ~> request[e].state = "done"
=============================================================================
