---------------------- MODULE ServiceLifecycleProofs ----------------------
(* Proofs about ServiceLifecycle, for any finite set of requests, any      *)
(* tokens and any number of construction attempts.                         *)
EXTENDS ServiceLifecycle, FiniteSetTheorems, SequenceTheorems, WellFoundedInduction, TLAPS

(***************************************************************************)
(* The inductive invariant: types                                          *)
(***************************************************************************)

Phases == {"none", "release", "stopping", "draining", "work", "executions", "sessions", "scopes",
           "root", "singletons", "done"}
ScopeRecord ==
  [state : {"none", "Open", "Closing", "Closed"}, created : Seq(Nodes), disposing : Nodes \cup {0}]
NodeRecord ==
  [scope : Scopes \cup {None}, token : Tokens \cup {None}, state : {"none", "pending", "ready", "failed"},
   value : Nodes \cup {None}]
RequestRecord == [state : {"idle", "running", "closing", "joining", "done"}, scope : Scopes]
Handlers == {Handler(e) : e \in Requests}
Factories == {Factory(n) : n \in Nodes}

RegistryTypes ==
  /\ registry \in {"Running", "Draining", "Closed"} /\ failed \in BOOLEAN /\ participant \in BOOLEAN
  /\ phase \in Phases
  /\ scopes \in Seq(Scopes) /\ closing \in Seq(Scopes) /\ joining \subseteq Requests
StateTypes ==
  /\ scope \in [Scopes -> ScopeRecord]
  /\ attempts \in Nat /\ attempts <= MaxNodes
  /\ node \in [Nodes -> NodeRecord] /\ disposed \in Seq(Nodes)
  /\ request \in [Requests -> RequestRecord]
  /\ \A e \in Requests : request[e].scope \in {e, HostScope}
ActorTypes ==
  /\ lineage \in [Actors -> SUBSET Actors]
  /\ awaits \in [Actors -> Handlers \cup Factories \cup {None, Shutdown}]
  /\ waits \subseteq Nodes \X Nodes
  /\ hostAwaits \subseteq Nodes /\ (\A n \in hostAwaits : n <= attempts)
  /\ uses \subseteq (Handlers \cup Factories) \X Nodes

(***************************************************************************)
(* The inductive invariant: the phases of a shutdown                       *)
(***************************************************************************)

Members(list) == {list[i] : i \in DOMAIN list}
Past == {"sessions", "scopes", "root", "singletons", "done"}
Last == {"root", "singletons", "done"}
Live(s) == scope[s].state \in {"Open", "Closing"}

\* The shutdown knows every execution and every scope that it has to wait for,
\* and closes the singletons when nothing of that is left.
PhaseOK ==
  /\ registry = "Running" <=> phase = "none"
  /\ registry = "Closed" <=> phase = "done"
  /\ phase # "none" => \A e \in Requests : Executing(e) => e \in joining
  /\ phase \in Past => \A e \in Requests : ~Executing(e)
  /\ phase \in Last => closing = <<>>
  /\ Root \notin Members(scopes) /\ Root \notin Members(closing)
  /\ \A s \in Scopes \ {Root} : Live(s) => s \in Members(IF phase = "none" THEN scopes ELSE closing)
  /\ phase \notin Last => scope[Root].state = "Open"
  /\ phase = "root" => scope[Root].state \in {"Closing", "Closed"} /\ scope[Root].disposing = 0
  /\ phase \in {"singletons", "done"} => scope[Root].state = "Closed"
  /\ phase = "done" => scope[Root].disposing = 0

(***************************************************************************)
(* The inductive invariant: scopes, attempts and services                  *)
(***************************************************************************)

\* A scope disposes its services when no attempt is pending in it any more, and
\* is closed when none is left.
ScopeOK(s) ==
  /\ scope[s].state \in {"none", "Closed"} \/ scope[s].disposing # 0 => PendingIn(s) = {}
  /\ scope[s].state = "none" => scope[s].created = <<>>
  /\ scope[s].disposing # 0 => scope[s].state = IF s = Root THEN "Closed" ELSE "Closing"
  /\ s # Root /\ scope[s].state = "Closed" => scope[s].created = <<>>
  /\ s = Root /\ phase \in {"singletons", "done"} /\ scope[s].disposing = 0 => scope[s].created = <<>>

\* Scope s started to dispose its services.
Reclaiming(s) ==
  IF s = Root THEN phase \in {"singletons", "done"}
  ELSE scope[s].state = "Closed" \/ scope[s].disposing # 0

RequestOK(e) ==
  /\ request[e].state = "idle" => scope[e].state = "none"
  /\ request[e].state = "running" /\ request[e].scope = e => scope[e].state = "Open"

NodeOK(n) ==
  /\ IF n <= attempts THEN node[n].state # "none" /\ node[n].scope \in Scopes /\ node[n].token \in Tokens
     ELSE node[n].state = "none" /\ node[n] = NoNode
  /\ node[n].state # "ready" => node[n].value = None
  /\ node[n].state = "ready" =>
       /\ node[n].value \in Nodes /\ node[n].value \in Owned
       /\ node[node[n].value].scope \in {node[n].scope, Root}

CreatedOK(s) ==
  /\ \A i \in DOMAIN scope[s].created :
       LET n == scope[s].created[i] IN n \in Owned /\ node[n].scope = s /\ n \notin Members(disposed)
  /\ \A i, j \in DOMAIN scope[s].created : scope[s].created[i] = scope[s].created[j] => i = j
DisposedOK ==
  /\ \A i \in DOMAIN disposed : disposed[i] \in Owned /\ Reclaiming(node[disposed[i]].scope)
  /\ \A i, j \in DOMAIN disposed : disposed[i] = disposed[j] => i = j
OwnedOK(n) == n \in Owned => n \in Members(scope[node[n].scope].created) \cup Members(disposed)

ServicesOK ==
  /\ \A s \in Scopes : ScopeOK(s) /\ CreatedOK(s)
  /\ \A e \in Requests : RequestOK(e)
  /\ \A n \in Nodes : NodeOK(n) /\ OwnedOK(n)
  /\ DisposedOK

(***************************************************************************)
(* The inductive invariant: who uses what                                  *)
(***************************************************************************)

UseOK(a, m) ==
  /\ m <= attempts
  /\ \A e \in Requests : a = Handler(e) =>
       request[e].state = "running" /\ node[m].scope \in {request[e].scope, Root}
  /\ \A n \in Nodes : a = Factory(n) =>
       /\ n <= attempts /\ node[m].scope \in {node[n].scope, Root}
       /\ Pending(m) => Pending(n) /\ awaits[a] = Factory(m)

\* The service n and the service v that its factory awaited.
InOrder(n, v) ==
  /\ \A i \in DOMAIN disposed : disposed[i] = v => \E j \in 1..i : disposed[j] = n
  /\ \A i, j \in DOMAIN scope[node[n].scope].created :
       scope[node[n].scope].created[i] = n /\ scope[node[n].scope].created[j] = v => j < i
UsesOK ==
  /\ \A u \in uses : UseOK(u[1], u[2])
  /\ \A n \in Nodes, m \in Nodes :
       n \in Owned /\ <<Factory(n), m>> \in uses /\ node[m].state = "ready" /\ node[m].value # n =>
         InOrder(n, node[m].value)

(***************************************************************************)
(* The inductive invariant: who waits for whom                             *)
(***************************************************************************)

Started(a) ==
  /\ \A e \in Requests : a = Handler(e) => request[e].state # "idle"
  /\ \A n \in Nodes : a = Factory(n) => n <= attempts
\* n is the innermost attempt that an actor runs in, whether it is settled or not.
RunsIn(a, n) == Factory(n) \in Context(a) /\ \A k \in Nodes : Factory(k) \in Context(a) => k <= n

LineageOK(a) ==
  /\ \A b \in lineage[a] : Started(b)
  /\ awaits[a] # None => Started(a)
  /\ \A n, k \in Nodes : a = Factory(n) /\ Factory(k) \in lineage[a] => k < n
AwaitsOK(a) ==
  /\ \A f \in Requests : awaits[a] = Handler(f) =>
       /\ request[f].state # "idle"
       /\ lineage[Handler(f)] = Context(a) /\ Handler(f) \notin Context(a)
  /\ \A m \in Nodes : awaits[a] = Factory(m) => m <= attempts
  /\ \A m, n \in Nodes : awaits[a] = Factory(m) /\ Pending(m) /\ Pending(n) /\ RunsIn(a, n) => <<n, m>> \in waits

WaitsOK ==
  /\ \A w \in waits : w[1] <= attempts /\ w[2] <= attempts
  /\ \A S \in SUBSET {n \in Nodes : Pending(n)} :
       S # {} => \E x \in S : \A w \in waits : w[1] = x => w[2] \notin S

ActorsOK == WaitsOK /\ \A a \in Actors : LineageOK(a) /\ AwaitsOK(a)

LifecycleInv ==
  /\ RegistryTypes /\ StateTypes /\ ActorTypes
  /\ PhaseOK /\ ServicesOK /\ UsesOK /\ ActorsOK

(***************************************************************************)
(* Actors, lists                                                           *)
(***************************************************************************)

\* Actors of different kinds, or of different things, differ.
LEMMA ActorsDiffer ==
  /\ \A e \in Requests, n \in Nodes :
       Handler(e) # Factory(n) /\ Handler(e) # Disposer(n)
  /\ \A n, m \in Nodes : Factory(n) # Disposer(m)
  /\ \A e \in Requests :
       /\ Handler(e) # Shutdown /\ Handler(e) # Participant /\ Handler(e) # Host /\ Handler(e) \in Actors
  /\ \A n \in Nodes :
       /\ Factory(n) # Shutdown /\ Factory(n) # Participant /\ Factory(n) # Host /\ Factory(n) \in Actors
       /\ Disposer(n) \in Actors /\ Disposer(n) # Participant
  /\ \A e, f \in Requests : Handler(e) = Handler(f) => e = f
  /\ \A n, m \in Nodes : (Factory(n) = Factory(m) => n = m) /\ (Disposer(n) = Disposer(m) => n = m)
  /\ Participant \in Actors /\ Host \notin Actors
BY DEF Handler, Factory, Disposer, Participant, Host, Shutdown, Actors

LEMMA NoneDiffers ==
  /\ None \notin Actors /\ None # Shutdown /\ None \notin Nodes /\ None \notin Scopes
  /\ \A e \in Requests : Handler(e) # None
  /\ \A n \in Nodes : Factory(n) # None
BY NoneIsNothing, ActorsDiffer

LEMMA NodesAreNumbers == MaxNodes \in Nat /\ Nodes \subseteq Nat \ {0} /\ 0 \notin Nodes
BY NodesNat DEF Nodes

\* What a factory awaits is settled when its code runs.
LEMMA AwaitedSettled ==
  ASSUME NEW a \in Actors, Free(a)
  PROVE  /\ \A m \in Nodes : awaits[a] = Factory(m) => ~Pending(m)
         /\ \A f \in Requests : awaits[a] = Handler(f) => request[f].state = "done"
<1>1. Settled(awaits[a])
  BY DEF Free
<1>2. ASSUME NEW m \in Nodes, awaits[a] = Factory(m) PROVE ~Pending(m)
  <2>1. \E n \in Nodes : Factory(m) = Factory(n) /\ node[n].state \in {"ready", "failed"}
    BY <1>1, <1>2, ActorsDiffer, NoneDiffers DEF Settled
  <2>2. node[m].state \in {"ready", "failed"}
    BY <2>1, ActorsDiffer
  <2>3. QED
    BY <2>2 DEF Pending
<1>3. ASSUME NEW f \in Requests, awaits[a] = Handler(f) PROVE request[f].state = "done"
  <2>1. \E e \in Requests : Handler(f) = Handler(e) /\ request[e].state = "done"
    BY <1>1, <1>3, ActorsDiffer, NoneDiffers DEF Settled
  <2>2. QED
    BY <2>1, ActorsDiffer
<1>4. QED
  BY <1>2, <1>3

\* An actor whose code runs.
LEMMA AliveStarted ==
  ASSUME NEW a, Alive(a)
  PROVE  /\ \A e \in Requests : a = Handler(e) => request[e].state = "running"
         /\ \A n \in Nodes : a = Factory(n) => Pending(n)
<1>1. ASSUME NEW e \in Requests, a = Handler(e) PROVE request[e].state = "running"
  BY <1>1, ActorsDiffer DEF Alive
<1>2. ASSUME NEW n \in Nodes, a = Factory(n) PROVE Pending(n)
  BY <1>2, ActorsDiffer DEF Alive
<1>3. QED
  BY <1>1, <1>2

LEMMA WithoutResult ==
  ASSUME NEW list \in Seq(Scopes), NEW s
  PROVE  /\ Without(list, s) \in Seq(Scopes)
         /\ Members(Without(list, s)) \subseteq Members(list)
         /\ Members(list) \ {s} \subseteq Members(Without(list, s))
<1>1. CASE \A i \in DOMAIN list : list[i] # s
  BY <1>1 DEF Without
<1>2. CASE \E i \in DOMAIN list : list[i] = s
  <2> DEFINE p == CHOOSE i \in DOMAIN list : list[i] = s
             w == [i \in 1..Len(list) - 1 |-> list[IF i < p THEN i ELSE i + 1]]
  <2>1. p \in DOMAIN list /\ list[p] = s
    BY <1>2
  <2>2. Without(list, s) = w
    BY <1>2 DEF Without
  <2> HIDE DEF p
  <2>3. Len(list) \in Nat /\ DOMAIN list = 1..Len(list) /\ \A i \in 1..Len(list) : list[i] \in Scopes
    OBVIOUS
  <2>4. Len(list) - 1 \in Nat /\ p \in 1..Len(list)
    BY <2>1, <2>3
  <2>5. \A i \in 1..Len(list) - 1 : (IF i < p THEN i ELSE i + 1) \in 1..Len(list)
    BY <2>3, <2>4
  <2>6. w \in [1..Len(list) - 1 -> Scopes]
    BY <2>3, <2>5
  <2>7. w \in Seq(Scopes)
    BY <2>4, <2>6, IsASeq
  <2>8. DOMAIN w = 1..Len(list) - 1
    OBVIOUS
  <2>9. Members(w) \subseteq Members(list)
    BY <2>3, <2>5, <2>8 DEF Members
  <2>10. ASSUME NEW i \in DOMAIN list, list[i] # s PROVE list[i] \in Members(w)
    <3>1. CASE i < p
      <4>1. i \in 1..Len(list) - 1 /\ w[i] = list[i]
        BY <2>3, <2>4, <3>1
      <4>2. QED
        BY <2>8, <4>1 DEF Members
    <3>2. CASE ~(i < p)
      <4>1. i # p
        BY <2>1, <2>10
      <4>2. i - 1 \in 1..Len(list) - 1 /\ ~(i - 1 < p) /\ (i - 1) + 1 = i
        BY <2>3, <2>4, <3>2, <4>1
      <4>3. w[i - 1] = list[i]
        BY <4>2
      <4>4. QED
        BY <2>8, <4>2, <4>3 DEF Members
    <3>3. QED
      BY <3>1, <3>2
  <2>11. Members(list) \ {s} \subseteq Members(w)
    BY <2>10 DEF Members
  <2>12. QED
    BY <2>2, <2>7, <2>9, <2>11
<1>3. QED
  BY <1>1, <1>2

LEMMA AppendResult ==
  ASSUME NEW T, NEW list \in Seq(T), NEW s \in T
  PROVE  /\ Append(list, s) \in Seq(T) /\ Members(Append(list, s)) = Members(list) \cup {s}
         /\ DOMAIN list = 1..Len(list) /\ DOMAIN Append(list, s) = 1..Len(list) + 1 /\ Len(list) \in Nat
         /\ \A i \in 1..Len(list) : Append(list, s)[i] = list[i]
         /\ Append(list, s)[Len(list) + 1] = s
<1>1. /\ Append(list, s) \in Seq(T)
      /\ DOMAIN list = 1..Len(list) /\ DOMAIN Append(list, s) = 1..Len(list) + 1 /\ Len(list) \in Nat
      /\ \A i \in 1..Len(list) : Append(list, s)[i] = list[i]
      /\ Append(list, s)[Len(list) + 1] = s
  OBVIOUS
<1>2. 1..Len(list) + 1 = (1..Len(list)) \cup {Len(list) + 1}
  BY <1>1
<1> DEFINE l == Append(list, s)
<1> HIDE DEF l
<1>3. Members(l) = Members(list) \cup {s}
  BY <1>1, <1>2 DEF Members, l
<1>4. QED
  BY <1>1, <1>3 DEF l

\* A list without its last element.
LEMMA FrontResult ==
  ASSUME NEW T, NEW list \in Seq(T), list # <<>>
  PROVE  /\ Len(list) \in Nat \ {0} /\ DOMAIN list = 1..Len(list) /\ list[Len(list)] \in T
         /\ SubSeq(list, 1, Len(list) - 1) \in Seq(T)
         /\ DOMAIN SubSeq(list, 1, Len(list) - 1) = 1..Len(list) - 1
         /\ \A i \in 1..Len(list) - 1 : SubSeq(list, 1, Len(list) - 1)[i] = list[i]
<1>1. Len(list) \in Nat \ {0} /\ DOMAIN list = 1..Len(list) /\ \A i \in 1..Len(list) : list[i] \in T
  BY EmptySeq
<1>2. Len(list) - 1 \in Nat
  BY <1>1
<1>3. QED
  BY <1>1, <1>2

LEMMA TailResult ==
  ASSUME NEW T, NEW list \in Seq(T), list # <<>>
  PROVE  Tail(list) \in Seq(T) /\ Members(Tail(list)) \cup {Head(list)} = Members(list) /\ Head(list) \in T
<1>1. /\ Len(list) \in Nat \ {0} /\ DOMAIN list = 1..Len(list) /\ Head(list) = list[1] /\ Head(list) \in T
      /\ Tail(list) \in Seq(T) /\ DOMAIN Tail(list) = 1..Len(list) - 1
      /\ \A i \in 1..Len(list) - 1 : Tail(list)[i] = list[i + 1]
  BY EmptySeq
<1>2. ASSUME NEW i \in 1..Len(list) PROVE i = 1 \/ (i - 1 \in 1..Len(list) - 1 /\ (i - 1) + 1 = i)
  BY <1>1
<1>3. ASSUME NEW i \in 1..Len(list) - 1 PROVE i + 1 \in 1..Len(list)
  BY <1>1
<1>4. 1 \in 1..Len(list)
  BY <1>1
<1> DEFINE t == Tail(list)
<1> HIDE DEF t
<1>5. Members(t) \subseteq Members(list) /\ list[1] \in Members(list)
  BY <1>1, <1>3, <1>4 DEF Members, t
<1>6. ASSUME NEW i \in 1..Len(list) PROVE list[i] \in Members(t) \cup {list[1]}
  <2>1. CASE i = 1
    BY <2>1
  <2>2. CASE i - 1 \in 1..Len(list) - 1 /\ (i - 1) + 1 = i
    <3>1. t[i - 1] = list[i]
      BY <1>1, <2>2 DEF t
    <3>2. QED
      BY <1>1, <2>2, <3>1 DEF Members, t
  <2>3. QED
    BY <1>2, <2>1, <2>2
<1>7. Members(list) \subseteq Members(t) \cup {list[1]}
  BY <1>1, <1>6 DEF Members
<1>8. QED
  BY <1>1, <1>5, <1>7 DEF t

(***************************************************************************)
(* Steps that leave a part of the invariant as it is                       *)
(***************************************************************************)

LEMMA PhaseStays ==
  ASSUME PhaseOK, UNCHANGED <<registry, phase, joining, closing>>,
         Root \notin Members(scopes'),
         \/ scope'[Root].state = scope[Root].state
         \/ phase = "root" /\ scope'[Root].state \in {"Closing", "Closed"},
         scope'[Root].disposing = scope[Root].disposing \/ phase = "singletons",
         \A s \in Scopes \ {Root} : Live(s)' =>
           \/ Live(s) /\ (s \in Members(scopes) => s \in Members(scopes'))
           \/ phase = "none" /\ s \in Members(scopes'),
         \A e \in Requests : Executing(e)' => Executing(e) \/ phase = "none"
  PROVE  PhaseOK'
<1>1. ASSUME NEW s \in Scopes \ {Root}, Live(s)'
      PROVE  s \in Members(IF phase' = "none" THEN scopes' ELSE closing')
  <2>1. CASE phase = "none" /\ s \in Members(scopes')
    BY <2>1
  <2>2. CASE Live(s) /\ (s \in Members(scopes) => s \in Members(scopes'))
    <3>1. s \in Members(IF phase = "none" THEN scopes ELSE closing)
      BY <2>2 DEF PhaseOK
    <3>2. QED
      BY <2>2, <3>1
  <2>3. QED
    BY <1>1, <2>1, <2>2
<1>2. /\ registry' = "Running" <=> phase' = "none"
      /\ registry' = "Closed" <=> phase' = "done"
      /\ phase' \in Last => closing' = <<>>
      /\ Root \notin Members(scopes') /\ Root \notin Members(closing')
      /\ phase' \notin Last => scope'[Root].state = "Open"
      /\ phase' = "root" => scope'[Root].state \in {"Closing", "Closed"} /\ scope'[Root].disposing = 0
      /\ phase' \in {"singletons", "done"} => scope'[Root].state = "Closed"
      /\ phase' = "done" => scope'[Root].disposing = 0
  BY DEF PhaseOK, Last
<1>3. /\ phase' # "none" => \A e \in Requests : Executing(e)' => e \in joining'
      /\ phase' \in Past => \A e \in Requests : ~Executing(e)'
  BY DEF PhaseOK, Past
<1>4. QED
  BY <1>1, <1>2, <1>3 DEF PhaseOK

\* A scope opens, begins to close or, being the root, is closed, and keeps its
\* services.
Moves(s) ==
  /\ scope'[s].created = scope[s].created /\ scope'[s].disposing = scope[s].disposing
  /\ \/ scope'[s].state = scope[s].state
     \/ scope[s].state = "Open" /\ scope'[s].state = "Closing"
     \/ scope[s].state = "none" /\ scope'[s].state = "Open"
     \/ s = Root /\ scope[s].state = "Closing" /\ scope'[s].state = "Closed" /\ PendingIn(s) = {}

LEMMA ServicesStay ==
  ASSUME ServicesOK, UNCHANGED <<node, attempts, disposed>>, \A s \in Scopes : Moves(s),
         phase' \in {"singletons", "done"} <=> phase \in {"singletons", "done"},
         \A e \in Requests : RequestOK(e)'
  PROVE  ServicesOK'
<1>1. ASSUME NEW s \in Scopes PROVE ScopeOK(s)' /\ CreatedOK(s)' /\ (Reclaiming(s) => Reclaiming(s)')
  <2>1. Moves(s) /\ ScopeOK(s) /\ CreatedOK(s)
    BY DEF ServicesOK
  <2>2. PendingIn(s)' = PendingIn(s) /\ Owned' = Owned /\ Members(disposed)' = Members(disposed)
    BY DEF PendingIn, Pending, Owned, Members
  <2>3. ScopeOK(s)'
    BY <2>1, <2>2 DEF ScopeOK, Moves
  <2>4. CreatedOK(s)'
    BY <2>1, <2>2 DEF CreatedOK, Moves
  <2>5. Reclaiming(s) => Reclaiming(s)'
    BY <2>1 DEF Reclaiming, Moves
  <2>6. QED
    BY <2>3, <2>4, <2>5
<1>2. ASSUME NEW n \in Nodes PROVE NodeOK(n)' /\ OwnedOK(n)'
  <2>1. NodeOK(n) /\ OwnedOK(n) /\ Owned' = Owned
    BY DEF ServicesOK, Owned
  <2>2. NodeOK(n)'
    BY <2>1 DEF NodeOK
  <2>3. ASSUME n \in Owned PROVE scope'[node[n].scope].created = scope[node[n].scope].created
    <3>1. node[n].scope \in Scopes
      BY <2>1, <2>3, NoneDiffers DEF NodeOK, Owned
    <3>2. QED
      BY <3>1 DEF Moves
  <2>4. OwnedOK(n)'
    BY <2>1, <2>3 DEF OwnedOK, Members
  <2>5. QED
    BY <2>2, <2>4
<1>3. DisposedOK'
  <2>1. ASSUME NEW i \in DOMAIN disposed
        PROVE  disposed[i] \in Owned' /\ Reclaiming(node[disposed[i]].scope)'
    <3>1. disposed[i] \in Owned /\ Reclaiming(node[disposed[i]].scope) /\ Owned' = Owned
      BY DEF ServicesOK, DisposedOK, Owned
    <3>2. disposed[i] \in Nodes /\ node[disposed[i]].scope \in Scopes
      BY <3>1, NoneDiffers DEF ServicesOK, NodeOK, Owned
    <3>3. Reclaiming(node[disposed[i]].scope)'
      BY <3>1, <3>2, <1>1 DEF Reclaiming
    <3>4. QED
      BY <3>1, <3>3
  <2>2. QED
    BY <2>1 DEF ServicesOK, DisposedOK
<1>4. QED
  BY <1>1, <1>2, <1>3 DEF ServicesOK

LEMMA UsersStay ==
  ASSUME UsesOK, uses' \in SUBSET uses, UNCHANGED <<node, attempts>>,
         \A e \in Requests : (\E m \in Nodes : <<Handler(e), m>> \in uses') => request'[e] = request[e],
         \A n \in Nodes : awaits'[Factory(n)] = awaits[Factory(n)] \/ Free(Factory(n)),
         uses \in SUBSET ((Handlers \cup Factories) \X Nodes)
  PROVE  \A u \in uses' : UseOK(u[1], u[2])'
<1>1. ASSUME NEW u \in uses' PROVE UseOK(u[1], u[2])'
  <2> DEFINE a == u[1]
             m == u[2]
  <2>1. u = <<a, m>> /\ m \in Nodes /\ UseOK(a, m)
    BY DEF UsesOK
  <2> HIDE DEF a, m
  <2>2. ASSUME NEW e \in Requests, a = Handler(e)
        PROVE  request'[e].state = "running" /\ node'[m].scope \in {request'[e].scope, Root}
    BY <2>1, <2>2 DEF UseOK
  <2>3. ASSUME NEW n \in Nodes, a = Factory(n)
        PROVE  /\ n <= attempts /\ node'[m].scope \in {node'[n].scope, Root}
               /\ Pending(m)' => Pending(n)' /\ awaits'[a] = Factory(m)
    <3>1. /\ n <= attempts /\ node[m].scope \in {node[n].scope, Root}
          /\ Pending(m) => Pending(n) /\ awaits[a] = Factory(m)
      BY <2>1, <2>3 DEF UseOK
    <3>2. Free(a) => ~Pending(m)
      BY <2>1, <2>3, <3>1, AwaitedSettled, ActorsDiffer
    <3>3. QED
      BY <2>3, <3>1, <3>2 DEF Pending
  <2>4. QED
    BY <2>1, <2>2, <2>3 DEF UseOK, a, m
<1>2. QED
  BY <1>1

LEMMA UsesStay ==
  ASSUME UsesOK, ServicesOK, uses' \in SUBSET uses, UNCHANGED <<node, attempts, disposed>>,
         \A s \in Scopes : scope'[s].created = scope[s].created,
         \A e \in Requests : (\E m \in Nodes : <<Handler(e), m>> \in uses') => request'[e] = request[e],
         \A n \in Nodes : awaits'[Factory(n)] = awaits[Factory(n)] \/ Free(Factory(n)),
         uses \in SUBSET ((Handlers \cup Factories) \X Nodes)
  PROVE  UsesOK'
<1>1. \A u \in uses' : UseOK(u[1], u[2])'
  BY UsersStay
<1>2. ASSUME NEW n \in Nodes, NEW m \in Nodes,
             n \in Owned', <<Factory(n), m>> \in uses', node'[m].state = "ready", node'[m].value # n
      PROVE  InOrder(n, node[m].value)'
  <2>1. n \in Owned /\ InOrder(n, node[m].value)
    BY <1>2 DEF UsesOK, Owned
  <2>2. node[n].scope \in Scopes
    BY <2>1, NoneDiffers DEF ServicesOK, NodeOK, Owned
  <2>3. QED
    BY <2>1, <2>2 DEF InOrder
<1>3. QED
  BY <1>1, <1>2 DEF UsesOK

LEMMA ActorsStay ==
  ASSUME ActorsOK, UNCHANGED <<attempts, lineage>>,
         \A n \in Nodes : Pending(n)' => Pending(n),
         waits' \in SUBSET waits, \A w \in waits : Pending(w[2])' => w \in waits',
         \A e \in Requests : request[e].state # "idle" => request'[e].state # "idle",
         \A a \in Actors : \/ awaits'[a] = awaits[a]
                           \/ awaits'[a] = None
                           \/ awaits'[a] = Shutdown /\ Started(a)
  PROVE  ActorsOK'
<1>1. \A a : Started(a) => Started(a)'
  BY DEF Started
<1>2. ASSUME NEW a \in Actors PROVE LineageOK(a)'
  <2>1. LineageOK(a)
    BY DEF ActorsOK
  <2>2. QED
    BY <1>1, <2>1 DEF LineageOK
<1>3. ASSUME NEW a \in Actors PROVE AwaitsOK(a)'
  <2>1. AwaitsOK(a)
    BY DEF ActorsOK
  <2>2. CASE awaits'[a] = awaits[a]
    <3>1. ASSUME NEW f \in Requests, awaits'[a] = Handler(f)
          PROVE  /\ request'[f].state # "idle"
                 /\ lineage'[Handler(f)] = Context(a)' /\ Handler(f) \notin Context(a)'
      BY <2>1, <2>2, <3>1 DEF AwaitsOK, Context
    <3>2. ASSUME NEW m \in Nodes, NEW n \in Nodes, awaits'[a] = Factory(m), Pending(m)', Pending(n)', RunsIn(a, n)'
          PROVE  <<n, m>> \in waits'
      <4>1. <<n, m>> \in waits
        BY <2>1, <2>2, <3>2 DEF AwaitsOK, RunsIn, Context
      <4>2. QED
        BY <3>2, <4>1
    <3>3. \A m \in Nodes : awaits'[a] = Factory(m) => m <= attempts'
      BY <2>1, <2>2 DEF AwaitsOK
    <3>4. QED
      BY <3>1, <3>2, <3>3 DEF AwaitsOK
  <2>3. CASE awaits'[a] = None \/ awaits'[a] = Shutdown
    BY <2>3, ActorsDiffer, NoneDiffers DEF AwaitsOK
  <2>4. QED
    BY <2>2, <2>3
<1>4. WaitsOK'
  <2>1. {n \in Nodes : Pending(n)'} \subseteq {n \in Nodes : Pending(n)}
    OBVIOUS
  <2>2. WaitsOK
    BY DEF ActorsOK
  <2>3. ASSUME NEW S \in SUBSET {n \in Nodes : Pending(n)'}, S # {}
        PROVE  \E x \in S : \A w \in waits' : w[1] = x => w[2] \notin S
    <3>1. PICK x \in S : \A w \in waits : w[1] = x => w[2] \notin S
      BY <2>1, <2>2, <2>3 DEF WaitsOK
    <3>2. QED
      BY <3>1
  <2>4. QED
    BY <2>2, <2>3 DEF WaitsOK
<1>5. QED
  BY <1>2, <1>3, <1>4 DEF ActorsOK

(***************************************************************************)
(* Asking for a shutdown                                                   *)
(***************************************************************************)

LEMMA SameMoves == ASSUME NEW s \in Scopes, scope'[s] = scope[s] PROVE Moves(s) /\ (Live(s)' => Live(s))
BY DEF Moves, Live

LEMMA ClosedResult ==
  ASSUME scope \in [Scopes -> ScopeRecord], NEW s \in Scopes, scope' = Closed(s)
  PROVE  /\ scope' \in [Scopes -> ScopeRecord]
         /\ \A t \in Scopes : Moves(t) /\ (Live(t)' => Live(t))
         /\ \A t \in Scopes \ {s} : scope'[t] = scope[t]
         /\ \A t \in Scopes : scope[t].state # "Open" => scope'[t] = scope[t]
         /\ scope[s].state = "Open" => scope'[s].state = "Closing"
<1> DEFINE x == [scope[s] EXCEPT !.state = "Closing"]
<1>1. CASE scope[s].state = "Open"
  <2>1. scope' = [scope EXCEPT ![s] = x]
    BY <1>1, Zenon DEF Closed
  <2>2. x \in ScopeRecord /\ x.state = "Closing" /\ x.created = scope[s].created /\ x.disposing = scope[s].disposing
    BY DEF ScopeRecord
  <2> HIDE DEF x
  <2>3. /\ scope' \in [Scopes -> ScopeRecord] /\ scope'[s] = x
        /\ \A t \in Scopes \ {s} : scope'[t] = scope[t]
    BY <2>1, <2>2
  <2>4. Moves(s) /\ (Live(s)' => Live(s))
    BY <1>1, <2>2, <2>3 DEF Moves, Live
  <2>5. QED
    BY <1>1, <2>2, <2>3, <2>4, SameMoves
<1>2. CASE scope[s].state # "Open"
  <2>1. scope' = scope
    BY <1>2 DEF Closed
  <2>2. QED
    BY <1>2, <2>1, SameMoves
<1>3. QED
  BY <1>1, <1>2

LEMMA BeginPhase ==
  ASSUME PhaseOK, RegistryTypes, NEW f \in BOOLEAN, BeginShutdown(f), UNCHANGED <<scopes, request>>,
         scope'[Root] = scope[Root], \A s \in Scopes \ {Root} : Live(s)' => Live(s)
  PROVE  /\ PhaseOK' /\ RegistryTypes'
         /\ phase' \in {"singletons", "done"} <=> phase \in {"singletons", "done"}
<1>1. \A e \in Requests : Executing(e)' <=> Executing(e)
  BY DEF Executing
<1>2. CASE phase # "none"
  <2>1. UNCHANGED <<registry, phase, joining, closing, participant>> /\ failed' \in BOOLEAN
    BY <1>2 DEF BeginShutdown, RegistryTypes
  <2>2. PhaseOK'
    BY <1>1, <2>1, PhaseStays DEF PhaseOK
  <2>3. QED
    BY <2>1, <2>2 DEF RegistryTypes
<1>3. CASE phase = "none"
  <2>1. /\ registry' = "Draining" /\ joining' = {e \in Requests : Executing(e)} /\ closing' = scopes
        /\ phase' \in {"release", "executions"} /\ UNCHANGED participant /\ failed' \in BOOLEAN
    BY <1>3 DEF BeginShutdown, RegistryTypes
  <2>2. RegistryTypes'
    BY <2>1 DEF RegistryTypes, Phases
  <2>3. /\ scope[Root].state = "Open" /\ Root \notin Members(scopes)
        /\ \A s \in Scopes \ {Root} : Live(s) => s \in Members(scopes)
    BY <1>3 DEF PhaseOK, Last
  <2>4. \A s \in Scopes \ {Root} : Live(s)' => s \in Members(closing')
    BY <2>1, <2>3
  <2>5. PhaseOK'
    BY <1>1, <2>1, <2>3, <2>4 DEF PhaseOK, Past, Last
  <2>6. QED
    BY <1>3, <2>1, <2>2, <2>5
<1>4. QED
  BY <1>2, <1>3

\* The steps of a participant, of the phases and of the requests share most of
\* what they keep.
LEMMA StateStays ==
  ASSUME LifecycleInv, UNCHANGED <<scope, node, attempts, disposed, request>>
  PROVE  StateTypes'
BY DEF LifecycleInv, StateTypes

LEMMA SameState ==
  ASSUME LifecycleInv, UNCHANGED <<scope, node, attempts, disposed, request>>,
         phase' \in {"singletons", "done"} <=> phase \in {"singletons", "done"}
  PROVE  ServicesOK'
<1>1. \A s \in Scopes : Moves(s)
  BY SameMoves
<1>2. \A e \in Requests : RequestOK(e)'
  BY DEF LifecycleInv, ServicesOK, RequestOK
<1>3. QED
  BY <1>1, <1>2, ServicesStay DEF LifecycleInv

LEMMA SameActors ==
  ASSUME LifecycleInv, UNCHANGED <<node, attempts, disposed, request, actorVars, waits, hostAwaits, uses>>,
         \A s \in Scopes : scope'[s].created = scope[s].created
  PROVE  ActorTypes' /\ UsesOK' /\ ActorsOK'
<1> USE DEF actorVars
<1>1. ActorTypes'
  BY DEF LifecycleInv, ActorTypes
<1>2. UsesOK'
  BY UsesStay DEF LifecycleInv, ActorTypes
<1>3. \A n \in Nodes : Pending(n)' => Pending(n)
  BY DEF Pending
<1>4. ActorsOK'
  BY <1>3, ActorsStay DEF LifecycleInv
<1>5. QED
  BY <1>1, <1>2, <1>4

\* awaits[a] becomes b.
LEMMA AwaitsResult ==
  ASSUME ActorTypes, NEW a \in Actors, NEW b, awaits' = [awaits EXCEPT ![a] = b]
  PROVE  /\ awaits'[a] = b /\ \A c \in Actors \ {a} : awaits'[c] = awaits[c]
         /\ b \in Handlers \cup Factories \cup {None, Shutdown} =>
              awaits' \in [Actors -> Handlers \cup Factories \cup {None, Shutdown}]
BY DEF ActorTypes

LEMMA FreeStarted == 
  ASSUME LifecycleInv, NEW a \in Actors, Free(a) 
  PROVE  Started(a)
<1>1. Alive(a)
  BY DEF Free
<1>2. ASSUME NEW n \in Nodes, Pending(n) PROVE n <= attempts
  BY <1>2 DEF LifecycleInv, ServicesOK, NodeOK, Pending
<1>3. QED
  BY <1>1, <1>2, AliveStarted DEF Started

LEMMA DisposeKeeps == ASSUME LifecycleInv, NEW a \in Actors \cup {Host}, Dispose(a) PROVE LifecycleInv'
<1>1. /\ UNCHANGED <<scopes, scope, node, attempts, waits, request, lineage, hostAwaits, uses, disposed>>
      /\ BeginShutdown(FALSE)
  BY DEF Dispose
<1>2. /\ PhaseOK' /\ RegistryTypes'
      /\ phase' \in {"singletons", "done"} <=> phase \in {"singletons", "done"}
  BY <1>1, BeginPhase DEF LifecycleInv, Live
<1>3. StateTypes' /\ ServicesOK'
  BY <1>1, <1>2, StateStays, SameState
<1>4. CASE a = Host
  BY <1>1, <1>2, <1>3, <1>4, SameActors DEF Dispose, actorVars, LifecycleInv
<1>5. CASE a # Host
  <2>1. a \in Actors /\ Free(a) /\ awaits' = [awaits EXCEPT ![a] = Shutdown]
    BY <1>5 DEF Dispose
  <2>2. /\ awaits'[a] = Shutdown /\ \A c \in Actors \ {a} : awaits'[c] = awaits[c]
        /\ awaits' \in [Actors -> Handlers \cup Factories \cup {None, Shutdown}]
    BY <2>1, AwaitsResult DEF LifecycleInv
  <2>3. ActorTypes'
    BY <1>1, <2>2 DEF LifecycleInv, ActorTypes
  <2>4. \A n \in Nodes : awaits'[Factory(n)] = awaits[Factory(n)] \/ Free(Factory(n))
    BY <2>1, <2>2, ActorsDiffer
  <2>5. UsesOK'
    BY <1>1, <2>4, UsesStay DEF LifecycleInv, ActorTypes
  <2>6. \A n \in Nodes : Pending(n)' => Pending(n)
    BY <1>1 DEF Pending
  <2>7. ActorsOK'
    BY <1>1, <2>1, <2>2, <2>6, FreeStarted, ActorsStay DEF LifecycleInv
  <2>8. QED
    BY <1>2, <1>3, <2>3, <2>5, <2>7 DEF LifecycleInv
<1>6. QED
  BY <1>4, <1>5

(***************************************************************************)
(* Participants, requests and the phases                                   *)
(***************************************************************************)

LEMMA ParticipantKeeps ==
  ASSUME LifecycleInv, addShutdownParticipant \/ removeShutdownParticipant
  PROVE  LifecycleInv'
<1> USE DEF addShutdownParticipant, removeShutdownParticipant
<1>1. StateTypes' /\ ServicesOK'
  BY StateStays, SameState
<1>2. ActorTypes' /\ UsesOK' /\ ActorsOK'
  BY SameActors
<1>3. RegistryTypes'
  BY DEF LifecycleInv, RegistryTypes
<1>4. PhaseOK'
  BY PhaseStays DEF LifecycleInv, PhaseOK, Live, Executing
<1>5. QED
  BY <1>1, <1>2, <1>3, <1>4 DEF LifecycleInv

Middle == Phases \ ({"none"} \cup Last)

LEMMA AdvanceKeeps ==
  ASSUME LifecycleInv, NEW from \in Middle, NEW to \in Middle, Advance(from, to),
         to \in Past => \A e \in Requests : ~Executing(e)
  PROVE  LifecycleInv'
<1>1. /\ phase = from /\ phase' = to
      /\ UNCHANGED <<registry, failed, participant, joining, closing, scopes, scope, node, attempts, waits, request,
                     actorVars, hostAwaits, uses, disposed>>
  BY DEF Advance
<1>2. phase \notin {"singletons", "done"} /\ phase' \notin {"singletons", "done"}
  BY <1>1 DEF Middle, Last
<1>3. StateTypes' /\ ServicesOK'
  BY <1>1, <1>2, StateStays, SameState
<1>4. ActorTypes' /\ UsesOK' /\ ActorsOK'
  BY <1>1, SameActors
<1>5. RegistryTypes'
  BY <1>1 DEF LifecycleInv, RegistryTypes, Middle
<1>6. PhaseOK'
  <2>1. \A e \in Requests : Executing(e)' <=> Executing(e)
    BY <1>1 DEF Executing
  <2>2. \A s \in Scopes : Live(s)' <=> Live(s)
    BY <1>1 DEF Live
  <2>3. /\ phase # "none" /\ phase' # "none" /\ phase \notin Last /\ phase' \notin Last
        /\ phase # "done" /\ phase' # "done"
    BY <1>1 DEF Middle, Last
  <2>4. phase' \notin {"root", "singletons", "done"}
    BY <2>3 DEF Last
  <2>5. QED
    BY <1>1, <2>1, <2>2, <2>3, <2>4 DEF LifecycleInv, PhaseOK
<1>7. QED
  BY <1>3, <1>4, <1>5, <1>6 DEF LifecycleInv

LEMMA PhasesAdvance ==
  ASSUME LifecycleInv,
         \/ TransportsReleased \/ ParticipantStopped \/ ParticipantDrained \/ WorkSettled \/ ExecutionsSettled
         \/ SessionScopesSettled
  PROVE  LifecycleInv'
<1>1. {"release", "stopping", "draining", "work", "executions", "sessions", "scopes"} \subseteq Middle
  BY DEF Middle, Phases, Last
<1>2. {"release", "stopping", "draining", "work", "executions"} \cap Past = {}
  BY DEF Past
<1>3. CASE TransportsReleased \/ ParticipantStopped \/ ParticipantDrained \/ WorkSettled
  BY <1>1, <1>2, <1>3, AdvanceKeeps DEF TransportsReleased, ParticipantStopped, ParticipantDrained, WorkSettled
<1>4. CASE ExecutionsSettled
  <2>1. phase = "executions" /\ \A e \in joining : ~Executing(e)
    BY <1>4 DEF ExecutionsSettled, Advance
  <2>2. \A e \in Requests : ~Executing(e)
    BY <2>1 DEF LifecycleInv, PhaseOK
  <2>3. PICK to \in {"sessions", "scopes"} : Advance("executions", to)
    BY <1>4 DEF ExecutionsSettled
  <2>4. QED
    BY <1>1, <2>2, <2>3, AdvanceKeeps
<1>5. CASE SessionScopesSettled
  <2>1. Advance("sessions", "scopes") /\ phase = "sessions"
    BY <1>5 DEF SessionScopesSettled, Advance
  <2>2. \A e \in Requests : ~Executing(e)
    BY <2>1 DEF LifecycleInv, PhaseOK, Past
  <2>3. QED
    BY <1>1, <2>1, <2>2, AdvanceKeeps
<1>6. QED
  BY <1>3, <1>4, <1>5

\* A request goes on to state x, without running.
LEMMA RequestResult ==
  ASSUME StateTypes, NEW e \in Requests, NEW x \in {"closing", "joining", "done"},
         request' = [request EXCEPT ![e].state = x]
  PROVE  /\ request' \in [Requests -> RequestRecord]
         /\ request'[e].state = x /\ request'[e].scope = request[e].scope
         /\ \A f \in Requests \ {e} : request'[f] = request[f]
         /\ \A f \in Requests : request'[f].scope \in {f, HostScope}
<1> DEFINE r == [request[e] EXCEPT !.state = x]
<1>1. request' = [request EXCEPT ![e] = r]
  BY Zenon
<1>2. r \in RequestRecord /\ r.state = x /\ r.scope = request[e].scope
  BY DEF StateTypes, RequestRecord
<1> HIDE DEF r
<1>3. /\ request' \in [Requests -> RequestRecord] /\ request'[e] = r
      /\ \A f \in Requests \ {e} : request'[f] = request[f]
  BY <1>1, <1>2 DEF StateTypes
<1>4. QED
  BY <1>2, <1>3 DEF StateTypes

LEMMA RequestEndsKeeps ==
  ASSUME LifecycleInv, NEW e \in Requests, RequestDrained(e) \/ RequestReturns(e)
  PROVE  LifecycleInv'
<1>1. PICK x \in {"joining", "done"} : request' = [request EXCEPT ![e].state = x]
  BY DEF RequestDrained, RequestReturns
<1>2. /\ request[e].state \in {"closing", "joining"}
      /\ UNCHANGED <<registryVars, scopes, scope, node, attempts, waits, actorVars, hostAwaits, uses, disposed>>
  BY DEF RequestDrained, RequestReturns
<1> USE <1>2 DEF registryVars, actorVars
<1>3. /\ request' \in [Requests -> RequestRecord]
      /\ request'[e].state = x /\ request'[e].scope = request[e].scope
      /\ \A f \in Requests \ {e} : request'[f] = request[f]
      /\ \A f \in Requests : request'[f].scope \in {f, HostScope}
  BY <1>1, RequestResult DEF LifecycleInv
<1>4. StateTypes' /\ RegistryTypes' /\ ActorTypes'
  BY <1>3 DEF LifecycleInv, StateTypes, RegistryTypes, ActorTypes
<1>5. PhaseOK'
  <2>1. \A f \in Requests : Executing(f)' => Executing(f)
    BY <1>3 DEF Executing
  <2>2. QED
    BY <2>1, PhaseStays DEF LifecycleInv, PhaseOK, Live
<1>6. ServicesOK'
  <2>1. \A f \in Requests : RequestOK(f)'
    BY <1>3 DEF LifecycleInv, ServicesOK, RequestOK
  <2>2. QED
    BY <2>1, SameMoves, ServicesStay DEF LifecycleInv
<1>7. UsesOK'
  <2>1. \A f \in Requests : (\E m \in Nodes : <<Handler(f), m>> \in uses) => request[f].state = "running"
    BY DEF LifecycleInv, UsesOK, UseOK
  <2>2. \A f \in Requests : (\E m \in Nodes : <<Handler(f), m>> \in uses) => request'[f] = request[f]
    BY <2>1, <1>3
  <2>3. QED
    BY <2>2, UsesStay DEF LifecycleInv, ActorTypes
<1>8. ActorsOK'
  <2>1. \A f \in Requests : request[f].state # "idle" => request'[f].state # "idle"
    BY <1>3
  <2>2. QED
    BY <2>1, ActorsStay DEF LifecycleInv, Pending
<1>9. QED
  BY <1>4, <1>5, <1>6, <1>7, <1>8 DEF LifecycleInv

LEMMA ScopesDiffer ==
  /\ Root \in Scopes /\ HostScope \in Scopes /\ HostScope # Root
  /\ \A e \in Requests : e \in Scopes /\ e # Root /\ e # HostScope
BY ScopesDistinct DEF Scopes

LEMMA HandlerSettlesKeeps == ASSUME LifecycleInv, NEW e \in Requests, HandlerSettles(e) PROVE LifecycleInv'
<1>1. /\ Free(Handler(e)) /\ awaits' = [awaits EXCEPT ![Handler(e)] = None]
      /\ uses' = {u \in uses : u[1] # Handler(e)}
      /\ UNCHANGED <<registry, failed, phase, participant, joining, closing, scopes, node,
                     attempts, waits, hostAwaits,
                     disposed, lineage>>
  BY DEF HandlerSettles, Ends, registryVars
<1>2. request[e].state = "running"
  BY <1>1, AliveStarted DEF Free
<1>3. PICK x \in {"closing", "done"} : request' = [request EXCEPT ![e].state = x]
  BY DEF HandlerSettles
<1>4. scope' = Closed(e) \/ scope' = scope
  BY DEF HandlerSettles
<1>5. /\ request' \in [Requests -> RequestRecord]
      /\ request'[e].state = x /\ request'[e].scope = request[e].scope
      /\ \A f \in Requests \ {e} : request'[f] = request[f]
      /\ \A f \in Requests : request'[f].scope \in {f, HostScope}
  BY <1>3, RequestResult DEF LifecycleInv
<1>6. /\ scope' \in [Scopes -> ScopeRecord]
      /\ \A t \in Scopes : Moves(t) /\ (Live(t)' => Live(t))
      /\ \A t \in Scopes \ {e} : scope'[t] = scope[t]
  BY <1>4, ScopesDiffer, ClosedResult, SameMoves DEF LifecycleInv, StateTypes
<1>7. StateTypes' /\ RegistryTypes'
  BY <1>1, <1>5, <1>6 DEF LifecycleInv, StateTypes, RegistryTypes
<1>8. /\ awaits'[Handler(e)] = None /\ \A c \in Actors \ {Handler(e)} : awaits'[c] = awaits[c]
      /\ awaits' \in [Actors -> Handlers \cup Factories \cup {None, Shutdown}]
  BY <1>1, AwaitsResult, ActorsDiffer DEF LifecycleInv
<1>9. ActorTypes'
  BY <1>1, <1>8 DEF LifecycleInv, ActorTypes
<1>10. PhaseOK'
  <2>1. \A f \in Requests : Executing(f)' => Executing(f)
    BY <1>2, <1>5 DEF Executing
  <2>2. scope'[Root] = scope[Root] /\ Root \notin Members(scopes)
    BY <1>6, ScopesDiffer DEF LifecycleInv, PhaseOK
  <2>3. QED
    BY <1>1, <1>6, <2>1, <2>2, PhaseStays DEF LifecycleInv
<1>11. ServicesOK'
  <2>1. ASSUME NEW f \in Requests PROVE RequestOK(f)'
    <3>1. RequestOK(f)
      BY DEF LifecycleInv, ServicesOK
    <3>2. CASE f = e
      BY <1>5, <3>2 DEF RequestOK
    <3>3. CASE f # e
      BY <1>5, <1>6, <3>1, <3>3, ScopesDiffer DEF RequestOK
    <3>4. QED
      BY <3>2, <3>3
  <2>2. QED
    BY <1>1, <1>6, <2>1, ServicesStay DEF LifecycleInv
<1>12. UsesOK'
  <2>1. \A f \in Requests : (\E m \in Nodes : <<Handler(f), m>> \in uses') => request'[f] = request[f]
    BY <1>1, <1>5
  <2>2. \A n \in Nodes : awaits'[Factory(n)] = awaits[Factory(n)]
    BY <1>8, ActorsDiffer
  <2>3. \A s \in Scopes : scope'[s].created = scope[s].created
    BY <1>6 DEF Moves
  <2>4. QED
    BY <1>1, <2>1, <2>2, <2>3, UsesStay DEF LifecycleInv, ActorTypes
<1>13. ActorsOK'
  <2>1. \A f \in Requests : request[f].state # "idle" => request'[f].state # "idle"
    BY <1>5
  <2>2. \A a \in Actors : awaits'[a] = awaits[a] \/ awaits'[a] = None
    BY <1>8
  <2>3. QED
    BY <1>1, <2>1, <2>2, ActorsStay DEF LifecycleInv, Pending
<1>14. QED
  BY <1>7, <1>9, <1>10, <1>11, <1>12, <1>13 DEF LifecycleInv

\* A scope opens.
LEMMA OpenedResult ==
  ASSUME scope \in [Scopes -> ScopeRecord], NEW s \in Scopes, ScopeOK(s), scope[s].state = "none",
         scope' = [scope EXCEPT ![s] = OpenScope]
  PROVE  /\ scope' \in [Scopes -> ScopeRecord] /\ scope'[s].state = "Open"
         /\ \A t \in Scopes \ {s} : scope'[t] = scope[t]
         /\ \A t \in Scopes : Moves(t)
<1>1. /\ OpenScope \in ScopeRecord /\ OpenScope.state = "Open" /\ OpenScope.created = <<>>
      /\ OpenScope.disposing = 0
  BY DEF OpenScope, ScopeRecord
<1>2. /\ scope' \in [Scopes -> ScopeRecord] /\ scope'[s] = OpenScope
      /\ \A t \in Scopes \ {s} : scope'[t] = scope[t]
  BY <1>1
<1>3. Moves(s)
  BY <1>1, <1>2 DEF Moves, ScopeOK
<1>4. QED
  BY <1>1, <1>2, <1>3, SameMoves

LEMMA HostScopeKeeps == ASSUME LifecycleInv, createScope \/ HostDisposes PROVE LifecycleInv'
<1>1. UNCHANGED <<registryVars, node, attempts, waits, request, actorVars, hostAwaits, uses, disposed>>
  BY DEF createScope, HostDisposes
<1> USE <1>1 DEF registryVars, actorVars
<1>2. /\ scope' \in [Scopes -> ScopeRecord] /\ \A t \in Scopes : Moves(t)
      /\ \A t \in Scopes \ {HostScope} : scope'[t] = scope[t]
      /\ \/ scopes' = scopes /\ (Live(HostScope)' => Live(HostScope))
         \/ scopes' = Append(scopes, HostScope) /\ phase = "none"
  <2>1. CASE createScope
    <3>1. phase = "none" /\ scopes' = Append(scopes, HostScope)
      BY <2>1 DEF createScope, assertLive, LifecycleInv, PhaseOK
    <3>2. QED
      BY <2>1, <3>1, OpenedResult, ScopesDiffer DEF createScope, LifecycleInv, StateTypes, ServicesOK
  <2>2. CASE HostDisposes
    BY <2>2, ClosedResult, ScopesDiffer DEF HostDisposes, LifecycleInv, StateTypes
  <2>3. QED
    BY <2>1, <2>2
<1>3. scopes' \in Seq(Scopes) /\ Members(scopes') \in SUBSET (Members(scopes) \cup {HostScope})
      /\ Members(scopes) \subseteq Members(scopes')
      /\ (scopes' = Append(scopes, HostScope) => HostScope \in Members(scopes'))
  <2>1. scopes \in Seq(Scopes) /\ HostScope \in Scopes
    BY ScopesDiffer DEF LifecycleInv, RegistryTypes
  <2>2. Append(scopes, HostScope) \in Seq(Scopes)
        /\ Members(Append(scopes, HostScope)) = Members(scopes) \cup {HostScope}
    BY <2>1, AppendResult
  <2>3. CASE scopes' = scopes /\ scopes' # Append(scopes, HostScope)
    BY <2>1, <2>3 DEF Members
  <2>4. CASE scopes' = Append(scopes, HostScope)
    <3>1. Members(scopes') = Members(scopes) \cup {HostScope}
      BY <2>2, <2>4
    <3>2. QED
      BY <2>2, <2>4, <3>1
  <2>5. QED
    BY <1>2, <2>3, <2>4
<1>4. StateTypes' /\ RegistryTypes'
  BY <1>2, <1>3 DEF LifecycleInv, StateTypes, RegistryTypes
<1>5. ActorTypes' /\ UsesOK' /\ ActorsOK'
  BY <1>2, SameActors DEF Moves
<1>6. PhaseOK'
  <2>1. Root \notin Members(scopes') /\ scope'[Root] = scope[Root]
    BY <1>2, <1>3, ScopesDiffer DEF LifecycleInv, PhaseOK
  <2>2. ASSUME NEW s \in Scopes \ {Root}, Live(s)'
        PROVE  \/ Live(s) /\ (s \in Members(scopes) => s \in Members(scopes'))
               \/ phase = "none" /\ s \in Members(scopes')
    <3>1. CASE s = HostScope
      BY <1>2, <1>3, <2>2, <3>1
    <3>2. CASE s # HostScope
      BY <1>2, <1>3, <2>2, <3>2 DEF Live
    <3>3. QED
      BY <3>1, <3>2
  <2>3. \A e \in Requests : Executing(e)' => Executing(e)
    BY DEF Executing
  <2>4. QED
    BY <2>1, <2>2, <2>3, PhaseStays DEF LifecycleInv
<1>7. ServicesOK'
  <2>1. \A e \in Requests : RequestOK(e)'
    BY <1>2, ScopesDiffer DEF LifecycleInv, ServicesOK, RequestOK
  <2>2. QED
    BY <1>2, <2>1, ServicesStay DEF LifecycleInv
<1>8. QED
  BY <1>4, <1>5, <1>6, <1>7 DEF LifecycleInv

(***************************************************************************)
(* The shutdown closes the scopes and the singletons                       *)
(***************************************************************************)

\* A scope that begins to close while nothing executes, or that is no request's.
LEMMA ClosedServices ==
  ASSUME LifecycleInv, NEW s \in Scopes, scope' = Closed(s), UNCHANGED <<node, attempts, disposed, request>>,
         phase' \in {"singletons", "done"} <=> phase \in {"singletons", "done"},
         phase \in Past \/ s \notin Requests
  PROVE  StateTypes' /\ ServicesOK'
<1>1. /\ scope' \in [Scopes -> ScopeRecord]
      /\ \A t \in Scopes : Moves(t)
      /\ \A t \in Scopes \ {s} : scope'[t] = scope[t]
      /\ \A t \in Scopes : scope[t].state # "Open" => scope'[t] = scope[t]
  BY ClosedResult DEF LifecycleInv, StateTypes
<1>2. StateTypes'
  BY <1>1 DEF LifecycleInv, StateTypes
<1>3. ASSUME NEW e \in Requests PROVE RequestOK(e)'
  <2>1. RequestOK(e) /\ e \in Scopes
    BY ScopesDiffer DEF LifecycleInv, ServicesOK
  <2>2. request[e].state = "running" => phase \notin Past
    BY DEF LifecycleInv, PhaseOK, Executing
  <2>3. QED
    BY <1>1, <2>1, <2>2 DEF RequestOK
<1>4. ServicesOK'
  BY <1>1, <1>3, ServicesStay DEF LifecycleInv
<1>5. QED
  BY <1>2, <1>4

LEMMA CloseNextKeeps == ASSUME LifecycleInv, CloseNextScope PROVE LifecycleInv'
<1> DEFINE s == Head(closing)
<1>1. /\ phase = "scopes" /\ closing # <<>>
      /\ UNCHANGED <<registry, failed, phase, participant, joining, scopes, node, attempts, waits, request, actorVars,
                     hostAwaits, uses, disposed>>
      /\ \/ scope[s].state = "Open" /\ scope' = Closed(s) /\ UNCHANGED closing
         \/ scope[s].state = "Closed" /\ closing' = Tail(closing) /\ UNCHANGED scope
  BY DEF CloseNextScope
<1>2. Tail(closing) \in Seq(Scopes) /\ Members(Tail(closing)) \cup {s} = Members(closing) /\ s \in Scopes
  <2>1. closing \in Seq(Scopes)
    BY DEF LifecycleInv, RegistryTypes
  <2>2. QED
    BY <1>1, <2>1, TailResult
<1> HIDE DEF s
<1>3. s # Root /\ Root \notin Members(closing)
  BY <1>2 DEF LifecycleInv, PhaseOK
<1>4. \A e \in Requests : Executing(e)' <=> Executing(e)
  BY <1>1 DEF Executing
<1>5. CASE scope[s].state = "Open" /\ scope' = Closed(s) /\ UNCHANGED closing
  <2>1. /\ \A t \in Scopes : Moves(t) /\ (Live(t)' => Live(t))
        /\ \A t \in Scopes \ {s} : scope'[t] = scope[t]
    BY <1>2, <1>5, ClosedResult DEF LifecycleInv, StateTypes
  <2>2. StateTypes' /\ ServicesOK'
    BY <1>1, <1>2, <1>5, ClosedServices DEF Past
  <2>3. ActorTypes' /\ UsesOK' /\ ActorsOK'
    BY <1>1, <2>1, SameActors DEF Moves
  <2>4. RegistryTypes'
    BY <1>1, <1>5 DEF LifecycleInv, RegistryTypes
  <2>5. scope'[Root] = scope[Root] /\ Root \notin Members(scopes)
    BY <1>3, <2>1, ScopesDiffer DEF LifecycleInv, PhaseOK
  <2>6. PhaseOK'
    BY <1>1, <1>4, <1>5, <2>1, <2>5, PhaseStays DEF LifecycleInv
  <2>7. QED
    BY <2>2, <2>3, <2>4, <2>6 DEF LifecycleInv
<1>6. CASE scope[s].state = "Closed" /\ closing' = Tail(closing) /\ UNCHANGED scope
  <2>1. StateTypes' /\ ServicesOK'
    BY <1>1, <1>6, StateStays, SameState
  <2>2. ActorTypes' /\ UsesOK' /\ ActorsOK'
    BY <1>1, <1>6, SameActors
  <2>3. RegistryTypes'
    BY <1>1, <1>2, <1>6 DEF LifecycleInv, RegistryTypes
  <2>4. \A t \in Scopes \ {Root} : Live(t)' => t \in Members(closing')
    BY <1>1, <1>2, <1>6 DEF LifecycleInv, PhaseOK, Live
  <2>5. Root \notin Members(closing') /\ Root \notin Members(scopes')
    BY <1>1, <1>2, <1>3, <1>6 DEF LifecycleInv, PhaseOK
  <2>6. PhaseOK'
    BY <1>1, <1>4, <1>6, <2>4, <2>5 DEF LifecycleInv, PhaseOK, Last
  <2>7. QED
    BY <2>1, <2>2, <2>3, <2>6 DEF LifecycleInv
<1>7. QED
  BY <1>1, <1>5, <1>6

LEMMA CloseSingletonsKeeps == ASSUME LifecycleInv, CloseSingletons PROVE LifecycleInv'
<1>1. /\ phase = "scopes" /\ closing = <<>> /\ phase' = "root" /\ scope' = Closed(Root)
      /\ UNCHANGED <<registry, failed, participant, joining, closing, scopes, node, attempts,
                     waits, request, actorVars,
                     hostAwaits, uses, disposed>>
  BY DEF CloseSingletons
<1>2. scope[Root].state = "Open" /\ scope[Root].disposing = 0
  BY <1>1, ScopesDiffer DEF LifecycleInv, PhaseOK, Last, ServicesOK, ScopeOK
<1>3. /\ \A t \in Scopes : Moves(t) /\ (Live(t)' => Live(t))
      /\ scope'[Root].state = "Closing"
  BY <1>1, <1>2, ClosedResult, ScopesDiffer DEF LifecycleInv, StateTypes
<1>4. StateTypes' /\ ServicesOK'
  BY <1>1, ClosedServices, ScopesDiffer
<1>5. ActorTypes' /\ UsesOK' /\ ActorsOK'
  BY <1>1, <1>3, SameActors DEF Moves
<1>6. RegistryTypes'
  BY <1>1 DEF LifecycleInv, RegistryTypes, Phases
<1>7. PhaseOK'
  <2>1. \A e \in Requests : ~Executing(e)'
    BY <1>1 DEF LifecycleInv, PhaseOK, Executing, Past
  <2>2. \A t \in Scopes \ {Root} : Live(t)' => t \in Members(closing')
    BY <1>1, <1>3 DEF LifecycleInv, PhaseOK
  <2>3. scope'[Root].disposing = 0
    BY <1>2, <1>3, ScopesDiffer DEF Moves
  <2>4. QED
    BY <1>1, <1>3, <2>1, <2>2, <2>3 DEF LifecycleInv, PhaseOK, Last
<1>8. QED
  BY <1>4, <1>5, <1>6, <1>7 DEF LifecycleInv

LEMMA ShutdownEndsKeeps == ASSUME LifecycleInv, ShutdownEnds PROVE LifecycleInv'
<1>1. /\ phase = "singletons" /\ scope[Root].disposing = 0
      /\ phase' = "done" /\ registry' = "Closed" /\ waits' = {}
      /\ UNCHANGED <<failed, participant, joining, closing, scopes, scope, node, attempts, request, actorVars,
                     hostAwaits, uses, disposed>>
  BY DEF ShutdownEnds
<1>2. StateTypes' /\ ServicesOK'
  BY <1>1, StateStays, SameState
<1>3. RegistryTypes' /\ ActorTypes'
  BY <1>1 DEF LifecycleInv, RegistryTypes, ActorTypes, Phases, actorVars
<1>4. PhaseOK'
  <2>1. \A e \in Requests : Executing(e)' <=> Executing(e)
    BY <1>1 DEF Executing
  <2>2. \A s \in Scopes : Live(s)' <=> Live(s)
    BY <1>1 DEF Live
  <2>3. QED
    BY <1>1, <2>1, <2>2 DEF LifecycleInv, PhaseOK, Past, Last
<1>5. ASSUME NEW n \in Nodes PROVE ~Pending(n)
  <2>1. SUFFICES ASSUME Pending(n) PROVE FALSE
    OBVIOUS
  <2> DEFINE s == node[n].scope
  <2>2. s \in Scopes /\ n \in PendingIn(s)
    BY <2>1 DEF LifecycleInv, ServicesOK, NodeOK, Pending, PendingIn
  <2>3. scope[s].state \in {"none", "Closed"}
    <3>1. s = Root => scope[s].state = "Closed"
      BY <1>1 DEF LifecycleInv, PhaseOK
    <3>2. s # Root => ~Live(s)
      BY <1>1, <2>2 DEF LifecycleInv, PhaseOK, Last, Members
    <3>3. scope[s].state \in {"none", "Open", "Closing", "Closed"}
      BY <2>2 DEF LifecycleInv, StateTypes, ScopeRecord
    <3>4. QED
      BY <3>1, <3>2, <3>3 DEF Live
  <2>4. QED
    BY <2>2, <2>3 DEF LifecycleInv, ServicesOK, ScopeOK
<1>6. UsesOK'
  BY <1>1, UsesStay DEF LifecycleInv, ActorTypes, actorVars
<1>7. ActorsOK'
  <2>1. \A w \in waits : w[2] \in Nodes
    BY DEF LifecycleInv, ActorTypes
  <2>2. \A w \in waits : ~Pending(w[2])'
    BY <1>1, <1>5, <2>1 DEF Pending
  <2>3. \A n \in Nodes : Pending(n)' => Pending(n)
    BY <1>1 DEF Pending
  <2>4. QED
    BY <1>1, <2>2, <2>3, ActorsStay DEF LifecycleInv, actorVars
<1>8. QED
  BY <1>2, <1>3, <1>4, <1>6, <1>7 DEF LifecycleInv

(***************************************************************************)
(* A scope disposes its services                                           *)
(***************************************************************************)

LEMMA DisposeNextResult ==
  ASSUME StateTypes, NEW s \in Scopes, DisposeNext(s)
  PROVE  /\ scope' \in [Scopes -> ScopeRecord] /\ disposed' \in Seq(Nodes)
         /\ \A t \in Scopes \ {s} : scope'[t] = scope[t]
         /\ \/ /\ scope[s].created = <<>> /\ disposed' = disposed
               /\ scope'[s].state = "Closed" /\ scope'[s].disposing = 0 /\ scope'[s].created = <<>>
            \/ LET left == scope[s].created IN
               /\ left # <<>> /\ disposed' = Append(disposed, left[Len(left)])
               /\ scope'[s].state = scope[s].state /\ scope'[s].disposing = left[Len(left)]
               /\ scope'[s].created = SubSeq(left, 1, Len(left) - 1)
<1> DEFINE left == scope[s].created
           next == left[Len(left)]
           r == [scope[s] EXCEPT !.state = "Closed", !.disposing = 0]
           q == [scope[s] EXCEPT !.created = SubSeq(left, 1, Len(left) - 1), !.disposing = next]
<1>1. scope \in [Scopes -> ScopeRecord] /\ left \in Seq(Nodes) /\ disposed \in Seq(Nodes)
  BY DEF StateTypes, ScopeRecord
<1>2. CASE left = <<>>
  <2>1. scope' = [scope EXCEPT ![s] = r] /\ disposed' = disposed
    BY <1>2, Zenon DEF DisposeNext
  <2>2. r \in ScopeRecord /\ r.state = "Closed" /\ r.disposing = 0 /\ r.created = left
    BY <1>1 DEF ScopeRecord
  <2> HIDE DEF r
  <2>3. scope' \in [Scopes -> ScopeRecord] /\ scope'[s] = r /\ \A t \in Scopes \ {s} : scope'[t] = scope[t]
    BY <1>1, <2>1, <2>2
  <2>4. QED
    BY <1>1, <1>2, <2>1, <2>2, <2>3
<1>3. CASE left # <<>>
  <2>1. scope' = [scope EXCEPT ![s] = q] /\ disposed' = Append(disposed, next)
    BY <1>3, Zenon DEF DisposeNext
  <2>2. next \in Nodes /\ SubSeq(left, 1, Len(left) - 1) \in Seq(Nodes)
    BY <1>1, <1>3, FrontResult
  <2> HIDE DEF left, next
  <2>3. q.created = SubSeq(left, 1, Len(left) - 1) /\ q.disposing = next /\ q.state = scope[s].state
    BY <1>1 DEF ScopeRecord
  <2>4. q \in ScopeRecord
    BY <1>1, <2>2 DEF ScopeRecord
  <2> HIDE DEF q
  <2>5. scope' \in [Scopes -> ScopeRecord] /\ scope'[s] = q /\ \A t \in Scopes \ {s} : scope'[t] = scope[t]
    BY <1>1, <2>1, <2>4
  <2>6. disposed' \in Seq(Nodes)
    BY <1>1, <2>1, <2>2
  <2>7. QED
    BY <1>3, <2>1, <2>3, <2>5, <2>6 DEF left, next
<1>4. QED
  BY <1>2, <1>3

\* Scope s may dispose its services: no attempt is pending in it, and when it is
\* the scope of the singletons every other scope is done.
MayReclaim(s) ==
  \/ s # Root /\ scope[s].state = "Closing" /\ phase' = phase
  \/ s = Root /\ scope[s].state = "Closed" /\ phase \in {"root", "singletons"} /\ phase' = "singletons"

LEMMA ReclaimServices ==
  ASSUME LifecycleInv, NEW s \in Scopes, DisposeNext(s), MayReclaim(s), PendingIn(s) = {},
         UNCHANGED <<node, attempts, request>>
  PROVE  StateTypes' /\ ServicesOK'
<1> DEFINE left == scope[s].created
           next == left[Len(left)]
<1>1. /\ scope' \in [Scopes -> ScopeRecord] /\ disposed' \in Seq(Nodes)
      /\ \A t \in Scopes \ {s} : scope'[t] = scope[t]
      /\ \/ /\ left = <<>> /\ disposed' = disposed
            /\ scope'[s].state = "Closed" /\ scope'[s].disposing = 0 /\ scope'[s].created = <<>>
         \/ /\ left # <<>> /\ disposed' = Append(disposed, next)
            /\ scope'[s].state = scope[s].state /\ scope'[s].disposing = next
            /\ scope'[s].created = SubSeq(left, 1, Len(left) - 1)
  BY DisposeNextResult DEF LifecycleInv
<1>2. StateTypes'
  BY <1>1 DEF LifecycleInv, StateTypes
<1>3. /\ \A t \in Scopes : PendingIn(t)' = PendingIn(t)
      /\ Owned' = Owned
  BY DEF PendingIn, Pending, Owned
<1>4. \A t \in Scopes : ScopeOK(t) /\ CreatedOK(t)
  BY DEF LifecycleInv, ServicesOK
<1>5. left \in Seq(Nodes) /\ disposed \in Seq(Nodes)
  BY DEF LifecycleInv, StateTypes, ScopeRecord
<1>6. left # <<>> =>
        /\ next \in Nodes /\ next # 0 /\ next \in Owned /\ node[next].scope = s /\ next \notin Members(disposed)
        /\ Members(disposed') = Members(disposed) \cup {next}
        /\ Len(left) \in Nat \ {0} /\ DOMAIN left = 1..Len(left)
        /\ DOMAIN SubSeq(left, 1, Len(left) - 1) = 1..Len(left) - 1
        /\ \A i \in 1..Len(left) - 1 : SubSeq(left, 1, Len(left) - 1)[i] = left[i]
  <2> SUFFICES ASSUME left # <<>>
               PROVE  /\ next \in Nodes /\ next # 0 /\ next \in Owned /\ node[next].scope = s
                      /\ next \notin Members(disposed)
                      /\ Members(disposed') = Members(disposed) \cup {next}
                      /\ Len(left) \in Nat \ {0} /\ DOMAIN left = 1..Len(left)
                      /\ DOMAIN SubSeq(left, 1, Len(left) - 1) = 1..Len(left) - 1
                      /\ \A i \in 1..Len(left) - 1 : SubSeq(left, 1, Len(left) - 1)[i] = left[i]
    OBVIOUS
  <2>1. /\ next \in Nodes
        /\ Len(left) \in Nat \ {0} /\ DOMAIN left = 1..Len(left)
        /\ DOMAIN SubSeq(left, 1, Len(left) - 1) = 1..Len(left) - 1
        /\ \A i \in 1..Len(left) - 1 : SubSeq(left, 1, Len(left) - 1)[i] = left[i]
    BY <1>5, FrontResult
  <2>2. Len(left) \in DOMAIN left
    BY <2>1
  <2>3. next \in Owned /\ node[next].scope = s /\ next \notin Members(disposed)
    BY <1>4, <2>2 DEF CreatedOK
  <2> HIDE DEF left, next
  <2>4. disposed' = Append(disposed, next)
    BY <1>1
  <2>5. Members(disposed)' = Members(disposed) \cup {next}
    <3>1. Members(Append(disposed, next)) = Members(disposed) \cup {next}
      BY <1>5, <2>1, AppendResult
    <3>2. QED
      BY <2>4, <3>1 DEF Members
  <2>6. QED
    BY <2>1, <2>3, <2>5, NodesAreNumbers DEF Members
<1> HIDE DEF left, next
<1>7. ASSUME NEW t \in Scopes PROVE ScopeOK(t)'
  <2>1. CASE t = s
    <3>1. PendingIn(t)' = {}
      BY <1>3, <2>1
    <3>2. CASE left = <<>>
      BY <1>1, <1>6, <2>1, <3>1, <3>2 DEF ScopeOK, MayReclaim
    <3>3. CASE left # <<>>
      BY <1>1, <1>6, <2>1, <3>1, <3>3 DEF ScopeOK, MayReclaim
    <3>4. QED
      BY <3>2, <3>3
  <2>2. CASE t # s
    <3>1. scope'[t] = scope[t] /\ ScopeOK(t)
      BY <1>1, <1>4, <2>2
    <3>2. t = Root => (phase' \in {"singletons", "done"} <=> phase \in {"singletons", "done"})
      BY <2>2 DEF MayReclaim
    <3>3. QED
      BY <1>3, <3>1, <3>2 DEF ScopeOK
  <2>3. QED
    BY <2>1, <2>2
<1>8. ASSUME NEW t \in Scopes PROVE CreatedOK(t)'
  <2>1. CASE left = <<>>
    <3>1. scope'[t].created = scope[t].created /\ Members(disposed') = Members(disposed)
      BY <1>1, <2>1 DEF left
    <3>2. QED
      BY <1>3, <1>4, <3>1 DEF CreatedOK, Members
  <2>2. CASE left # <<>>
    <3>1. CASE t = s
      <4>1. ASSUME NEW i \in 1..Len(left) - 1
            PROVE  /\ left[i] \in Owned /\ node[left[i]].scope = s /\ left[i] \notin Members(disposed)
                   /\ left[i] # next /\ i \in DOMAIN left
        <5>0. Len(left) \in Nat \ {0}
          BY <1>6, <2>2
        <5>1. i \in 1..Len(left) /\ i # Len(left) /\ Len(left) \in 1..Len(left)
          BY <5>0
        <5>2. QED
          BY <1>4, <1>6, <2>2, <5>1 DEF CreatedOK, left, next
      <4>2. /\ scope'[t].created = SubSeq(left, 1, Len(left) - 1)
            /\ DOMAIN SubSeq(left, 1, Len(left) - 1) = 1..Len(left) - 1
            /\ \A i \in 1..Len(left) - 1 : SubSeq(left, 1, Len(left) - 1)[i] = left[i]
        BY <1>1, <1>6, <2>2, <3>1
      <4> DEFINE c == SubSeq(left, 1, Len(left) - 1)
      <4> HIDE DEF c
      <4>3. scope'[t].created = c /\ DOMAIN c = 1..Len(left) - 1 /\ \A i \in 1..Len(left) - 1 : c[i] = left[i]
        BY <4>2 DEF c
      <4>4. \A i, j \in DOMAIN left : left[i] = left[j] => i = j
        BY <1>4 DEF CreatedOK, left
      <4>5. ASSUME NEW i \in DOMAIN c
            PROVE  c[i] \in Owned' /\ node'[c[i]].scope = t /\ c[i] \notin Members(disposed') /\ i \in DOMAIN left
                   /\ c[i] = left[i]
        BY <1>3, <1>6, <2>2, <3>1, <4>1, <4>3
      <4>6. \A i, j \in DOMAIN c : c[i] = c[j] => i = j
        BY <4>4, <4>5
      <4>7. scope'[t].created = c
        BY <4>3
      <4>8. QED
        BY <4>5, <4>6, <4>7 DEF CreatedOK, Members
    <3>2. CASE t # s
      <4>1. scope'[t] = scope[t] /\ CreatedOK(t)
        BY <1>1, <1>4, <3>2
      <4>2. \A i \in DOMAIN scope[t].created : scope[t].created[i] # next
        BY <1>6, <2>2, <3>2, <4>1 DEF CreatedOK
      <4>3. QED
        BY <1>3, <1>6, <2>2, <4>1, <4>2 DEF CreatedOK, Members
    <3>3. QED
      BY <3>1, <3>2
  <2>3. QED
    BY <2>1, <2>2
<1>9. ASSUME NEW e \in Requests PROVE RequestOK(e)'
  <2>1. RequestOK(e) /\ e \in Scopes /\ e # Root
    BY ScopesDiffer DEF LifecycleInv, ServicesOK
  <2>2. QED
    BY <1>1, <2>1 DEF RequestOK, MayReclaim
<1>10. ASSUME NEW n \in Nodes PROVE NodeOK(n)' /\ OwnedOK(n)'
  <2>1. NodeOK(n) /\ OwnedOK(n)
    BY DEF LifecycleInv, ServicesOK
  <2>2. NodeOK(n)'
    BY <1>3, <2>1 DEF NodeOK
  <2>3. ASSUME n \in Owned PROVE n \in Members(scope'[node[n].scope].created) \cup Members(disposed')
    <3>1. node[n].scope \in Scopes /\ n \in Members(scope[node[n].scope].created) \cup Members(disposed)
      BY <2>1, <2>3, NoneDiffers DEF NodeOK, OwnedOK, Owned
    <3>2. CASE left = <<>>
      <4>1. scope'[node[n].scope].created = scope[node[n].scope].created /\ disposed' = disposed
        BY <1>1, <3>1, <3>2 DEF left
      <4>2. QED
        BY <3>1, <4>1 DEF Members
    <3>3. CASE left # <<>>
      <4>1. CASE n \in Members(disposed)
        BY <1>6, <3>3, <4>1
      <4>2. CASE n \in Members(scope[node[n].scope].created) /\ node[n].scope # s
        BY <1>1, <3>1, <4>2 DEF Members
      <4>3. CASE n \in Members(left) /\ node[n].scope = s
        <5>1. PICK i \in DOMAIN left : left[i] = n
          BY <4>3 DEF Members
        <5>2. CASE i = Len(left)
          BY <1>6, <3>3, <5>1, <5>2 DEF next
        <5>3. CASE i # Len(left)
          <6>1. i \in 1..Len(left) - 1
            BY <1>6, <3>3, <5>1, <5>3
          <6> DEFINE c == SubSeq(left, 1, Len(left) - 1)
          <6>2. i \in DOMAIN c /\ c[i] = n /\ scope'[node[n].scope].created = c
            BY <1>1, <1>6, <3>3, <4>3, <5>1, <6>1
          <6> HIDE DEF c
          <6>3. QED
            BY <6>2 DEF Members
        <5>4. QED
          BY <5>2, <5>3
      <4>4. QED
        BY <3>1, <4>1, <4>2, <4>3 DEF left
    <3>4. QED
      BY <3>2, <3>3
  <2>4. QED
    BY <1>3, <2>2, <2>3 DEF OwnedOK, Members
<1>11. DisposedOK'
  <2>1. ASSUME NEW t \in Scopes, Reclaiming(t) PROVE Reclaiming(t)'
    <3>1. CASE t # s
      BY <1>1, <2>1, <3>1 DEF Reclaiming, MayReclaim
    <3>2. CASE t = s
      BY <1>1, <1>6, <2>1, <3>2 DEF Reclaiming, MayReclaim
    <3>3. QED
      BY <3>1, <3>2
  <2>2. \A i \in DOMAIN disposed :
          disposed[i] \in Owned /\ \E t \in Scopes : t = node[disposed[i]].scope /\ Reclaiming(t)'
    <3>1. ASSUME NEW i \in DOMAIN disposed
          PROVE  disposed[i] \in Owned /\ \E t \in Scopes : t = node[disposed[i]].scope /\ Reclaiming(t)'
      <4>1. disposed[i] \in Owned /\ Reclaiming(node[disposed[i]].scope)
        BY DEF LifecycleInv, ServicesOK, DisposedOK
      <4>2. node[disposed[i]].scope \in Scopes
        BY <4>1, NoneDiffers DEF LifecycleInv, ServicesOK, NodeOK, Owned
      <4>3. PICK t \in Scopes : t = node[disposed[i]].scope
        BY <4>2
      <4>4. Reclaiming(t)
        BY <4>1, <4>3
      <4>5. Reclaiming(t)'
        BY <2>1, <4>4
      <4>6. QED
        BY <4>1, <4>3, <4>5
    <3>2. QED
      BY <3>1
  <2>3. \A i, j \in DOMAIN disposed : disposed[i] = disposed[j] => i = j
    BY DEF LifecycleInv, ServicesOK, DisposedOK
  <2>4. CASE left = <<>>
    <3>1. disposed' = disposed
      BY <1>1, <2>4
    <3>2. QED
      BY <1>3, <2>2, <2>3, <3>1 DEF DisposedOK, Reclaiming
  <2>5. CASE left # <<>>
    <3>1. /\ DOMAIN disposed = 1..Len(disposed) /\ DOMAIN disposed' = 1..Len(disposed) + 1 /\ Len(disposed) \in Nat
          /\ \A i \in 1..Len(disposed) : disposed'[i] = disposed[i]
          /\ disposed'[Len(disposed) + 1] = next
      <4>1. disposed' = Append(disposed, next)
        BY <1>1, <2>5
      <4>2. QED
        BY <1>5, <1>6, <2>5, <4>1
    <3>2. Reclaiming(s)'
      BY <1>1, <1>6, <2>5 DEF Reclaiming, MayReclaim
    <3>3. \A i \in DOMAIN disposed' : i \in 1..Len(disposed) \/ i = Len(disposed) + 1
      BY <3>1
    <3>4. \A i \in 1..Len(disposed) : disposed[i] # next
      BY <1>6, <2>5, <3>1 DEF Members
    <3>5. ASSUME NEW i \in DOMAIN disposed'
          PROVE  disposed'[i] \in Owned' /\ \E t \in Scopes : t = node'[disposed'[i]].scope /\ Reclaiming(t)'
      <4>1. CASE i \in 1..Len(disposed)
        BY <1>3, <2>2, <3>1, <4>1
      <4>2. CASE i = Len(disposed) + 1
        BY <1>3, <1>6, <2>5, <3>1, <3>2, <4>2
      <4>3. QED
        BY <3>3, <4>1, <4>2
    <3>6. \A i, j \in DOMAIN disposed' : disposed'[i] = disposed'[j] => i = j
      BY <2>3, <3>1, <3>3, <3>4
    <3>7. QED
      BY <3>5, <3>6 DEF DisposedOK, Reclaiming
  <2>6. QED
    BY <2>4, <2>5
<1>12. QED
  BY <1>2, <1>7, <1>8, <1>9, <1>10, <1>11 DEF ServicesOK

\* A factory uses services of its own scope and of the singletons only.
LEMMA UsedScope ==
  ASSUME ServicesOK, UsesOK, NEW n \in Nodes, NEW m \in Nodes, n \in Owned, <<Factory(n), m>> \in uses,
         node[m].state = "ready"
  PROVE  /\ node[n].scope \in Scopes
         /\ node[m].value \in Nodes /\ node[m].value \in Owned
         /\ node[node[m].value].scope \in {node[n].scope, Root}
<1>1. node[m].scope \in {node[n].scope, Root}
  <2> DEFINE u == <<Factory(n), m>>
  <2>1. UseOK(u[1], u[2])
    BY DEF UsesOK
  <2>2. QED
    BY <2>1 DEF UseOK
<1>2. NodeOK(n) /\ NodeOK(m)
  BY DEF ServicesOK
<1>3. QED
  BY <1>1, <1>2, NoneDiffers DEF NodeOK, Owned

LEMMA ReclaimOrder ==
  ASSUME LifecycleInv, NEW s \in Scopes, DisposeNext(s), MayReclaim(s), UNCHANGED <<node, attempts, request, uses>>,
         \A n \in Nodes : awaits'[Factory(n)] = awaits[Factory(n)]
  PROVE  UsesOK'
<1> DEFINE left == scope[s].created
           next == left[Len(left)]
<1>1. /\ \A t \in Scopes \ {s} : scope'[t] = scope[t]
      /\ \/ left = <<>> /\ disposed' = disposed /\ scope'[s].created = <<>>
         \/ /\ left # <<>> /\ disposed' = Append(disposed, next)
            /\ scope'[s].created = SubSeq(left, 1, Len(left) - 1)
  BY DisposeNextResult DEF LifecycleInv
<1>2. \A u \in uses' : UseOK(u[1], u[2])'
  BY UsersStay DEF LifecycleInv, ActorTypes
<1>3. left \in Seq(Nodes) /\ disposed \in Seq(Nodes) /\ CreatedOK(s)
  BY DEF LifecycleInv, StateTypes, ScopeRecord, ServicesOK
<1>4. \A t \in Scopes : /\ DOMAIN scope'[t].created \subseteq DOMAIN scope[t].created
                        /\ \A i \in DOMAIN scope'[t].created : scope'[t].created[i] = scope[t].created[i]
  <2>1. CASE left = <<>>
    BY <1>1, <2>1
  <2>2. CASE left # <<>>
    <3>1. /\ Len(left) \in Nat \ {0} /\ DOMAIN left = 1..Len(left)
          /\ DOMAIN SubSeq(left, 1, Len(left) - 1) = 1..Len(left) - 1
          /\ \A i \in 1..Len(left) - 1 : SubSeq(left, 1, Len(left) - 1)[i] = left[i]
      BY <1>3, <2>2, FrontResult
    <3>2. 1..Len(left) - 1 \subseteq 1..Len(left)
      BY <3>1
    <3>3. QED
      BY <1>1, <2>2, <3>1, <3>2
  <2>3. QED
    BY <2>1, <2>2
<1>5. ASSUME NEW n \in Nodes, NEW m \in Nodes,
             n \in Owned', <<Factory(n), m>> \in uses', node'[m].state = "ready", node'[m].value # n
      PROVE  InOrder(n, node[m].value)'
  <2> DEFINE v == node[m].value
  <2>1. n \in Owned /\ InOrder(n, v)
    BY <1>5 DEF LifecycleInv, UsesOK, Owned
  <2>2. node[n].scope \in Scopes /\ v \in Nodes /\ v \in Owned /\ node[v].scope \in {node[n].scope, Root}
    BY <1>5, <2>1, UsedScope DEF LifecycleInv
  <2> HIDE DEF v
  <2>3. \A i, j \in DOMAIN scope'[node[n].scope].created :
          scope'[node[n].scope].created[i] = n /\ scope'[node[n].scope].created[j] = v => j < i
    BY <1>4, <2>1, <2>2 DEF InOrder
  <2>4. \A i \in DOMAIN disposed' : disposed'[i] = v => \E j \in 1..i : disposed'[j] = n
    <3>1. CASE left = <<>>
      BY <1>1, <2>1, <3>1 DEF InOrder
    <3>2. CASE left # <<>>
      <4>1. /\ DOMAIN disposed = 1..Len(disposed) /\ DOMAIN disposed' = 1..Len(disposed) + 1 /\ Len(disposed) \in Nat
            /\ \A i \in 1..Len(disposed) : disposed'[i] = disposed[i]
            /\ disposed'[Len(disposed) + 1] = next
            /\ Len(left) \in Nat \ {0} /\ DOMAIN left = 1..Len(left)
        <5>1. disposed' = Append(disposed, next)
          BY <1>1, <3>2
        <5>2. Len(left) \in Nat \ {0} /\ DOMAIN left = 1..Len(left) /\ next \in Nodes
          BY <1>3, <3>2, FrontResult
        <5>3. QED
          BY <1>3, <5>1, <5>2
      <4>2. Len(left) \in DOMAIN left /\ next \in Owned /\ node[next].scope = s
        <5>1. Len(left) \in DOMAIN left
          BY <4>1
        <5>2. QED
          BY <1>3, <5>1 DEF CreatedOK
      <4>3. ASSUME v = next PROVE n \in Members(disposed)
        <5>1. n \in Members(scope[node[n].scope].created) \cup Members(disposed)
          BY <2>1 DEF LifecycleInv, ServicesOK, OwnedOK
        <5>2. CASE node[n].scope = s
          <6>1. ASSUME n \in Members(left) PROVE FALSE
            <7>1. PICK i \in DOMAIN left : left[i] = n
              BY <6>1 DEF Members
            <7>2. Len(left) < i
              BY <2>1, <4>2, <4>3, <5>2, <7>1 DEF InOrder
            <7>3. QED
              BY <4>1, <7>1, <7>2
          <6>2. QED
            BY <5>1, <5>2, <6>1
        <5>3. CASE node[n].scope # s
          <6>1. s = Root /\ phase \in {"root", "singletons"} /\ node[n].scope # Root
            BY <2>2, <4>2, <4>3, <5>3 DEF MayReclaim
          <6>2. ~Live(node[n].scope)
            BY <2>2, <6>1 DEF LifecycleInv, PhaseOK, Last, Members
          <6>3. scope[node[n].scope].state \in {"none", "Closed"}
            BY <2>2, <6>2 DEF LifecycleInv, StateTypes, ScopeRecord, Live
          <6>4. scope[node[n].scope].created = <<>>
            BY <2>2, <6>1, <6>3 DEF LifecycleInv, ServicesOK, ScopeOK
          <6>5. QED
            BY <5>1, <6>4 DEF Members
        <5>4. QED
          BY <5>2, <5>3
      <4> HIDE DEF left, next
      <4>4. ASSUME NEW i \in 1..Len(disposed) + 1, disposed'[i] = v PROVE \E j \in 1..i : disposed'[j] = n
        <5>1. CASE i \in 1..Len(disposed)
          <6>1. PICK j \in 1..i : disposed[j] = n
            BY <2>1, <4>1, <4>4, <5>1 DEF InOrder
          <6>2. j \in 1..Len(disposed)
            BY <4>1, <5>1
          <6>3. QED
            BY <4>1, <6>1, <6>2
        <5>2. CASE i = Len(disposed) + 1
          <6>1. PICK j \in DOMAIN disposed : disposed[j] = n
            BY <4>1, <4>3, <4>4, <5>2 DEF Members
          <6>2. j \in 1..i /\ j \in 1..Len(disposed)
            BY <4>1, <5>2
          <6>3. QED
            BY <4>1, <6>1, <6>2
        <5>3. QED
          BY <4>1, <5>1, <5>2
      <4>5. QED
        BY <4>1, <4>4
    <3>3. QED
      BY <3>1, <3>2
  <2>5. node'[n].scope = node[n].scope
    OBVIOUS
  <2>6. QED
    BY <2>3, <2>4 DEF InOrder, v
<1>6. QED
  BY <1>2, <1>5 DEF UsesOK

\* A scope leaves the list of scopes when it is closed.
LEMMA ReleasedScope ==
  ASSUME LifecycleInv, NEW s \in Scopes, scopes' = IF scope'[s].state = "Closed" THEN Without(scopes, s) ELSE scopes,
         \A t \in Scopes \ {s} : scope'[t] = scope[t],
         scope[s].state \in {"Closing", "Closed"}, scope'[s].state \in {scope[s].state, "Closed"}
  PROVE  /\ scopes' \in Seq(Scopes) /\ Root \notin Members(scopes')
         /\ \A t \in Scopes : Live(t)' => Live(t) /\ (t \in Members(scopes) => t \in Members(scopes'))
<1>1. scopes \in Seq(Scopes) /\ Root \notin Members(scopes)
  BY DEF LifecycleInv, RegistryTypes, PhaseOK
<1>2. /\ Without(scopes, s) \in Seq(Scopes)
      /\ Members(Without(scopes, s)) \subseteq Members(scopes)
      /\ Members(scopes) \ {s} \subseteq Members(Without(scopes, s))
  BY <1>1, WithoutResult
<1>3. CASE scope'[s].state = "Closed"
  <2>1. scopes' = Without(scopes, s)
    BY <1>3
  <2>2. \A t \in Scopes : Live(t)' => t # s
    BY <1>3 DEF Live
  <2> DEFINE w == Without(scopes, s)
  <2> HIDE DEF w
  <2>3. Members(scopes') = Members(w)
    BY <2>1 DEF Members, w
  <2>4. QED
    BY <1>1, <1>2, <2>1, <2>2, <2>3 DEF Live, w
<1>4. CASE scope'[s].state # "Closed"
  <2>1. scopes' = scopes /\ scope'[s].state = scope[s].state
    BY <1>4
  <2>2. Members(scopes') = Members(scopes)
    BY <2>1 DEF Members
  <2>3. QED
    BY <1>1, <2>1, <2>2 DEF Live
<1>5. QED
  BY <1>3, <1>4

LEMMA ScopeQuiescesKeeps == ASSUME LifecycleInv, NEW s \in Scopes, ScopeQuiesces(s) PROVE LifecycleInv'
<1>1. /\ scope[s].state = "Closing" /\ scope[s].disposing = 0 /\ PendingIn(s) = {}
      /\ scopes' = IF scope'[s].state = "Closed" THEN Without(scopes, s) ELSE scopes
      /\ UNCHANGED <<registryVars, node, attempts, waits, request, actorVars, hostAwaits, uses>>
  BY DEF ScopeQuiesces
<1> USE <1>1 DEF registryVars, actorVars
<1>2. \A e \in Requests : Executing(e)' => Executing(e)
  BY DEF Executing
<1>3. ActorsOK'
  BY ActorsStay DEF LifecycleInv, Pending
<1>4. ActorTypes'
  BY DEF LifecycleInv, ActorTypes
<1>5. CASE s = Root
  <2>1. scope' = [scope EXCEPT ![Root].state = "Closed"] /\ UNCHANGED disposed
    BY <1>5 DEF ScopeQuiesces
  <2> DEFINE r == [scope[Root] EXCEPT !.state = "Closed"]
  <2>2. scope' = [scope EXCEPT ![Root] = r]
    BY <2>1, Zenon
  <2>3. scope \in [Scopes -> ScopeRecord] /\ Root \in Scopes
    BY ScopesDiffer DEF LifecycleInv, StateTypes
  <2>4. /\ r \in ScopeRecord /\ r.state = "Closed" /\ r.created = scope[Root].created
        /\ r.disposing = scope[Root].disposing
    BY <2>3 DEF ScopeRecord
  <2> HIDE DEF r
  <2>5. scope' \in [Scopes -> ScopeRecord] /\ scope'[Root] = r /\ \A t \in Scopes \ {Root} : scope'[t] = scope[t]
    BY <2>2, <2>3, <2>4
  <2>6. \A t \in Scopes : Moves(t)
    BY <1>5, <2>4, <2>5, SameMoves DEF Moves
  <2>7. /\ scopes' \in Seq(Scopes) /\ Root \notin Members(scopes')
        /\ \A t \in Scopes : Live(t)' => Live(t) /\ (t \in Members(scopes) => t \in Members(scopes'))
    BY <1>5, <2>4, <2>5, ReleasedScope
  <2>8. RegistryTypes' /\ StateTypes'
    BY <2>1, <2>5, <2>7 DEF LifecycleInv, RegistryTypes, StateTypes
  <2>9. phase = "root"
    BY <1>5 DEF LifecycleInv, PhaseOK, Last
  <2>10. PhaseOK'
    BY <1>2, <2>4, <2>5, <2>7, <2>9, PhaseStays DEF LifecycleInv
  <2>11. ServicesOK'
    <3>1. \A e \in Requests : RequestOK(e)'
      BY <2>5, ScopesDiffer DEF LifecycleInv, ServicesOK, RequestOK
    <3>2. QED
      BY <2>1, <2>6, <3>1, ServicesStay DEF LifecycleInv
  <2>12. UsesOK'
    BY <2>1, <2>6, UsesStay DEF LifecycleInv, ActorTypes, Moves
  <2>13. QED
    BY <1>3, <1>4, <2>8, <2>10, <2>11, <2>12 DEF LifecycleInv
<1>6. CASE s # Root
  <2>1. DisposeNext(s)
    BY <1>6 DEF ScopeQuiesces
  <2>2. MayReclaim(s)
    BY <1>6 DEF MayReclaim
  <2>3. StateTypes' /\ ServicesOK'
    BY <2>1, <2>2, ReclaimServices
  <2>4. UsesOK'
    BY <2>1, <2>2, ReclaimOrder
  <2>5. /\ \A t \in Scopes \ {s} : scope'[t] = scope[t]
        /\ scope'[s].state \in {scope[s].state, "Closed"}
    BY <2>1, DisposeNextResult DEF LifecycleInv
  <2>6. /\ scopes' \in Seq(Scopes) /\ Root \notin Members(scopes')
        /\ \A t \in Scopes : Live(t)' => Live(t) /\ (t \in Members(scopes) => t \in Members(scopes'))
    BY <2>5, ReleasedScope
  <2>7. RegistryTypes'
    BY <2>6 DEF LifecycleInv, RegistryTypes
  <2>8. scope'[Root] = scope[Root]
    BY <1>6, <2>5, ScopesDiffer
  <2>9. PhaseOK'
    BY <1>2, <2>6, <2>8, PhaseStays DEF LifecycleInv
  <2>10. QED
    BY <1>3, <1>4, <2>3, <2>4, <2>7, <2>9 DEF LifecycleInv
<1>7. QED
  BY <1>5, <1>6

LEMMA DisposerSettlesKeeps == ASSUME LifecycleInv, NEW s \in Scopes, DisposerSettles(s) PROVE LifecycleInv'
<1> DEFINE d == scope[s].disposing
<1>1. /\ d # 0 /\ DisposeNext(s)
      /\ scopes' = IF scope'[s].state = "Closed" THEN Without(scopes, s) ELSE scopes
      /\ awaits' = [awaits EXCEPT ![Disposer(d)] = None]
      /\ UNCHANGED <<registry, failed, phase, participant, joining, closing, node, attempts, waits,
                     request, hostAwaits,
                     uses, lineage>>
  BY DEF DisposerSettles, Ends, registryVars
<1>2. d \in Nodes
  BY <1>1 DEF LifecycleInv, StateTypes, ScopeRecord
<1> HIDE DEF d
<1>3. /\ awaits'[Disposer(d)] = None /\ \A c \in Actors \ {Disposer(d)} : awaits'[c] = awaits[c]
      /\ awaits' \in [Actors -> Handlers \cup Factories \cup {None, Shutdown}]
  BY <1>1, <1>2, AwaitsResult, ActorsDiffer DEF LifecycleInv
<1>4. ActorTypes'
  BY <1>1, <1>3 DEF LifecycleInv, ActorTypes
<1>5. ActorsOK'
  <2>1. \A a \in Actors : awaits'[a] = awaits[a] \/ awaits'[a] = None
    BY <1>3
  <2>2. QED
    BY <1>1, <2>1, ActorsStay DEF LifecycleInv, Pending
<1>6. ScopeOK(s) /\ PendingIn(s) = {} /\ scope[s].state = IF s = Root THEN "Closed" ELSE "Closing"
  BY <1>1 DEF LifecycleInv, ServicesOK, ScopeOK, d
<1>7. s = Root => phase = "singletons"
  <2>1. phase \in Phases
    BY DEF LifecycleInv, RegistryTypes
  <2>2. QED
    BY <1>1, <1>6, <2>1 DEF LifecycleInv, PhaseOK, Last, d
<1>8. MayReclaim(s)
  BY <1>1, <1>6, <1>7 DEF MayReclaim
<1>9. StateTypes' /\ ServicesOK'
  BY <1>1, <1>6, <1>8, ReclaimServices
<1>10. \A n \in Nodes : awaits'[Factory(n)] = awaits[Factory(n)]
  BY <1>2, <1>3, ActorsDiffer
<1>11. UsesOK'
  BY <1>1, <1>8, <1>10, ReclaimOrder
<1>12. /\ \A t \in Scopes \ {s} : scope'[t] = scope[t]
       /\ scope'[s].state \in {scope[s].state, "Closed"}
  BY <1>1, DisposeNextResult DEF LifecycleInv
<1>13. /\ scopes' \in Seq(Scopes) /\ Root \notin Members(scopes')
       /\ \A t \in Scopes : Live(t)' => Live(t) /\ (t \in Members(scopes) => t \in Members(scopes'))
  BY <1>1, <1>6, <1>12, ReleasedScope
<1>14. RegistryTypes'
  BY <1>1, <1>13 DEF LifecycleInv, RegistryTypes
<1>15. PhaseOK'
  <2>1. \A e \in Requests : Executing(e)' => Executing(e)
    BY <1>1 DEF Executing
  <2>2. scope'[Root].state = scope[Root].state
    BY <1>6, <1>12, ScopesDiffer
  <2>3. scope'[Root].disposing = scope[Root].disposing \/ phase = "singletons"
    BY <1>7, <1>12, ScopesDiffer
  <2>4. QED
    BY <1>1, <1>13, <2>1, <2>2, <2>3, PhaseStays DEF LifecycleInv
<1>16. QED
  BY <1>4, <1>5, <1>9, <1>11, <1>14, <1>15 DEF LifecycleInv

LEMMA DisposeSingletonsKeeps == ASSUME LifecycleInv, DisposeSingletons PROVE LifecycleInv'
<1>1. /\ phase = "root" /\ scope[Root].state = "Closed" /\ phase' = "singletons" /\ DisposeNext(Root)
      /\ UNCHANGED <<registry, failed, participant, joining, closing, scopes, node, attempts, waits, request, lineage,
                     awaits, hostAwaits, uses>>
  BY DEF DisposeSingletons, actorVars
<1>2. MayReclaim(Root) /\ Root \in Scopes
  BY <1>1, ScopesDiffer DEF MayReclaim
<1>3. PendingIn(Root) = {}
  BY <1>1, <1>2 DEF LifecycleInv, ServicesOK, ScopeOK
<1>4. StateTypes' /\ ServicesOK'
  BY <1>1, <1>2, <1>3, ReclaimServices
<1>5. UsesOK'
  BY <1>1, <1>2, ReclaimOrder
<1>6. RegistryTypes' /\ ActorTypes'
  BY <1>1 DEF LifecycleInv, RegistryTypes, ActorTypes, Phases
<1>7. ActorsOK'
  BY <1>1, ActorsStay DEF LifecycleInv, Pending
<1>8. PhaseOK'
  <2>1. \A t \in Scopes \ {Root} : scope'[t] = scope[t]
    BY <1>1, <1>2, DisposeNextResult DEF LifecycleInv
  <2>2. scope'[Root].state = "Closed"
    BY <1>1, <1>2, DisposeNextResult DEF LifecycleInv
  <2>3. \A t \in Scopes \ {Root} : Live(t)' => t \in Members(closing')
    BY <1>1, <2>1 DEF LifecycleInv, PhaseOK, Live
  <2>4. \A e \in Requests : ~Executing(e)'
    BY <1>1 DEF LifecycleInv, PhaseOK, Executing, Past
  <2>5. QED
    BY <1>1, <2>2, <2>3, <2>4 DEF LifecycleInv, PhaseOK, Last
<1>9. QED
  BY <1>4, <1>5, <1>6, <1>7, <1>8 DEF LifecycleInv

(***************************************************************************)
(* A factory settles                                                       *)
(***************************************************************************)

LEMMA PendingScope ==
  ASSUME LifecycleInv, NEW n \in Nodes, Pending(n)
  PROVE  /\ n <= attempts /\ node[n].scope \in Scopes /\ node[n].token \in Tokens /\ node[n].value = None
         /\ scope[node[n].scope].state \in {"Open", "Closing"} /\ scope[node[n].scope].disposing = 0
         /\ n \notin Owned /\ n \notin Members(disposed)
         /\ phase \notin {"singletons", "done"} /\ ~Reclaiming(node[n].scope) /\ ~Reclaiming(Root)
<1> DEFINE s == node[n].scope
<1>1. n <= attempts /\ s \in Scopes /\ node[n].token \in Tokens /\ node[n].value = None
  BY DEF LifecycleInv, ServicesOK, NodeOK, Pending
<1>2. n \in PendingIn(s) /\ scope[s].state \in {"none", "Open", "Closing", "Closed"}
  BY <1>1 DEF PendingIn, LifecycleInv, StateTypes, ScopeRecord
<1> HIDE DEF s
<1>3. scope[s].state \in {"Open", "Closing"} /\ scope[s].disposing = 0
  BY <1>1, <1>2 DEF LifecycleInv, ServicesOK, ScopeOK
<1>4. n \notin Owned
  BY <1>1, NoneDiffers DEF Owned
<1>5. n \notin Members(disposed)
  BY <1>4 DEF LifecycleInv, ServicesOK, DisposedOK, Members
<1>6. phase \notin {"singletons", "done"}
  <2>1. CASE s = Root
    BY <1>3, <2>1 DEF LifecycleInv, PhaseOK
  <2>2. CASE s # Root
    <3>1. Live(s)
      BY <1>3 DEF Live
    <3>2. QED
      BY <1>1, <2>2, <3>1 DEF LifecycleInv, PhaseOK, Last, Members
  <2>3. QED
    BY <2>1, <2>2
<1>7. ~Reclaiming(s) /\ ~Reclaiming(Root)
  BY <1>3, <1>6 DEF Reclaiming
<1>8. QED
  BY <1>1, <1>3, <1>4, <1>5, <1>6, <1>7 DEF s

\* Attempt n settles as x with value v.
LEMMA SettledResult ==
  ASSUME StateTypes, NEW n \in Nodes, NEW x \in {"ready", "failed"}, NEW v \in Nodes \cup {None},
         \/ node' = [node EXCEPT ![n].state = x, ![n].value = v]
         \/ node' = [node EXCEPT ![n].state = x] /\ v = node[n].value
  PROVE  /\ node' \in [Nodes -> NodeRecord]
         /\ node'[n].state = x /\ node'[n].value = v /\ node'[n].scope = node[n].scope
         /\ node'[n].token = node[n].token
         /\ \A k \in Nodes \ {n} : node'[k] = node[k]
<1> DEFINE r == [node[n] EXCEPT !.state = x, !.value = v]
           q == [node[n] EXCEPT !.state = x]
<1>1. node \in [Nodes -> NodeRecord]
  BY DEF StateTypes
<1>2. CASE node' = [node EXCEPT ![n].state = x, ![n].value = v]
  <2>1. node' = [node EXCEPT ![n] = r]
    BY <1>2, Zenon
  <2>2. r \in NodeRecord /\ r.state = x /\ r.value = v /\ r.scope = node[n].scope /\ r.token = node[n].token
    <3>1. node[n] \in NodeRecord
      BY <1>1
    <3> DEFINE o == node[n]
               t == [o EXCEPT !.state = x, !.value = v]
    <3>2. r = t
      OBVIOUS
    <3>3. o \in NodeRecord
      BY <3>1
    <3> HIDE DEF o
    <3>4. t \in NodeRecord
      BY <3>3 DEF NodeRecord
    <3>5. t.state = x /\ t.scope = o.scope /\ t.token = o.token
      BY <3>3 DEF NodeRecord
    <3>6. t.value = v
      BY <3>3 DEF NodeRecord
    <3>7. QED
      BY <3>2, <3>4, <3>5, <3>6 DEF o
  <2> HIDE DEF r
  <2>3. node' \in [Nodes -> NodeRecord] /\ node'[n] = r /\ \A k \in Nodes \ {n} : node'[k] = node[k]
    BY <1>1, <2>1, <2>2
  <2>4. QED
    BY <2>2, <2>3
<1>3. CASE node' = [node EXCEPT ![n].state = x] /\ v = node[n].value
  <2>1. node' = [node EXCEPT ![n] = q]
    BY <1>3, Zenon
  <2>2. q \in NodeRecord /\ q.state = x /\ q.value = v /\ q.scope = node[n].scope /\ q.token = node[n].token
    <3>1. node[n] \in NodeRecord
      BY <1>1
    <3> DEFINE o == node[n]
               t == [o EXCEPT !.state = x]
    <3>2. q = t
      OBVIOUS
    <3>3. o \in NodeRecord
      BY <3>1
    <3> HIDE DEF o
    <3>4. t \in NodeRecord
      BY <3>3 DEF NodeRecord
    <3>5. t.state = x /\ t.scope = o.scope /\ t.token = o.token
      BY <3>3 DEF NodeRecord
    <3>6. t.value = o.value
      BY <3>3 DEF NodeRecord
    <3>7. QED
      BY <1>3, <3>2, <3>4, <3>5, <3>6 DEF o
  <2> HIDE DEF q
  <2>3. node' \in [Nodes -> NodeRecord] /\ node'[n] = q /\ \A k \in Nodes \ {n} : node'[k] = node[k]
    BY <1>1, <2>1, <2>2
  <2>4. QED
    BY <2>2, <2>3
<1>4. QED
  BY <1>2, <1>3

\* Attempt n, and nothing else about the attempts, settled.
SettlesOnly(n) ==
  /\ \A k \in Nodes \ {n} : node'[k] = node[k]
  /\ node'[n].scope = node[n].scope /\ node'[n].token = node[n].token /\ node'[n].state \in {"ready", "failed"}

LEMMA SettledActors ==
  ASSUME LifecycleInv, NEW n \in Nodes, Free(Factory(n)), SettlesOnly(n), Released(n), Ends(Factory(n)),
         UNCHANGED <<attempts, request, uses>>
  PROVE  ActorTypes' /\ ActorsOK' /\ (\A u \in uses' : UseOK(u[1], u[2])')
<1>1. \A k \in Nodes : Pending(k)' => Pending(k) /\ k # n
  BY DEF SettlesOnly, Pending
<1>2. /\ waits' = {w \in waits : w[2] # n} /\ hostAwaits' = hostAwaits \ {n}
      /\ awaits' = [awaits EXCEPT ![Factory(n)] = None] /\ UNCHANGED lineage
  BY DEF Released, Ends
<1>3. /\ awaits'[Factory(n)] = None /\ \A c \in Actors \ {Factory(n)} : awaits'[c] = awaits[c]
      /\ awaits' \in [Actors -> Handlers \cup Factories \cup {None, Shutdown}]
  BY <1>2, AwaitsResult, ActorsDiffer DEF LifecycleInv
<1>4. ActorTypes'
  BY <1>2, <1>3 DEF LifecycleInv, ActorTypes
<1>5. ActorsOK'
  <2>1. waits \in SUBSET (Nodes \X Nodes)
    BY DEF LifecycleInv, ActorTypes
  <2>2. \A w \in waits : Pending(w[2])' => w \in waits'
    BY <1>1, <1>2, <2>1
  <2>3. \A a \in Actors : awaits'[a] = awaits[a] \/ awaits'[a] = None
    BY <1>3
  <2>4. waits' \in SUBSET waits
    BY <1>2
  <2>5. QED
    BY <1>1, <1>2, <2>2, <2>3, <2>4, ActorsStay DEF LifecycleInv
<1>6. ASSUME NEW u \in uses' PROVE UseOK(u[1], u[2])'
  <2> DEFINE a == u[1]
             m == u[2]
  <2>1. m \in Nodes /\ UseOK(a, m) /\ node'[m].scope = node[m].scope
    BY DEF LifecycleInv, ActorTypes, UsesOK, SettlesOnly
  <2> HIDE DEF a, m
  <2>2. ASSUME NEW k \in Nodes, a = Factory(k)
        PROVE  /\ k <= attempts /\ node'[m].scope \in {node'[k].scope, Root}
               /\ Pending(m)' => Pending(k)' /\ awaits'[a] = Factory(m)
    <3>1. /\ k <= attempts /\ node[m].scope \in {node[k].scope, Root}
          /\ Pending(m) => Pending(k) /\ awaits[a] = Factory(m)
      BY <2>1, <2>2 DEF UseOK
    <3>2. node'[k].scope = node[k].scope
      BY DEF SettlesOnly
    <3>3. Pending(m) => k # n
      BY <2>1, <2>2, <3>1, AwaitedSettled, ActorsDiffer
    <3>4. Pending(m)' => Pending(k)' /\ awaits'[a] = Factory(m)
      BY <1>1, <1>3, <2>1, <2>2, <3>1, <3>3, ActorsDiffer DEF SettlesOnly, Pending
    <3>5. QED
      BY <2>1, <3>1, <3>2, <3>4
  <2>3. QED
    BY <2>1, <2>2 DEF UseOK, a, m
<1>7. QED
  BY <1>4, <1>5, <1>6

\* Attempt n failed, or gave a service that another attempt created.
LEMMA SettledServices ==
  ASSUME LifecycleInv, NEW n \in Nodes, Pending(n), SettlesOnly(n), UNCHANGED <<attempts, disposed>>,
         \/ node'[n].state = "failed" /\ node'[n].value = None
         \/ /\ node'[n].state = "ready" /\ node'[n].value \in Nodes /\ node'[n].value \in Owned
            /\ node[node'[n].value].scope \in {node[n].scope, Root},
         \A t \in Scopes : Moves(t), phase' \in {"singletons", "done"} <=> phase \in {"singletons", "done"},
         \A e \in Requests : RequestOK(e)'
  PROVE  ServicesOK' /\ Owned' = Owned
<1>1. n <= attempts /\ n \notin Owned /\ node[n].scope \in Scopes /\ node[n].token \in Tokens
  BY PendingScope
<1>2. Owned' = Owned
  <2>1. node'[n].value # n
    BY <1>1, NoneDiffers
  <2>2. \A k \in Nodes : node'[k].value = k <=> node[k].value = k
    BY <1>1, <2>1 DEF Owned, SettlesOnly
  <2>3. QED
    BY <2>2 DEF Owned
<1>3. \A k \in Nodes : node'[k].scope = node[k].scope
  BY DEF SettlesOnly
<1>4. \A k \in Nodes : Pending(k)' => Pending(k)
  BY DEF SettlesOnly, Pending
<1>5. \A t \in Scopes : PendingIn(t)' \subseteq PendingIn(t)
  BY <1>3, <1>4 DEF PendingIn
<1>6. ASSUME NEW t \in Scopes PROVE ScopeOK(t)' /\ CreatedOK(t)' /\ (Reclaiming(t) => Reclaiming(t)')
  <2>1. Moves(t) /\ ScopeOK(t) /\ CreatedOK(t)
    BY DEF LifecycleInv, ServicesOK
  <2>2. PendingIn(t) = {} => PendingIn(t)' = {}
    BY <1>5
  <2>3. ScopeOK(t)'
    BY <2>1, <2>2 DEF ScopeOK, Moves
  <2>4. CreatedOK(t)'
    <3>1. \A k \in Owned : k \in Nodes
      BY DEF Owned
    <3>2. \A i \in DOMAIN scope[t].created :
            LET k == scope[t].created[i] IN k \in Owned /\ node'[k].scope = t /\ k \notin Members(disposed)
      BY <1>3, <2>1, <3>1 DEF CreatedOK
    <3>3. QED
      BY <1>2, <2>1, <3>2 DEF CreatedOK, Moves, Members
  <2>5. Reclaiming(t) => Reclaiming(t)'
    BY <2>1 DEF Reclaiming, Moves
  <2>6. QED
    BY <2>3, <2>4, <2>5
<1>7. ASSUME NEW k \in Nodes PROVE NodeOK(k)' /\ OwnedOK(k)'
  <2>1. NodeOK(k) /\ OwnedOK(k)
    BY DEF LifecycleInv, ServicesOK
  <2>2. CASE k = n
    <3>1. NodeOK(k)'
      BY <1>1, <1>2, <1>3, <2>2, NoneDiffers DEF NodeOK, SettlesOnly
    <3>2. QED
      BY <1>1, <1>2, <2>2, <3>1 DEF OwnedOK
  <2>3. CASE k # n
    <3>1. node'[k] = node[k]
      BY <2>3 DEF SettlesOnly
    <3>2. node[k].state = "ready" => node'[node[k].value].scope = node[node[k].value].scope
      BY <1>3, <2>1 DEF NodeOK
    <3>3. NodeOK(k)'
      BY <1>2, <2>1, <3>1, <3>2 DEF NodeOK
    <3>4. k \in Owned => scope'[node[k].scope].created = scope[node[k].scope].created
      <4>1. k \in Owned => node[k].scope \in Scopes
        BY <2>1, NoneDiffers DEF NodeOK, Owned
      <4>2. QED
        BY <4>1 DEF Moves
    <3>5. OwnedOK(k)'
      BY <1>2, <2>1, <3>1, <3>4 DEF OwnedOK, Members
    <3>6. QED
      BY <3>3, <3>5
  <2>4. QED
    BY <2>2, <2>3
<1>8. DisposedOK'
  <2>1. ASSUME NEW i \in DOMAIN disposed
        PROVE  disposed[i] \in Owned' /\ \E t \in Scopes : t = node'[disposed[i]].scope /\ Reclaiming(t)'
    <3>1. disposed[i] \in Owned /\ Reclaiming(node[disposed[i]].scope)
      BY DEF LifecycleInv, ServicesOK, DisposedOK
    <3>2. PICK t \in Scopes : t = node[disposed[i]].scope
      BY <3>1, NoneDiffers DEF LifecycleInv, ServicesOK, NodeOK, Owned
    <3>3. Reclaiming(t)
      BY <3>1, <3>2
    <3>4. Reclaiming(t)'
      BY <1>6, <3>3
    <3>5. disposed[i] \in Nodes
      BY <3>1 DEF Owned
    <3>6. QED
      BY <1>2, <1>3, <3>1, <3>2, <3>4, <3>5
  <2>2. \A i, j \in DOMAIN disposed : disposed[i] = disposed[j] => i = j
    BY DEF LifecycleInv, ServicesOK, DisposedOK
  <2>3. QED
    BY <2>1, <2>2 DEF DisposedOK, Reclaiming
<1>9. ServicesOK'
  BY <1>6, <1>7, <1>8 DEF ServicesOK
<1>10. QED
  BY <1>2, <1>9

\* A service that another one uses is ready.
LEMMA UserPending ==
  ASSUME LifecycleInv, NEW n \in Nodes, Pending(n), NEW k \in Nodes, <<Factory(k), n>> \in uses
  PROVE  k \notin Owned
<1> DEFINE u == <<Factory(k), n>>
<1>1. UseOK(u[1], u[2])
  BY DEF LifecycleInv, UsesOK
<1>2. Pending(k)
  BY <1>1 DEF UseOK
<1>3. QED
  BY <1>2, PendingScope

LEMMA SettledOrder ==
  ASSUME LifecycleInv, NEW n \in Nodes, Pending(n), SettlesOnly(n), UNCHANGED <<disposed, uses>>,
         Owned' = Owned, \A t \in Scopes : Moves(t), \A u \in uses' : UseOK(u[1], u[2])'
  PROVE  UsesOK'
<1>1. ASSUME NEW k \in Nodes, NEW m \in Nodes,
             k \in Owned', <<Factory(k), m>> \in uses', node'[m].state = "ready", node'[m].value # k
      PROVE  InOrder(k, node[m].value)'
  <2>1. k \in Owned /\ k # n /\ m # n
    BY <1>1, PendingScope, UserPending
  <2>2. node'[m] = node[m] /\ node'[k] = node[k]
    BY <2>1 DEF SettlesOnly
  <2>3. InOrder(k, node[m].value)
    BY <1>1, <2>1, <2>2 DEF LifecycleInv, UsesOK
  <2>4. node[k].scope \in Scopes
    BY <2>1, NoneDiffers DEF LifecycleInv, ServicesOK, NodeOK, Owned
  <2>5. scope'[node[k].scope].created = scope[node[k].scope].created
    BY <2>4 DEF Moves
  <2>6. QED
    BY <2>2, <2>3, <2>5 DEF InOrder
<1>2. QED
  BY <1>1 DEF UsesOK

LEMMA FactoryAliasesKeeps ==
  ASSUME LifecycleInv, NEW n \in Nodes, NEW m \in Nodes, FactoryAliases(n, m)
  PROVE  LifecycleInv'
<1> DEFINE v == node[m].value
<1>1. /\ Free(Factory(n)) /\ node[m].state = "ready" /\ node[v].scope \in {node[n].scope, Root}
      /\ node' = [node EXCEPT ![n].state = "ready", ![n].value = v]
      /\ Released(n) /\ Ends(Factory(n))
      /\ UNCHANGED <<registryVars, scopes, scope, attempts, request, uses, disposed>>
  BY DEF FactoryAliases, Claimable
<1>2. v \in Nodes /\ v \in Owned
  BY <1>1 DEF LifecycleInv, ServicesOK, NodeOK
<1> HIDE DEF v
<1>3. Pending(n)
  BY <1>1, AliveStarted DEF Free
<1>4. /\ node' \in [Nodes -> NodeRecord]
      /\ node'[n].state = "ready" /\ node'[n].value = v /\ node'[n].scope = node[n].scope
      /\ node'[n].token = node[n].token
      /\ \A k \in Nodes \ {n} : node'[k] = node[k]
  BY <1>1, <1>2, SettledResult DEF LifecycleInv
<1>5. SettlesOnly(n)
  BY <1>4 DEF SettlesOnly
<1>6. ActorTypes' /\ ActorsOK' /\ (\A u \in uses' : UseOK(u[1], u[2])')
  BY <1>1, <1>5, SettledActors
<1>7. \A t \in Scopes : Moves(t)
  BY <1>1, SameMoves
<1>8. \A e \in Requests : RequestOK(e)'
  BY <1>1 DEF LifecycleInv, ServicesOK, RequestOK
<1>9. phase' = phase
  BY <1>1 DEF registryVars
<1>10. ServicesOK' /\ Owned' = Owned
  BY <1>1, <1>2, <1>3, <1>4, <1>5, <1>7, <1>8, <1>9, SettledServices
<1>11. UsesOK'
  BY <1>1, <1>3, <1>5, <1>6, <1>7, <1>10, SettledOrder
<1>12. RegistryTypes' /\ StateTypes'
  BY <1>1, <1>4 DEF LifecycleInv, RegistryTypes, StateTypes, registryVars
<1>13. PhaseOK'
  BY <1>1 DEF LifecycleInv, PhaseOK, registryVars, Executing, Live, Members
<1>14. QED
  BY <1>6, <1>10, <1>11, <1>12, <1>13 DEF LifecycleInv

LEMMA FactoryFailsKeeps == ASSUME LifecycleInv, NEW n \in Nodes, FactoryFails(n) PROVE LifecycleInv'
<1>1. /\ Free(Factory(n)) /\ node' = [node EXCEPT ![n].state = "failed"]
      /\ Released(n) /\ Ends(Factory(n))
      /\ scope' = Closed(HostScope) \/ scope' = scope
      /\ BeginShutdown(TRUE) \/ UNCHANGED registryVars
      /\ UNCHANGED <<scopes, attempts, request, uses, disposed>>
  BY DEF FactoryFails
<1>2. Pending(n)
  BY <1>1, AliveStarted DEF Free
<1>3. node[n].value = None
  BY <1>2, PendingScope
<1>4. /\ node' \in [Nodes -> NodeRecord]
      /\ node'[n].state = "failed" /\ node'[n].value = None /\ node'[n].scope = node[n].scope
      /\ node'[n].token = node[n].token
      /\ \A k \in Nodes \ {n} : node'[k] = node[k]
  BY <1>1, <1>3, SettledResult DEF LifecycleInv
<1>5. SettlesOnly(n)
  BY <1>4 DEF SettlesOnly
<1>6. ActorTypes' /\ ActorsOK' /\ (\A u \in uses' : UseOK(u[1], u[2])')
  BY <1>1, <1>5, SettledActors
<1>7. /\ scope' \in [Scopes -> ScopeRecord]
      /\ \A t \in Scopes : Moves(t) /\ (Live(t)' => Live(t))
      /\ \A t \in Scopes \ {HostScope} : scope'[t] = scope[t]
  BY <1>1, ScopesDiffer, ClosedResult, SameMoves DEF LifecycleInv, StateTypes
<1>8. \A e \in Requests : RequestOK(e)'
  BY <1>1, <1>7, ScopesDiffer DEF LifecycleInv, ServicesOK, RequestOK
<1>9. PhaseOK' /\ RegistryTypes' /\ (phase' \in {"singletons", "done"} <=> phase \in {"singletons", "done"})
  <2>1. scope'[Root] = scope[Root]
    BY <1>7, ScopesDiffer
  <2>2. CASE BeginShutdown(TRUE)
    BY <1>1, <1>7, <2>1, <2>2, BeginPhase DEF LifecycleInv
  <2>3. CASE UNCHANGED registryVars
    <3>1. UNCHANGED <<registry, failed, phase, participant, joining, closing>>
      BY <2>3 DEF registryVars
    <3>2. RegistryTypes'
      BY <1>1, <3>1 DEF LifecycleInv, RegistryTypes
    <3>3. Root \notin Members(scopes') /\ Members(scopes') = Members(scopes)
      BY <1>1 DEF LifecycleInv, PhaseOK, Members
    <3>4. \A e \in Requests : Executing(e)' => Executing(e)
      BY <1>1 DEF Executing
    <3>5. PhaseOK'
      BY <1>7, <2>1, <3>1, <3>3, <3>4, PhaseStays DEF LifecycleInv
    <3>6. QED
      BY <3>1, <3>2, <3>5
  <2>4. QED
    BY <1>1, <2>2, <2>3
<1>10. ServicesOK' /\ Owned' = Owned
  BY <1>1, <1>2, <1>4, <1>5, <1>7, <1>8, <1>9, SettledServices
<1>11. UsesOK'
  BY <1>1, <1>2, <1>5, <1>6, <1>7, <1>10, SettledOrder
<1>12. StateTypes'
  BY <1>1, <1>4, <1>7 DEF LifecycleInv, StateTypes
<1>13. QED
  BY <1>6, <1>9, <1>10, <1>11, <1>12 DEF LifecycleInv

LEMMA FactoryCreatesKeeps == ASSUME LifecycleInv, NEW n \in Nodes, FactoryCreates(n) PROVE LifecycleInv'
<1> DEFINE s == node[n].scope
           left == scope[s].created
           r == [scope[s] EXCEPT !.created = Append(left, n)]
<1>1. /\ Free(Factory(n)) /\ node' = [node EXCEPT ![n].state = "ready", ![n].value = n]
      /\ scope' = [scope EXCEPT ![s].created = Append(left, n)]
      /\ Released(n) /\ Ends(Factory(n))
      /\ UNCHANGED <<registry, failed, phase, participant, joining, closing, scopes, attempts,
                     request, uses, disposed>>
  <2>1. scope' = [scope EXCEPT ![s].created = Append(@, n)]
    BY DEF FactoryCreates
  <2>2. scope' = [scope EXCEPT ![s].created = Append(left, n)]
    BY <2>1
  <2>3. QED
    BY <2>2 DEF FactoryCreates, registryVars
<1>2. Pending(n)
  BY <1>1, AliveStarted DEF Free
<1>3. /\ s \in Scopes /\ scope[s].state \in {"Open", "Closing"} /\ scope[s].disposing = 0
      /\ n \notin Owned /\ n \notin Members(disposed) /\ n <= attempts /\ node[n].token \in Tokens
      /\ phase \notin {"singletons", "done"} /\ ~Reclaiming(s) /\ ~Reclaiming(Root)
  BY <1>2, PendingScope
<1>4. /\ node' \in [Nodes -> NodeRecord]
      /\ node'[n].state = "ready" /\ node'[n].value = n /\ node'[n].scope = s /\ node'[n].token = node[n].token
      /\ \A k \in Nodes \ {n} : node'[k] = node[k]
  BY <1>1, SettledResult DEF LifecycleInv
<1>5. SettlesOnly(n)
  BY <1>4 DEF SettlesOnly
<1>6. ActorTypes' /\ ActorsOK' /\ (\A u \in uses' : UseOK(u[1], u[2])')
  BY <1>1, <1>5, SettledActors
<1>7. scope \in [Scopes -> ScopeRecord] /\ left \in Seq(Nodes)
  BY <1>3 DEF LifecycleInv, StateTypes, ScopeRecord
<1>8. scope' = [scope EXCEPT ![s] = r]
  BY <1>1, Zenon
<1>9. /\ r \in ScopeRecord /\ r.created = Append(left, n) /\ r.state = scope[s].state
      /\ r.disposing = scope[s].disposing
  <2>1. Append(left, n) \in Seq(Nodes)
    BY <1>7
  <2>2. QED
    BY <1>3, <1>7, <2>1 DEF ScopeRecord
<1> HIDE DEF r
<1>10. scope' \in [Scopes -> ScopeRecord] /\ scope'[s] = r /\ \A t \in Scopes \ {s} : scope'[t] = scope[t]
  BY <1>3, <1>7, <1>8, <1>9
<1> DEFINE c == scope'[s].created
<1>11. /\ Members(c) = Members(left) \cup {n} /\ Len(left) \in Nat
       /\ DOMAIN left = 1..Len(left) /\ DOMAIN c = 1..Len(left) + 1
       /\ \A i \in 1..Len(left) : c[i] = left[i]
       /\ c[Len(left) + 1] = n
  <2>1. c = Append(left, n)
    BY <1>9, <1>10
  <2> HIDE DEF left, c
  <2>2. /\ Members(Append(left, n)) = Members(left) \cup {n} /\ Len(left) \in Nat
        /\ DOMAIN left = 1..Len(left) /\ DOMAIN Append(left, n) = 1..Len(left) + 1
        /\ \A i \in 1..Len(left) : Append(left, n)[i] = left[i]
        /\ Append(left, n)[Len(left) + 1] = n
    BY <1>7, AppendResult
  <2>3. QED
    BY <2>1, <2>2
<1>12. Owned' = Owned \cup {n}
  BY <1>4 DEF Owned
<1>13. \A k \in Nodes : node'[k].scope = node[k].scope
  BY <1>4
<1>14. /\ \A t \in Scopes : scope'[t].state = scope[t].state /\ scope'[t].disposing = scope[t].disposing
       /\ \A t \in Scopes \ {s} : scope'[t].created = scope[t].created
  BY <1>9, <1>10
<1> HIDE DEF s, left, c
<1>15. StateTypes' /\ RegistryTypes'
  BY <1>1, <1>4, <1>10 DEF LifecycleInv, StateTypes, RegistryTypes
<1>16. PhaseOK'
  <2>1. \A t \in Scopes : Live(t)' <=> Live(t)
    BY <1>14 DEF Live
  <2>2. Root \notin Members(scopes') /\ Members(scopes') = Members(scopes)
    BY <1>1 DEF LifecycleInv, PhaseOK, Members
  <2>3. \A e \in Requests : Executing(e)' => Executing(e)
    BY <1>1 DEF Executing
  <2>4. QED
    BY <1>1, <1>14, <2>1, <2>2, <2>3, ScopesDiffer, PhaseStays DEF LifecycleInv
<1>17. ASSUME NEW t \in Scopes PROVE ScopeOK(t)'
  <2>1. \A k \in Nodes : Pending(k)' => Pending(k)
    BY <1>4 DEF Pending
  <2>2. PendingIn(t)' \subseteq PendingIn(t)
    BY <1>13, <2>1 DEF PendingIn
  <2>3. ScopeOK(t) /\ scope'[t].state = scope[t].state /\ scope'[t].disposing = scope[t].disposing
    BY <1>14 DEF LifecycleInv, ServicesOK
  <2>4. t # s => scope'[t].created = scope[t].created
    BY <1>14
  <2>5. QED
    BY <1>1, <1>3, <2>2, <2>3, <2>4 DEF ScopeOK
<1>18. ASSUME NEW t \in Scopes PROVE CreatedOK(t)'
  <2>1. CreatedOK(t) /\ \A k \in Owned : k \in Nodes
    BY DEF LifecycleInv, ServicesOK, Owned
  <2>2. CASE t # s
    <3>1. scope'[t].created = scope[t].created /\ Members(disposed)' = Members(disposed)
      BY <1>1, <1>14, <2>2 DEF Members
    <3>2. \A k \in Owned : k \in Owned' /\ node'[k].scope = node[k].scope
      BY <1>12, <1>13, <2>1
    <3>3. \A i \in DOMAIN scope[t].created :
            LET k == scope[t].created[i] IN k \in Owned /\ node[k].scope = t /\ k \notin Members(disposed)
      BY <2>1 DEF CreatedOK
    <3>4. \A i \in DOMAIN scope[t].created :
            LET k == scope[t].created[i] IN k \in Owned' /\ node'[k].scope = t /\ k \notin Members(disposed)'
      BY <3>1, <3>2, <3>3
    <3>5. QED
      BY <2>1, <3>1, <3>4 DEF CreatedOK
  <2>3. CASE t = s
    <3>1. /\ \A i \in 1..Len(left) : left[i] \in Owned /\ node[left[i]].scope = s /\ left[i] \notin Members(disposed)
          /\ \A i, j \in 1..Len(left) : left[i] = left[j] => i = j
      BY <1>11, <2>1, <2>3 DEF CreatedOK, left
    <3>2. \A i \in 1..Len(left) + 1 : i \in 1..Len(left) \/ i = Len(left) + 1
      BY <1>11
    <3>3. Members(disposed)' = Members(disposed)
      BY <1>1 DEF Members
    <3>4. ASSUME NEW i \in DOMAIN c
          PROVE  c[i] \in Owned' /\ node'[c[i]].scope = s /\ c[i] \notin Members(disposed)'
      <4>1. CASE i \in 1..Len(left)
        BY <1>11, <1>12, <1>13, <2>1, <3>1, <3>3, <4>1
      <4>2. CASE i = Len(left) + 1
        BY <1>3, <1>4, <1>11, <1>12, <3>3, <4>2
      <4>3. QED
        BY <1>11, <3>2, <4>1, <4>2
    <3>5. \A i \in 1..Len(left) : left[i] # n
      BY <1>3, <3>1
    <3>6. \A i, j \in DOMAIN c : c[i] = c[j] => i = j
      BY <1>11, <3>1, <3>2, <3>5
    <3>7. QED
      BY <2>3, <3>4, <3>6 DEF CreatedOK, c
  <2>4. QED
    BY <2>2, <2>3
<1>19. \A e \in Requests : RequestOK(e)'
  BY <1>1, <1>14, ScopesDiffer DEF LifecycleInv, ServicesOK, RequestOK
<1>20. ASSUME NEW k \in Nodes PROVE NodeOK(k)' /\ OwnedOK(k)'
  <2>1. NodeOK(k) /\ OwnedOK(k)
    BY DEF LifecycleInv, ServicesOK
  <2>2. CASE k = n
    <3>1. NodeOK(k)'
      BY <1>1, <1>3, <1>4, <1>12, <1>13, <2>2 DEF NodeOK
    <3>2. n \in Members(c)
      BY <1>11
    <3>3. OwnedOK(k)'
      BY <1>4, <2>2, <3>2 DEF OwnedOK, Members, c
    <3>4. QED
      BY <3>1, <3>3
  <2>3. CASE k # n
    <3>1. node'[k] = node[k] /\ (k \in Owned' => k \in Owned)
      BY <1>4, <1>12, <2>3
    <3>2. node[k].state = "ready" => node'[node[k].value].scope = node[node[k].value].scope
      BY <1>13, <2>1 DEF NodeOK
    <3>3. NodeOK(k)'
      <4>1. attempts' = attempts /\ Owned \subseteq Owned'
        BY <1>1, <1>12
      <4>2. QED
        BY <2>1, <3>1, <3>2, <4>1 DEF NodeOK
    <3>4. ASSUME k \in Owned PROVE k \in Members(scope'[node[k].scope].created) \cup Members(disposed)
      <4>1. node[k].scope \in Scopes /\ k \in Members(scope[node[k].scope].created) \cup Members(disposed)
        BY <2>1, <3>4, NoneDiffers DEF NodeOK, OwnedOK, Owned
      <4>2. CASE node[k].scope = s
        BY <1>11, <4>1, <4>2 DEF left, c
      <4>3. CASE node[k].scope # s
        BY <1>14, <4>1, <4>3 DEF Members
      <4>4. QED
        BY <4>2, <4>3
    <3>5. OwnedOK(k)'
      BY <1>1, <3>1, <3>4 DEF OwnedOK, Members
    <3>6. QED
      BY <3>3, <3>5
  <2>4. QED
    BY <2>2, <2>3
<1>21. DisposedOK'
  <2>1. ASSUME NEW i \in DOMAIN disposed
        PROVE  disposed[i] \in Owned' /\ \E t \in Scopes : t = node'[disposed[i]].scope /\ Reclaiming(t)'
    <3>1. disposed[i] \in Owned /\ Reclaiming(node[disposed[i]].scope)
      BY DEF LifecycleInv, ServicesOK, DisposedOK
    <3>2. PICK t \in Scopes : t = node[disposed[i]].scope
      BY <3>1, NoneDiffers DEF LifecycleInv, ServicesOK, NodeOK, Owned
    <3>3. Reclaiming(t)
      BY <3>1, <3>2
    <3>4. Reclaiming(t)'
      BY <1>1, <1>14, <3>3 DEF Reclaiming
    <3>5. disposed[i] \in Nodes
      BY <3>1 DEF Owned
    <3>6. QED
      BY <1>12, <1>13, <3>1, <3>2, <3>4, <3>5
  <2>2. \A i, j \in DOMAIN disposed : disposed[i] = disposed[j] => i = j
    BY DEF LifecycleInv, ServicesOK, DisposedOK
  <2>3. QED
    BY <1>1, <2>1, <2>2 DEF DisposedOK, Reclaiming
<1>22. ServicesOK'
  BY <1>17, <1>18, <1>19, <1>20, <1>21 DEF ServicesOK
<1>23. ASSUME NEW k \in Nodes, NEW m \in Nodes,
              k \in Owned', <<Factory(k), m>> \in uses', node'[m].state = "ready", node'[m].value # k
       PROVE  InOrder(k, node[m].value)'
  <2>1. <<Factory(k), m>> \in uses /\ node'[k].scope = node[k].scope
    BY <1>1, <1>13, <1>23
  <2>2. m # n
    BY <1>2, <1>4, <1>12, <1>23, <2>1, UserPending
  <2>3. node'[m] = node[m] /\ node[m].state = "ready"
    BY <1>4, <1>23, <2>2
  <2> DEFINE w == node[m].value
  <2>4. w \in Nodes /\ w \in Owned /\ w # n /\ w # k /\ node[w].scope \in Scopes
    <3>1. w \in Nodes /\ w \in Owned
      BY <2>3 DEF LifecycleInv, ServicesOK, NodeOK
    <3>2. node[w].scope \in Scopes
      BY <3>1, NoneDiffers DEF LifecycleInv, ServicesOK, NodeOK, Owned
    <3>3. QED
      BY <1>3, <1>23, <2>3, <3>1, <3>2
  <2> HIDE DEF w
  <2>5. \A i \in 1..Len(left) + 1 : i \in 1..Len(left) \/ i = Len(left) + 1
    BY <1>11
  <2>6. CASE k = n
    <3>1. node[w].scope \in {s, Root}
      <4> DEFINE u == <<Factory(k), m>>
      <4>1. UseOK(u[1], u[2])
        BY <2>1 DEF LifecycleInv, UsesOK
      <4>2. node[m].scope \in {s, Root}
        BY <2>6, <4>1 DEF UseOK, s
      <4>3. QED
        BY <2>3, <4>2 DEF LifecycleInv, ServicesOK, NodeOK, w
    <3>2. ~Reclaiming(node[w].scope)
      BY <1>3, <3>1
    <3>3. w \notin Members(disposed)
      BY <3>2 DEF LifecycleInv, ServicesOK, DisposedOK, Members
    <3>4. \A i, j \in DOMAIN c : c[i] = n /\ c[j] = w => j < i
      <4>1. \A i \in 1..Len(left) : left[i] # n
        <5>1. CreatedOK(s)
          BY <1>3 DEF LifecycleInv, ServicesOK
        <5>2. QED
          BY <1>3, <1>11, <5>1 DEF CreatedOK, left
      <4>2. QED
        BY <1>11, <2>4, <2>5, <4>1
    <3>5. QED
      <4>1. node'[m].value = w /\ disposed' = disposed /\ node'[k].scope = s
        BY <1>1, <1>4, <2>3, <2>6 DEF w
      <4>2. \A i \in DOMAIN disposed : disposed[i] # w
        BY <3>3 DEF Members
      <4>3. QED
        BY <2>6, <3>4, <4>1, <4>2 DEF InOrder, c
  <2>7. CASE k # n
    <3>1. k \in Owned /\ InOrder(k, w)
      BY <1>12, <1>23, <2>1, <2>3, <2>4, <2>7 DEF LifecycleInv, UsesOK, w
    <3>2. node[k].scope \in Scopes
      BY <3>1, NoneDiffers DEF LifecycleInv, ServicesOK, NodeOK, Owned
    <3>3. CASE node[k].scope # s
      <4>1. scope'[node'[k].scope].created = scope[node[k].scope].created
        BY <1>14, <2>1, <3>2, <3>3
      <4>2. node'[m].value = w /\ disposed' = disposed
        BY <1>1, <2>3 DEF w
      <4>3. QED
        BY <3>1, <4>1, <4>2 DEF InOrder
    <3>4. CASE node[k].scope = s
      <4>1. \A i, j \in 1..Len(left) : left[i] = k /\ left[j] = w => j < i
        BY <1>11, <3>1, <3>4 DEF InOrder, left
      <4>2. \A i, j \in DOMAIN c : c[i] = k /\ c[j] = w => j < i
        BY <1>11, <2>4, <2>5, <2>7, <4>1
      <4>3. \A i \in DOMAIN disposed : disposed[i] = w => \E j \in 1..i : disposed[j] = k
        BY <3>1 DEF InOrder
      <4>4. QED
        BY <1>1, <2>1, <2>3, <3>4, <4>2, <4>3 DEF InOrder, c, w
    <3>5. QED
      BY <3>3, <3>4
  <2>8. QED
    BY <2>6, <2>7
<1>24. UsesOK'
  BY <1>6, <1>23 DEF UsesOK
<1>25. QED
  BY <1>6, <1>15, <1>16, <1>22, <1>24 DEF LifecycleInv

(***************************************************************************)
(* A request starts                                                        *)
(***************************************************************************)

\* The actors that an actor runs in were started before.
LEMMA ContextStarted ==
  ASSUME LifecycleInv, NEW a \in Actors, Started(a)
  PROVE  Context(a) \in SUBSET Actors /\ \A b \in Context(a) : Started(b)
<1>1. lineage[a] \in SUBSET Actors /\ LineageOK(a)
  BY DEF LifecycleInv, ActorTypes, ActorsOK
<1>2. QED
  BY <1>1 DEF Context, LineageOK

LEMMA StartResult ==
  ASSUME LifecycleInv, NEW e \in Requests, NEW a \in Actors \cup {Host}, NEW s \in {e, HostScope},
         NEW awaited \in BOOLEAN, Start(e, a, s, awaited)
  PROVE  /\ registry = "Running" /\ phase = "none" /\ request[e].state = "idle" /\ scope[e].state = "none"
         /\ request' \in [Requests -> RequestRecord]
         /\ request'[e].state = "running" /\ request'[e].scope = s
         /\ \A f \in Requests \ {e} : request'[f] = request[f]
         /\ \A f \in Requests : request'[f].scope \in {f, HostScope}
         /\ a = Host \/ (a \in Actors /\ Free(a) /\ Started(a) /\ a # Handler(e))
         /\ lineage'[Handler(e)] = IF a = Host THEN {} ELSE Context(a)
         /\ \A b \in Actors \ {Handler(e)} : lineage'[b] = lineage[b]
         /\ lineage' \in [Actors -> SUBSET Actors]
         /\ \A b \in Actors \ {a} : awaits'[b] = awaits[b]
         /\ a # Host => awaits'[a] \in {Handler(e), None}
         /\ awaits' \in [Actors -> Handlers \cup Factories \cup {None, Shutdown}]
<1> DEFINE r == [state |-> "running", scope |-> s]
           l == IF a = Host THEN {} ELSE Context(a)
<1>0. registry = "Running" /\ request[e].state = "idle" /\ (a = Host \/ Free(a))
  BY DEF Start, assertLive
<1>1. /\ request' = [request EXCEPT ![e] = r] /\ lineage' = [lineage EXCEPT ![Handler(e)] = l]
      /\ awaits' = IF a = Host THEN awaits ELSE [awaits EXCEPT ![a] = IF awaited THEN Handler(e) ELSE None]
  BY DEF Start
<1>2. registry = "Running" /\ phase = "none"
  BY <1>0 DEF LifecycleInv, PhaseOK
<1>3. scope[e].state = "none"
  BY <1>0 DEF LifecycleInv, ServicesOK, RequestOK
<1>4. request \in [Requests -> RequestRecord] /\ lineage \in [Actors -> SUBSET Actors]
  BY DEF LifecycleInv, StateTypes, ActorTypes
<1>5. r \in RequestRecord /\ r.state = "running" /\ r.scope = s
  BY ScopesDiffer DEF RequestRecord
<1>6. \A f \in Requests : request[f].scope \in {f, HostScope}
  BY DEF LifecycleInv, StateTypes
<1>7. a # Host => a \in Actors /\ Free(a) /\ Started(a) /\ a # Handler(e)
  <2>1. SUFFICES ASSUME a # Host PROVE a \in Actors /\ Free(a) /\ Started(a) /\ a # Handler(e)
    OBVIOUS
  <2>2. a \in Actors /\ Free(a)
    BY <1>0, <2>1
  <2>3. Started(a)
    BY <2>2, FreeStarted
  <2>4. QED
    BY <1>0, <2>2, <2>3 DEF Started
<1>8. l \in SUBSET Actors
  BY <1>7, ContextStarted
<1> HIDE DEF r, l
<1>9. /\ request' \in [Requests -> RequestRecord] /\ request'[e] = r
      /\ \A f \in Requests \ {e} : request'[f] = request[f]
  BY <1>1, <1>4, <1>5
<1>10. /\ lineage' \in [Actors -> SUBSET Actors] /\ lineage'[Handler(e)] = l
       /\ \A b \in Actors \ {Handler(e)} : lineage'[b] = lineage[b]
  BY <1>1, <1>4, <1>8, ActorsDiffer
<1>11. /\ \A b \in Actors \ {a} : awaits'[b] = awaits[b]
       /\ a # Host => awaits'[a] \in {Handler(e), None}
       /\ awaits' \in [Actors -> Handlers \cup Factories \cup {None, Shutdown}]
  <2>1. CASE a = Host
    BY <1>1, <2>1 DEF LifecycleInv, ActorTypes
  <2>2. CASE a # Host
    <3>1. PICK b \in {Handler(e), None} : awaits' = [awaits EXCEPT ![a] = b]
      BY <1>1, <2>2
    <3>2. b \in Handlers \cup Factories \cup {None, Shutdown}
      BY DEF Handlers
    <3>3. QED
      BY <1>7, <2>2, <3>1, <3>2, AwaitsResult DEF LifecycleInv
  <2>3. QED
    BY <2>1, <2>2
<1>12. \A f \in Requests : request'[f].scope \in {f, HostScope}
  BY <1>5, <1>6, <1>9
<1>13. QED
  BY <1>0, <1>2, <1>3, <1>5, <1>7, <1>9, <1>10, <1>11, <1>12 DEF l

LEMMA StartActors ==
  ASSUME LifecycleInv, NEW e \in Requests, NEW a \in Actors \cup {Host}, NEW s \in {e, HostScope},
         NEW awaited \in BOOLEAN, Start(e, a, s, awaited)
  PROVE  ActorTypes' /\ ActorsOK'
<1>1. /\ request[e].state = "idle"
      /\ request'[e].state = "running"
      /\ \A f \in Requests \ {e} : request'[f] = request[f]
      /\ a = Host \/ (a \in Actors /\ Free(a) /\ Started(a) /\ a # Handler(e))
      /\ lineage'[Handler(e)] = IF a = Host THEN {} ELSE Context(a)
      /\ \A b \in Actors \ {Handler(e)} : lineage'[b] = lineage[b]
      /\ lineage' \in [Actors -> SUBSET Actors]
      /\ \A b \in Actors \ {a} : awaits'[b] = awaits[b]
      /\ a # Host => awaits'[a] \in {Handler(e), None}
      /\ awaits' \in [Actors -> Handlers \cup Factories \cup {None, Shutdown}]
  BY StartResult
<1>2. UNCHANGED <<node, attempts, waits, hostAwaits, uses>>
  BY DEF Start
<1>3. ActorTypes'
  BY <1>1, <1>2 DEF LifecycleInv, ActorTypes
<1>4. ASSUME NEW b, Started(b) PROVE Started(b)' /\ b # Handler(e)
  BY <1>1, <1>2, <1>4 DEF Started
<1>5. \A b \in Actors : LineageOK(b) /\ AwaitsOK(b)
  BY DEF LifecycleInv, ActorsOK
<1>6. ASSUME NEW b \in Actors PROVE LineageOK(b)'
  <2>1. awaits'[b] # None => Started(b)'
    <3>1. CASE b = a
      BY <1>1, <1>4, <3>1, ActorsDiffer
    <3>2. CASE b # a
      BY <1>1, <1>4, <1>5, <3>2 DEF LineageOK
    <3>3. QED
      BY <3>1, <3>2
  <2>2. CASE b = Handler(e)
    <3>1. \A c \in lineage'[b] : Started(c)'
      <4>1. CASE a = Host
        BY <1>1, <2>2, <4>1
      <4>2. CASE a # Host
        <5>1. \A c \in Context(a) : Started(c)
          BY <1>1, <4>2, ContextStarted
        <5>2. QED
          BY <1>1, <1>4, <2>2, <4>2, <5>1
      <4>3. QED
        BY <4>1, <4>2
    <3>2. QED
      BY <2>1, <2>2, <3>1, ActorsDiffer DEF LineageOK
  <2>3. CASE b # Handler(e)
    <3>1. lineage'[b] = lineage[b] /\ LineageOK(b)
      BY <1>1, <1>5, <2>3
    <3>2. QED
      BY <1>4, <2>1, <3>1 DEF LineageOK
  <2>4. QED
    BY <2>2, <2>3
<1>7. ASSUME NEW b \in Actors, b # Handler(e) PROVE Context(b)' = Context(b)
  BY <1>1, <1>7 DEF Context
<1>8. ASSUME NEW b \in Actors, awaits'[b] # None, b # a PROVE awaits'[b] = awaits[b] /\ Context(b)' = Context(b)
  <2>1. awaits'[b] = awaits[b]
    BY <1>1, <1>8
  <2>2. b # Handler(e)
    BY <1>4, <1>5, <1>8, <2>1 DEF LineageOK
  <2>3. QED
    BY <1>7, <2>1, <2>2
<1>9. ASSUME NEW b \in Actors PROVE AwaitsOK(b)'
  <2>1. ASSUME NEW f \in Requests, awaits'[b] = Handler(f)
        PROVE  /\ request'[f].state # "idle"
               /\ lineage'[Handler(f)] = Context(b)' /\ Handler(f) \notin Context(b)'
    <3>1. CASE b = a
      <4>1. a # Host /\ f = e
        BY <1>1, <2>1, <3>1, ActorsDiffer, NoneDiffers
      <4>2. Handler(e) \notin Context(a) /\ Context(a)' = Context(a)
        BY <1>1, <1>4, <1>7, <4>1, ContextStarted
      <4>3. QED
        BY <1>1, <3>1, <4>1, <4>2
    <3>2. CASE b # a
      <4>1. awaits[b] = Handler(f) /\ Context(b)' = Context(b)
        BY <1>8, <2>1, <3>2, NoneDiffers
      <4>2. /\ request[f].state # "idle"
            /\ lineage[Handler(f)] = Context(b) /\ Handler(f) \notin Context(b)
        BY <1>5, <4>1 DEF AwaitsOK
      <4>3. f # e
        BY <1>1, <4>2
      <4>4. lineage'[Handler(f)] = lineage[Handler(f)]
        BY <1>1, <4>3, ActorsDiffer
      <4>5. QED
        BY <1>1, <4>1, <4>2, <4>3, <4>4
    <3>3. QED
      BY <3>1, <3>2
  <2>2. ASSUME NEW m \in Nodes, NEW n \in Nodes, awaits'[b] = Factory(m), Pending(m)', Pending(n)', RunsIn(b, n)'
        PROVE  <<n, m>> \in waits'
    <3>1. b # a
      BY <1>1, <2>2, ActorsDiffer, NoneDiffers
    <3>2. awaits[b] = Factory(m) /\ Context(b)' = Context(b)
      BY <1>8, <2>2, <3>1, NoneDiffers
    <3>3. Pending(m) /\ Pending(n) /\ RunsIn(b, n)
      BY <1>2, <2>2, <3>2 DEF Pending, RunsIn
    <3>4. QED
      BY <1>2, <1>5, <3>2, <3>3 DEF AwaitsOK
  <2>3. ASSUME NEW m \in Nodes, awaits'[b] = Factory(m) PROVE m <= attempts'
    <3>1. b # a
      BY <1>1, <2>3, ActorsDiffer, NoneDiffers
    <3>2. awaits[b] = Factory(m)
      BY <1>8, <2>3, <3>1, NoneDiffers
    <3>3. QED
      BY <1>2, <1>5, <3>2 DEF AwaitsOK
  <2>4. QED
    BY <2>1, <2>2, <2>3 DEF AwaitsOK
<1>10. WaitsOK'
  BY <1>2 DEF LifecycleInv, ActorsOK, WaitsOK, Pending
<1>11. QED
  BY <1>3, <1>6, <1>9, <1>10 DEF ActorsOK

LEMMA StartKeeps ==
  ASSUME LifecycleInv, NEW e \in Requests, NEW a \in Actors \cup {Host}, NEW awaited \in BOOLEAN,
         runOwned(e, a, awaited) \/ runInScope(e, a, awaited)
  PROVE  LifecycleInv'
<1>1. PICK s \in {e, HostScope} :
        /\ Start(e, a, s, awaited)
        /\ \/ s = e /\ scope' = [scope EXCEPT ![e] = OpenScope] /\ scopes' = Append(scopes, e)
           \/ s = HostScope /\ UNCHANGED <<scope, scopes>>
  BY DEF runOwned, runInScope
<1>2. ActorTypes' /\ ActorsOK'
  BY <1>1, StartActors
<1>3. /\ registry = "Running" /\ phase = "none" /\ request[e].state = "idle" /\ scope[e].state = "none"
      /\ request' \in [Requests -> RequestRecord]
      /\ request'[e].state = "running" /\ request'[e].scope = s
      /\ \A f \in Requests \ {e} : request'[f] = request[f]
      /\ \A f \in Requests : request'[f].scope \in {f, HostScope}
      /\ a = Host \/ (a \in Actors /\ Free(a))
      /\ \A b \in Actors \ {a} : awaits'[b] = awaits[b]
  BY <1>1, StartResult
<1>4. UNCHANGED <<registry, failed, phase, participant, joining, closing, node, attempts, waits,
                  hostAwaits, uses, disposed>>
  BY <1>1 DEF Start, registryVars
<1>5. scopes \in Seq(Scopes) /\ scope \in [Scopes -> ScopeRecord] /\ ScopeOK(e) /\ e \in Scopes
      /\ e # Root /\ e # HostScope
  BY ScopesDiffer DEF LifecycleInv, RegistryTypes, StateTypes, ServicesOK
<1>6. /\ scope' \in [Scopes -> ScopeRecord] /\ \A t \in Scopes : Moves(t)
      /\ \A t \in Scopes \ {e} : scope'[t] = scope[t]
      /\ s = e => scope'[e].state = "Open"
      /\ scopes' \in Seq(Scopes) /\ Members(scopes') \in SUBSET (Members(scopes) \cup {e})
      /\ Members(scopes) \subseteq Members(scopes')
      /\ scope'[e] = scope[e] \/ e \in Members(scopes')
  <2>1. CASE s = e /\ scope' = [scope EXCEPT ![e] = OpenScope] /\ scopes' = Append(scopes, e)
    <3>1. Append(scopes, e) \in Seq(Scopes) /\ Members(Append(scopes, e)) = Members(scopes) \cup {e}
      BY <1>5, AppendResult
    <3>2. Members(scopes') = Members(scopes) \cup {e}
      BY <2>1, <3>1
    <3>3. /\ scope' \in [Scopes -> ScopeRecord] /\ scope'[e].state = "Open"
          /\ \A t \in Scopes \ {e} : scope'[t] = scope[t]
          /\ \A t \in Scopes : Moves(t)
      BY <1>3, <1>5, <2>1, OpenedResult
    <3>4. QED
      BY <2>1, <3>1, <3>2, <3>3
  <2>2. CASE s = HostScope /\ UNCHANGED <<scope, scopes>>
    <3>1. Members(scopes') = Members(scopes)
      BY <2>2 DEF Members
    <3>2. QED
      BY <1>5, <2>2, <3>1, SameMoves
  <2>3. QED
    BY <1>1, <2>1, <2>2
<1>7. RegistryTypes' /\ StateTypes'
  BY <1>3, <1>4, <1>6 DEF LifecycleInv, RegistryTypes, StateTypes
<1>8. PhaseOK'
  <2>1. Root \notin Members(scopes') /\ scope'[Root] = scope[Root]
    BY <1>5, <1>6, ScopesDiffer DEF LifecycleInv, PhaseOK
  <2>2. ASSUME NEW t \in Scopes \ {Root}, Live(t)'
        PROVE  \/ Live(t) /\ (t \in Members(scopes) => t \in Members(scopes'))
               \/ phase = "none" /\ t \in Members(scopes')
    <3>1. CASE t = e
      BY <1>3, <1>6, <2>2, <3>1 DEF Live
    <3>2. CASE t # e
      BY <1>6, <2>2, <3>2 DEF Live
    <3>3. QED
      BY <3>1, <3>2
  <2>3. \A f \in Requests : Executing(f)' => Executing(f) \/ phase = "none"
    BY <1>3
  <2>4. QED
    BY <1>4, <2>1, <2>2, <2>3, PhaseStays DEF LifecycleInv
<1>9. ServicesOK'
  <2>1. ASSUME NEW f \in Requests PROVE RequestOK(f)'
    <3>1. CASE f = e
      BY <1>3, <1>5, <1>6, <3>1 DEF RequestOK
    <3>2. CASE f # e
      <4>1. RequestOK(f) /\ scope'[f] = scope[f] /\ request'[f] = request[f]
        BY <1>3, <1>6, <3>2, ScopesDiffer DEF LifecycleInv, ServicesOK
      <4>2. QED
        BY <4>1 DEF RequestOK
    <3>3. QED
      BY <3>1, <3>2
  <2>2. QED
    BY <1>4, <1>6, <2>1, ServicesStay DEF LifecycleInv
<1>10. UsesOK'
  <2>1. ASSUME NEW f \in Requests, NEW m \in Nodes, <<Handler(f), m>> \in uses PROVE request'[f] = request[f]
    <3> DEFINE u == <<Handler(f), m>>
    <3>1. UseOK(u[1], u[2])
      BY <2>1 DEF LifecycleInv, UsesOK
    <3>2. request[f].state = "running"
      BY <3>1 DEF UseOK
    <3>3. QED
      BY <1>3, <3>2
  <2>2. \A n \in Nodes : awaits'[Factory(n)] = awaits[Factory(n)] \/ Free(Factory(n))
    BY <1>3, ActorsDiffer
  <2>3. \A t \in Scopes : scope'[t].created = scope[t].created
    BY <1>6 DEF Moves
  <2>4. \A f \in Requests : (\E m \in Nodes : <<Handler(f), m>> \in uses') => request'[f] = request[f]
    BY <1>4, <2>1
  <2>5. QED
    BY <1>4, <2>2, <2>3, <2>4, UsesStay DEF LifecycleInv, ActorTypes
<1>11. QED
  BY <1>2, <1>7, <1>8, <1>9, <1>10 DEF LifecycleInv

(***************************************************************************)
(* Resolving services                                                      *)
(***************************************************************************)

\* A set of attempts has a latest one.
LEMMA Latest == ASSUME NEW C \in SUBSET Nodes, C # {} PROVE \E n \in C : \A m \in C : m <= n
<1> DEFINE D == {MaxNodes - n : n \in C}
<1>1. \A n \in Nodes : n \in Nat /\ MaxNodes - n \in Nat /\ MaxNodes \in Nat
  BY NodesNat DEF Nodes
<1>2. D \subseteq Nat /\ D # {}
  BY <1>1
<1>3. IsWellFoundedOn(OpToRel(<, Nat), Nat)
  BY NatLessThanWellFounded
<1>4. PICK x \in D : \A y \in D : ~(<<y, x>> \in OpToRel(<, Nat))
  BY <1>2, <1>3, WFMin
<1>5. \A y \in D : ~(y < x)
  BY <1>2, <1>4 DEF OpToRel
<1>6. PICK n \in C : x = MaxNodes - n
  OBVIOUS
<1>7. ASSUME NEW m \in C PROVE m <= n
  <2>1. ~(MaxNodes - m < MaxNodes - n)
    BY <1>5, <1>6
  <2>2. QED
    BY <1>1, <2>1
<1>8. QED
  BY <1>7

Callers == Handlers \cup Factories \cup {Host}
ContextOf(a) == IF a = Host THEN {} ELSE Context(a)

LEMMA CallerContext ==
  ASSUME LifecycleInv, NEW a \in Callers, a = Host \/ Free(a)
  PROVE  /\ a # Host => a \in Actors /\ Free(a) /\ Started(a)
         /\ ContextOf(a) \in SUBSET Actors /\ \A b \in ContextOf(a) : Started(b)
         /\ \A e \in Requests : a = Handler(e) => request[e].state = "running"
         /\ \A n \in Nodes : a = Factory(n) => Pending(n)
<1>1. CASE a = Host
  BY <1>1, ActorsDiffer DEF ContextOf
<1>2. CASE a # Host
  <2>1. a \in Actors /\ Free(a)
    BY <1>2, ActorsDiffer DEF Callers, Handlers, Factories
  <2>2. Started(a) /\ Alive(a)
    BY <2>1, FreeStarted DEF Free
  <2>3. QED
    BY <1>2, <2>1, <2>2, ContextStarted, AliveStarted DEF ContextOf
<1>3. QED
  BY <1>1, <1>2

\* The owner of the service that a caller resolves.
LEMMA ResolvesResult ==
  ASSUME LifecycleInv, NEW a \in Callers, NEW token \in Tokens, NEW owner, Resolves(a, token, owner)
  PROVE  /\ a = Host \/ Free(a)
         /\ owner \in Scopes /\ scope[owner].state \in {"Open", "Closing"} /\ scope[owner].disposing = 0
         /\ \A e \in Requests : a = Handler(e) => owner \in {request[e].scope, Root}
         /\ \A n \in Nodes : a = Factory(n) => owner \in {node[n].scope, Root}
<1>1. /\ a = Host \/ Free(a)
      /\ owner \in {Root, ScopeOf(a)} /\ canResolve(owner, ContextOf(a))
  BY DEF Resolves, ContextOf
<1>2. \A e \in Requests : a = Handler(e) => ScopeOf(a) = request[e].scope
  BY DEF ScopeOf, Handler
<1>3. \A n \in Nodes : a = Factory(n) => ScopeOf(a) = node[n].scope
  BY DEF ScopeOf, Factory
<1>4. a = Host => ScopeOf(a) = HostScope
  BY DEF ScopeOf, Host
<1>5. ScopeOf(a) \in Scopes
  <2>1. CASE a = Host
    BY <1>4, <2>1, ScopesDiffer
  <2>2. CASE a # Host
    <3>1. CASE \E e \in Requests : a = Handler(e)
      BY <1>2, <3>1 DEF LifecycleInv, StateTypes, RequestRecord
    <3>2. CASE \E n \in Nodes : a = Factory(n)
      <4>1. PICK n \in Nodes : a = Factory(n)
        BY <3>2
      <4>2. Pending(n)
        BY <1>1, <2>2, <4>1, CallerContext
      <4>3. QED
        BY <1>3, <4>1, <4>2, PendingScope
    <3>3. QED
      BY <2>2, <3>1, <3>2 DEF Callers, Handlers, Factories
  <2>3. QED
    BY <2>1, <2>2
<1>6. owner \in Scopes
  BY <1>1, <1>5, ScopesDiffer
<1>7. scope[owner].state = "Open" \/ (scope[owner].state = "Closing" /\ PendingIn(owner) # {})
  BY <1>1 DEF canResolve
<1>8. scope[owner].disposing = 0
  BY <1>6, <1>7 DEF LifecycleInv, ServicesOK, ScopeOK
<1>9. QED
  BY <1>1, <1>2, <1>3, <1>6, <1>7, <1>8

\* waitFor(): an edge starts at the innermost pending attempt of the caller.
LEMMA EdgeResult ==
  ASSUME NEW as, NEW m
  PROVE  /\ \A w \in Edge(Chain(as), m) :
              w = <<Innermost(Chain(as)), m>> /\ Innermost(Chain(as)) \in Chain(as)
         /\ \A n \in Nodes : Pending(n) /\ Factory(n) \in as /\ (\A k \in Nodes : Factory(k) \in as => k <= n) =>
              <<n, m>> \in Edge(Chain(as), m) /\ Innermost(Chain(as)) = n
<1> DEFINE C == Chain(as)
           i == Innermost(C)
<1>1. C \in SUBSET Nodes
  BY DEF Chain
<1>2. C # {} => i \in C /\ \A k \in C : k <= i
  <2> HIDE DEF C
  <2>1. C # {} => \E n \in C : \A k \in C : k <= n
    BY <1>1, Latest
  <2>2. QED
    BY <2>1 DEF Innermost
<1>3. ASSUME NEW n \in Nodes, Pending(n), Factory(n) \in as, \A k \in Nodes : Factory(k) \in as => k <= n
      PROVE  C # {} /\ i = n
  <2>1. n \in C /\ \A k \in C : k <= n
    BY <1>3 DEF Chain
  <2> HIDE DEF C
  <2>2. i \in Nodes /\ i <= n /\ n <= i
    BY <1>1, <1>2, <2>1
  <2> HIDE DEF i
  <2>3. i = n
    BY <2>2, NodesAreNumbers
  <2>4. QED
    BY <2>1, <2>3
<1> HIDE DEF C
<1>4. QED
  BY <1>2, <1>3 DEF Edge, C

LEMMA ObtainResult ==
  ASSUME ActorTypes, NEW a \in Callers, NEW m \in Nodes, NEW awaited \in BOOLEAN, Obtain(a, m, awaited)
  PROVE  /\ hostAwaits' \subseteq Nodes /\ hostAwaits' \subseteq hostAwaits \cup {m}
         /\ uses' \subseteq (Handlers \cup Factories) \X Nodes
         /\ awaits' \in [Actors -> Handlers \cup Factories \cup {None, Shutdown}]
         /\ \A b \in Actors \ {a} : awaits'[b] = awaits[b]
         /\ a # Host => awaits'[a] \in {Factory(m), None}
         /\ \A u \in uses' : u \in uses \/ (u = <<a, m>> /\ a # Host /\ awaits'[a] = Factory(m))
<1>1. CASE a = Host
  BY <1>1 DEF Obtain, ActorTypes
<1>2. CASE a # Host
  <2>1. PICK b \in {Factory(m), None} :
          /\ awaits' = [awaits EXCEPT ![a] = b] /\ uses' = IF awaited THEN uses \cup {<<a, m>>} ELSE uses
          /\ awaited => b = Factory(m)
          /\ UNCHANGED hostAwaits
    BY <1>2 DEF Obtain
  <2>2. a \in Actors /\ b \in Handlers \cup Factories \cup {None, Shutdown} /\ a \in Handlers \cup Factories
    BY <1>2, ActorsDiffer DEF Callers, Handlers, Factories
  <2>3. /\ awaits'[a] = b /\ \A c \in Actors \ {a} : awaits'[c] = awaits[c]
        /\ awaits' \in [Actors -> Handlers \cup Factories \cup {None, Shutdown}]
    BY <2>1, <2>2, AwaitsResult
  <2>4. uses' \subseteq (Handlers \cup Factories) \X Nodes
    BY <2>1, <2>2 DEF ActorTypes
  <2>5. \A u \in uses' : u \in uses \/ (u = <<a, m>> /\ awaits'[a] = Factory(m))
    BY <2>1, <2>3
  <2>6. hostAwaits' \subseteq Nodes
    BY <2>1 DEF ActorTypes
  <2>7. QED
    BY <1>2, <2>1, <2>3, <2>4, <2>5, <2>6
<1>3. QED
  BY <1>1, <1>2

LEMMA ResolvedUses ==
  ASSUME LifecycleInv, NEW a \in Callers, NEW token \in Tokens, NEW owner, NEW m \in Nodes, NEW awaited \in BOOLEAN,
         Resolves(a, token, owner), Obtain(a, m, awaited), node'[m].scope = owner,
         \A k \in Nodes : k <= attempts => node'[k] = node[k],
         attempts' \in Nat, attempts <= attempts', m <= attempts', Owned' = Owned,
         UNCHANGED <<scope, request, disposed>>
  PROVE  UsesOK'
<1>1. /\ a = Host \/ Free(a)
      /\ \A e \in Requests : a = Handler(e) => owner \in {request[e].scope, Root}
      /\ \A n \in Nodes : a = Factory(n) => owner \in {node[n].scope, Root}
  BY ResolvesResult
<1>2. /\ \A b \in Actors \ {a} : awaits'[b] = awaits[b]
      /\ \A u \in uses' : u \in uses \/ (u = <<a, m>> /\ a # Host /\ awaits'[a] = Factory(m))
  BY ObtainResult DEF LifecycleInv
<1>3. /\ \A e \in Requests : a = Handler(e) => request[e].state = "running"
      /\ \A n \in Nodes : a = Factory(n) => Pending(n)
  BY <1>1, CallerContext
<1>4. \A n \in Nodes : a = Factory(n) => n <= attempts /\ n \notin Owned /\ node'[n] = node[n]
  BY <1>3, PendingScope
<1>5. attempts \in Nat /\ \A n \in Nodes : n \in Nat
  BY NodesAreNumbers DEF LifecycleInv, StateTypes
<1>6. ASSUME NEW u \in uses' PROVE UseOK(u[1], u[2])'
  <2> DEFINE b == u[1]
             k == u[2]
  <2>1. CASE u = <<a, m>> /\ a # Host /\ awaits'[a] = Factory(m)
    <3>1. b = a /\ k = m
      BY <2>1
    <3> HIDE DEF b, k
    <3>2. ASSUME NEW e \in Requests, a = Handler(e)
          PROVE  request'[e].state = "running" /\ node'[m].scope \in {request'[e].scope, Root}
      BY <1>1, <1>3, <3>2
    <3>3. ASSUME NEW n \in Nodes, a = Factory(n)
          PROVE  /\ n <= attempts' /\ node'[m].scope \in {node'[n].scope, Root}
                 /\ Pending(m)' => Pending(n)' /\ awaits'[a] = Factory(m)
      <4>1. Pending(n) /\ n <= attempts /\ node'[n] = node[n] /\ owner \in {node[n].scope, Root}
        BY <1>1, <1>3, <1>4, <3>3
      <4>2. n <= attempts'
        BY <1>5, <4>1
      <4>3. QED
        BY <2>1, <4>1, <4>2 DEF Pending
    <3>4. QED
      BY <3>1, <3>2, <3>3 DEF UseOK, b, k
  <2>2. CASE u \in uses
    <3>1. k \in Nodes /\ UseOK(b, k)
      BY <2>2 DEF LifecycleInv, ActorTypes, UsesOK
    <3> HIDE DEF b, k
    <3>2. k <= attempts /\ node'[k] = node[k]
      BY <3>1 DEF UseOK
    <3>3. ASSUME NEW e \in Requests, b = Handler(e)
          PROVE  request'[e].state = "running" /\ node'[k].scope \in {request'[e].scope, Root}
      BY <3>1, <3>2, <3>3 DEF UseOK
    <3>4. ASSUME NEW n \in Nodes, b = Factory(n)
          PROVE  /\ n <= attempts' /\ node'[k].scope \in {node'[n].scope, Root}
                 /\ Pending(k)' => Pending(n)' /\ awaits'[b] = Factory(k)
      <4>1. /\ n <= attempts /\ node[k].scope \in {node[n].scope, Root}
            /\ Pending(k) => Pending(n) /\ awaits[b] = Factory(k)
        BY <3>1, <3>4 DEF UseOK
      <4>2. node'[n] = node[n] /\ n <= attempts'
        BY <1>5, <4>1
      <4>3. Pending(k) => b # a
        <5>1. ASSUME b = a, Pending(k) PROVE FALSE
          <6>1. a \in Actors /\ Free(a)
            <7>1. a = Factory(n)
              BY <3>4, <5>1
            <7>2. a # Host /\ a \in Actors
              BY <7>1, ActorsDiffer
            <7>3. QED
              BY <1>1, <7>2
          <6>2. QED
            BY <3>1, <4>1, <5>1, <6>1, AwaitedSettled
        <5>2. QED
          BY <5>1
      <4>4. QED
        BY <1>2, <3>2, <3>4, <4>1, <4>2, <4>3, ActorsDiffer DEF Pending
    <3>5. k <= attempts'
      BY <1>5, <3>1, <3>2
    <3>6. QED
      BY <3>3, <3>4, <3>5 DEF UseOK, b, k
  <2>3. QED
    BY <1>2, <2>1, <2>2
<1>7. ASSUME NEW n \in Nodes, NEW k \in Nodes,
             n \in Owned', <<Factory(n), k>> \in uses', node'[k].state = "ready", node'[k].value # n
      PROVE  InOrder(n, node[k].value)'
  <2>1. <<Factory(n), k>> \in uses
    <3>1. Factory(n) # a
      BY <1>4, <1>7
    <3>2. QED
      BY <1>2, <1>7, <3>1
  <2>2. k <= attempts
    <3> DEFINE u == <<Factory(n), k>>
    <3>1. UseOK(u[1], u[2])
      BY <2>1 DEF LifecycleInv, UsesOK
    <3>2. QED
      BY <3>1 DEF UseOK
  <2>3. n <= attempts
    BY <1>7, NoneDiffers DEF LifecycleInv, ServicesOK, NodeOK, Owned
  <2>4. node'[k] = node[k] /\ node'[n] = node[n]
    BY <2>2, <2>3
  <2>5. InOrder(n, node[k].value)
    BY <1>7, <2>1, <2>4 DEF LifecycleInv, UsesOK
  <2>6. QED
    BY <2>4, <2>5 DEF InOrder
<1>8. QED
  BY <1>6, <1>7 DEF UsesOK

LEMMA ResolvedActors ==
  ASSUME LifecycleInv, NEW a \in Callers, NEW token \in Tokens, NEW owner, NEW m \in Nodes, NEW awaited \in BOOLEAN,
         Resolves(a, token, owner), Obtain(a, m, awaited), UNCHANGED request,
         \A k \in Nodes : k <= attempts => node'[k] = node[k],
         attempts' \in Nat, attempts <= attempts', m <= attempts',
         \A b \in Actors : \/ lineage'[b] = lineage[b]
                           \/ b = Factory(m) /\ attempts < m /\ lineage'[b] = ContextOf(a),
         waits \subseteq waits', Pending(m)' => Edge(Chain(ContextOf(a)), m) \subseteq waits', WaitsOK'
  PROVE  ActorsOK'
<1>1. /\ a # Host => a \in Actors /\ Free(a) /\ Started(a)
      /\ ContextOf(a) \in SUBSET Actors /\ \A b \in ContextOf(a) : Started(b)
  BY ResolvesResult, CallerContext
<1>2. /\ \A b \in Actors \ {a} : awaits'[b] = awaits[b]
      /\ a # Host => awaits'[a] \in {Factory(m), None}
  BY ObtainResult DEF LifecycleInv
<1>3. attempts \in Nat /\ \A n \in Nodes : n \in Nat
  BY NodesAreNumbers DEF LifecycleInv, StateTypes
<1>4. ASSUME NEW b, Started(b) PROVE Started(b)'
  BY <1>3, <1>4 DEF Started
<1>5. ASSUME NEW n \in Nodes, Started(Factory(n)) PROVE n <= attempts /\ (Pending(n)' <=> Pending(n))
  <2>1. n <= attempts
    BY <1>5, ActorsDiffer DEF Started
  <2>2. QED
    BY <2>1 DEF Pending
<1>6. \A b \in Actors : LineageOK(b) /\ AwaitsOK(b)
  BY DEF LifecycleInv, ActorsOK
<1>7. ASSUME NEW b \in Actors, Started(b) PROVE lineage'[b] = lineage[b] /\ Context(b)' = Context(b)
  <2>1. b # Factory(m) \/ ~(attempts < m)
    BY <1>3, <1>5, <1>7
  <2>2. lineage'[b] = lineage[b]
    BY <2>1
  <2>3. QED
    BY <2>2 DEF Context
<1>8. ASSUME NEW b \in Actors PROVE LineageOK(b)'
  <2>1. awaits'[b] # None => Started(b)'
    <3>1. CASE b = a
      BY <1>1, <1>4, <3>1, ActorsDiffer
    <3>2. CASE b # a
      BY <1>2, <1>4, <1>6, <3>2 DEF LineageOK
    <3>3. QED
      BY <3>1, <3>2
  <2>2. CASE lineage'[b] = lineage[b]
    BY <1>4, <1>6, <2>1, <2>2 DEF LineageOK
  <2>3. CASE b = Factory(m) /\ attempts < m /\ lineage'[b] = ContextOf(a)
    <3>1. \A c \in lineage'[b] : Started(c)'
      BY <1>1, <1>4, <2>3
    <3>2. ASSUME NEW n \in Nodes, NEW k \in Nodes, b = Factory(n), Factory(k) \in lineage'[b] PROVE k < n
      <4>1. n = m
        BY <2>3, <3>2, ActorsDiffer
      <4>2. k <= attempts
        BY <1>1, <1>5, <2>3, <3>2
      <4>3. QED
        BY <1>3, <2>3, <4>1, <4>2
    <3>3. QED
      BY <2>1, <3>1, <3>2 DEF LineageOK
  <2>4. QED
    BY <2>2, <2>3
<1>9. ASSUME NEW b \in Actors PROVE AwaitsOK(b)'
  <2>1. CASE b = a
    <3>1. a # Host /\ a \in Actors /\ Started(a) /\ awaits'[b] \in {Factory(m), None}
      BY <1>1, <1>2, <2>1, ActorsDiffer
    <3>2. ASSUME NEW k \in Nodes, NEW n \in Nodes, awaits'[b] = Factory(k), Pending(k)', Pending(n)', RunsIn(b, n)'
          PROVE  <<n, k>> \in waits'
      <4>1. k = m
        BY <3>1, <3>2, ActorsDiffer, NoneDiffers
      <4>2. Context(b)' = ContextOf(a)
        BY <1>7, <2>1, <3>1 DEF ContextOf
      <4>3. Factory(n) \in ContextOf(a) /\ \A j \in Nodes : Factory(j) \in ContextOf(a) => j <= n
        BY <3>2, <4>2 DEF RunsIn
      <4>4. Pending(n)
        BY <1>1, <1>5, <3>2, <4>3
      <4>5. <<n, m>> \in Edge(Chain(ContextOf(a)), m)
        BY <4>3, <4>4, EdgeResult
      <4>6. QED
        BY <3>2, <4>1, <4>5
    <3>3. /\ \A f \in Requests : awaits'[b] # Handler(f)
          /\ \A k \in Nodes : awaits'[b] = Factory(k) => k <= attempts'
      BY <3>1, ActorsDiffer, NoneDiffers
    <3>4. QED
      BY <3>2, <3>3 DEF AwaitsOK
  <2>2. CASE b # a /\ awaits[b] # None
    <3>1. awaits'[b] = awaits[b] /\ AwaitsOK(b) /\ Started(b) /\ Context(b)' = Context(b)
      BY <1>2, <1>6, <1>7, <2>2 DEF LineageOK
    <3>2. ASSUME NEW f \in Requests, awaits'[b] = Handler(f)
          PROVE  /\ request'[f].state # "idle"
                 /\ lineage'[Handler(f)] = Context(b)' /\ Handler(f) \notin Context(b)'
      <4>1. lineage'[Handler(f)] = lineage[Handler(f)]
        BY ActorsDiffer
      <4>2. QED
        BY <3>1, <3>2, <4>1 DEF AwaitsOK
    <3>3. ASSUME NEW k \in Nodes, awaits'[b] = Factory(k) PROVE k <= attempts /\ k <= attempts'
      BY <1>3, <3>1, <3>3 DEF AwaitsOK
    <3>4. ASSUME NEW k \in Nodes, NEW n \in Nodes, awaits'[b] = Factory(k), Pending(k)', Pending(n)', RunsIn(b, n)'
          PROVE  <<n, k>> \in waits'
      <4>1. Pending(k)
        BY <3>3, <3>4 DEF Pending
      <4>2. RunsIn(b, n)
        BY <3>1, <3>4 DEF RunsIn
      <4>3. Started(Factory(n))
        BY <3>1, <4>2, ContextStarted DEF RunsIn
      <4>4. Pending(n)
        BY <1>5, <3>4, <4>3
      <4>5. QED
        BY <3>1, <3>4, <4>1, <4>2, <4>4 DEF AwaitsOK
    <3>5. QED
      BY <3>2, <3>3, <3>4 DEF AwaitsOK
  <2>3. CASE b # a /\ awaits[b] = None
    <3>1. awaits'[b] = None
      BY <1>2, <2>3
    <3>2. QED
      BY <3>1, NoneDiffers DEF AwaitsOK
  <2>4. QED
    BY <2>1, <2>2, <2>3
<1>10. QED
  BY <1>8, <1>9 DEF ActorsOK

LEMMA ResolveCachedKeeps ==
  ASSUME LifecycleInv, NEW a \in Callers, NEW token \in Tokens, NEW m \in Nodes, NEW awaited \in BOOLEAN,
         ResolveCached(a, token, m, awaited)
  PROVE  LifecycleInv'
<1> DEFINE C == Chain(ContextOf(a))
           i == Innermost(C)
<1>1. /\ Resolves(a, token, node[m].scope) /\ m \in Cached(node[m].scope, token) /\ Obtain(a, m, awaited)
      /\ UNCHANGED <<registry, failed, phase, participant, joining, closing, scopes, scope, node, attempts, request,
                     lineage, disposed>>
  BY DEF ResolveCached, registryVars
<1>2. /\ Pending(m) /\ C # {} => ~Reaches(m, i)
      /\ waits' = IF Pending(m) THEN waits \cup Edge(C, m) ELSE waits
  <2>1. CASE a = Host
    <3>1. ContextOf(a) = {} /\ Chain({}) = {}
      BY <2>1 DEF ContextOf, Chain
    <3>2. QED
      BY <2>1, <3>1 DEF ResolveCached
  <2>2. CASE a # Host
    BY <2>2 DEF ResolveCached, ContextOf
  <2>3. QED
    BY <2>1, <2>2
<1>3. m <= attempts
  BY <1>1, NodesAreNumbers DEF Cached, LifecycleInv, ServicesOK, NodeOK
<1>4. /\ a = Host \/ Free(a)
  BY <1>1, ResolvesResult
<1>5. /\ hostAwaits' \subseteq Nodes /\ hostAwaits' \subseteq hostAwaits \cup {m}
      /\ uses' \subseteq (Handlers \cup Factories) \X Nodes
      /\ awaits' \in [Actors -> Handlers \cup Factories \cup {None, Shutdown}]
  BY <1>1, ObtainResult DEF LifecycleInv
<1>6. \A w \in Edge(C, m) : w = <<i, m>> /\ i \in C
  BY EdgeResult
<1>7. \A k \in C : k \in Nodes /\ Pending(k) /\ k <= attempts
  <2>1. \A k \in C : k \in Nodes /\ Pending(k)
    BY DEF Chain
  <2>2. QED
    BY <2>1, PendingScope
<1> HIDE DEF i, C
<1>8. waits \subseteq Nodes \X Nodes /\ (\A w \in waits : w[1] <= attempts /\ w[2] <= attempts)
  BY DEF LifecycleInv, ActorTypes, ActorsOK, WaitsOK
<1>9. ActorTypes'
  <2>1. waits' \subseteq Nodes \X Nodes
    BY <1>2, <1>6, <1>7, <1>8
  <2>2. QED
    BY <1>1, <1>3, <1>5, <2>1 DEF LifecycleInv, ActorTypes
<1>10. StateTypes' /\ RegistryTypes' /\ ServicesOK' /\ PhaseOK'
  <2>1. StateTypes'
    BY <1>1, StateStays
  <2>2. ServicesOK'
    BY <1>1, SameState
  <2>3. RegistryTypes'
    BY <1>1 DEF LifecycleInv, RegistryTypes
  <2>4. PhaseOK'
    BY <1>1 DEF LifecycleInv, PhaseOK, Live, Executing, Members
  <2>5. QED
    BY <2>1, <2>2, <2>3, <2>4
<1>11. attempts \in Nat /\ Owned' = Owned
  BY <1>1 DEF LifecycleInv, StateTypes, Owned
<1>12. UsesOK'
  BY <1>1, <1>3, <1>11, ResolvedUses
<1>13. WaitsOK'
  <2>1. \A w \in waits' : w[1] <= attempts /\ w[2] <= attempts
    BY <1>2, <1>3, <1>6, <1>7, <1>8
  <2>2. {n \in Nodes : Pending(n)'} = {n \in Nodes : Pending(n)}
    BY <1>1 DEF Pending
  <2> DEFINE P == {n \in Nodes : Pending(n)}
  <2>3. ASSUME NEW S \in SUBSET P, S # {} PROVE \E x \in S : \A w \in waits' : w[1] = x => w[2] \notin S
    <3>1. \A Q \in SUBSET P : Q # {} => \E x \in Q : \A w \in waits : w[1] = x => w[2] \notin Q
      BY DEF LifecycleInv, ActorsOK, WaitsOK
    <3>2. CASE m \notin S \/ waits' = waits
      <4>1. PICK x \in S : \A w \in waits : w[1] = x => w[2] \notin S
        BY <2>3, <3>1
      <4>2. QED
        BY <1>2, <1>6, <3>2, <4>1
    <3>3. CASE m \in S /\ waits' # waits
      <4>1. Pending(m) /\ ~Reaches(m, i) /\ waits' = waits \cup Edge(C, m)
        <5>1. Pending(m) /\ waits' = waits \cup Edge(C, m)
          BY <1>2, <3>3
        <5>2. Edge(C, m) # {}
          BY <3>3, <5>1
        <5>3. C # {}
          BY <1>6, <5>2
        <5>4. QED
          BY <1>2, <5>1, <5>3
      <4>2. PICK T \in SUBSET P :
              m \in T /\ (\A w \in waits : w[1] \in T /\ Pending(w[2]) => w[2] \in T) /\ i \notin T
        BY <4>1 DEF Reaches
      <4>3. PICK x \in S \cap T : \A w \in waits : w[1] = x => w[2] \notin S \cap T
        <5>1. S \cap T \in SUBSET P /\ S \cap T # {}
          BY <3>3, <4>2
        <5>2. QED
          BY <3>1, <5>1
      <4>4. ASSUME NEW w \in waits', w[1] = x PROVE w[2] \notin S
        <5>1. w \in waits
          <6>1. w \notin Edge(C, m)
            BY <1>6, <4>2, <4>3, <4>4
          <6>2. QED
            BY <4>1, <6>1
        <5>2. w[2] \in S => w[2] \in T
          BY <2>3, <4>2, <4>3, <4>4, <5>1
        <5>3. QED
          BY <4>3, <4>4, <5>1, <5>2
      <4>5. QED
        BY <4>3, <4>4
    <3>4. QED
      BY <3>2, <3>3
  <2>4. QED
    BY <1>1, <2>1, <2>2, <2>3 DEF WaitsOK
<1>14. ActorsOK'
  <2>1. Pending(m)' => Edge(Chain(ContextOf(a)), m) \subseteq waits'
    BY <1>1, <1>2 DEF Pending, C
  <2>2. waits \subseteq waits'
    BY <1>2
  <2>3. attempts' \in Nat /\ attempts <= attempts' /\ m <= attempts'
    BY <1>1, <1>3, <1>11
  <2>4. /\ \A k \in Nodes : k <= attempts => node'[k] = node[k]
        /\ \A b \in Actors : lineage'[b] = lineage[b]
    BY <1>1
  <2>5. QED
    BY <1>1, <1>13, <2>1, <2>2, <2>3, <2>4, ResolvedActors
<1>15. QED
  BY <1>9, <1>10, <1>12, <1>14 DEF LifecycleInv

LEMMA ResolveNewKeeps ==
  ASSUME LifecycleInv, NEW a \in Callers, NEW token \in Tokens, NEW awaited \in BOOLEAN,
         ResolveNew(a, token, awaited)
  PROVE  LifecycleInv'
<1>0. PICK n \in Nat : n = attempts + 1
  BY DEF LifecycleInv, StateTypes
<1> DEFINE owner == IF token \in Singletons THEN Root ELSE ScopeOf(a)
           r == [scope |-> owner, token |-> token, state |-> "pending", value |-> None]
           C == Chain(ContextOf(a))
           i == Innermost(C)
<1>1. /\ attempts < MaxNodes /\ Resolves(a, token, owner) /\ attempts' = n
      /\ node' = [node EXCEPT ![n] = r] /\ Obtain(a, n, awaited)
      /\ UNCHANGED <<registry, failed, phase, participant, joining, closing, scopes, scope, request, disposed>>
  BY <1>0 DEF ResolveNew, registryVars
<1>2. /\ lineage' = [lineage EXCEPT ![Factory(n)] = ContextOf(a)]
      /\ waits' = waits \cup Edge(C, n)
  <2>1. CASE a = Host
    <3>1. ContextOf(a) = {} /\ Chain({}) = {}
      BY <2>1 DEF ContextOf, Chain
    <3>2. QED
      BY <1>0, <2>1, <3>1 DEF ResolveNew
  <2>2. CASE a # Host
    BY <1>0, <2>2 DEF ResolveNew, ContextOf
  <2>3. QED
    BY <2>1, <2>2
<1> HIDE DEF owner
<1>3. attempts \in Nat /\ n \in Nat /\ attempts < n /\ n <= MaxNodes /\ n \in Nodes /\ \A k \in Nodes : k \in Nat
  BY <1>0, <1>1, NodesNat DEF LifecycleInv, StateTypes, Nodes
<1>4. /\ a = Host \/ Free(a)
      /\ owner \in Scopes /\ scope[owner].state \in {"Open", "Closing"} /\ scope[owner].disposing = 0
  BY <1>1, ResolvesResult
<1>5. /\ hostAwaits' \subseteq Nodes /\ hostAwaits' \subseteq hostAwaits \cup {n}
      /\ uses' \subseteq (Handlers \cup Factories) \X Nodes
      /\ awaits' \in [Actors -> Handlers \cup Factories \cup {None, Shutdown}]
  BY <1>1, <1>3, ObtainResult DEF LifecycleInv
<1>6. r \in NodeRecord /\ r.scope = owner /\ r.state = "pending" /\ r.value = None /\ r.token \in Tokens
  BY <1>4 DEF NodeRecord
<1> HIDE DEF r
<1>7. /\ node' \in [Nodes -> NodeRecord] /\ node'[n] = r /\ \A k \in Nodes \ {n} : node'[k] = node[k]
  BY <1>1, <1>3, <1>6 DEF LifecycleInv, StateTypes
<1>8. \A k \in Nodes : k <= attempts => k # n /\ node'[k] = node[k]
  BY <1>3, <1>7
<1>9. ContextOf(a) \in SUBSET Actors
  BY <1>4, CallerContext
<1>10. /\ lineage' \in [Actors -> SUBSET Actors] /\ lineage'[Factory(n)] = ContextOf(a)
       /\ \A b \in Actors \ {Factory(n)} : lineage'[b] = lineage[b]
  BY <1>2, <1>3, <1>9, ActorsDiffer DEF LifecycleInv, ActorTypes
<1>11. \A w \in Edge(C, n) : w = <<i, n>> /\ i \in C
  BY EdgeResult
<1>12. \A k \in C : k \in Nodes /\ Pending(k) /\ k <= attempts
  <2>1. \A k \in C : k \in Nodes /\ Pending(k)
    BY DEF Chain
  <2>2. QED
    BY <2>1, PendingScope
<1> HIDE DEF i, C
<1>13. waits \subseteq Nodes \X Nodes /\ (\A w \in waits : w[1] <= attempts /\ w[2] <= attempts)
  BY DEF LifecycleInv, ActorTypes, ActorsOK, WaitsOK
<1>14. ActorTypes'
  <2>1. waits' \subseteq Nodes \X Nodes
    BY <1>2, <1>3, <1>11, <1>12, <1>13
  <2>2. ASSUME NEW k \in hostAwaits' PROVE k <= attempts'
    <3>1. CASE k = n
      BY <1>1, <1>3, <3>1
    <3>2. CASE k # n
      <4>1. k \in Nat /\ k <= attempts
        BY <1>3, <1>5, <2>2, <3>2 DEF LifecycleInv, ActorTypes
      <4>2. QED
        BY <1>1, <1>3, <4>1
    <3>3. QED
      BY <3>1, <3>2
  <2>3. QED
    BY <1>5, <1>10, <2>1, <2>2 DEF LifecycleInv, ActorTypes
<1>15. StateTypes' /\ RegistryTypes'
  BY <1>1, <1>3, <1>7 DEF LifecycleInv, StateTypes, RegistryTypes
<1>16. PhaseOK'
  BY <1>1 DEF LifecycleInv, PhaseOK, Live, Executing, Members
<1>17. node[n].state = "none" /\ node[n].value = None /\ n \notin Owned /\ Owned' = Owned
  <2>1. node[n].state = "none" /\ node[n].value = None
    BY <1>3 DEF LifecycleInv, ServicesOK, NodeOK
  <2>2. \A k \in Nodes : node'[k].value = k <=> node[k].value = k
    BY <1>3, <1>6, <1>7, <2>1, NoneDiffers
  <2>3. n \notin Owned
    BY <1>3, <2>1, NoneDiffers DEF Owned
  <2>4. QED
    BY <2>1, <2>2, <2>3 DEF Owned
<1>18. \A k \in Owned : k \in Nodes /\ k # n /\ node'[k] = node[k]
  BY <1>7, <1>17 DEF Owned
<1>19. ServicesOK'
  <2>1. ASSUME NEW t \in Scopes PROVE ScopeOK(t)' /\ CreatedOK(t)'
    <3>1. ScopeOK(t) /\ CreatedOK(t)
      BY DEF LifecycleInv, ServicesOK
    <3>2. t # owner => PendingIn(t)' = PendingIn(t)
      BY <1>6, <1>7, <1>17 DEF PendingIn, Pending
    <3>3. ScopeOK(t)'
      BY <1>1, <1>4, <3>1, <3>2 DEF ScopeOK
    <3>4. CreatedOK(t)'
      <4>1. \A j \in DOMAIN scope[t].created :
              LET k == scope[t].created[j] IN k \in Owned' /\ node'[k].scope = t /\ k \notin Members(disposed)
        BY <1>17, <1>18, <3>1 DEF CreatedOK
      <4>2. scope' = scope /\ disposed' = disposed
        BY <1>1
      <4>3. QED
        BY <3>1, <4>1, <4>2 DEF CreatedOK, Members
    <3>5. QED
      BY <3>3, <3>4
  <2>2. \A e \in Requests : RequestOK(e)'
    BY <1>1 DEF LifecycleInv, ServicesOK, RequestOK
  <2>3. ASSUME NEW k \in Nodes PROVE NodeOK(k)' /\ OwnedOK(k)'
    <3>1. NodeOK(k) /\ OwnedOK(k)
      BY DEF LifecycleInv, ServicesOK
    <3>2. CASE k = n
      <4>1. NodeOK(k)'
        BY <1>1, <1>3, <1>4, <1>6, <1>7, <3>2 DEF NodeOK
      <4>2. QED
        BY <1>17, <3>2, <4>1 DEF OwnedOK
    <3>3. CASE k # n
      <4>1. node'[k] = node[k] /\ (k <= attempts' <=> k <= attempts)
        <5>1. attempts' = attempts + 1 /\ n = attempts + 1
          BY <1>0, <1>1
        <5>2. QED
          BY <1>3, <1>7, <3>3, <5>1
      <4>2. node[k].state = "ready" => node[k].value \in Owned
            /\ node'[node[k].value].scope = node[node[k].value].scope
        BY <1>18, <3>1 DEF NodeOK
      <4>3. NodeOK(k)'
        BY <1>17, <3>1, <4>1, <4>2 DEF NodeOK
      <4>4. OwnedOK(k)'
        BY <1>1, <1>17, <3>1, <4>1 DEF OwnedOK, Members
      <4>5. QED
        BY <4>3, <4>4
    <3>4. QED
      BY <3>2, <3>3
  <2>4. DisposedOK'
    <3>1. ASSUME NEW j \in DOMAIN disposed PROVE disposed[j] \in Owned' /\ Reclaiming(node'[disposed[j]].scope)
      <4>1. disposed[j] \in Owned /\ Reclaiming(node[disposed[j]].scope)
        BY DEF LifecycleInv, ServicesOK, DisposedOK
      <4>2. QED
        BY <1>17, <1>18, <4>1
    <3>2. \A t : Reclaiming(t)' <=> Reclaiming(t)
      BY <1>1 DEF Reclaiming
    <3>3. \A j, k \in DOMAIN disposed : disposed[j] = disposed[k] => j = k
      BY DEF LifecycleInv, ServicesOK, DisposedOK
    <3>4. QED
      BY <1>1, <3>1, <3>3 DEF DisposedOK, Reclaiming
  <2>5. QED
    BY <2>1, <2>2, <2>3, <2>4 DEF ServicesOK
<1>20. attempts' \in Nat /\ attempts <= attempts' /\ n <= attempts' /\ node'[n].scope = owner
  <2>1. attempts' = n
    BY <1>1
  <2>2. QED
    BY <1>3, <1>6, <1>7, <2>1
<1>21. UsesOK'
  BY <1>1, <1>3, <1>8, <1>17, <1>20, ResolvedUses
<1>22. WaitsOK'
  <2>1. \A w \in waits' : w \in waits \/ (w[1] = i /\ w[2] = n /\ i \in Nodes /\ i <= attempts)
    BY <1>2, <1>11, <1>12
  <2>2. \A w \in waits' : w[1] <= attempts /\ w[1] \in Nodes /\ w[2] <= attempts'
    <3>1. \A w \in waits : w[1] \in Nodes /\ w[2] \in Nodes
      BY <1>13
    <3>2. ASSUME NEW w \in waits PROVE w[1] <= attempts /\ w[2] <= attempts'
      <4>1. w[1] <= attempts /\ w[2] <= attempts /\ w[2] \in Nat
        BY <1>3, <1>13, <3>1
      <4>2. QED
        BY <1>3, <1>20, <4>1
    <3>3. QED
      BY <1>20, <2>1, <3>1, <3>2
  <2>3. {k \in Nodes : Pending(k)'} = {k \in Nodes : Pending(k)} \cup {n}
    <3>1. \A k \in Nodes \ {n} : Pending(k)' <=> Pending(k)
      BY <1>7 DEF Pending
    <3>2. Pending(n)'
      BY <1>6, <1>7 DEF Pending
    <3>3. QED
      BY <1>3, <3>1, <3>2
  <2>4. ASSUME NEW S \in SUBSET {k \in Nodes : Pending(k)'}, S # {}
        PROVE  \E x \in S : \A w \in waits' : w[1] = x => w[2] \notin S
    <3>1. CASE n \in S
      <4>1. \A w \in waits' : w[1] # n
        BY <1>3, <2>2
      <4>2. QED
        BY <3>1, <4>1
    <3>2. CASE n \notin S
      <4>1. S \in SUBSET {k \in Nodes : Pending(k)}
        BY <2>3, <3>2
      <4>2. PICK x \in S : \A w \in waits : w[1] = x => w[2] \notin S
        BY <2>4, <4>1 DEF LifecycleInv, ActorsOK, WaitsOK
      <4>3. QED
        BY <2>1, <3>2, <4>2
    <3>3. QED
      BY <3>1, <3>2
  <2>5. ASSUME NEW w \in waits' PROVE w[1] <= attempts'
    <3>1. w[1] \in Nat /\ w[1] <= attempts
      BY <1>3, <2>2
    <3>2. QED
      BY <1>3, <1>20, <3>1
  <2>6. QED
    BY <2>2, <2>4, <2>5 DEF WaitsOK
<1>23. ActorsOK'
  <2>1. Edge(Chain(ContextOf(a)), n) \subseteq waits' /\ waits \subseteq waits'
    BY <1>2 DEF C
  <2>2. \A b \in Actors : \/ lineage'[b] = lineage[b]
                          \/ b = Factory(n) /\ attempts < n /\ lineage'[b] = ContextOf(a)
    BY <1>3, <1>10
  <2>3. QED
    BY <1>1, <1>3, <1>8, <1>20, <1>22, <2>1, <2>2, ResolvedActors
<1>24. QED
  BY <1>14, <1>15, <1>16, <1>19, <1>21, <1>23 DEF LifecycleInv

(***************************************************************************)
(* The invariant holds                                                     *)
(***************************************************************************)

LEMMA InitLifecycle == Init => LifecycleInv
<1> SUFFICES ASSUME Init PROVE LifecycleInv
  OBVIOUS
<1>1. /\ registry = "Running" /\ failed = FALSE /\ phase = "none" /\ participant = FALSE
      /\ scopes = <<>> /\ joining = {} /\ closing = <<>>
      /\ attempts = 0 /\ waits = {} /\ hostAwaits = {} /\ uses = {} /\ disposed = <<>>
      /\ lineage = [a \in Actors |-> {}] /\ awaits = [a \in Actors |-> None]
      /\ node = [n \in Nodes |-> NoNode]
      /\ request = [e \in Requests |-> [state |-> "idle", scope |-> e]]
  BY DEF Init
<1>2. ASSUME NEW s \in Scopes
      PROVE  /\ scope[s] \in ScopeRecord /\ scope[s].state = IF s = Root THEN "Open" ELSE "none"
             /\ scope[s].created = <<>> /\ scope[s].disposing = 0
  <2> DEFINE r == [OpenScope EXCEPT !.state = IF s = Root THEN "Open" ELSE "none"]
  <2>1. scope[s] = r
    BY DEF Init
  <2>2. r.state = (IF s = Root THEN "Open" ELSE "none") /\ r.created = <<>> /\ r.disposing = 0
    BY DEF OpenScope
  <2>3. OpenScope \in ScopeRecord
    BY DEF OpenScope, ScopeRecord
  <2>4. r \in ScopeRecord
    BY <2>3 DEF ScopeRecord
  <2>5. QED
    BY <2>1, <2>2, <2>4
<1>3. scope \in [Scopes -> ScopeRecord]
  <2>1. scope = [s \in Scopes |-> [OpenScope EXCEPT !.state = IF s = Root THEN "Open" ELSE "none"]]
    BY DEF Init
  <2>2. QED
    BY <1>2, <2>1
<1>4. /\ NoNode \in NodeRecord /\ NoNode.state = "none" /\ NoNode.value = None
      /\ \A n \in Nodes : node[n] = NoNode
  BY <1>1 DEF NoNode, NodeRecord
<1>5. /\ request \in [Requests -> RequestRecord]
      /\ \A e \in Requests : request[e].state = "idle" /\ request[e].scope = e
  BY <1>1, ScopesDiffer DEF RequestRecord
<1>6. RegistryTypes
  <2>1. <<>> \in Seq(Scopes)
    OBVIOUS
  <2>2. QED
    BY <1>1, <2>1 DEF RegistryTypes, Phases
<1>7. StateTypes
  BY <1>1, <1>3, <1>4, <1>5, NodesNat DEF StateTypes
<1>8. ActorTypes
  BY <1>1 DEF ActorTypes
<1>9. PhaseOK
  BY <1>1, <1>2, <1>5, ScopesDiffer DEF PhaseOK, Members, Past, Last, Live, Executing
<1>10. Owned = {} /\ \A n \in Nodes : ~Pending(n)
  BY <1>4, NoneDiffers DEF Owned, Pending
<1>11. ServicesOK
  <2>1. ASSUME NEW s \in Scopes PROVE ScopeOK(s) /\ CreatedOK(s)
    BY <1>1, <1>2, <1>10 DEF ScopeOK, CreatedOK, PendingIn
  <2>2. \A e \in Requests : RequestOK(e)
    BY <1>2, <1>5, ScopesDiffer DEF RequestOK
  <2>3. \A n \in Nodes : NodeOK(n) /\ OwnedOK(n)
    <3>1. ASSUME NEW n \in Nodes PROVE ~(n <= attempts) /\ node[n] = NoNode
      BY <1>1, <1>4, NodesAreNumbers
    <3>2. QED
      BY <1>4, <1>10, <3>1 DEF NodeOK, OwnedOK
  <2>4. DisposedOK
    BY <1>1 DEF DisposedOK
  <2>5. QED
    BY <2>1, <2>2, <2>3, <2>4 DEF ServicesOK
<1>12. UsesOK
  BY <1>1 DEF UsesOK
<1>13. ActorsOK
  <2>1. WaitsOK
    BY <1>1 DEF WaitsOK
  <2>2. ASSUME NEW a \in Actors PROVE LineageOK(a) /\ AwaitsOK(a)
    BY <1>1, NoneDiffers DEF LineageOK, AwaitsOK
  <2>3. QED
    BY <2>1, <2>2 DEF ActorsOK
<1>14. QED
  BY <1>6, <1>7, <1>8, <1>9, <1>11, <1>12, <1>13 DEF LifecycleInv

LEMMA StutterKeeps == ASSUME LifecycleInv, UNCHANGED vars PROVE LifecycleInv'
<1>1. UNCHANGED <<registry, failed, phase, participant, joining, closing, scopes, scope, node,
                  attempts, waits, request,
                  actorVars, hostAwaits, uses, disposed>>
  BY DEF vars, registryVars
<1>2. StateTypes' /\ ServicesOK'
  BY <1>1, StateStays, SameState
<1>3. ActorTypes' /\ UsesOK' /\ ActorsOK'
  BY <1>1, SameActors
<1>4. RegistryTypes'
  BY <1>1 DEF LifecycleInv, RegistryTypes
<1>5. PhaseOK'
  BY <1>1 DEF LifecycleInv, PhaseOK, Live, Executing, Members
<1>6. QED
  BY <1>2, <1>3, <1>4, <1>5 DEF LifecycleInv

LEMMA StepKeeps == ASSUME LifecycleInv, [Next]_vars PROVE LifecycleInv'
<1>1. CASE UNCHANGED vars
  BY <1>1, StutterKeeps
<1>2. ASSUME NEW a \in Actors \cup {Host}, UserCode(a) PROVE LifecycleInv'
  BY <1>2, StartKeeps, DisposeKeeps DEF UserCode
<1>3. ASSUME NEW a \in Callers, Resolution(a) PROVE LifecycleInv'
  BY <1>3, ResolveNewKeeps, ResolveCachedKeeps DEF Resolution
<1>4. ASSUME NEW n \in Nodes, FactorySettles(n) PROVE LifecycleInv'
  BY <1>4, FactoryCreatesKeeps, FactoryFailsKeeps, FactoryAliasesKeeps DEF FactorySettles
<1>5. ASSUME NEW e \in Requests, HandlerSettles(e) \/ RequestDrained(e) \/ RequestReturns(e) PROVE LifecycleInv'
  BY <1>5, HandlerSettlesKeeps, RequestEndsKeeps
<1>6. ASSUME NEW s \in Scopes, ScopeQuiesces(s) \/ DisposerSettles(s) PROVE LifecycleInv'
  BY <1>6, ScopeQuiescesKeeps, DisposerSettlesKeeps
<1>7. CASE createScope \/ HostDisposes \/ addShutdownParticipant \/ removeShutdownParticipant
  BY <1>7, HostScopeKeeps, ParticipantKeeps
<1>8. CASE RegistryStep \/ ParticipantDrained
  BY <1>8, PhasesAdvance, CloseNextKeeps, CloseSingletonsKeeps, DisposeSingletonsKeeps, ShutdownEndsKeeps
     DEF RegistryStep
<1>9. QED
  BY <1>1, <1>2, <1>3, <1>4, <1>5, <1>6, <1>7, <1>8 DEF Next, Callers, Handlers, Factories

\* At every moment a scope that reclaims its services has no attempt pending and
\* nobody left who may run on it, every service that was created is listed by its
\* scope or was disposed, and the attempts that wait for each other are those whose
\* code does, without a circle (ServiceRegistry.ts 92-245, ServiceScope.ts 60-260).
THEOREM LifecycleInvariant == Safety => []LifecycleInv
<1>1. Init => LifecycleInv
  BY InitLifecycle
<1>2. LifecycleInv /\ [Next]_vars => LifecycleInv'
  BY StepKeeps
<1>3. QED
  BY <1>1, <1>2, PTL DEF Safety

(***************************************************************************)
(* What follows from it                                                    *)
(***************************************************************************)

LEMMA InvTypes == LifecycleInv => TypeOK
<1> SUFFICES ASSUME LifecycleInv PROVE TypeOK
  OBVIOUS
<1>1. attempts \in Nat /\ attempts <= MaxNodes /\ MaxNodes \in Nat
  BY NodesNat DEF LifecycleInv, StateTypes
<1>2. \A n \in Nodes : n <= attempts => n \in 1..attempts
  BY <1>1 DEF Nodes
<1>3. attempts \in 0..MaxNodes
  BY <1>1
<1>4. ASSUME NEW n \in Nodes PROVE IF n <= attempts THEN node[n] \in Node ELSE node[n] = NoNode
  <2>1. node[n] \in NodeRecord /\ NodeOK(n)
    BY DEF LifecycleInv, StateTypes, ServicesOK
  <2>2. QED
    BY <2>1 DEF NodeOK, NodeRecord, Node
<1>5. waits \subseteq (1..attempts) \X (1..attempts) /\ hostAwaits \subseteq 1..attempts
  BY <1>2 DEF LifecycleInv, ActorTypes, ActorsOK, WaitsOK
<1>6. Handlers \cup Factories \subseteq Actors
  BY DEF Handlers, Factories, Actors
<1>7. uses \subseteq Actors \X (1..attempts)
  <2>1. ASSUME NEW u \in uses PROVE u[1] \in Actors /\ u[2] \in 1..attempts
    <3>1. u[2] \in Nodes /\ u[2] <= attempts /\ u[1] \in Handlers \cup Factories
      BY DEF LifecycleInv, ActorTypes, UsesOK, UseOK
    <3>2. QED
      BY <1>2, <1>6, <3>1
  <2>2. QED
    BY <2>1 DEF LifecycleInv, ActorTypes
<1>8. disposed \in Seq(1..attempts)
  <2>1. disposed \in Seq(Nodes) /\ DOMAIN disposed = 1..Len(disposed) /\ Len(disposed) \in Nat
    BY DEF LifecycleInv, StateTypes
  <2>2. ASSUME NEW i \in DOMAIN disposed PROVE disposed[i] \in 1..attempts
    <3>1. disposed[i] \in Nodes /\ node[disposed[i]].value # None
      BY NoneDiffers DEF LifecycleInv, ServicesOK, DisposedOK, Owned
    <3>2. disposed[i] <= attempts
      BY <3>1 DEF LifecycleInv, ServicesOK, NodeOK
    <3>3. QED
      BY <1>2, <3>1, <3>2
  <2>3. disposed = [i \in 1..Len(disposed) |-> disposed[i]]
    BY <2>1
  <2>4. disposed \in [1..Len(disposed) -> 1..attempts]
    BY <2>1, <2>2, <2>3
  <2>5. \A T : disposed \in [1..Len(disposed) -> T] => disposed \in Seq(T)
    BY <2>1, IsASeq
  <2>6. QED
    BY <2>4, <2>5
<1>9. awaits \in [Actors -> Actors \cup {None, Shutdown}]
  BY <1>6 DEF LifecycleInv, ActorTypes
<1>10. QED
  BY <1>3, <1>4, <1>5, <1>7, <1>8, <1>9
     DEF LifecycleInv, RegistryTypes, StateTypes, ActorTypes, Phases, ScopeRecord, RequestRecord, TypeOK

\* The types of the registry, its scopes, the construction attempts and the actors.
THEOREM TypesHold == Safety => []TypeOK
BY LifecycleInvariant, InvTypes, PTL

LEMMA InvDisposedOnce == LifecycleInv => DisposedOnce
<1> SUFFICES ASSUME LifecycleInv PROVE DisposedOnce
  OBVIOUS
<1>1. \A i, j \in DOMAIN disposed : disposed[i] = disposed[j] => i = j
  BY DEF LifecycleInv, ServicesOK, DisposedOK
<1>2. ASSUME registry = "Closed", NEW n \in Owned PROVE \E i \in DOMAIN disposed : disposed[i] = n
  <2> DEFINE s == node[n].scope
  <2>1. n \in Nodes /\ s \in Scopes /\ n \in Members(scope[s].created) \cup Members(disposed)
    BY <1>2, NoneDiffers DEF LifecycleInv, ServicesOK, NodeOK, OwnedOK, Owned
  <2> HIDE DEF s
  <2>2. phase = "done"
    BY <1>2 DEF LifecycleInv, PhaseOK
  <2>3. scope[s].created = <<>>
    <3>1. CASE s = Root
      BY <2>1, <2>2, <3>1 DEF LifecycleInv, PhaseOK, ServicesOK, ScopeOK
    <3>2. CASE s # Root
      <4>1. ~Live(s)
        BY <2>1, <2>2, <3>2 DEF LifecycleInv, PhaseOK, Last, Members
      <4>2. scope[s].state \in {"none", "Closed"}
        BY <2>1, <4>1 DEF LifecycleInv, StateTypes, ScopeRecord, Live
      <4>3. QED
        BY <2>1, <3>2, <4>2 DEF LifecycleInv, ServicesOK, ScopeOK
    <3>3. QED
      BY <3>1, <3>2
  <2>4. QED
    BY <2>1, <2>3 DEF Members
<1>3. QED
  BY <1>1, <1>2 DEF DisposedOnce

\* A service is disposed at most once, also when factories hand out services that
\* others own, and when the registry is closed none is left: closeCore() reclaims a
\* scope that no attempt can add to any more (ServiceScope.ts 245, ServiceRegistry.ts
\* 141-153, 238-244).
THEOREM DisposedOnceHolds == Safety => []DisposedOnce
BY LifecycleInvariant, InvDisposedOnce, PTL

LEMMA InvNotDisposedInUse == LifecycleInv => NotDisposedInUse
<1> SUFFICES ASSUME LifecycleInv, NEW u \in uses, Alive(u[1]), node[u[2]].state = "ready",
                    NEW i \in DOMAIN disposed, disposed[i] = node[u[2]].value
             PROVE  u[1][1] = "handler" /\ node[node[u[2]].value].scope = HostScope
  BY DEF NotDisposedInUse
<1> DEFINE a == u[1]
           m == u[2]
           t == node[node[m].value].scope
<1>1. a \in Handlers \cup Factories /\ m \in Nodes /\ UseOK(a, m)
  BY DEF LifecycleInv, ActorTypes, UsesOK
<1>2. Reclaiming(t)
  BY DEF LifecycleInv, ServicesOK, DisposedOK
<1>3. t \in {node[m].scope, Root}
  BY <1>1 DEF LifecycleInv, ServicesOK, NodeOK
<1> HIDE DEF a, m, t
<1>4. ASSUME NEW n \in Nodes, a = Factory(n) PROVE FALSE
  <2>1. Pending(n)
    BY <1>4, AliveStarted DEF a
  <2>2. ~Reclaiming(node[n].scope) /\ ~Reclaiming(Root)
    BY <2>1, PendingScope
  <2>3. node[m].scope \in {node[n].scope, Root}
    BY <1>1, <1>4 DEF UseOK
  <2>4. QED
    BY <1>2, <1>3, <2>2, <2>3
<1>5. ASSUME NEW e \in Requests, a = Handler(e) PROVE a[1] = "handler" /\ t = HostScope
  <2>1. request[e].state = "running" /\ node[m].scope \in {request[e].scope, Root}
    BY <1>1, <1>5 DEF UseOK
  <2>2. ~Reclaiming(Root)
    BY <2>1 DEF LifecycleInv, PhaseOK, Past, Executing, Reclaiming
  <2>3. request[e].scope \in {e, HostScope}
    BY DEF LifecycleInv, StateTypes
  <2>4. request[e].scope = e => ~Reclaiming(e)
    <3>1. SUFFICES ASSUME request[e].scope = e PROVE ~Reclaiming(e)
      OBVIOUS
    <3>2. scope[e].state = "Open" /\ e # Root /\ e \in Scopes
      BY <2>1, <3>1, ScopesDiffer DEF LifecycleInv, ServicesOK, RequestOK
    <3>3. scope[e].disposing = 0
      BY <3>2 DEF LifecycleInv, ServicesOK, ScopeOK
    <3>4. QED
      BY <3>2, <3>3 DEF Reclaiming
  <2>5. t = HostScope
    BY <1>2, <1>3, <2>1, <2>2, <2>3, <2>4
  <2>6. QED
    BY <1>5, <2>5 DEF Handler
<1>6. QED
  BY <1>1, <1>4, <1>5 DEF Handlers, Factories, a, m, t

\* Nothing that runs loses a service it awaited: a scope is reclaimed when no
\* attempt is pending in it and its request has returned, the singletons when every
\* execution and every scope is done.  Only the host may take its own scope away
\* from a handler that borrowed it (ServiceScope.ts 238-241, ServiceRegistry.ts
\* 228-245).
THEOREM NotDisposedInUseHolds == Safety => []NotDisposedInUse
BY LifecycleInvariant, InvNotDisposedInUse, PTL

LEMMA InvDependentsFirst == LifecycleInv => DependentsFirst
<1> SUFFICES ASSUME LifecycleInv, NEW n \in Owned, NEW m \in Nodes, <<Factory(n), m>> \in uses,
                    node[m].state = "ready", node[m].value # n
             PROVE  \A i \in DOMAIN disposed : disposed[i] = node[m].value => \E j \in 1..i : disposed[j] = n
  BY DEF DependentsFirst
<1>1. n \in Nodes
  BY DEF Owned
<1>2. InOrder(n, node[m].value)
  BY <1>1 DEF LifecycleInv, UsesOK
<1>3. QED
  BY <1>2 DEF InOrder

\* A service is disposed before the services its factory awaited: within a scope
\* they are disposed in the reverse order of their creation, and the singletons,
\* the only ones of another scope that a factory can use, after every scope is
\* closed (ServiceScope.ts 245, ServiceRegistry.ts 238-244).
THEOREM DependentsFirstHolds == Safety => []DependentsFirst
BY LifecycleInvariant, InvDependentsFirst, PTL

LEMMA ActorsFinite == IsFiniteSet(Actors)
<1> DEFINE h == [e \in Requests |-> Handler(e)]
           f == [n \in Nodes |-> Factory(n)]
           d == [n \in Nodes |-> Disposer(n)]
           Disposers == {Disposer(n) : n \in Nodes}
<1>1. IsFiniteSet(Nodes)
  BY NodesNat, FS_Interval DEF Nodes
<1>2. IsFiniteSet(Handlers)
  <2>1. h \in Surjection(Requests, Handlers)
    BY DEF Surjection, Handlers
  <2>2. QED
    BY <2>1, RequestsFinite, FS_Surjection
<1>3. IsFiniteSet(Factories)
  <2>1. f \in Surjection(Nodes, Factories)
    BY DEF Surjection, Factories
  <2>2. QED
    BY <1>1, <2>1, FS_Surjection
<1>4. IsFiniteSet(Disposers)
  <2>1. d \in Surjection(Nodes, Disposers)
    BY DEF Surjection
  <2>2. QED
    BY <1>1, <2>1, FS_Surjection
<1>5. Actors = ((Handlers \cup Factories) \cup Disposers) \cup {Participant}
  BY DEF Actors, Handlers, Factories
<1> HIDE DEF Disposers
<1>6. QED
  BY <1>2, <1>3, <1>4, <1>5, FS_Union, FS_Singleton

\* Actors that all await a handler await one with a larger context, so that no set
\* of them is closed.
LEMMA HandlersEnd ==
  ASSUME LifecycleInv, NEW B \in SUBSET Actors, B # {},
         \A b \in B : \E f \in Requests : awaits[b] = Handler(f) /\ Handler(f) \in B
  PROVE  FALSE
<1> DEFINE size(b) == Cardinality(Context(b))
           D == {Cardinality(Actors) - size(b) : b \in B}
<1>1. \A b \in Actors : Context(b) \in SUBSET Actors
  BY DEF LifecycleInv, ActorTypes, Context
<1>2. \A b \in B : IsFiniteSet(Context(b)) /\ size(b) \in Nat /\ size(b) <= Cardinality(Actors)
  BY <1>1, ActorsFinite, FS_Subset, FS_CardinalityType
<1>3. Cardinality(Actors) \in Nat
  BY ActorsFinite, FS_CardinalityType
<1>4. D \subseteq Nat /\ D # {}
  BY <1>2, <1>3
<1>5. IsWellFoundedOn(OpToRel(<, Nat), Nat)
  BY NatLessThanWellFounded
<1>6. PICK x \in D : \A y \in D : ~(<<y, x>> \in OpToRel(<, Nat))
  BY <1>4, <1>5, WFMin
<1>7. \A y \in D : ~(y < x)
  BY <1>4, <1>6 DEF OpToRel
<1>8. PICK b \in B : x = Cardinality(Actors) - size(b)
  OBVIOUS
<1>9. PICK f \in Requests : awaits[b] = Handler(f) /\ Handler(f) \in B
  OBVIOUS
<1>10. lineage[Handler(f)] = Context(b) /\ Handler(f) \notin Context(b)
  BY <1>9 DEF LifecycleInv, ActorsOK, AwaitsOK
<1>11. Context(Handler(f)) = Context(b) \cup {Handler(f)}
  BY <1>10 DEF Context
<1>12. size(Handler(f)) = size(b) + 1
  BY <1>2, <1>10, <1>11, FS_AddElement
<1>13. ~(Cardinality(Actors) - size(Handler(f)) < Cardinality(Actors) - size(b))
  BY <1>7, <1>8, <1>9
<1> HIDE DEF size
<1>14. QED
  BY <1>2, <1>3, <1>9, <1>12, <1>13

LEMMA InvNoCircularWait == LifecycleInv => NoCircularWait
<1> SUFFICES ASSUME LifecycleInv, NEW D \in SUBSET {a \in Actors : Alive(a) /\ ~Free(a)}, D # {},
                    \A a \in D : awaits[a] \in D
             PROVE  FALSE
  BY DEF NoCircularWait
<1>1. D \in SUBSET Actors /\ \A a \in D : Alive(a)
  OBVIOUS
<1>2. \A a \in D : \/ \E f \in Requests : awaits[a] = Handler(f)
                   \/ \E m \in Nodes : awaits[a] = Factory(m)
  <2>1. \A a \in D : awaits[a] \in Handlers \cup Factories \cup {None, Shutdown} /\ awaits[a] \in Actors
    BY <1>1 DEF LifecycleInv, ActorTypes
  <2>2. None \notin Actors /\ Shutdown \notin Actors
    BY NoneDiffers DEF Actors, Shutdown, Handler, Factory, Disposer, Participant
  <2>3. QED
    BY <2>1, <2>2 DEF Handlers, Factories
<1> DEFINE S == {n \in Nodes : Factory(n) \in D}
<1>3. CASE S = {}
  <2>1. \A a \in D : \E f \in Requests : awaits[a] = Handler(f) /\ Handler(f) \in D
    BY <1>2, <1>3
  <2>2. QED
    BY <1>1, <2>1, HandlersEnd
<1>4. CASE S # {}
  <2>1. S \in SUBSET {n \in Nodes : Pending(n)}
    BY <1>1, AliveStarted
  <2>2. PICK x \in S : \A w \in waits : w[1] = x => w[2] \notin S
    BY <1>4, <2>1 DEF LifecycleInv, ActorsOK, WaitsOK
  <2> DEFINE B == {b \in D : RunsIn(b, x)}
  <2>3. B # {}
    <3>1. LineageOK(Factory(x))
      BY <2>2, ActorsDiffer DEF LifecycleInv, ActorsOK
    <3>2. \A k \in Nodes : Factory(k) \in lineage[Factory(x)] => k < x
      BY <2>2, <3>1 DEF LineageOK
    <3>3. x \in Nat /\ \A k \in Nodes : k \in Nat
      BY <2>2, NodesAreNumbers
    <3>4. \A k \in Nodes : Factory(k) \in Context(Factory(x)) => k <= x
      BY <2>2, <3>2, <3>3, ActorsDiffer DEF Context
    <3>5. RunsIn(Factory(x), x)
      BY <3>4 DEF RunsIn, Context
    <3>6. QED
      BY <2>2, <3>5
  <2>4. ASSUME NEW b \in B PROVE \E f \in Requests : awaits[b] = Handler(f) /\ Handler(f) \in B
    <3>1. b \in D /\ RunsIn(b, x) /\ awaits[b] \in D /\ AwaitsOK(b)
      BY <1>1 DEF LifecycleInv, ActorsOK
    <3>2. ASSUME NEW m \in Nodes, awaits[b] = Factory(m) PROVE FALSE
      <4>1. m \in S /\ Pending(m) /\ x \in Nodes /\ Pending(x)
        BY <2>1, <2>2, <3>1, <3>2
      <4>2. <<x, m>> \in waits
        BY <3>1, <3>2, <4>1 DEF AwaitsOK
      <4>3. QED
        BY <2>2, <4>1, <4>2
    <3>3. PICK f \in Requests : awaits[b] = Handler(f)
      BY <1>2, <3>1, <3>2
    <3>4. lineage[Handler(f)] = Context(b)
      BY <3>1, <3>3 DEF AwaitsOK
    <3>5. \A k \in Nodes : Factory(k) \in Context(Handler(f)) <=> Factory(k) \in Context(b)
      BY <3>4, ActorsDiffer DEF Context
    <3>6. RunsIn(Handler(f), x)
      BY <2>2, <3>1, <3>5 DEF RunsIn
    <3>7. QED
      BY <3>1, <3>3, <3>6
  <2>5. B \in SUBSET Actors
    BY <1>1
  <2> HIDE DEF B
  <2>6. QED
    BY <2>3, <2>4, <2>5, HandlersEnd
<1>5. QED
  BY <1>3, <1>4

\* No handlers and factories wait for each other in a circle: waitFor() refuses an
\* attempt that already waits for the caller's innermost one, and a nested request
\* is awaited only by what it was started from (ServiceRegistry.ts 117-139).  What a
\* closing request waits for is not counted.
THEOREM NoCircularWaitHolds == Safety => []NoCircularWait
BY LifecycleInvariant, InvNoCircularWait, PTL
=============================================================================
