------------------------ MODULE PostgreSQLObservation ------------------------
(***************************************************************************)
(* Source/Drizzle/PostgreSQLObservationManager.ts for one tenant, with the *)
(* observation sessions that hold its leases: one LISTEN connection shared *)
(* by the sessions, lost and recovered a bounded number of times, closed   *)
(* with the last lease, and drained on disposal.                           *)
(*                                                                         *)
(* PostgreSQL is external: a commit sends a notification to the connection *)
(* that listens, notifications arrive later and are lost with the          *)
(* connection.  What an abort rejects runs in the same turn of the event   *)
(* loop, so the abort and its consequences are one step.                   *)
(***************************************************************************)
EXTENDS ObservationSession, FiniteSets

CONSTANTS
  Sessions,
  MaxRetries,     \* the number of reconnect delays
  MaxEntries,     \* bound: entries the manager creates for the tenant
  MaxConnections, \* bound: connections that exist at the same time
  MaxVersion,     \* bound: commits
  MaxFailures,    \* bound: failures of the listener other than its own deadlines
  None

ASSUME ObservationBounds == {MaxRetries, MaxEntries, MaxConnections, MaxVersion, MaxFailures} \subseteq Nat
ASSUME NoneIsNoSession == None \notin Sessions

Entries == 1..MaxEntries
Connections == 1..MaxConnections

VARIABLES
  current,   \* the entry of the tenant, 0 when there is none
  entry,     \* the entries, those that are dead too
  conn,      \* the connections factories were asked for
  barrier,   \* #tenantCloses: the connection whose close the next start waits for
  disposal,  \* none, draining (with or without its factory deadline expired), done
  session,   \* the sessions, by the lease they hold
  version,   \* the committed state of the table
  failures,
  out,       \* history: the last snapshot each session handed out, -1 before the first
  cover      \* history: the version each session has to show after a recovery

managerVars == <<current, entry, conn, barrier>>
vars == <<managerVars, disposal, session, version, failures, out, cover>>

NewEntry ==
  [stage |-> "none", generation |-> 0, available |-> FALSE, wasReady |-> FALSE, retries |-> 0,
   connection |-> 0, factory |-> 0, todo |-> {}, checking |-> None]
NoConnection == [state |-> "free", listening |-> FALSE, broken |-> FALSE, inbox |-> 0, timedOut |-> FALSE]

Dead(e) == entry[e].stage = "dead"
Leases(e) == {s \in Sessions : session[s].state = "open" /\ session[s].entry = e}
Routed(e) == {s \in Leases(e) : session[s].lease = "routed"}
\* isCurrent(), and a readiness that is resolved.
Available(s) == ~Dead(session[s].entry) /\ entry[session[s].entry].available
Intact(e) == entry[e].connection # 0 /\ ~conn[entry[e].connection].broken

----------------------------------------------------------------------------
(* Closing connections, losing and retiring entries *)

\* scheduleClose() of the connection the entry uses.
CloseConnection(e) ==
  LET c == entry[e].connection IN
  IF c = 0 THEN UNCHANGED <<conn, barrier>>
  ELSE conn' = [conn EXCEPT ![c] = [NoConnection EXCEPT !.state = "closing"]] /\ barrier' = c

\* shutdown()
Retire(e) ==
  /\ entry' = [entry EXCEPT ![e] = [NewEntry EXCEPT !.stage = "dead", !.generation = entry[e].generation + 1]]
  /\ current' = IF current = e THEN 0 ELSE current
  /\ CloseConnection(e)

\* The sessions S of an entry end and release their leases; the last one retires it.
End(S, e) ==
  /\ session' = [s \in Sessions |-> IF s \in S THEN Ended(session[s]) ELSE session[s]]
  /\ IF Leases(e) \subseteq S THEN Retire(e) ELSE UNCHANGED managerVars

\* What lost() makes of the entry x, and of the leases whose readiness it replaces.
Delayed(x) ==
  [x EXCEPT !.available = FALSE, !.generation = @ + 1, !.stage = "delay", !.retries = @ + 1,
            !.connection = 0, !.factory = 0, !.todo = {}, !.checking = None]
Waiting(e) ==
  [s \in Sessions |-> IF s \in Leases(e) \ Routed(e) THEN [session[s] EXCEPT !.lease = "waiting"] ELSE session[s]]

\* lost(), and what the abort sets off: recover() moves on to its next delay, or
\* terminates an entry that was never ready or has no retry left.
LostKeepsConnection(e) ==
  IF ~entry[e].wasReady \/ entry[e].retries = MaxRetries THEN End(Leases(e), e)
  ELSE /\ entry' = [entry EXCEPT ![e] = Delayed(@)]
       /\ session' = Waiting(e)
       /\ UNCHANGED <<current, conn, barrier>>
LostKeepsRetries(e) ==
  IF ~entry[e].wasReady THEN End(Leases(e), e)
  ELSE /\ entry' = [entry EXCEPT ![e] = [Delayed(entry[e]) EXCEPT !.retries = entry[e].retries]]
       /\ session' = Waiting(e)
       /\ CloseConnection(e)
       /\ UNCHANGED current
Lost(e) ==
  IF ~entry[e].wasReady \/ entry[e].retries = MaxRetries THEN End(Leases(e), e)
  ELSE /\ entry' = [entry EXCEPT ![e] = Delayed(@)]
       /\ session' = Waiting(e)
       /\ CloseConnection(e)
       /\ UNCHANGED current

\* The connection is gone and nobody knows yet; notifications in flight are lost.
Break(c) ==
  /\ failures < MaxFailures
  /\ conn[c].state = "connected" /\ conn[c].listening
  /\ conn' = [conn EXCEPT ![c].listening = FALSE, ![c].broken = TRUE, ![c].inbox = 0]
  /\ failures' = failures + 1
  /\ UNCHANGED <<current, entry, barrier, disposal, session, version, out, cover>>

\* The disconnect event, the heartbeat or the deadline of a query tells.
LossDetected(e) ==
  /\ entry[e].connection # 0 /\ ~Intact(e)
  /\ Lost(e)
  /\ UNCHANGED <<disposal, version, failures, out, cover>>

\* A step of a start, a query or a revalidation fails.
ListenerFails(e) ==
  /\ failures < MaxFailures
  /\ entry[e].stage \in {"connect", "listen", "revalidate", "up"}
  /\ failures' = failures + 1
  /\ Lost(e)
  /\ UNCHANGED <<disposal, version, out, cover>>

HeartbeatSucceeds(e) ==
  /\ entry[e].stage = "up" /\ entry[e].available /\ Intact(e) /\ entry[e].retries > 0
  /\ entry' = [entry EXCEPT ![e].retries = 0]
  /\ UNCHANGED <<current, conn, barrier, disposal, session, version, failures, out, cover>>

----------------------------------------------------------------------------
(* start() *)

Free == {c \in Connections : conn[c].state = "free"}

Calling(x, c) == [x EXCEPT !.generation = @ + 1, !.stage = "factory", !.factory = c]
CallFactory(e, en) ==
  LET c == CHOOSE c \in Free : \A d \in Free : c <= d IN
  /\ Free # {}
  /\ entry' = [entry EXCEPT ![e] = Calling(en, c)]
  /\ conn' = [conn EXCEPT ![c].state = "pending"]

StartUnserialized(e, en) == CallFactory(e, en)
Start(e, en) ==
  IF barrier # 0 THEN entry' = [entry EXCEPT ![e] = [en EXCEPT !.stage = "barrier"]] /\ UNCHANGED conn
  ELSE CallFactory(e, en)

BarrierPasses(e) ==
  /\ entry[e].stage = "barrier" /\ barrier = 0
  /\ CallFactory(e, entry[e])
  /\ UNCHANGED <<current, barrier, disposal, session, version, failures, out, cover>>

\* The connection arrives, is given its callbacks and starts connecting.
FactoryYields(e) ==
  /\ entry[e].stage = "factory"
  /\ entry' = [entry EXCEPT ![e].stage = "connect", ![e].connection = entry[e].factory, ![e].factory = 0]
  /\ conn' = [conn EXCEPT ![entry[e].factory].state = "connected"]
  /\ UNCHANGED <<current, barrier, disposal, session, version, failures, out, cover>>

\* The wait for the previous close, or the factory, fails or passes its deadline.
StartTimesOut(e) ==
  /\ entry[e].stage \in {"barrier", "factory"}
  /\ Lost(e)
  /\ UNCHANGED <<disposal, version, failures, out, cover>>

\* A factory nobody waits for any more settles; its connection is closed.
Late(c) == conn[c].state = "pending" /\ \A e \in Entries : entry[e].factory # c
LateFactorySettles(c) ==
  /\ Late(c)
  /\ \E s \in {"discarding", "free"} : conn' = [conn EXCEPT ![c].state = s]
  /\ UNCHANGED <<current, entry, barrier, disposal, session, version, failures, out, cover>>

Connects(e) ==
  /\ entry[e].stage = "connect"
  /\ entry' = [entry EXCEPT ![e].stage = "listen"]
  /\ UNCHANGED <<current, conn, barrier, disposal, session, version, failures, out, cover>>

----------------------------------------------------------------------------
(* recover() *)

\* The next lease is revalidated; after the last one the listener is available
\* again and every routed session catches up.
NextCheckWithoutCatchup(e, rest, ss) ==
  IF rest = {}
  THEN /\ entry' = [entry EXCEPT ![e].stage = "up", ![e].available = TRUE, ![e].todo = {}, ![e].checking = None]
       /\ session' = ss
       /\ cover' = [s \in Sessions |-> IF s \in Routed(e) THEN version ELSE cover[s]]
  ELSE /\ \E s \in rest : entry' = [entry EXCEPT ![e].stage = "revalidate", ![e].todo = rest, ![e].checking = s]
       /\ session' = ss
       /\ UNCHANGED cover
NextCheck(e, rest, ss) ==
  IF rest = {}
  THEN /\ entry' = [entry EXCEPT ![e].stage = "up", ![e].available = TRUE, ![e].todo = {}, ![e].checking = None]
       /\ session' = [s \in Sessions |->
            IF s \in Routed(e) /\ ss[s].state = "open" THEN Changed(ss[s], TRUE) ELSE ss[s]]
       /\ cover' = [s \in Sessions |-> IF s \in Routed(e) THEN version ELSE cover[s]]
  ELSE /\ \E s \in rest : entry' = [entry EXCEPT ![e].stage = "revalidate", ![e].todo = rest, ![e].checking = s]
       /\ session' = ss
       /\ UNCHANGED cover

RetryDelayEnds(e) ==
  /\ entry[e].stage = "delay"
  /\ Start(e, entry[e])
  /\ UNCHANGED <<current, barrier, disposal, session, version, failures, out, cover>>

\* LISTEN is acknowledged: the first start is over, a later one revalidates.
Listens(e) ==
  /\ entry[e].stage = "listen"
  /\ conn' = [conn EXCEPT ![entry[e].connection].listening = TRUE]
  /\ IF entry[e].wasReady THEN NextCheck(e, Routed(e), session)
     ELSE entry' = [entry EXCEPT ![e].stage = "up"] /\ UNCHANGED <<session, cover>>
  /\ UNCHANGED <<current, barrier, disposal, version, failures, out>>

Unchecked(e) == {s \in entry[e].todo \ {entry[e].checking} : s \in Leases(e)}

Revalidated(e) ==
  /\ entry[e].stage = "revalidate" /\ Intact(e)
  /\ NextCheck(e, Unchecked(e), session)
  /\ UNCHANGED <<current, conn, barrier, disposal, version, failures, out>>

\* Its table or trigger is not what it was: only this observation fails.
RevalidationRefused(e) ==
  LET s == entry[e].checking IN
  /\ entry[e].stage = "revalidate" /\ Intact(e) /\ s \in Leases(e)
  /\ IF Leases(e) = {s} THEN End({s}, e) /\ UNCHANGED cover
     ELSE /\ NextCheck(e, Unchecked(e), [session EXCEPT ![s] = Ended(session[s])])
          /\ UNCHANGED <<current, conn, barrier>>
  /\ UNCHANGED <<disposal, version, failures, out>>

----------------------------------------------------------------------------
(* acquire(), the readiness of a lease and its release *)

Acquire(s) ==
  LET e == CHOOSE e \in Entries : entry[e].stage = "none" /\ \A d \in Entries : d < e => entry[d].stage # "none" IN
  /\ disposal = "none" /\ session[s].state = "idle"
  /\ IF current # 0
     THEN session' = [session EXCEPT ![s] = Opened(current)] /\ UNCHANGED <<current, entry, conn>>
     ELSE /\ \E d \in Entries : entry[d].stage = "none"
          /\ session' = [session EXCEPT ![s] = Opened(e)]
          /\ current' = e
          /\ Start(e, NewEntry)
  /\ UNCHANGED <<barrier, disposal, version, failures, out, cover>>

\* The start is over, and so is any recovery.
LeaseStarts(s) ==
  LET e == session[s].entry IN
  /\ session[s].state = "open" /\ session[s].lease = "waiting"
  /\ IF entry[e].wasReady THEN entry[e].available ELSE entry[e].stage = "up"
  /\ session' = [session EXCEPT ![s].lease = "resolve"]
  /\ UNCHANGED <<managerVars, disposal, version, failures, out, cover>>

LeaseResolves(s) ==
  /\ session[s].state = "open" /\ session[s].lease = "resolve"
  /\ session' = [session EXCEPT ![s].lease = "validate"]
  /\ UNCHANGED <<managerVars, disposal, version, failures, out, cover>>

\* Database and trigger are right: the lease is routed, and then the session
\* starts its first read.
LeaseRoutes(s) ==
  LET e == session[s].entry IN
  /\ session[s].state = "open" /\ session[s].lease = "validate" /\ Intact(e)
  /\ session' = [session EXCEPT ![s].lease = "routed", ![s].read = "gate"]
  /\ entry' = [entry EXCEPT ![e].available = TRUE, ![e].wasReady = TRUE]
  /\ UNCHANGED <<current, conn, barrier, disposal, version, failures, out, cover>>

LeaseRefused(s) ==
  /\ session[s].state = "open" /\ session[s].lease \in {"resolve", "validate"}
  /\ End({s}, session[s].entry)
  /\ UNCHANGED <<disposal, version, failures, out, cover>>

CloseSession(s) ==
  /\ session[s].state = "open"
  /\ End({s}, session[s].entry)
  /\ UNCHANGED <<disposal, version, failures, out, cover>>

----------------------------------------------------------------------------
(* Commits and notifications *)

Commit ==
  /\ version < MaxVersion
  /\ version' = version + 1
  /\ conn' = [c \in Connections |-> IF conn[c].listening THEN [conn[c] EXCEPT !.inbox = @ + 1] ELSE conn[c]]
  /\ UNCHANGED <<current, entry, barrier, disposal, session, failures, out, cover>>

Notified(e) ==
  LET c == entry[e].connection IN
  /\ c # 0 /\ conn[c].inbox > 0
  /\ conn' = [conn EXCEPT ![c].inbox = @ - 1]
  /\ session' = [s \in Sessions |-> IF s \in Routed(e) THEN Changed(session[s], FALSE) ELSE session[s]]
  /\ UNCHANGED <<current, entry, barrier, disposal, version, failures, out, cover>>

----------------------------------------------------------------------------
(* Reading and handing out snapshots *)

sessionOnly == <<managerVars, disposal, version, failures, cover>>

Adopt(s) ==
  /\ session[s].state = "open" /\ ~session[s].subscribed
  /\ session' = [session EXCEPT ![s].subscribed = TRUE, ![s].adopt = "called"]
  /\ UNCHANGED <<sessionOnly, out>>

Current(s) ==
  /\ session[s].state = "open" /\ session[s].current = "none"
  /\ session' = [session EXCEPT ![s].current = "called"]
  /\ UNCHANGED <<sessionOnly, out>>

\* The first value and the listener are there.
WaiterProceeds(s, w) ==
  LET x == session[s] IN
  /\ x.state = "open" /\ x[w] = "called" /\ x.hasValue /\ Available(s)
  /\ IF MustWait(x) THEN session' = [session EXCEPT ![s] = Waits(x, w)] /\ UNCHANGED out
     ELSE session' = [session EXCEPT ![s] = HandsOut(x, w)] /\ out' = [out EXCEPT ![s] = x.snapshot]
  /\ UNCHANGED sessionOnly

PumpRuns(s) ==
  /\ session[s].state = "open" /\ session[s].scheduled
  /\ session' = [session EXCEPT ![s] = Pumped([session[s] EXCEPT !.scheduled = FALSE])]
  /\ UNCHANGED <<sessionOnly, out>>

ReadStarts(s) ==
  /\ session[s].state = "open" /\ session[s].read = "gate" /\ Available(s)
  /\ session' = [session EXCEPT ![s].read = "reading", ![s].readFrom = version,
                                ![s].readGeneration = entry[session[s].entry].generation]
  /\ UNCHANGED <<sessionOnly, out>>

IsCurrent(s) == Available(s) /\ session[s].readGeneration = entry[session[s].entry].generation

\* The read saw the table at some moment since it started.  One that raced a lost
\* connection is repeated.
ReadSettlesUnchecked(s) ==
  LET x == session[s] IN
  /\ x.state = "open" /\ x.read = "reading"
  /\ \E v \in x.readFrom .. version :
       IF ~x.hasValue THEN session' = [session EXCEPT ![s] = AfterInitialRead(x, v)] /\ UNCHANGED out
       ELSE /\ session' = [session EXCEPT ![s] = AfterRead(x, v)]
            /\ out' = IF Reaches(x) THEN [out EXCEPT ![s] = v] ELSE out
  /\ UNCHANGED sessionOnly
ReadSettles(s) ==
  LET x == session[s] IN
  /\ x.state = "open" /\ x.read = "reading"
  /\ IF ~IsCurrent(s) THEN session' = [session EXCEPT ![s].read = "gate"] /\ UNCHANGED out
     ELSE \E v \in x.readFrom .. version :
       IF ~x.hasValue THEN session' = [session EXCEPT ![s] = AfterInitialRead(x, v)] /\ UNCHANGED out
       ELSE /\ session' = [session EXCEPT ![s] = AfterRead(x, v)]
            /\ out' = IF Reaches(x) THEN [out EXCEPT ![s] = v] ELSE out
  /\ UNCHANGED sessionOnly

ReadFails(s) ==
  /\ session[s].state = "open" /\ session[s].read = "reading"
  /\ IF IsCurrent(s) THEN End({s}, session[s].entry)
     ELSE session' = [session EXCEPT ![s].read = "gate"] /\ UNCHANGED managerVars
  /\ UNCHANGED <<disposal, version, failures, out, cover>>

----------------------------------------------------------------------------
(* Closes settle, and disposal waits for them *)

CloseSettles(c) ==
  /\ conn[c].state \in {"closing", "discarding"}
  /\ conn' = [conn EXCEPT ![c] = NoConnection]
  /\ barrier' = IF barrier = c THEN 0 ELSE barrier
  /\ UNCHANGED <<current, entry, disposal, session, version, failures, out, cover>>

CloseTimesOut(c) ==
  /\ conn[c].state \in {"closing", "discarding"} /\ ~conn[c].timedOut
  /\ conn' = [conn EXCEPT ![c].timedOut = TRUE]
  /\ UNCHANGED <<current, entry, barrier, disposal, session, version, failures, out, cover>>

Dispose ==
  /\ disposal = "none"
  /\ disposal' = "draining"
  /\ IF current # 0 THEN End(Leases(current), current) ELSE UNCHANGED <<managerVars, session>>
  /\ UNCHANGED <<version, failures, out, cover>>

FactoryDeadline ==
  /\ disposal = "draining"
  /\ disposal' = "expired"
  /\ UNCHANGED <<managerVars, session, version, failures, out, cover>>

DrainedNow == \A c \in Connections : conn[c].state \notin {"closing", "discarding"} \/ conn[c].timedOut
DrainSettlesEarly ==
  /\ disposal \in {"draining", "expired"}
  /\ DrainedNow
  /\ disposal' = IF disposal = "expired" THEN "late" ELSE "done"
  /\ UNCHANGED <<managerVars, session, version, failures, out, cover>>
DrainWaitsForFactories ==
  /\ disposal \in {"draining", "expired"}
  /\ DrainedNow
  /\ \A c \in Connections : conn[c].state # "pending"
  /\ disposal' = IF disposal = "expired" THEN "late" ELSE "done"
  /\ UNCHANGED <<managerVars, session, version, failures, out, cover>>
DrainSettles ==
  /\ disposal \in {"draining", "expired"}
  /\ DrainedNow
  /\ disposal = "draining" => \A c \in Connections : conn[c].state # "pending"
  /\ disposal' = IF disposal = "expired" THEN "late" ELSE "done"
  /\ UNCHANGED <<managerVars, session, version, failures, out, cover>>

----------------------------------------------------------------------------
(* The specification *)

Init ==
  /\ current = 0 /\ entry = [e \in Entries |-> NewEntry] /\ conn = [c \in Connections |-> NoConnection]
  /\ barrier = 0 /\ disposal = "none"
  /\ session = [s \in Sessions |-> IdleSession]
  /\ version = 0 /\ failures = 0
  /\ out = [s \in Sessions |-> -1] /\ cover = [s \in Sessions |-> 0]

Opens(e) == BarrierPasses(e) \/ FactoryYields(e) \/ Connects(e) \/ Listens(e) \/ StartTimesOut(e) \/ RetryDelayEnds(e)
Recovers(e) == Revalidated(e) \/ RevalidationRefused(e)
Readies(s) == LeaseStarts(s) \/ LeaseResolves(s) \/ LeaseRoutes(s) \/ LeaseRefused(s)
Reads(s) == ReadStarts(s) \/ ReadSettles(s) \/ ReadFails(s)
Drains == FactoryDeadline \/ DrainSettles

Next ==
  \/ \E e \in Entries :
       \/ Opens(e) \/ Recovers(e) \/ LossDetected(e) \/ ListenerFails(e) \/ HeartbeatSucceeds(e) \/ Notified(e)
  \/ \E c \in Connections : Break(c) \/ LateFactorySettles(c) \/ CloseSettles(c) \/ CloseTimesOut(c)
  \/ \E s \in Sessions :
       \/ Acquire(s) \/ Readies(s) \/ CloseSession(s) \/ Adopt(s) \/ Current(s)
       \/ \E w \in Waiters : WaiterProceeds(s, w)
       \/ PumpRuns(s) \/ Reads(s)
  \/ Commit \/ Dispose \/ Drains

Safety == Init /\ [][Next]_vars

\* The event loop runs, timers fire, notifications of an intact connection arrive
\* and reads settle.  Factories and closes need not settle: they have deadlines.
Fairness ==
  /\ \A e \in Entries : WF_vars(Opens(e)) /\ WF_vars(Recovers(e)) /\ WF_vars(LossDetected(e)) /\ WF_vars(Notified(e))
  /\ \A c \in Connections : WF_vars(CloseTimesOut(c))
  /\ \A s \in Sessions :
       /\ WF_vars(Readies(s)) /\ WF_vars(PumpRuns(s)) /\ WF_vars(Reads(s))
       /\ \A w \in Waiters : WF_vars(WaiterProceeds(s, w))
  /\ WF_vars(Drains)

Spec == Safety /\ Fairness

----------------------------------------------------------------------------
(* Properties *)

TypeOK ==
  /\ current \in 0..MaxEntries /\ barrier \in 0..MaxConnections
  /\ entry \in [Entries -> [stage : {"none", "barrier", "factory", "connect", "listen", "revalidate", "up", "delay", "dead"},
                            generation : Nat, available : BOOLEAN, wasReady : BOOLEAN, retries : 0..MaxRetries,
                            connection : 0..MaxConnections, factory : 0..MaxConnections,
                            todo : SUBSET Sessions, checking : Sessions \cup {None}]]
  /\ conn \in [Connections -> [state : {"free", "pending", "connected", "closing", "discarding"},
                               listening : BOOLEAN, broken : BOOLEAN, inbox : 0..MaxVersion, timedOut : BOOLEAN]]
  /\ disposal \in {"none", "draining", "expired", "done", "late"}
  /\ session \in [Sessions -> SessionType(0..MaxEntries, 0..MaxVersion)]
  /\ version \in 0..MaxVersion /\ failures \in 0..MaxFailures
  /\ out \in [Sessions -> -1..MaxVersion] /\ cover \in [Sessions -> 0..MaxVersion]

\* A session with nothing left to do shows the committed state, and has told its
\* subscriber: no change slips between LISTEN, routing, a read in flight, a lost
\* connection and its recovery (DrizzleObservationSession.ts 140-172).
Settled(s) ==
  LET x == session[s] IN
  /\ x.state = "open" /\ x.hasValue /\ ~x.dirty /\ x.read = "none" /\ Available(s)
  /\ Intact(x.entry) /\ conn[entry[x.entry].connection].inbox = 0
NoMissedChange ==
  \A s \in Sessions : Settled(s) =>
    session[s].snapshot = version /\ (session[s].emitted => out[s] = version)

\* A tenant never has two sockets: a connection is made only after the one before
\* it is closed, also when an entry was retired and a new one created
\* (PostgreSQLObservationManager.ts 125-128, 347-357).
OneSocket == Cardinality({c \in Connections : conn[c].state \in {"connected", "closing"}}) <= 1

\* Every connection a factory handed over is in use by a living entry or being
\* closed, however late it came (PostgreSQLObservationManager.ts 131-133, 245).
NoLeakedConnection ==
  \A c \in Connections : conn[c].state = "connected" => \E e \in Entries : entry[e].connection = c

\* Disposal returns when every connection is closed or its close was given up and,
\* unless a factory let its deadline pass, no connection can still arrive
\* (PostgreSQLObservationManager.ts 385-398).
DrainedOnDisposal ==
  disposal \in {"done", "late"} =>
    /\ \A s \in Sessions : session[s].state # "open"
    /\ \A c \in Connections :
         conn[c].state = "free" \/ conn[c].timedOut \/ (disposal = "late" /\ conn[c].state \in {"pending", "discarding"})

\* What a session hands out is never older than what it handed out before, nor
\* than the state at the last recovery, and nothing is handed out while the
\* listener is down (DrizzleObservationSession.ts 98-107, 123-138).
FreshHandouts ==
  [][\A s \in Sessions : out'[s] # out[s] => out'[s] > out[s] /\ out'[s] >= cover[s] /\ Available(s)]_vars

\* What a session hands out, as a live query over the one table.
SessionStatus(x) ==
  CASE x.state = "idle" -> "off"
    [] x.state = "open" -> IF x.subscribed THEN "watched" ELSE "open"
    [] OTHER -> "ended"
LiveQuery == INSTANCE LiveQuery WITH
  Subscribers <- Sessions, Sources <- {"table"}, ReadsFrom <- [s \in Sessions |-> {"table"}],
  db <- [k \in {"table"} |-> version],
  status <- [s \in Sessions |-> SessionStatus(session[s])],
  view <- [s \in Sessions |-> [k \in {"table"} |-> out[s]]]

\* The observation implements the contract of a live query: its subscriber is
\* shown every commit, or a later state, or is told that the observation ended,
\* across lost listeners, recoveries and reads that raced them
\* (DrizzleObservationSession.ts 110-172).
ImplementsLiveQuery == LiveQuery!Spec

\* current() never hangs: the listener is there, comes back, or gives up.
CurrentSettles == \A s \in Sessions : session[s].current # "none" ~> session[s].current = "none"

\* Disposal ends, whatever the factories and the closes do.
DisposalEnds == disposal # "none" ~> disposal \in {"done", "late"}
=============================================================================
