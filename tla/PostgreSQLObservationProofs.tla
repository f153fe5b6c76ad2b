-------------------- MODULE PostgreSQLObservationProofs --------------------
(* Proofs about PostgreSQLObservation, for any finite or infinite set of   *)
(* sessions and any number of entries, connections, retries, commits and   *)
(* failures.                                                               *)
EXTENDS PostgreSQLObservation, FiniteSetTheorems, WellFoundedInduction, TLAPS

(***************************************************************************)
(* The inductive invariant: the listener                                   *)
(***************************************************************************)

Stages == {"none", "barrier", "factory", "connect", "listen", "revalidate", "up", "delay", "dead"}
EntryRecord ==
  [stage : Stages, generation : Nat, available : BOOLEAN, wasReady : BOOLEAN, retries : Nat,
   connection : Connections \cup {0}, factory : Connections \cup {0},
   todo : SUBSET Sessions, checking : Sessions \cup {None}]
ConnectionRecord ==
  [state : {"free", "pending", "connected", "closing", "discarding"},
   listening : BOOLEAN, broken : BOOLEAN, inbox : Nat, timedOut : BOOLEAN]
Session == SessionType(Entries \cup {0}, Nat)

ListenerTypes ==
  /\ current \in Entries \cup {0} /\ barrier \in Connections \cup {0}
  /\ entry \in [Entries -> EntryRecord] /\ conn \in [Connections -> ConnectionRecord]
  /\ disposal \in {"none", "draining", "expired", "done", "late"}

Connected == {"connect", "listen", "revalidate", "up"}

\* What the stage of an entry says: only the current one is alive, it has a
\* factory or a connection and never both, and while it has the previous
\* connection is closed.
EntryOK(e) ==
  /\ entry[e].stage \notin {"none", "dead"} <=> e = current
  /\ entry[e].factory # 0 <=> entry[e].stage = "factory"
  /\ entry[e].connection # 0 <=> entry[e].stage \in Connected
  /\ entry[e].stage = "factory" => conn[entry[e].factory].state = "pending"
  /\ entry[e].stage \in Connected => conn[entry[e].connection].state = "connected"
  /\ entry[e].stage \in Connected \cup {"factory"} => barrier = 0
  /\ entry[e].stage \in {"revalidate", "up"} =>
       conn[entry[e].connection].listening \/ conn[entry[e].connection].broken
  /\ entry[e].stage = "revalidate" => entry[e].wasReady
  /\ entry[e].available <=> entry[e].stage = "up" /\ entry[e].wasReady
ConnectionOK(c) ==
  /\ conn[c].state = "connected" => current # 0 /\ entry[current].connection = c
  /\ conn[c].state = "closing" => barrier = c

ListenerOK ==
  /\ \A e \in Entries : EntryOK(e)
  /\ \A c \in Connections : ConnectionOK(c)
  /\ disposal # "none" => current = 0
  /\ disposal \in {"done", "late"} =>
       \A c \in Connections :
         \/ conn[c].state = "free" \/ conn[c].timedOut
         \/ disposal = "late" /\ conn[c].state \in {"pending", "discarding"}

(***************************************************************************)
(* The inductive invariant: the sessions                                   *)
(***************************************************************************)

SessionTypes ==
  /\ session \in [Sessions -> Session] /\ version \in Nat /\ failures \in Nat
  /\ out \in [Sessions -> Int] /\ cover \in [Sessions -> Nat]

\* An open session x that handed out o and has to show k, at version v, with a
\* listener of generation g that is up, was ready once, is available, and is quiet
\* when it is intact and no notification is on its way.
OpenOK(x, o, k, v, g, up, ready, available, quiet) ==
  /\ x.lease # "routed" => ~x.hasValue /\ x.read = "none"
  /\ x.lease \in {"resolve", "validate"} => up
  /\ x.lease = "routed" => ready /\ (x.hasValue \/ x.read # "none")
  /\ ~x.hasValue => o = -1 /\ ~x.emitted
  /\ x.hasValue => o <= x.snapshot /\ x.snapshot <= v /\ (x.catchup \/ k <= x.snapshot)
  /\ x.emitted => o = x.snapshot
  /\ x.read = "reading" =>
       /\ x.readFrom <= v /\ x.readGeneration <= g
       /\ x.hasValue => x.snapshot <= x.readFrom
       /\ x.readGeneration = g => available /\ k <= x.readFrom
  /\ available /\ quiet /\ ~x.dirty =>
       /\ x.hasValue /\ x.read = "none" => x.snapshot = v
       /\ x.read = "reading" /\ x.readGeneration = g => x.readFrom = v
SessionOK(x, o, k, v, g, up, ready, available, quiet) ==
  /\ x.state = "idle" => o = -1
  /\ x.state = "open" => OpenOK(x, o, k, v, g, up, ready, available, quiet)

Quiet(e) == Intact(e) /\ conn[entry[e].connection].inbox = 0
Up(e) == entry[e].stage = "up"
Serves(s) ==
  /\ cover[s] <= version
  /\ session[s].state = "open" => current # 0 /\ session[s].entry = current
  /\ SessionOK(session[s], out[s], cover[s], version, entry[session[s].entry].generation, Up(session[s].entry),
               entry[session[s].entry].wasReady, entry[session[s].entry].available, Quiet(session[s].entry))

ObservationInv ==
  /\ ListenerTypes /\ ListenerOK
  /\ SessionTypes
  /\ \A s \in Sessions : Serves(s)

(***************************************************************************)
(* What the methods of a session make of it                                *)
(***************************************************************************)

LEMMA NewSessions ==
  ASSUME NEW e \in Entries \cup {0}
  PROVE  /\ IdleSession \in Session /\ Opened(e) \in Session
         /\ IdleSession.state = "idle"
         /\ Opened(e).state = "open" /\ Opened(e).entry = e /\ Opened(e).lease = "waiting"
         /\ Opened(e).read = "none" /\ ~Opened(e).hasValue /\ ~Opened(e).emitted /\ ~Opened(e).subscribed
BY DEF IdleSession, Opened, Session, SessionType

LEMMA EndedResult ==
  ASSUME NEW x \in Session
  PROVE  Ended(x) \in Session /\ Ended(x).state = "closed"
BY DEF Ended, IdleSession, Session, SessionType

\* Two states of a session that differ only in what it still schedules and who
\* waits for it.
Alike(x, y) ==
  /\ y.state = x.state /\ y.entry = x.entry /\ y.subscribed = x.subscribed
  /\ y.lease = x.lease /\ y.hasValue = x.hasValue /\ y.snapshot = x.snapshot
  /\ y.readFrom = x.readFrom /\ y.readGeneration = x.readGeneration

LEMMA ScheduledResult ==
  ASSUME NEW x \in Session
  PROVE  /\ Scheduled(x) \in Session /\ Alike(x, Scheduled(x))
         /\ Scheduled(x).read = x.read /\ Scheduled(x).dirty = x.dirty /\ Scheduled(x).catchup = x.catchup
         /\ Scheduled(x).emitted = x.emitted
<1> DEFINE y == [x EXCEPT !.scheduled = TRUE]
<1>1. /\ y \in Session /\ Alike(x, y)
      /\ y.read = x.read /\ y.dirty = x.dirty /\ y.catchup = x.catchup /\ y.emitted = x.emitted
  BY DEF Alike, Session, SessionType
<1>2. Scheduled(x) = x \/ Scheduled(x) = y
  BY DEF Scheduled
<1> HIDE DEF y
<1>3. QED
  BY <1>1, <1>2 DEF Alike

LEMMA ChangedResult ==
  ASSUME NEW x \in Session, NEW c \in BOOLEAN
  PROVE  /\ Changed(x, c) \in Session /\ Alike(x, Changed(x, c))
         /\ Changed(x, c).read = x.read /\ Changed(x, c).dirty /\ Changed(x, c).emitted = x.emitted
         /\ x.catchup \/ c => Changed(x, c).catchup
<1> DEFINE y == [x EXCEPT !.dirty = TRUE, !.catchup = @ \/ c]
<1>1. y \in Session /\ Alike(x, y) /\ y.read = x.read /\ y.dirty /\ y.emitted = x.emitted
  BY DEF Alike, Session, SessionType
<1>2. x.catchup \/ c => y.catchup
  BY DEF Session, SessionType
<1>3. Changed(x, c) = y \/ Changed(x, c) = Scheduled(y)
  BY DEF Changed
<1> HIDE DEF y
<1>4. Alike(x, Scheduled(y))
  BY <1>1, ScheduledResult DEF Alike
<1>5. QED
  BY <1>1, <1>2, <1>3, <1>4, ScheduledResult

LEMMA PumpedResult ==
  ASSUME NEW x \in Session
  PROVE  /\ Pumped(x) \in Session /\ Alike(x, Pumped(x))
         /\ Pumped(x).emitted = x.emitted /\ Pumped(x).catchup = x.catchup
         /\ \/ Pumped(x).read = x.read /\ Pumped(x).dirty = x.dirty
            \/ x.hasValue /\ x.read = "none" /\ Pumped(x).read = "gate"
<1> DEFINE y == [x EXCEPT !.dirty = FALSE, !.catchingUp = x.catchup, !.read = "gate"]
<1>1. /\ y \in Session /\ Alike(x, y)
      /\ y.emitted = x.emitted /\ y.catchup = x.catchup /\ y.read = "gate"
  BY DEF Alike, Session, SessionType
<1>2. Pumped(x) = x \/ (Pumped(x) = y /\ x.hasValue /\ x.read = "none")
  BY DEF Pumped, Running
<1> HIDE DEF y
<1>3. QED
  BY <1>1, <1>2 DEF Alike

LEMMA WaitsResult ==
  ASSUME NEW x \in Session, NEW w \in Waiters
  PROVE  /\ Waits(x, w) \in Session /\ Alike(Pumped(x), Waits(x, w))
         /\ Waits(x, w).emitted = Pumped(x).emitted /\ Waits(x, w).catchup = Pumped(x).catchup
         /\ Waits(x, w).read = Pumped(x).read /\ Waits(x, w).dirty = Pumped(x).dirty
<1> DEFINE y == Pumped(x)
           q == IF x.catchup THEN "catchup" ELSE "read"
<1>1. y \in Session
  BY PumpedResult
<1>2. Waits(x, w) = [y EXCEPT ![w] = q]
  BY DEF Waits
<1>3. q = "catchup" \/ q = "read"
  OBVIOUS
<1> HIDE DEF y, q
<1>4. [y EXCEPT !.current = q] \in Session /\ [y EXCEPT !.adopt = q] \in Session
  BY <1>1, <1>3 DEF Session, SessionType
<1>5. CASE w = "current"
  <2> DEFINE z == [y EXCEPT !.current = q]
  <2>1. Alike(y, z) /\ z.emitted = y.emitted /\ z.catchup = y.catchup /\ z.read = y.read /\ z.dirty = y.dirty
    BY <1>1 DEF Alike, Session, SessionType
  <2>2. Waits(x, w) = z
    BY <1>2, <1>5
  <2> HIDE DEF z
  <2>3. z \in Session
    BY <1>4 DEF z
  <2>4. QED
    BY <2>1, <2>2, <2>3 DEF y
<1>6. CASE w = "adopt"
  <2> DEFINE z == [y EXCEPT !.adopt = q]
  <2>1. Alike(y, z) /\ z.emitted = y.emitted /\ z.catchup = y.catchup /\ z.read = y.read /\ z.dirty = y.dirty
    BY <1>1 DEF Alike, Session, SessionType
  <2>2. Waits(x, w) = z
    BY <1>2, <1>6
  <2> HIDE DEF z
  <2>3. z \in Session
    BY <1>4 DEF z
  <2>4. QED
    BY <2>1, <2>2, <2>3 DEF y
<1>7. QED
  BY <1>5, <1>6 DEF Waiters

LEMMA HandsOutResult ==
  ASSUME NEW x \in Session, NEW w \in Waiters
  PROVE  /\ HandsOut(x, w) \in Session /\ Alike(x, HandsOut(x, w))
         /\ HandsOut(x, w).catchup = x.catchup
         /\ HandsOut(x, w).read = x.read /\ HandsOut(x, w).dirty = x.dirty
BY DEF HandsOut, Waiters, Alike, Session, SessionType

LEMMA AfterReadResult ==
  ASSUME NEW x \in Session, NEW v \in Nat
  PROVE  /\ AfterRead(x, v) \in Session
         /\ AfterRead(x, v).state = x.state /\ AfterRead(x, v).entry = x.entry
         /\ AfterRead(x, v).subscribed = x.subscribed
         /\ AfterRead(x, v).lease = x.lease /\ AfterRead(x, v).hasValue = x.hasValue
         /\ AfterRead(x, v).snapshot = v
         /\ AfterRead(x, v).emitted => Reaches(x)
         /\ \/ AfterRead(x, v).read = "none" /\ AfterRead(x, v).dirty = x.dirty
            \/ AfterRead(x, v).read = "gate"
<1> DEFINE catchup == IF x.catchingUp THEN FALSE ELSE x.catchup
           waiting == IF "current" \in Released(x) THEN "none" ELSE x.current
           adopt == IF "adopt" \in Released(x) THEN "done" ELSE x.adopt
           emitted == x.emitted \/ "adopt" \in Released(x)
           y == [x EXCEPT !.snapshot = v, !.read = "none", !.catchup = catchup, !.catchingUp = FALSE,
                          !.current = waiting, !.adopt = adopt, !.emitted = emitted]
<1>1. /\ catchup \in BOOLEAN /\ waiting \in {"none", "called", "read", "catchup"}
      /\ adopt \in {"none", "called", "read", "catchup", "done"} /\ emitted \in BOOLEAN
      /\ emitted => Reaches(x)
  BY DEF Reaches, Session, SessionType
<1>2. AfterRead(x, v) = Pumped(y)
  BY DEF AfterRead
<1> HIDE DEF catchup, waiting, adopt, emitted
<1>3. /\ y.state = x.state /\ y.entry = x.entry /\ y.subscribed = x.subscribed
      /\ y.lease = x.lease /\ y.hasValue = x.hasValue /\ y.snapshot = v
      /\ y.read = "none" /\ y.dirty = x.dirty /\ y.emitted = emitted
  BY DEF Session, SessionType
<1>4. y \in Session
  <2> DEFINE z == [x EXCEPT !.snapshot = v, !.read = "none", !.catchup = catchup, !.catchingUp = FALSE]
  <2>1. z \in Session
    BY <1>1 DEF Session, SessionType
  <2>2. y = [z EXCEPT !.current = waiting, !.adopt = adopt, !.emitted = emitted]
    BY Zenon DEF z, y
  <2> HIDE DEF z, y
  <2> DEFINE z2 == [z EXCEPT !.current = waiting]
             z3 == [z2 EXCEPT !.adopt = adopt]
  <2>3. z2 \in Session
    BY <2>1, <1>1 DEF Session, SessionType
  <2> HIDE DEF z2
  <2>4. z3 \in Session
    BY <2>3, <1>1 DEF Session, SessionType
  <2> HIDE DEF z3
  <2>5. [z3 EXCEPT !.emitted = emitted] \in Session
    BY <2>4, <1>1 DEF Session, SessionType
  <2>6. QED
    BY <2>2, <2>5 DEF z2, z3
<1> HIDE DEF y
<1>5. QED
  BY <1>3, <1>4, <1>1, <1>2, PumpedResult DEF Alike

LEMMA AfterInitialReadResult ==
  ASSUME NEW x \in Session, NEW v \in Nat
  PROVE  /\ AfterInitialRead(x, v) \in Session
         /\ AfterInitialRead(x, v).state = x.state /\ AfterInitialRead(x, v).entry = x.entry
         /\ AfterInitialRead(x, v).subscribed = x.subscribed
         /\ AfterInitialRead(x, v).lease = x.lease /\ AfterInitialRead(x, v).hasValue
         /\ AfterInitialRead(x, v).snapshot = v /\ AfterInitialRead(x, v).emitted = x.emitted
         /\ AfterInitialRead(x, v).read = "none" /\ AfterInitialRead(x, v).dirty = x.dirty
<1> DEFINE y == [x EXCEPT !.snapshot = v, !.read = "none", !.hasValue = TRUE]
<1>1. /\ y \in Session /\ y.state = x.state /\ y.entry = x.entry /\ y.subscribed = x.subscribed
      /\ y.lease = x.lease /\ y.hasValue /\ y.snapshot = v /\ y.emitted = x.emitted
      /\ y.read = "none" /\ y.dirty = x.dirty
  BY DEF Session, SessionType
<1>2. AfterInitialRead(x, v) = y \/ AfterInitialRead(x, v) = Scheduled(y)
  BY DEF AfterInitialRead
<1> HIDE DEF y
<1>3. QED
  BY <1>1, <1>2, ScheduledResult DEF Alike

(***************************************************************************)
(* Steps of one session, that leave the listener alone                     *)
(***************************************************************************)

\* What an open session x of the current entry has to satisfy.
Fits(x, o, k) ==
  SessionOK(x, o, k, version, entry[current].generation, Up(current), entry[current].wasReady,
            entry[current].available, Quiet(current))

LEMMA OpenSession ==
  ASSUME ObservationInv, NEW s \in Sessions, session[s].state = "open"
  PROVE  /\ session[s] \in Session /\ session[s].entry = current
         /\ current \in Entries /\ entry[current] \in EntryRecord /\ EntryOK(current)
         /\ Available(s) <=> entry[current].available
         /\ Fits(session[s], out[s], cover[s])
         /\ out[s] \in Int /\ cover[s] \in Nat /\ version \in Nat /\ cover[s] <= version
<1>1. session[s].entry = current /\ current \in Entries /\ cover[s] <= version
  BY DEF ObservationInv, Serves, ListenerTypes
<1>2. entry[current] \in EntryRecord /\ EntryOK(current)
  BY <1>1 DEF ObservationInv, ListenerTypes, ListenerOK
<1>3. Available(s) <=> entry[current].available
  BY <1>1, <1>2 DEF Available, Dead, EntryOK, EntryRecord
<1>4. Fits(session[s], out[s], cover[s])
  BY <1>1 DEF ObservationInv, Serves, Fits
<1>5. session[s] \in Session /\ out[s] \in Int /\ cover[s] \in Nat /\ version \in Nat
  BY DEF ObservationInv, SessionTypes
<1>6. QED
  BY <1>1, <1>2, <1>3, <1>4, <1>5

LEMMA SessionStep ==
  ASSUME ObservationInv, NEW s \in Sessions, session[s].state = "open",
         NEW y \in Session, y.state = "open", y.entry = session[s].entry,
         NEW o \in Int, Fits(y, o, cover[s]),
         session' = [session EXCEPT ![s] = y], out' = [out EXCEPT ![s] = o], UNCHANGED sessionOnly
  PROVE  ObservationInv'
<1> USE DEF sessionOnly, managerVars
<1>1. ListenerTypes'
  BY DEF ObservationInv, ListenerTypes
<1>2. ListenerOK'
  BY DEF ObservationInv, ListenerOK, EntryOK, ConnectionOK
<1>3. SessionTypes'
  BY DEF ObservationInv, SessionTypes
<1>4. ASSUME NEW t \in Sessions PROVE Serves(t)'
  <2>1. CASE t = s
    <3>1. session'[s] = y /\ out'[s] = o
      BY DEF ObservationInv, SessionTypes
    <3>2. y.entry = current /\ current # 0 /\ cover[s] <= version
      BY OpenSession, Zenon DEF ObservationInv, Serves
    <3>3. QED
      BY <2>1, <3>1, <3>2 DEF Serves, Fits, Up, Quiet, Intact
  <2>2. CASE t # s
    <3>1. session'[t] = session[t] /\ out'[t] = out[t]
      BY <2>2 DEF ObservationInv, SessionTypes
    <3>2. Serves(t)
      BY DEF ObservationInv
    <3>3. QED
      BY <3>1, <3>2 DEF Serves, Up, Quiet, Intact
  <2>3. QED
    BY <2>1, <2>2
<1>5. QED
  BY <1>1, <1>2, <1>3, <1>4 DEF ObservationInv

\* Nothing is handed out: the value and the reads are what they were.
LEMMA QuietSessionStep ==
  ASSUME ObservationInv, NEW s \in Sessions, session[s].state = "open",
         NEW y \in Session, y.state = "open", y.entry = session[s].entry,
         Fits(y, out[s], cover[s]),
         session' = [session EXCEPT ![s] = y], UNCHANGED <<sessionOnly, out>>
  PROVE  ObservationInv'
<1>1. out[s] \in Int /\ out' = [out EXCEPT ![s] = out[s]]
  BY DEF ObservationInv, SessionTypes
<1>2. QED
  BY <1>1, SessionStep

LEMMA AdoptKeeps == ASSUME ObservationInv, NEW s \in Sessions, Adopt(s) PROVE ObservationInv'
<1> DEFINE y == [session[s] EXCEPT !.subscribed = TRUE, !.adopt = "called"]
<1>1. session[s].state = "open" /\ UNCHANGED <<sessionOnly, out>> /\ session[s] \in Session
  BY OpenSession DEF Adopt
<1>2. session' = [session EXCEPT ![s] = y]
  BY Zenon DEF Adopt, y
<1>3. y \in Session
  BY <1>1 DEF Session, SessionType
<1>4. /\ y.state = "open" /\ y.entry = session[s].entry /\ y.lease = session[s].lease
      /\ y.hasValue = session[s].hasValue /\ y.read = session[s].read /\ y.emitted = session[s].emitted
      /\ y.snapshot = session[s].snapshot /\ y.catchup = session[s].catchup /\ y.dirty = session[s].dirty
      /\ y.readFrom = session[s].readFrom /\ y.readGeneration = session[s].readGeneration
  BY <1>1 DEF Session, SessionType
<1> HIDE DEF y
<1>5. Fits(y, out[s], cover[s])
  BY <1>1, <1>4, OpenSession DEF Fits, SessionOK, OpenOK
<1>6. QED
  BY <1>1, <1>2, <1>3, <1>4, <1>5, QuietSessionStep

LEMMA CurrentKeeps == ASSUME ObservationInv, NEW s \in Sessions, Current(s) PROVE ObservationInv'
<1> DEFINE y == [session[s] EXCEPT !.current = "called"]
<1>1. session[s].state = "open" /\ UNCHANGED <<sessionOnly, out>> /\ session[s] \in Session
  BY OpenSession DEF Current
<1>2. session' = [session EXCEPT ![s] = y]
  BY Zenon DEF Current, y
<1>3. y \in Session
  BY <1>1 DEF Session, SessionType
<1>4. /\ y.state = "open" /\ y.entry = session[s].entry /\ y.lease = session[s].lease
      /\ y.hasValue = session[s].hasValue /\ y.read = session[s].read /\ y.emitted = session[s].emitted
      /\ y.snapshot = session[s].snapshot /\ y.catchup = session[s].catchup /\ y.dirty = session[s].dirty
      /\ y.readFrom = session[s].readFrom /\ y.readGeneration = session[s].readGeneration
  BY <1>1 DEF Session, SessionType
<1> HIDE DEF y
<1>5. Fits(y, out[s], cover[s])
  BY <1>1, <1>4, OpenSession DEF Fits, SessionOK, OpenOK
<1>6. QED
  BY <1>1, <1>2, <1>3, <1>4, <1>5, QuietSessionStep

LEMMA PumpRunsKeeps == ASSUME ObservationInv, NEW s \in Sessions, PumpRuns(s) PROVE ObservationInv'
<1> DEFINE x == [session[s] EXCEPT !.scheduled = FALSE]
           y == Pumped(x)
<1>1. session[s].state = "open" /\ UNCHANGED <<sessionOnly, out>> /\ session[s] \in Session
  BY OpenSession DEF PumpRuns
<1>2. session' = [session EXCEPT ![s] = y]
  BY Zenon DEF PumpRuns, y, x
<1>3. x \in Session
  BY <1>1 DEF Session, SessionType
<1>4. /\ Alike(session[s], x) /\ x.read = session[s].read /\ x.emitted = session[s].emitted
      /\ x.catchup = session[s].catchup /\ x.dirty = session[s].dirty
  BY <1>1 DEF Session, SessionType, Alike
<1> HIDE DEF x
<1>5. /\ y \in Session /\ Alike(x, y) /\ y.emitted = x.emitted /\ y.catchup = x.catchup
      /\ \/ y.read = x.read /\ y.dirty = x.dirty
         \/ x.hasValue /\ x.read = "none" /\ y.read = "gate"
  BY <1>3, PumpedResult
<1> HIDE DEF y
<1>6. Fits(y, out[s], cover[s])
  BY <1>1, <1>4, <1>5, OpenSession DEF Fits, SessionOK, OpenOK, Alike
<1>7. y.state = "open" /\ y.entry = session[s].entry
  BY <1>1, <1>4, <1>5 DEF Alike
<1>8. QED
  BY <1>1, <1>2, <1>5, <1>6, <1>7, QuietSessionStep

LEMMA WaiterProceedsKeeps ==
  ASSUME ObservationInv, NEW s \in Sessions, NEW w \in Waiters, WaiterProceeds(s, w)
  PROVE  ObservationInv'
<1> DEFINE x == session[s]
<1>1. x.state = "open" /\ UNCHANGED sessionOnly /\ x \in Session /\ x.hasValue /\ out[s] \in Int /\ version \in Nat
  BY OpenSession DEF WaiterProceeds
<1>2. CASE MustWait(x)
  <2> DEFINE y == Waits(x, w)
  <2>1. session' = [session EXCEPT ![s] = y] /\ UNCHANGED <<sessionOnly, out>>
    BY <1>2, Zenon DEF WaiterProceeds, x, y
  <2>2. /\ y \in Session /\ Alike(Pumped(x), y)
        /\ y.emitted = Pumped(x).emitted /\ y.catchup = Pumped(x).catchup
        /\ y.read = Pumped(x).read /\ y.dirty = Pumped(x).dirty
    BY <1>1, WaitsResult
  <2> HIDE DEF y
  <2>3. /\ Alike(x, y) /\ y.emitted = x.emitted /\ y.catchup = x.catchup
        /\ \/ y.read = x.read /\ y.dirty = x.dirty
           \/ x.hasValue /\ x.read = "none" /\ y.read = "gate"
    BY <1>1, <2>2, PumpedResult DEF Alike
  <2>4. Fits(y, out[s], cover[s])
    BY <1>1, <2>2, <2>3, OpenSession DEF Fits, SessionOK, OpenOK, Alike
  <2>5. y.state = "open" /\ y.entry = session[s].entry
    BY <1>1, <2>3 DEF Alike
  <2>6. QED
    BY <1>1, <2>1, <2>2, <2>4, <2>5, QuietSessionStep
<1>3. CASE ~MustWait(x)
  <2> DEFINE y == HandsOut(x, w)
  <2>1. session' = [session EXCEPT ![s] = y] /\ out' = [out EXCEPT ![s] = x.snapshot]
    BY <1>3, Zenon DEF WaiterProceeds, x, y
  <2>2. /\ y \in Session /\ Alike(x, y) /\ y.catchup = x.catchup /\ y.read = x.read /\ y.dirty = x.dirty
    BY <1>1, HandsOutResult
  <2> HIDE DEF y
  <2>3. y.state = "open" /\ y.entry = session[s].entry /\ x.snapshot \in Int
    BY <1>1, <2>2 DEF Alike, Session, SessionType
  <2>4. Fits(y, x.snapshot, cover[s])
    BY <1>1, <2>2, <2>3, OpenSession DEF Fits, SessionOK, OpenOK, Alike
  <2>5. QED
    BY <1>1, <2>1, <2>2, <2>3, <2>4, SessionStep
<1>4. QED
  BY <1>2, <1>3

LEMMA ReadStartsKeeps == ASSUME ObservationInv, NEW s \in Sessions, ReadStarts(s) PROVE ObservationInv'
<1> DEFINE g == entry[session[s].entry].generation
           y == [session[s] EXCEPT !.read = "reading", !.readFrom = version, !.readGeneration = g]
<1>1. /\ session[s].state = "open" /\ session[s].read = "gate" /\ Available(s)
      /\ UNCHANGED <<sessionOnly, out>> /\ session[s] \in Session
  BY OpenSession DEF ReadStarts
<1>2. session' = [session EXCEPT ![s] = y]
  BY Zenon DEF ReadStarts, y, g
<1>3. g = entry[current].generation /\ g \in Nat /\ version \in Nat
  BY <1>1, OpenSession DEF EntryRecord
<1> HIDE DEF g
<1>4. y \in Session
  BY <1>1, <1>3 DEF Session, SessionType
<1>5. /\ y.state = "open" /\ y.entry = session[s].entry /\ y.lease = session[s].lease
      /\ y.hasValue = session[s].hasValue /\ y.read = "reading" /\ y.emitted = session[s].emitted
      /\ y.snapshot = session[s].snapshot /\ y.catchup = session[s].catchup /\ y.dirty = session[s].dirty
      /\ y.readFrom = version /\ y.readGeneration = g
  BY <1>1 DEF Session, SessionType
<1> HIDE DEF y
<1>6. Fits(y, out[s], cover[s])
  BY <1>1, <1>3, <1>5, OpenSession DEF Fits, SessionOK, OpenOK
<1>7. QED
  BY <1>1, <1>2, <1>4, <1>5, <1>6, QuietSessionStep

\* A read that raced a lost connection starts over.
LEMMA ReadRepeats ==
  ASSUME ObservationInv, NEW s \in Sessions, session[s].state = "open", session[s].read = "reading",
         ~IsCurrent(s), session' = [session EXCEPT ![s].read = "gate"], UNCHANGED <<sessionOnly, out>>
  PROVE  ObservationInv'
<1> DEFINE y == [session[s] EXCEPT !.read = "gate"]
<1>1. session[s] \in Session
  BY OpenSession
<1>2. session' = [session EXCEPT ![s] = y]
  BY Zenon DEF y
<1>3. y \in Session
  BY <1>1 DEF Session, SessionType
<1>4. /\ y.state = "open" /\ y.entry = session[s].entry /\ y.lease = session[s].lease
      /\ y.hasValue = session[s].hasValue /\ y.read = "gate" /\ y.emitted = session[s].emitted
      /\ y.snapshot = session[s].snapshot /\ y.catchup = session[s].catchup /\ y.dirty = session[s].dirty
  BY <1>1 DEF Session, SessionType
<1> HIDE DEF y
<1>5. Fits(y, out[s], cover[s])
  BY <1>1, <1>4, OpenSession DEF Fits, SessionOK, OpenOK
<1>6. QED
  BY <1>2, <1>3, <1>4, <1>5, QuietSessionStep

LEMMA ReadSettlesKeeps == ASSUME ObservationInv, NEW s \in Sessions, ReadSettles(s) PROVE ObservationInv'
<1> DEFINE x == session[s]
<1>1. x.state = "open" /\ x.read = "reading" /\ UNCHANGED sessionOnly
  BY DEF ReadSettles
<1>2. CASE ~IsCurrent(s)
  BY <1>1, <1>2, ReadRepeats DEF ReadSettles
<1>3. CASE IsCurrent(s)
  <2>1. PICK v \in x.readFrom .. version :
          IF ~x.hasValue THEN session' = [session EXCEPT ![s] = AfterInitialRead(x, v)] /\ UNCHANGED out
          ELSE /\ session' = [session EXCEPT ![s] = AfterRead(x, v)]
               /\ out' = IF Reaches(x) THEN [out EXCEPT ![s] = v] ELSE out
    BY <1>3, Zenon DEF ReadSettles, x
  <2>2. /\ x \in Session /\ x.entry = current /\ entry[current].available
        /\ x.readGeneration = entry[current].generation
        /\ Fits(x, out[s], cover[s]) /\ out[s] \in Int /\ cover[s] \in Nat /\ version \in Nat
    BY <1>1, <1>3, OpenSession DEF IsCurrent
  <2>3. /\ x.readFrom \in Nat /\ x.snapshot \in Nat /\ v \in Nat /\ x.readFrom <= v /\ v <= version
        /\ entry[current].generation \in Nat
    <3>1. x.readFrom \in Nat /\ x.snapshot \in Nat
      BY <2>2 DEF Session, SessionType
    <3>2. entry[current].generation \in Nat
      BY <1>1, OpenSession DEF EntryRecord
    <3>3. QED
      BY <3>1, <3>2, <2>1, <2>2
  <2> HIDE DEF x
  <2>4. /\ cover[s] <= x.readFrom
        /\ x.lease = "routed"
        /\ x.hasValue => out[s] <= x.snapshot /\ x.snapshot <= x.readFrom
        /\ ~x.hasValue => out[s] = -1 /\ ~x.emitted
        /\ Quiet(current) /\ ~x.dirty => x.readFrom = version
        /\ entry[current].wasReady
    BY <1>1, <2>2, <2>3 DEF Fits, SessionOK, OpenOK
  <2>5. CASE ~x.hasValue
    <3> DEFINE y == AfterInitialRead(x, v)
    <3>1. session' = [session EXCEPT ![s] = y] /\ UNCHANGED out
      BY <2>1, <2>5
    <3>2. /\ y \in Session /\ y.state = x.state /\ y.entry = x.entry
          /\ y.lease = x.lease /\ y.hasValue /\ y.snapshot = v /\ y.emitted = x.emitted
          /\ y.read = "none" /\ y.dirty = x.dirty
      BY <2>2, <2>3, AfterInitialReadResult
    <3> HIDE DEF y
    <3>3. Fits(y, out[s], cover[s])
      BY <1>1, <2>2, <2>3, <2>4, <2>5, <3>2 DEF Fits, SessionOK, OpenOK
    <3>4. QED
      BY <1>1, <3>1, <3>2, <3>3, QuietSessionStep DEF x
  <2>6. CASE x.hasValue
    <3> DEFINE y == AfterRead(x, v)
               o == IF Reaches(x) THEN v ELSE out[s]
    <3>1. session' = [session EXCEPT ![s] = y]
      BY <2>1, <2>6
    <3>2. out' = [out EXCEPT ![s] = o]
      <4>1. out \in [Sessions -> Int]
        BY DEF ObservationInv, SessionTypes
      <4>2. QED
        BY <4>1, <2>1, <2>6
    <3>3. /\ y \in Session /\ y.state = x.state /\ y.entry = x.entry
          /\ y.lease = x.lease /\ y.hasValue = x.hasValue /\ y.snapshot = v
          /\ y.emitted => Reaches(x)
          /\ \/ y.read = "none" /\ y.dirty = x.dirty
             \/ y.read = "gate"
      BY <2>2, <2>3, AfterReadResult
    <3>4. o \in Int /\ o <= v /\ (Reaches(x) => o = v)
      BY <2>2, <2>3, <2>4, <2>6
    <3> HIDE DEF y, o
    <3>5. Fits(y, o, cover[s])
      BY <1>1, <2>2, <2>3, <2>4, <2>6, <3>3, <3>4 DEF Fits, SessionOK, OpenOK
    <3>6. QED
      BY <1>1, <3>1, <3>2, <3>3, <3>4, <3>5, SessionStep DEF x
  <2>7. QED
    BY <2>5, <2>6
<1>4. QED
  BY <1>2, <1>3

LEMMA LeaseStartsKeeps == ASSUME ObservationInv, NEW s \in Sessions, LeaseStarts(s) PROVE ObservationInv'
<1> DEFINE y == [session[s] EXCEPT !.lease = "resolve"]
<1>1. /\ session[s].state = "open" /\ session[s].lease = "waiting"
      /\ UNCHANGED <<sessionOnly, out>> /\ session[s] \in Session
  BY OpenSession DEF LeaseStarts, sessionOnly
<1>2. Up(current)
  BY <1>1, OpenSession DEF LeaseStarts, EntryOK, Up
<1>3. session' = [session EXCEPT ![s] = y]
  BY Zenon DEF LeaseStarts, y
<1>4. y \in Session
  BY <1>1 DEF Session, SessionType
<1>5. /\ y.state = "open" /\ y.entry = session[s].entry /\ y.lease = "resolve"
      /\ y.hasValue = session[s].hasValue /\ y.read = session[s].read /\ y.emitted = session[s].emitted
      /\ y.snapshot = session[s].snapshot /\ y.catchup = session[s].catchup /\ y.dirty = session[s].dirty
      /\ y.readFrom = session[s].readFrom /\ y.readGeneration = session[s].readGeneration
  BY <1>1 DEF Session, SessionType
<1> HIDE DEF y
<1>6. Fits(y, out[s], cover[s])
  BY <1>1, <1>2, <1>5, OpenSession DEF Fits, SessionOK, OpenOK
<1>7. QED
  BY <1>1, <1>3, <1>4, <1>5, <1>6, QuietSessionStep

LEMMA LeaseResolvesKeeps == ASSUME ObservationInv, NEW s \in Sessions, LeaseResolves(s) PROVE ObservationInv'
<1> DEFINE y == [session[s] EXCEPT !.lease = "validate"]
<1>1. /\ session[s].state = "open" /\ session[s].lease = "resolve"
      /\ UNCHANGED <<sessionOnly, out>> /\ session[s] \in Session
  BY OpenSession DEF LeaseResolves, sessionOnly
<1>2. session' = [session EXCEPT ![s] = y]
  BY Zenon DEF LeaseResolves, y
<1>3. y \in Session
  BY <1>1 DEF Session, SessionType
<1>4. /\ y.state = "open" /\ y.entry = session[s].entry /\ y.lease = "validate"
      /\ y.hasValue = session[s].hasValue /\ y.read = session[s].read /\ y.emitted = session[s].emitted
      /\ y.snapshot = session[s].snapshot /\ y.catchup = session[s].catchup /\ y.dirty = session[s].dirty
      /\ y.readFrom = session[s].readFrom /\ y.readGeneration = session[s].readGeneration
  BY <1>1 DEF Session, SessionType
<1> HIDE DEF y
<1>5. Fits(y, out[s], cover[s])
  BY <1>1, <1>4, OpenSession DEF Fits, SessionOK, OpenOK
<1>6. QED
  BY <1>1, <1>2, <1>3, <1>4, <1>5, QuietSessionStep

(***************************************************************************)
(* The listener                                                            *)
(***************************************************************************)

LEMMA Bounds == MaxEntries \in Nat /\ MaxConnections \in Nat /\ Entries \subseteq Nat \ {0} /\ Connections \subseteq Nat \ {0}
BY ObservationBounds DEF Entries, Connections

LEMMA Minimum ==
  ASSUME NEW S \in SUBSET Nat, S # {}
  PROVE  \E m \in S : \A n \in S : m <= n
<1> DEFINE R == OpToRel(<, Nat)
<1>1. IsWellFoundedOn(R, Nat)
  BY NatLessThanWellFounded
<1> HIDE DEF R
<1>2. PICK m \in S : \A n \in S : ~(<<n, m>> \in R)
  BY <1>1, WFMin
<1>3. \A n \in S : n \in Nat /\ ~(n < m)
  BY <1>2 DEF R, OpToRel
<1>4. QED
  BY <1>2, <1>3

\* The connection of the next call of the factory.
FirstFree == CHOOSE c \in Free : \A d \in Free : c <= d

LEMMA FirstFreeIsFree ==
  ASSUME Free # {}
  PROVE  FirstFree \in Connections /\ conn[FirstFree].state = "free"
<1>1. Free \in SUBSET Nat
  BY Bounds DEF Free
<1>2. \E c \in Free : \A d \in Free : c <= d
  BY <1>1, Minimum
<1>3. FirstFree \in Free
  BY <1>2 DEF FirstFree
<1>4. QED
  BY <1>3 DEF Free

\* What is known of the current entry, and that the others are out of the game.
LEMMA CurrentEntry ==
  ASSUME ObservationInv, current # 0
  PROVE  /\ current \in Entries /\ entry[current] \in EntryRecord /\ EntryOK(current)
         /\ disposal = "none"
         /\ entry[current].stage \in Connected => entry[current].connection \in Connections /\ barrier = 0
         /\ entry[current].generation \in Nat
<1>1. current \in Entries /\ disposal = "none"
  BY DEF ObservationInv, ListenerTypes, ListenerOK
<1>2. entry[current] \in EntryRecord /\ EntryOK(current)
  BY <1>1 DEF ObservationInv, ListenerTypes, ListenerOK
<1>3. QED
  BY <1>1, <1>2 DEF EntryRecord, EntryOK

LEMMA AliveIsCurrent ==
  ASSUME ObservationInv, NEW e \in Entries,
         entry[e].stage \notin {"none", "dead"} \/ entry[e].connection # 0 \/ entry[e].factory # 0 \/ entry[e].available
  PROVE  e = current /\ current # 0
<1>1. EntryOK(e)
  BY DEF ObservationInv, ListenerOK
<1>2. e # 0
  BY Bounds
<1>3. QED
  BY <1>1, <1>2 DEF EntryOK, Connected

LEMMA ListenerStep ==
  ASSUME ObservationInv, NEW e \in Entries, e = current, current' = current, disposal' = disposal,
         NEW r \in EntryRecord, entry' = [entry EXCEPT ![e] = r],
         conn' \in [Connections -> ConnectionRecord], barrier' \in Connections \cup {0},
         EntryOK(e)', \A c \in Connections : ConnectionOK(c)'
  PROVE  ListenerTypes' /\ ListenerOK'
<1>1. ListenerTypes'
  BY DEF ObservationInv, ListenerTypes
<1>2. disposal = "none"
  BY Bounds, CurrentEntry
<1>3. ASSUME NEW d \in Entries, d # e PROVE EntryOK(d)'
  <2>1. entry'[d] = entry[d]
    BY <1>3 DEF ObservationInv, ListenerTypes
  <2>2. EntryOK(d) /\ entry[d].stage \in {"none", "dead"}
    BY <1>3, AliveIsCurrent DEF ObservationInv, ListenerOK
  <2>3. QED
    BY <1>3, <2>1, <2>2 DEF EntryOK, Connected
<1>4. QED
  BY <1>1, <1>2, <1>3 DEF ListenerOK

LEMMA CloseConnectionResult ==
  ASSUME ObservationInv, current # 0, CloseConnection(current)
  PROVE  /\ conn' \in [Connections -> ConnectionRecord] /\ barrier' \in Connections \cup {0}
         /\ \A c \in Connections : conn'[c].state # "connected" /\ (conn'[c].state = "closing" => barrier' = c)
<1> DEFINE c == entry[current].connection
           r == [NoConnection EXCEPT !.state = "closing"]
<1>1. conn \in [Connections -> ConnectionRecord] /\ barrier \in Connections \cup {0}
  BY DEF ObservationInv, ListenerTypes
<1>2. \A d \in Connections : ConnectionOK(d) /\ d # 0
  BY Bounds DEF ObservationInv, ListenerOK
<1>3. CASE c = 0
  BY <1>1, <1>2, <1>3 DEF CloseConnection, ConnectionOK
<1>4. CASE c # 0
  <2>1. c \in Connections /\ barrier = 0
    BY <1>4, CurrentEntry DEF EntryOK
  <2>2. r \in ConnectionRecord /\ r.state = "closing"
    BY DEF NoConnection, ConnectionRecord
  <2>3. conn' = [conn EXCEPT ![c] = r] /\ barrier' = c
    BY <1>4 DEF CloseConnection
  <2> HIDE DEF c, r
  <2>4. conn'[c] = r /\ \A d \in Connections \ {c} : conn'[d] = conn[d]
    BY <1>1, <2>1, <2>3
  <2>5. \A d \in Connections \ {c} : conn[d].state \notin {"connected", "closing"}
    BY <1>2, <2>1 DEF ConnectionOK, c
  <2>6. QED
    BY <1>1, <2>1, <2>2, <2>3, <2>4, <2>5
<1>5. QED
  BY <1>3, <1>4

LEMMA NewEntryResult ==
  /\ NewEntry \in EntryRecord /\ NewEntry.stage = "none" /\ NewEntry.generation = 0 /\ NewEntry.factory = 0
  /\ NewEntry.connection = 0 /\ ~NewEntry.available /\ ~NewEntry.wasReady
BY DEF NewEntry, EntryRecord, Stages

LEMMA RetireResult ==
  ASSUME ObservationInv, current # 0, Retire(current), disposal' \in {"none", "draining"}
  PROVE  ListenerTypes' /\ ListenerOK' /\ current' = 0
<1> DEFINE r == [NewEntry EXCEPT !.stage = "dead", !.generation = entry[current].generation + 1]
<1>1. current' = 0 /\ entry' = [entry EXCEPT ![current] = r]
  BY DEF Retire
<1>2. /\ r \in EntryRecord /\ r.stage = "dead" /\ r.factory = 0 /\ r.connection = 0 /\ ~r.available
  <2> DEFINE g == entry[current].generation + 1
  <2>1. g \in Nat
    BY CurrentEntry
  <2> HIDE DEF g
  <2>2. QED
    BY <2>1, NewEntryResult DEF EntryRecord, Stages, g
<1> HIDE DEF r
<1>3. /\ conn' \in [Connections -> ConnectionRecord] /\ barrier' \in Connections \cup {0}
      /\ \A c \in Connections : conn'[c].state # "connected" /\ (conn'[c].state = "closing" => barrier' = c)
  BY CloseConnectionResult DEF Retire
<1>4. entry \in [Entries -> EntryRecord] /\ current \in Entries
  BY CurrentEntry DEF ObservationInv, ListenerTypes
<1>5. ListenerTypes'
  BY <1>1, <1>2, <1>3, <1>4 DEF ListenerTypes
<1>6. ASSUME NEW d \in Entries PROVE EntryOK(d)'
  <2>1. CASE d = current
    <3>1. entry'[d] = r
      BY <2>1, <1>1, <1>4
    <3>2. QED
      BY <3>1, <1>1, <1>2, Bounds DEF EntryOK, Connected
  <2>2. CASE d # current
    <3>1. entry'[d] = entry[d]
      BY <2>2, <1>1, <1>4
    <3>2. EntryOK(d) /\ entry[d].stage \in {"none", "dead"} /\ d # 0
      BY <2>2, AliveIsCurrent, Bounds DEF ObservationInv, ListenerOK
    <3>3. QED
      BY <3>1, <3>2, <1>1 DEF EntryOK, Connected
  <2>3. QED
    BY <2>1, <2>2
<1>7. \A c \in Connections : ConnectionOK(c)'
  BY <1>3 DEF ConnectionOK
<1>8. QED
  BY <1>1, <1>5, <1>6, <1>7 DEF ListenerOK

(***************************************************************************)
(* What the steps of the listener mean for the sessions                    *)
(***************************************************************************)

LEMMA ClosedServes ==
  ASSUME NEW s \in Sessions, session'[s].state = "closed", cover'[s] <= version'
  PROVE  Serves(s)'
BY DEF Serves, SessionOK

LEMMA NotOpenServes ==
  ASSUME ObservationInv, NEW s \in Sessions, session[s].state # "open",
         session'[s] = session[s], out'[s] = out[s], cover'[s] = cover[s], version' \in Nat, version' >= version
  PROVE  Serves(s)'
<1>1. cover[s] \in Nat /\ version \in Nat /\ cover[s] <= version
  BY DEF ObservationInv, SessionTypes, Serves
<1>2. session[s].state = "idle" => out[s] = -1
  BY DEF ObservationInv, Serves, SessionOK
<1>3. QED
  BY <1>1, <1>2 DEF Serves, SessionOK

\* The sessions of a listener that was or goes down keep what they have; those that
\* were not routed yet wait for it.
LEMMA DownServes ==
  ASSUME ObservationInv, NEW s \in Sessions, session[s].state = "open",
         current' = current, version' = version, out'[s] = out[s], cover'[s] = cover[s],
         entry'[current].generation \in Nat, ~entry'[current].available,
         entry[current].wasReady => entry'[current].wasReady,
         \/ entry'[current].generation > entry[current].generation
         \/ ~entry[current].available /\ entry'[current].generation >= entry[current].generation,
         Alike([session[s] EXCEPT !.lease = session'[s].lease], session'[s]),
         session'[s].read = session[s].read, session'[s].catchup = session[s].catchup,
         session'[s].emitted = session[s].emitted,
         session'[s].lease = "routed" <=> session[s].lease = "routed",
         session'[s].lease \in {"resolve", "validate"} => Up(current)'
  PROVE  Serves(s)'
<1> DEFINE x == session[s]
           y == session'[s]
<1>1. /\ x \in Session /\ x.entry = current /\ current \in Entries /\ current # 0
      /\ Fits(x, out[s], cover[s]) /\ cover[s] <= version /\ cover[s] \in Nat /\ version \in Nat
      /\ entry[current].generation \in Nat
  BY OpenSession, CurrentEntry, Bounds
<1>2. /\ y.state = "open" /\ y.entry = current /\ y.hasValue = x.hasValue /\ y.snapshot = x.snapshot
      /\ y.readFrom = x.readFrom /\ y.readGeneration = x.readGeneration
  BY <1>1 DEF Alike, Session, SessionType
<1>3. /\ x.readGeneration \in Nat /\ x.readFrom \in Nat /\ x.snapshot \in Nat
  BY <1>1 DEF Session, SessionType
<1>4. y.lease # "routed" => ~y.hasValue /\ y.read = "none"
  BY <1>1, <1>2 DEF Fits, SessionOK, OpenOK
<1>5. y.lease = "routed" => entry'[current].wasReady /\ (y.hasValue \/ y.read # "none")
  BY <1>1, <1>2 DEF Fits, SessionOK, OpenOK
<1>6. ~y.hasValue => out'[s] = -1 /\ ~y.emitted
  BY <1>1, <1>2 DEF Fits, SessionOK, OpenOK
<1>7. y.hasValue => out'[s] <= y.snapshot /\ y.snapshot <= version' /\ (y.catchup \/ cover'[s] <= y.snapshot)
  BY <1>1, <1>2 DEF Fits, SessionOK, OpenOK
<1>8. y.emitted => out'[s] = y.snapshot
  BY <1>1, <1>2 DEF Fits, SessionOK, OpenOK
<1>9. y.read = "reading" =>
        /\ y.readFrom <= version' /\ y.readGeneration < entry'[current].generation
        /\ y.hasValue => y.snapshot <= y.readFrom
  BY <1>1, <1>2, <1>3 DEF Fits, SessionOK, OpenOK
<1> HIDE DEF x, y
<1>10. y.read = "reading" => y.readGeneration # entry'[current].generation
  BY <1>2, <1>3, <1>9
<1>11. OpenOK(y, out'[s], cover'[s], version', entry'[current].generation, Up(current)', entry'[current].wasReady,
              entry'[current].available, Quiet(current)')
  BY <1>2, <1>3, <1>4, <1>5, <1>6, <1>7, <1>8, <1>9, <1>10 DEF OpenOK, y
<1>12. QED
  BY <1>1, <1>2, <1>11 DEF Serves, SessionOK, y

LEMMA EndKeeps ==
  ASSUME ObservationInv, NEW S \in SUBSET Sessions, current # 0, End(S, current),
         disposal' = disposal \/ (disposal' = "draining" /\ Leases(current) \subseteq S),
         failures' \in Nat, UNCHANGED <<version, out, cover>>
  PROVE  ObservationInv'
<1> USE DEF managerVars
<1>1. session' = [s \in Sessions |-> IF s \in S THEN Ended(session[s]) ELSE session[s]]
  BY DEF End
<1>2. SessionTypes'
  BY <1>1, EndedResult DEF ObservationInv, SessionTypes
<1>3. \A s \in Sessions : cover'[s] <= version' /\ session[s] \in Session
  BY DEF ObservationInv, Serves, SessionTypes
<1>4. \A s \in S : Serves(s)'
  BY <1>1, <1>3, EndedResult, ClosedServes
<1>5. CASE Leases(current) \subseteq S
  <2>1. Retire(current) /\ disposal = "none"
    BY <1>5, CurrentEntry DEF End
  <2>2. ListenerTypes' /\ ListenerOK'
    BY <2>1, RetireResult
  <2>3. ASSUME NEW s \in Sessions \ S PROVE Serves(s)'
    <3>1. session[s].state # "open"
      BY <1>5, OpenSession DEF Leases
    <3>2. version \in Nat /\ version >= version
      BY DEF ObservationInv, SessionTypes
    <3>3. QED
      BY <1>1, <3>1, <3>2, NotOpenServes
  <2>4. QED
    BY <1>2, <1>4, <2>2, <2>3 DEF ObservationInv
<1>6. CASE ~(Leases(current) \subseteq S)
  <2>1. UNCHANGED <<managerVars, disposal>>
    BY <1>6 DEF End
  <2>2. ListenerTypes' /\ ListenerOK'
    BY <2>1 DEF ObservationInv, ListenerTypes, ListenerOK, EntryOK, ConnectionOK
  <2>3. ASSUME NEW s \in Sessions \ S PROVE Serves(s)'
    <3>1. session'[s] = session[s] /\ Serves(s)
      BY <1>1 DEF ObservationInv
    <3>2. QED
      BY <2>1, <3>1 DEF Serves, Up, Quiet, Intact
  <2>4. QED
    BY <1>2, <1>4, <2>2, <2>3 DEF ObservationInv
<1>7. QED
  BY <1>5, <1>6

\* A listener that stays down, or starts: its sessions are untouched.
LEMMA StillDownServes ==
  ASSUME ObservationInv, current # 0, entry[current].stage # "up",
         UNCHANGED <<current, session, version, out, cover>>,
         entry'[current].generation \in Nat, ~entry'[current].available,
         entry'[current].wasReady = entry[current].wasReady,
         entry'[current].generation >= entry[current].generation
  PROVE  SessionTypes /\ \A s \in Sessions : Serves(s)'
<1>1. SessionTypes /\ ~entry[current].available /\ ~Up(current) /\ version \in Nat
  BY CurrentEntry DEF ObservationInv, EntryOK, Up, SessionTypes
<1>2. ASSUME NEW s \in Sessions PROVE Serves(s)'
  <2>1. CASE session[s].state # "open"
    <3>1. version' \in Nat /\ version' >= version
      BY <1>1
    <3>2. QED
      BY <2>1, <3>1, NotOpenServes
  <2>2. CASE session[s].state = "open"
    <3>1. session[s].lease \notin {"resolve", "validate"} /\ session[s] \in Session
      BY <2>2, <1>1, OpenSession DEF Fits, SessionOK, OpenOK
    <3>2. Alike([session[s] EXCEPT !.lease = session'[s].lease], session'[s])
      BY <3>1 DEF Alike, Session, SessionType
    <3>3. QED
      BY <2>2, <1>1, <3>1, <3>2, DownServes
  <2>3. QED
    BY <2>1, <2>2
<1>3. QED
  BY <1>1, <1>2

\* lost(), when the listener gets another chance: r is what becomes of the entry.
LEMMA RecoverKeeps ==
  ASSUME ObservationInv, current # 0, Lost(current),
         entry[current].wasReady, entry[current].retries # MaxRetries,
         failures' \in Nat, UNCHANGED <<disposal, version, out, cover>>
  PROVE  ObservationInv'
<1> DEFINE n == entry[current]
           r == Delayed(n)
<1>1. /\ entry' = [entry EXCEPT ![current] = r] /\ current' = current
      /\ session' = [s \in Sessions |->
           IF s \in Leases(current) \ Routed(current) THEN [session[s] EXCEPT !.lease = "waiting"] ELSE session[s]]
      /\ CloseConnection(current)
  <2>1. ~(~entry[current].wasReady \/ entry[current].retries = MaxRetries)
    OBVIOUS
  <2>2. QED
    BY <2>1, Zenon DEF Lost, Waiting, r, n
<1>2. current \in Entries /\ n \in EntryRecord /\ n.wasReady /\ n.generation \in Nat /\ disposal = "none"
  BY CurrentEntry
<1> HIDE DEF n, r
<1>3. /\ r.stage = "delay" /\ r.generation = n.generation + 1 /\ r.connection = 0 /\ r.factory = 0
      /\ ~r.available /\ r.wasReady = n.wasReady
  BY <1>2 DEF EntryRecord, Delayed, r
<1>4. r \in EntryRecord
  <2>1. n.generation + 1 \in Nat /\ n.retries + 1 \in Nat
    BY <1>2 DEF EntryRecord
  <2> DEFINE q == [n EXCEPT !.available = FALSE, !.generation = n.generation + 1, !.stage = "delay",
                            !.retries = n.retries + 1]
  <2>2. q \in EntryRecord
    BY <1>2, <2>1 DEF EntryRecord, Stages
  <2>3. r = [q EXCEPT !.connection = 0, !.factory = 0, !.todo = {}, !.checking = None]
    BY <1>2 DEF EntryRecord, Delayed, r, q
  <2> HIDE DEF q
  <2>4. QED
    BY <2>2, <2>3 DEF EntryRecord
<1>5. /\ conn' \in [Connections -> ConnectionRecord] /\ barrier' \in Connections \cup {0}
      /\ \A c \in Connections : conn'[c].state # "connected" /\ (conn'[c].state = "closing" => barrier' = c)
  BY <1>1, CloseConnectionResult
<1>6. entry'[current] = r
  BY <1>1, <1>2 DEF ObservationInv, ListenerTypes
<1>7. EntryOK(current)'
  BY <1>1, <1>3, <1>6 DEF EntryOK, Connected
<1>8. \A c \in Connections : ConnectionOK(c)'
  BY <1>5 DEF ConnectionOK
<1>9. ListenerTypes' /\ ListenerOK'
  <2>1. \A e \in Entries : e = current => EntryOK(e)'
    BY <1>1, <1>3, <1>6 DEF EntryOK, Connected
  <2>2. QED
    BY <1>1, <1>2, <1>4, <1>5, <1>8, <2>1, ListenerStep
<1>10. SessionTypes'
  <2>1. \A x \in Session : [x EXCEPT !.lease = "waiting"] \in Session
    BY DEF Session, SessionType
  <2>2. \A s \in Sessions : session[s] \in Session
    BY DEF ObservationInv, SessionTypes
  <2>3. session' \in [Sessions -> Session]
    BY <1>1, <2>1, <2>2, Zenon
  <2>4. QED
    BY <2>3 DEF ObservationInv, SessionTypes
<1>11. ASSUME NEW s \in Sessions PROVE Serves(s)'
  <2>1. version' \in Nat /\ version' >= version
    BY DEF ObservationInv, SessionTypes
  <2>0. /\ current' = current /\ entry'[current].generation \in Nat /\ ~entry'[current].available
        /\ entry[current].wasReady => entry'[current].wasReady
        /\ entry'[current].generation > entry[current].generation
    <3>1. entry'[current].generation = n.generation + 1 /\ ~entry'[current].available /\ entry'[current].wasReady
      BY <1>2, <1>3, <1>6
    <3>2. n.generation + 1 \in Nat /\ n.generation + 1 > n.generation
      BY <1>2
    <3>3. QED
      BY <1>1, <3>1, <3>2 DEF n
  <2>2. CASE session[s].state # "open"
    <3>1. session'[s] = session[s]
      BY <1>1, <2>2 DEF Leases
    <3>2. QED
      BY <1>1, <2>1, <2>2, <3>1, NotOpenServes
  <2>3. CASE session[s].state = "open"
    <3>1. /\ session[s] \in Session /\ s \in Leases(current)
          /\ (s \in Routed(current)) <=> (session[s].lease = "routed")
      BY <2>3, OpenSession DEF Leases, Routed
    <3>2. CASE session[s].lease = "routed"
      <4>1. session'[s] = session[s]
        BY <1>1, <3>1, <3>2
      <4>2. Alike([session[s] EXCEPT !.lease = session'[s].lease], session'[s])
        BY <3>1, <4>1 DEF Alike, Session, SessionType
      <4>3. QED
        BY <2>0, <2>3, <3>2, <4>1, <4>2, DownServes
    <3>3. CASE session[s].lease # "routed"
      <4> DEFINE y == [session[s] EXCEPT !.lease = "waiting"]
      <4>1. session'[s] = y
        BY <1>1, <3>1, <3>3
      <4>2. /\ y.lease = "waiting" /\ y.read = session[s].read /\ y.catchup = session[s].catchup
            /\ y.emitted = session[s].emitted /\ Alike([session[s] EXCEPT !.lease = "waiting"], y)
        BY <3>1 DEF Alike, Session, SessionType
      <4> HIDE DEF y
      <4>3. QED
        BY <2>0, <2>3, <3>3, <4>1, <4>2, DownServes
    <3>4. QED
      BY <3>2, <3>3
  <2>4. QED
    BY <2>2, <2>3
<1>12. QED
  BY <1>9, <1>10, <1>11 DEF ObservationInv

LEMMA LostKeeps ==
  ASSUME ObservationInv, current # 0, Lost(current), failures' \in Nat,
         UNCHANGED <<disposal, version, out, cover>>
  PROVE  ObservationInv'
<1>1. CASE ~entry[current].wasReady \/ entry[current].retries = MaxRetries
  <2>1. End(Leases(current), current) /\ Leases(current) \in SUBSET Sessions
    BY <1>1 DEF Lost, Leases
  <2>2. QED
    BY <2>1, EndKeeps
<1>2. CASE ~(~entry[current].wasReady \/ entry[current].retries = MaxRetries)
  BY <1>2, RecoverKeeps
<1>3. QED
  BY <1>1, <1>2

(***************************************************************************)
(* Starting                                                                *)
(***************************************************************************)

\* r is an entry that started again from x.
StartedFrom(x, r) ==
  /\ r.stage \in {"barrier", "factory"} /\ r.connection = 0 /\ ~r.available
  /\ r.wasReady = x.wasReady /\ r.generation >= x.generation
  /\ r.stage = "barrier" => r.factory = 0
  /\ r.stage = "factory" => r.factory \in Connections

LEMMA CallFactoryResult ==
  ASSUME ObservationInv, NEW e \in Entries, NEW x \in EntryRecord, x.connection = 0, ~x.available, CallFactory(e, x)
  PROVE  \E r \in EntryRecord :
           /\ entry' = [entry EXCEPT ![e] = r] /\ StartedFrom(x, r) /\ r.stage = "factory"
           /\ conn' \in [Connections -> ConnectionRecord] /\ conn'[r.factory].state = "pending"
           /\ \A c \in Connections : c = r.factory \/ conn'[c] = conn[c]
<1> DEFINE c == FirstFree
           r == Calling(x, c)
<1>1. c \in Connections /\ conn[c].state = "free"
  BY FirstFreeIsFree DEF CallFactory
<1>2. entry' = [entry EXCEPT ![e] = r] /\ conn' = [conn EXCEPT ![c].state = "pending"]
  BY Zenon DEF CallFactory, FirstFree, c, r
<1> HIDE DEF c
<1>3. /\ r.stage = "factory" /\ r.factory = c /\ r.connection = 0 /\ ~r.available /\ r.wasReady = x.wasReady
      /\ r.generation = x.generation + 1
  BY DEF Calling, EntryRecord
<1>4. x.generation \in Nat /\ x.generation + 1 \in Nat
  BY DEF EntryRecord
<1>5. r \in EntryRecord
  BY <1>1, <1>4 DEF Calling, EntryRecord, Stages
<1> HIDE DEF r
<1>6. conn \in [Connections -> ConnectionRecord]
  BY DEF ObservationInv, ListenerTypes
<1>7. /\ conn' \in [Connections -> ConnectionRecord] /\ conn'[c].state = "pending"
      /\ \A d \in Connections : d = c \/ conn'[d] = conn[d]
  BY <1>1, <1>2, <1>6 DEF ConnectionRecord
<1>8. StartedFrom(x, r)
  BY <1>1, <1>3, <1>4 DEF StartedFrom
<1>9. QED
  BY <1>2, <1>3, <1>5, <1>7, <1>8

LEMMA StartResult ==
  ASSUME ObservationInv, NEW e \in Entries, NEW x \in EntryRecord, x.connection = 0, x.factory = 0, ~x.available,
         Start(e, x)
  PROVE  \E r \in EntryRecord :
           /\ entry' = [entry EXCEPT ![e] = r] /\ StartedFrom(x, r)
           /\ conn' \in [Connections -> ConnectionRecord]
           /\ r.stage = "factory" => barrier = 0 /\ conn'[r.factory].state = "pending"
           /\ \A c \in Connections : conn'[c] = conn[c] \/ (r.stage = "factory" /\ c = r.factory)
<1>1. CASE barrier # 0
  <2> DEFINE r == [x EXCEPT !.stage = "barrier"]
  <2>1. entry' = [entry EXCEPT ![e] = r] /\ conn' = conn
    BY <1>1 DEF Start
  <2>2. r \in EntryRecord
    BY DEF EntryRecord, Stages
  <2>3. /\ r.stage = "barrier" /\ r.connection = 0 /\ r.factory = 0 /\ ~r.available /\ r.wasReady = x.wasReady
        /\ r.generation = x.generation /\ x.generation \in Nat
    BY DEF EntryRecord
  <2> HIDE DEF r
  <2>4. StartedFrom(x, r)
    BY <2>3 DEF StartedFrom
  <2>5. conn' \in [Connections -> ConnectionRecord]
    BY <2>1 DEF ObservationInv, ListenerTypes
  <2>6. QED
    BY <2>1, <2>2, <2>3, <2>4, <2>5
<1>2. CASE barrier = 0
  <2>1. CallFactory(e, x)
    BY <1>2 DEF Start
  <2>2. PICK r \in EntryRecord :
           /\ entry' = [entry EXCEPT ![e] = r] /\ StartedFrom(x, r) /\ r.stage = "factory"
           /\ conn' \in [Connections -> ConnectionRecord] /\ conn'[r.factory].state = "pending"
           /\ \A c \in Connections : c = r.factory \/ conn'[c] = conn[c]
    BY <2>1, CallFactoryResult
  <2>3. QED
    BY <1>2, <2>2
<1>3. QED
  BY <1>1, <1>2

\* The current entry, which has no connection, starts again.
LEMMA StartedKeeps ==
  ASSUME ObservationInv, current # 0, entry[current].stage \in {"barrier", "delay"},
         NEW r \in EntryRecord, entry' = [entry EXCEPT ![current] = r], StartedFrom(entry[current], r),
         conn' \in [Connections -> ConnectionRecord],
         r.stage = "factory" => barrier = 0 /\ conn'[r.factory].state = "pending",
         \A c \in Connections : conn'[c] = conn[c] \/ (r.stage = "factory" /\ c = r.factory),
         UNCHANGED <<current, barrier, disposal, session, version, failures, out, cover>>
  PROVE  ObservationInv'
<1>1. /\ current \in Entries /\ entry[current] \in EntryRecord /\ entry[current].connection = 0
      /\ entry'[current] = r /\ barrier \in Connections \cup {0}
  BY CurrentEntry DEF ObservationInv, ListenerTypes, EntryOK, Connected
<1>2. \A e \in Entries : e = current => EntryOK(e)'
  BY <1>1, Bounds DEF EntryOK, Connected, StartedFrom
<1>3. \A c \in Connections : ConnectionOK(c) /\ c # 0
  BY Bounds DEF ObservationInv, ListenerOK
<1>4. \A c \in Connections : ConnectionOK(c)'
  BY <1>1, <1>3 DEF ConnectionOK
<1>5. ListenerTypes' /\ ListenerOK'
  BY <1>1, <1>2, <1>4, ListenerStep
<1>6. /\ entry'[current].generation \in Nat /\ ~entry'[current].available
      /\ entry'[current].wasReady = entry[current].wasReady
      /\ entry'[current].generation >= entry[current].generation
  BY <1>1 DEF StartedFrom, EntryRecord
<1>7. SessionTypes /\ \A s \in Sessions : Serves(s)'
  BY <1>6, StillDownServes
<1>8. SessionTypes'
  BY <1>7 DEF SessionTypes
<1>9. QED
  BY <1>5, <1>7, <1>8 DEF ObservationInv

LEMMA BarrierPassesKeeps == ASSUME ObservationInv, NEW e \in Entries, BarrierPasses(e) PROVE ObservationInv'
<1>1. /\ entry[e].stage = "barrier" /\ barrier = 0 /\ CallFactory(e, entry[e])
      /\ UNCHANGED <<current, barrier, disposal, session, version, failures, out, cover>>
  BY DEF BarrierPasses
<1>2. e = current /\ current # 0
  BY <1>1, AliveIsCurrent
<1>3. entry[e] \in EntryRecord /\ entry[e].connection = 0 /\ ~entry[e].available
  BY <1>1, <1>2, CurrentEntry DEF EntryOK, Connected
<1>4. PICK r \in EntryRecord :
           /\ entry' = [entry EXCEPT ![e] = r] /\ StartedFrom(entry[e], r) /\ r.stage = "factory"
           /\ conn' \in [Connections -> ConnectionRecord] /\ conn'[r.factory].state = "pending"
           /\ \A c \in Connections : c = r.factory \/ conn'[c] = conn[c]
  BY <1>1, <1>3, CallFactoryResult
<1>5. QED
  BY <1>1, <1>2, <1>4, StartedKeeps

LEMMA RetryDelayEndsKeeps == ASSUME ObservationInv, NEW e \in Entries, RetryDelayEnds(e) PROVE ObservationInv'
<1>1. /\ entry[e].stage = "delay" /\ Start(e, entry[e])
      /\ UNCHANGED <<current, barrier, disposal, session, version, failures, out, cover>>
  BY DEF RetryDelayEnds
<1>2. e = current /\ current # 0
  BY <1>1, AliveIsCurrent
<1>3. entry[e] \in EntryRecord /\ entry[e].connection = 0 /\ entry[e].factory = 0 /\ ~entry[e].available
  BY <1>1, <1>2, CurrentEntry DEF EntryOK, Connected
<1>4. PICK r \in EntryRecord :
           /\ entry' = [entry EXCEPT ![e] = r] /\ StartedFrom(entry[e], r)
           /\ conn' \in [Connections -> ConnectionRecord]
           /\ r.stage = "factory" => barrier = 0 /\ conn'[r.factory].state = "pending"
           /\ \A c \in Connections : conn'[c] = conn[c] \/ (r.stage = "factory" /\ c = r.factory)
  BY <1>1, <1>3, StartResult
<1>5. QED
  BY <1>1, <1>2, <1>4, StartedKeeps

(***************************************************************************)
(* The other steps of the listener and its connections                     *)
(***************************************************************************)

\* The sessions see nothing, or lose the connection without knowing.
LEMMA UndisturbedServes ==
  ASSUME ObservationInv, UNCHANGED <<current, session, version, out, cover>>,
         current # 0 =>
           /\ entry'[current].generation = entry[current].generation /\ entry'[current].stage = entry[current].stage
           /\ entry'[current].wasReady = entry[current].wasReady
           /\ entry'[current].available = entry[current].available
           /\ Quiet(current)' => Quiet(current)
  PROVE  \A s \in Sessions : Serves(s)'
<1>1. version \in Nat /\ version >= version
  BY DEF ObservationInv, SessionTypes
<1>2. ASSUME NEW s \in Sessions, session[s].state # "open" PROVE Serves(s)'
  BY <1>1, <1>2, NotOpenServes
<1>3. ASSUME NEW s \in Sessions, session[s].state = "open" PROVE Serves(s)'
  <2>1. /\ current # 0 /\ session[s].entry = current /\ Fits(session[s], out[s], cover[s]) /\ cover[s] <= version
    BY <1>3, OpenSession, Bounds
  <2>2. Up(current)' = Up(current)
    BY <2>1 DEF Up
  <2>3. QED
    BY <1>3, <2>1, <2>2 DEF Serves, Fits, SessionOK, OpenOK
<1>4. QED
  BY <1>2, <1>3

LEMMA FactoryYieldsKeeps == ASSUME ObservationInv, NEW e \in Entries, FactoryYields(e) PROVE ObservationInv'
<1> DEFINE x == entry[e]
           c == x.factory
           r == [x EXCEPT !.stage = "connect", !.connection = c, !.factory = 0]
<1>1. /\ x.stage = "factory" /\ entry' = [entry EXCEPT ![e] = r]
      /\ conn' = [conn EXCEPT ![c].state = "connected"]
      /\ UNCHANGED <<current, barrier, disposal, session, version, failures, out, cover>>
  <2>1. entry' = [entry EXCEPT ![e].stage = "connect", ![e].connection = entry[e].factory, ![e].factory = 0]
    BY DEF FactoryYields
  <2>2. entry \in [Entries -> EntryRecord]
    BY DEF ObservationInv, ListenerTypes
  <2>3. entry' = [entry EXCEPT ![e] = r]
    BY <2>1, <2>2 DEF EntryRecord
  <2>4. QED
    BY <2>3, Zenon DEF FactoryYields, x, c
<1>2. e = current /\ current # 0
  BY <1>1, AliveIsCurrent
<1>3. /\ x \in EntryRecord /\ c \in Connections /\ c # 0 /\ barrier = 0 /\ ~x.available /\ x.connection = 0
      /\ x.generation \in Nat
  BY <1>1, <1>2, CurrentEntry, Bounds DEF EntryOK, Connected, EntryRecord
<1> HIDE DEF x, c
<1>4. /\ r.stage = "connect" /\ r.connection = c /\ r.factory = 0 /\ r.available = x.available
      /\ r.wasReady = x.wasReady /\ r.generation = x.generation
  BY <1>3 DEF EntryRecord
<1>5. r \in EntryRecord
  BY <1>3 DEF EntryRecord, Stages
<1> HIDE DEF r
<1>6. conn \in [Connections -> ConnectionRecord] /\ entry \in [Entries -> EntryRecord]
  BY DEF ObservationInv, ListenerTypes
<1>7. entry'[e] = r
  BY <1>1, <1>6
<1>8. /\ conn' \in [Connections -> ConnectionRecord] /\ conn'[c].state = "connected"
      /\ \A d \in Connections \ {c} : conn'[d] = conn[d]
  BY <1>1, <1>3, <1>6 DEF ConnectionRecord
<1>9. \A d \in Entries : d = current => EntryOK(d)'
  BY <1>1, <1>2, <1>3, <1>4, <1>7, <1>8, Bounds DEF EntryOK, Connected
<1>10. \A d \in Connections : ConnectionOK(d) /\ d # 0
  BY Bounds DEF ObservationInv, ListenerOK
<1>11. \A d \in Connections : ConnectionOK(d)'
  BY <1>1, <1>2, <1>3, <1>4, <1>7, <1>8, <1>10 DEF ConnectionOK, x
<1>12. ListenerTypes' /\ ListenerOK'
  <2>1. barrier' \in Connections \cup {0}
    BY <1>1 DEF ObservationInv, ListenerTypes
  <2>2. QED
    BY <1>1, <1>2, <1>5, <1>8, <1>9, <1>11, <2>1, ListenerStep
<1>13. SessionTypes /\ \A s \in Sessions : Serves(s)'
  BY <1>1, <1>2, <1>3, <1>4, <1>7, StillDownServes DEF x
<1>14. SessionTypes'
  BY <1>1, <1>13 DEF SessionTypes
<1>15. QED
  BY <1>12, <1>13, <1>14 DEF ObservationInv

LEMMA ConnectsKeeps == ASSUME ObservationInv, NEW e \in Entries, Connects(e) PROVE ObservationInv'
<1> DEFINE x == entry[e]
           r == [x EXCEPT !.stage = "listen"]
<1>1. /\ x.stage = "connect" /\ entry' = [entry EXCEPT ![e] = r]
      /\ UNCHANGED <<current, conn, barrier, disposal, session, version, failures, out, cover>>
  BY Zenon DEF Connects, x, r
<1>2. e = current /\ current # 0
  BY <1>1, AliveIsCurrent
<1>3. /\ x \in EntryRecord /\ EntryOK(e) /\ ~x.available /\ x.generation \in Nat
  BY <1>1, <1>2, CurrentEntry DEF EntryOK
<1>4. /\ r.stage = "listen" /\ r.connection = x.connection /\ r.factory = x.factory /\ r.available = x.available
      /\ r.wasReady = x.wasReady /\ r.generation = x.generation
  BY <1>3 DEF EntryRecord
<1>5. r \in EntryRecord
  BY <1>3 DEF EntryRecord, Stages
<1> HIDE DEF r
<1>6. /\ conn \in [Connections -> ConnectionRecord] /\ entry \in [Entries -> EntryRecord]
      /\ barrier \in Connections \cup {0}
  BY DEF ObservationInv, ListenerTypes
<1>7. entry'[e] = r
  BY <1>1, <1>6
<1>8. \A d \in Entries : d = current => EntryOK(d)'
  BY <1>1, <1>2, <1>3, <1>4, <1>7 DEF EntryOK, Connected
<1>9. \A d \in Connections : ConnectionOK(d)'
  BY <1>1, <1>2, <1>4, <1>7 DEF ObservationInv, ListenerOK, ConnectionOK
<1>10. ListenerTypes' /\ ListenerOK'
  BY <1>1, <1>2, <1>5, <1>6, <1>8, <1>9, ListenerStep
<1>11. SessionTypes /\ \A s \in Sessions : Serves(s)'
  BY <1>1, <1>2, <1>3, <1>4, <1>7, StillDownServes
<1>12. SessionTypes'
  BY <1>1, <1>11 DEF SessionTypes
<1>13. QED
  BY <1>10, <1>11, <1>12 DEF ObservationInv

LEMMA HeartbeatKeeps == ASSUME ObservationInv, NEW e \in Entries, HeartbeatSucceeds(e) PROVE ObservationInv'
<1> DEFINE x == entry[e]
           r == [x EXCEPT !.retries = 0]
<1>1. /\ x.stage = "up" /\ entry' = [entry EXCEPT ![e] = r]
      /\ UNCHANGED <<current, conn, barrier, disposal, session, version, failures, out, cover>>
  BY Zenon DEF HeartbeatSucceeds, x, r
<1>2. e = current /\ current # 0
  BY <1>1, AliveIsCurrent
<1>3. x \in EntryRecord /\ EntryOK(e)
  BY <1>1, <1>2, CurrentEntry
<1>4. /\ r.stage = x.stage /\ r.connection = x.connection /\ r.factory = x.factory /\ r.available = x.available
      /\ r.wasReady = x.wasReady /\ r.generation = x.generation
  BY <1>3 DEF EntryRecord
<1>5. r \in EntryRecord
  BY <1>3 DEF EntryRecord
<1> HIDE DEF r
<1>6. /\ conn \in [Connections -> ConnectionRecord] /\ entry \in [Entries -> EntryRecord]
      /\ barrier \in Connections \cup {0}
  BY DEF ObservationInv, ListenerTypes
<1>7. entry'[e] = r
  BY <1>1, <1>6
<1>8. \A d \in Entries : d = current => EntryOK(d)'
  BY <1>1, <1>2, <1>3, <1>4, <1>7 DEF EntryOK, Connected
<1>9. \A d \in Connections : ConnectionOK(d)'
  BY <1>1, <1>2, <1>4, <1>7 DEF ObservationInv, ListenerOK, ConnectionOK
<1>10. ListenerTypes' /\ ListenerOK'
  BY <1>1, <1>2, <1>5, <1>6, <1>8, <1>9, ListenerStep
<1>11. Quiet(current)' => Quiet(current)
  BY <1>1, <1>2, <1>4, <1>7 DEF Quiet, Intact
<1>12. \A s \in Sessions : Serves(s)'
  BY <1>1, <1>2, <1>4, <1>7, <1>11, UndisturbedServes
<1>13. SessionTypes'
  BY <1>1 DEF ObservationInv, SessionTypes
<1>14. QED
  BY <1>10, <1>12, <1>13 DEF ObservationInv

LEMMA LossesKeep ==
  ASSUME ObservationInv, NEW e \in Entries, LossDetected(e) \/ ListenerFails(e) \/ StartTimesOut(e)
  PROVE  ObservationInv'
<1>1. e = current /\ current # 0
  <2>1. entry[e].stage \notin {"none", "dead"} \/ entry[e].connection # 0
    BY DEF LossDetected, ListenerFails, StartTimesOut
  <2>2. QED
    BY <2>1, AliveIsCurrent
<1>2. Lost(e) /\ UNCHANGED <<disposal, version, out, cover>>
  BY DEF LossDetected, ListenerFails, StartTimesOut
<1>3. failures' \in Nat
  BY DEF LossDetected, ListenerFails, StartTimesOut, ObservationInv, SessionTypes
<1>4. QED
  BY <1>1, <1>2, <1>3, LostKeeps

\* A step that changes one connection, which stays with its entry if it has one.
LEMMA ConnectionStep ==
  ASSUME ObservationInv, NEW c \in Connections, NEW r \in ConnectionRecord, conn' = [conn EXCEPT ![c] = r],
         barrier' = barrier \/ (barrier = c /\ barrier' = 0), UNCHANGED <<current, entry, disposal>>,
         conn[c].state = "connected" => r.state = "connected",
         conn[c].state = "connected" /\ (conn[c].listening \/ conn[c].broken) => r.listening \/ r.broken,
         conn[c].state # "connected" => r.state # "connected",
         \A e \in Entries : entry[e].factory = c => r.state = "pending",
         r.state = "closing" => barrier' = c,
         disposal \in {"done", "late"} =>
           r.state = "free" \/ r.timedOut \/ (disposal = "late" /\ r.state \in {"pending", "discarding"})
  PROVE  ListenerTypes' /\ ListenerOK'
<1>1. /\ conn \in [Connections -> ConnectionRecord] /\ barrier \in Connections \cup {0}
  BY DEF ObservationInv, ListenerTypes
<1>2. conn'[c] = r /\ (\A d \in Connections \ {c} : conn'[d] = conn[d]) /\ conn' \in [Connections -> ConnectionRecord]
  BY <1>1
<1>3. ListenerTypes'
  BY <1>1, <1>2 DEF ObservationInv, ListenerTypes
<1>4. \A e \in Entries : EntryOK(e)'
  <2> SUFFICES ASSUME NEW e \in Entries PROVE EntryOK(e)'
    OBVIOUS
  <2>1. EntryOK(e) /\ entry[e].factory \in Connections \cup {0} /\ entry[e].connection \in Connections \cup {0}
    BY DEF ObservationInv, ListenerTypes, ListenerOK, EntryRecord
  <2>2. entry[e].factory # 0 => conn'[entry[e].factory].state = "pending"
    BY <1>2, <2>1 DEF EntryOK
  <2>3. entry[e].connection # 0 => conn'[entry[e].connection].state = "connected"
    BY <1>2, <2>1 DEF EntryOK
  <2>4. entry[e].stage \in {"revalidate", "up"} =>
          conn'[entry[e].connection].listening \/ conn'[entry[e].connection].broken
    BY <1>2, <2>1 DEF EntryOK, Connected
  <2>5. barrier = 0 => barrier' = 0
    OBVIOUS
  <2>6. QED
    BY <2>1, <2>2, <2>3, <2>4, <2>5 DEF EntryOK, Connected
<1>5. \A d \in Connections : ConnectionOK(d)'
  <2> SUFFICES ASSUME NEW d \in Connections PROVE ConnectionOK(d)'
    OBVIOUS
  <2>1. ConnectionOK(d) /\ ConnectionOK(c)
    BY DEF ObservationInv, ListenerOK
  <2>2. QED
    BY <1>2, <2>1 DEF ConnectionOK
<1>6. disposal' # "none" => current' = 0
  BY DEF ObservationInv, ListenerOK
<1>7. disposal' \in {"done", "late"} =>
       \A d \in Connections :
         \/ conn'[d].state = "free" \/ conn'[d].timedOut
         \/ disposal' = "late" /\ conn'[d].state \in {"pending", "discarding"}
  BY <1>2 DEF ObservationInv, ListenerOK
<1>8. QED
  BY <1>3, <1>4, <1>5, <1>6, <1>7 DEF ListenerOK

\* The sessions are not concerned with a connection that no entry uses.
LEMMA OtherConnectionServes ==
  ASSUME ObservationInv, NEW c \in Connections, conn[c].state # "connected", NEW r, conn' = [conn EXCEPT ![c] = r],
         UNCHANGED <<current, entry, session, version, failures, out, cover>>
  PROVE  SessionTypes' /\ \A s \in Sessions : Serves(s)'
<1>1. SessionTypes'
  BY DEF ObservationInv, SessionTypes
<1>2. ASSUME current # 0 PROVE Quiet(current)' = Quiet(current)
  <2>1. EntryOK(current) /\ entry[current].connection \in Connections \cup {0}
    BY <1>2, CurrentEntry DEF EntryRecord
  <2>2. entry[current].connection # c
    BY <2>1, Bounds DEF EntryOK
  <2>3. entry[current].connection # 0 => conn'[entry[current].connection] = conn[entry[current].connection]
    BY <2>1, <2>2 DEF ObservationInv, ListenerTypes
  <2>4. QED
    BY <2>3 DEF Quiet, Intact
<1>3. QED
  BY <1>1, <1>2, UndisturbedServes

LEMMA BreakKeeps == ASSUME ObservationInv, NEW c \in Connections, Break(c) PROVE ObservationInv'
<1> DEFINE r == [conn[c] EXCEPT !.listening = FALSE, !.broken = TRUE, !.inbox = 0]
<1>1. /\ conn[c].state = "connected" /\ failures' = failures + 1
      /\ UNCHANGED <<current, entry, barrier, disposal, session, version, out, cover>>
      /\ conn' = [conn EXCEPT ![c].listening = FALSE, ![c].broken = TRUE, ![c].inbox = 0]
  BY DEF Break
<1>2. conn \in [Connections -> ConnectionRecord] /\ conn[c] \in ConnectionRecord
  BY DEF ObservationInv, ListenerTypes
<1>3. conn' = [conn EXCEPT ![c] = r]
  BY <1>1, <1>2 DEF ConnectionRecord
<1>4. r \in ConnectionRecord /\ r.state = "connected" /\ r.broken = TRUE
  BY <1>1, <1>2 DEF ConnectionRecord
<1> HIDE DEF r
<1>5. ConnectionOK(c) /\ current # 0 /\ entry[current].connection = c
  BY <1>1 DEF ObservationInv, ListenerOK, ConnectionOK
<1>6. \A e \in Entries : entry[e].factory # c
  BY <1>1, Bounds DEF ObservationInv, ListenerOK, EntryOK
<1>7. disposal = "none"
  BY <1>5, CurrentEntry
<1>8. ListenerTypes' /\ ListenerOK'
  BY <1>1, <1>3, <1>4, <1>6, <1>7, ConnectionStep
<1>9. ~Quiet(current)'
  BY <1>1, <1>2, <1>3, <1>4, <1>5 DEF Quiet, Intact
<1>10. \A s \in Sessions : Serves(s)'
  BY <1>1, <1>9, UndisturbedServes
<1>11. SessionTypes'
  BY <1>1 DEF ObservationInv, SessionTypes
<1>12. QED
  BY <1>8, <1>10, <1>11 DEF ObservationInv

LEMMA LateFactoryKeeps == ASSUME ObservationInv, NEW c \in Connections, LateFactorySettles(c) PROVE ObservationInv'
<1>1. /\ conn[c].state = "pending" /\ (\A e \in Entries : entry[e].factory # c)
      /\ UNCHANGED <<current, entry, barrier, disposal, session, version, failures, out, cover>>
  BY DEF LateFactorySettles, Late
<1>2. PICK s \in {"discarding", "free"} : conn' = [conn EXCEPT ![c].state = s]
  BY DEF LateFactorySettles
<1> DEFINE r == [conn[c] EXCEPT !.state = s]
<1>3. conn \in [Connections -> ConnectionRecord] /\ conn[c] \in ConnectionRecord
  BY DEF ObservationInv, ListenerTypes
<1>4. conn' = [conn EXCEPT ![c] = r]
  BY <1>2
<1>5. r \in ConnectionRecord /\ r.state = s /\ r.timedOut = conn[c].timedOut
  BY <1>3 DEF ConnectionRecord
<1> HIDE DEF r
<1>6. disposal \in {"done", "late"} => conn[c].timedOut \/ disposal = "late"
  BY <1>1 DEF ObservationInv, ListenerOK
<1>7. ListenerTypes' /\ ListenerOK'
  BY <1>1, <1>4, <1>5, <1>6, ConnectionStep
<1>8. SessionTypes' /\ \A t \in Sessions : Serves(t)'
  BY <1>1, <1>4, OtherConnectionServes
<1>9. QED
  BY <1>7, <1>8 DEF ObservationInv

LEMMA CloseSettlesKeeps == ASSUME ObservationInv, NEW c \in Connections, CloseSettles(c) PROVE ObservationInv'
<1>1. /\ conn[c].state \in {"closing", "discarding"} /\ conn' = [conn EXCEPT ![c] = NoConnection]
      /\ barrier' = IF barrier = c THEN 0 ELSE barrier
      /\ UNCHANGED <<current, entry, disposal, session, version, failures, out, cover>>
  BY DEF CloseSettles
<1>2. NoConnection \in ConnectionRecord /\ NoConnection.state = "free"
  BY DEF NoConnection, ConnectionRecord
<1>3. \A e \in Entries : entry[e].factory # c
  BY <1>1, Bounds DEF ObservationInv, ListenerOK, EntryOK
<1>4. ListenerTypes' /\ ListenerOK'
  BY <1>1, <1>2, <1>3, ConnectionStep
<1>5. SessionTypes' /\ \A t \in Sessions : Serves(t)'
  BY <1>1, OtherConnectionServes
<1>6. QED
  BY <1>4, <1>5 DEF ObservationInv

LEMMA CloseTimesOutKeeps == ASSUME ObservationInv, NEW c \in Connections, CloseTimesOut(c) PROVE ObservationInv'
<1> DEFINE r == [conn[c] EXCEPT !.timedOut = TRUE]
<1>1. /\ conn[c].state \in {"closing", "discarding"} /\ conn' = [conn EXCEPT ![c] = r]
      /\ UNCHANGED <<current, entry, barrier, disposal, session, version, failures, out, cover>>
  BY Zenon DEF CloseTimesOut, r
<1>2. conn[c] \in ConnectionRecord
  BY DEF ObservationInv, ListenerTypes
<1>3. r \in ConnectionRecord /\ r.state = conn[c].state /\ r.timedOut = TRUE
  BY <1>2 DEF ConnectionRecord
<1> HIDE DEF r
<1>4. /\ \A e \in Entries : entry[e].factory # c
      /\ conn[c].state = "closing" => barrier = c
  BY <1>1, Bounds DEF ObservationInv, ListenerOK, EntryOK, ConnectionOK
<1>5. ListenerTypes' /\ ListenerOK'
  BY <1>1, <1>3, <1>4, ConnectionStep
<1>6. SessionTypes' /\ \A t \in Sessions : Serves(t)'
  BY <1>1, OtherConnectionServes
<1>7. QED
  BY <1>5, <1>6 DEF ObservationInv

(***************************************************************************)
(* Recovery                                                                *)
(***************************************************************************)

\* The listener is available again: what is routed catches up.
LEMMA UpServes ==
  ASSUME ObservationInv, NEW s \in Sessions, session[s].state = "open", ~entry[current].available,
         current' = current, version' = version, out'[s] = out[s],
         entry'[current].generation = entry[current].generation, entry'[current].wasReady, Up(current)',
         session[s].lease = "routed" => session'[s] = Changed(session[s], TRUE) /\ cover'[s] = version,
         session[s].lease # "routed" => session'[s] = session[s] /\ cover'[s] = cover[s]
  PROVE  Serves(s)'
<1> DEFINE x == session[s]
           y == session'[s]
<1>1. /\ x \in Session /\ x.entry = current /\ current # 0
      /\ Fits(x, out[s], cover[s]) /\ cover[s] <= version /\ cover[s] \in Nat /\ version \in Nat
  BY OpenSession, CurrentEntry, Bounds
<1>2. CASE x.lease # "routed"
  <2>1. y = x /\ cover'[s] = cover[s]
    BY <1>2
  <2>2. ~x.hasValue /\ x.read = "none" /\ out[s] = -1 /\ ~x.emitted
    BY <1>1, <1>2 DEF Fits, SessionOK, OpenOK
  <2>3. OpenOK(y, out'[s], cover'[s], version', entry'[current].generation, Up(current)', entry'[current].wasReady,
               entry'[current].available, Quiet(current)')
    BY <1>2, <2>1, <2>2 DEF OpenOK
  <2>4. QED
    BY <1>1, <2>1, <2>3 DEF Serves, SessionOK
<1>3. CASE x.lease = "routed"
  <2>1. y = Changed(x, TRUE) /\ cover'[s] = version
    BY <1>3
  <2>2. /\ y \in Session /\ Alike(x, y) /\ y.read = x.read /\ y.dirty /\ y.emitted = x.emitted /\ y.catchup
    BY <1>1, <2>1, ChangedResult
  <2>3. /\ x.hasValue \/ x.read # "none"
        /\ ~x.hasValue => out[s] = -1 /\ ~x.emitted
        /\ x.hasValue => out[s] <= x.snapshot /\ x.snapshot <= version
        /\ x.emitted => out[s] = x.snapshot
        /\ x.read = "reading" =>
             /\ x.readFrom <= version /\ x.readGeneration <= entry[current].generation
             /\ x.readGeneration # entry[current].generation
             /\ x.hasValue => x.snapshot <= x.readFrom
    BY <1>1, <1>3 DEF Fits, SessionOK, OpenOK
  <2> HIDE DEF x, y
  <2>4. OpenOK(y, out'[s], cover'[s], version', entry'[current].generation, Up(current)', entry'[current].wasReady,
               entry'[current].available, Quiet(current)')
    BY <1>3, <2>2, <2>3 DEF OpenOK, Alike
  <2>5. y.entry = current /\ y.state = "open" /\ cover'[s] <= version'
    <3>1. x.state = "open"
      BY DEF x
    <3>2. y.entry = x.entry /\ y.state = x.state
      BY <2>2 DEF Alike
    <3>3. cover'[s] <= version'
      BY <1>1, <2>1
    <3>4. x.entry = current
      BY <1>1
    <3>5. QED
      BY <3>1, <3>2, <3>3, <3>4
  <2>6. QED
    BY <1>1, <2>4, <2>5 DEF Serves, SessionOK, y
<1>4. QED
  BY <1>2, <1>3

\* What a step of the recovery makes of the connections: nothing, or the one in use
\* listens.
Listening(e) ==
  /\ conn' \in [Connections -> ConnectionRecord]
  /\ \A c \in Connections : conn'[c].state = conn[c].state
  /\ conn'[entry[e].connection].listening \/ conn'[entry[e].connection].broken

LEMMA NextCheckListener ==
  ASSUME ObservationInv, NEW e \in Entries, e = current, current # 0,
         entry[e].stage \in {"listen", "revalidate", "up"}, NEW r \in EntryRecord, entry' = [entry EXCEPT ![e] = r],
         r.stage \in {"up", "revalidate"}, r.available <=> r.stage = "up" /\ r.wasReady,
         r.stage = "revalidate" => r.wasReady,
         r.connection = entry[e].connection, r.factory = entry[e].factory,
         Listening(e), UNCHANGED <<current, barrier, disposal>>
  PROVE  ListenerTypes' /\ ListenerOK' /\ entry'[e] = r
<1>1. /\ EntryOK(e) /\ entry[e].connection \in Connections /\ barrier = 0 /\ entry[e].factory = 0
  BY CurrentEntry DEF EntryOK, Connected
<1>2. entry'[e] = r
  BY DEF ObservationInv, ListenerTypes
<1>3. \A d \in Entries : d = current => EntryOK(d)'
  BY <1>1, <1>2 DEF EntryOK, Connected, Listening
<1>4. \A d \in Connections : ConnectionOK(d)'
  BY <1>1, <1>2 DEF ObservationInv, ListenerOK, ConnectionOK, Listening
<1>5. QED
  BY <1>1, <1>2, <1>3, <1>4, ListenerStep DEF Listening

LEMMA NextCheckKeeps ==
  ASSUME ObservationInv, NEW e \in Entries, e = current, current # 0,
         entry[e].stage \in {"listen", "revalidate"}, entry[e].wasReady,
         NEW rest \in SUBSET Sessions, NEW gone \in SUBSET Sessions,
         NEW ss, ss = [s \in Sessions |-> IF s \in gone THEN Ended(session[s]) ELSE session[s]],
         NextCheck(e, rest, ss), Listening(e), UNCHANGED <<current, barrier, disposal, version, failures, out>>
  PROVE  ObservationInv'
<1> DEFINE x == entry[e]
<1>1. x \in EntryRecord /\ EntryOK(e) /\ ~x.available /\ x.generation \in Nat
  BY CurrentEntry DEF EntryOK
<1>2. \A s \in Sessions : session[s] \in Session /\ cover[s] \in Nat /\ cover[s] <= version
  BY DEF ObservationInv, SessionTypes, Serves
<1>3. version \in Nat /\ failures \in Nat /\ out \in [Sessions -> Int] /\ version >= version
      /\ entry \in [Entries -> EntryRecord]
  BY DEF ObservationInv, SessionTypes, ListenerTypes
<1>4. \A s \in gone : ss[s] \in Session /\ ss[s].state = "closed"
  BY <1>2, EndedResult
<1>5. \A s \in Sessions \ gone : ss[s] = session[s]
  OBVIOUS
<1>6. CASE rest = {}
  <2> DEFINE r == [x EXCEPT !.stage = "up", !.available = TRUE, !.todo = {}, !.checking = None]
  <2>1. /\ session' = [s \in Sessions |->
             IF s \in Routed(e) /\ ss[s].state = "open" THEN Changed(ss[s], TRUE) ELSE ss[s]]
        /\ cover' = [s \in Sessions |-> IF s \in Routed(e) THEN version ELSE cover[s]]
        /\ entry' = [entry EXCEPT ![e].stage = "up", ![e].available = TRUE, ![e].todo = {}, ![e].checking = None]
    BY <1>6, Zenon DEF NextCheck
  <2>2. entry' = [entry EXCEPT ![e] = r]
    BY <2>1, <1>3 DEF EntryRecord
  <2>3. /\ r.stage = "up" /\ r.available = TRUE /\ r.wasReady = x.wasReady /\ r.connection = x.connection
        /\ r.factory = x.factory /\ r.generation = x.generation
    BY <1>1 DEF EntryRecord
  <2>4. r \in EntryRecord
    BY <1>1 DEF EntryRecord, Stages
  <2> HIDE DEF r
  <2>5. ListenerTypes' /\ ListenerOK' /\ entry'[e] = r
    BY <2>2, <2>3, <2>4, NextCheckListener
  <2>6. SessionTypes'
    <3>1. \A s \in Sessions : ss[s] \in Session
      BY <1>2, <1>4, <1>5
    <3> HIDE DEF x
    <3>2. \A s \in Sessions : Changed(ss[s], TRUE) \in Session
      BY <3>1, ChangedResult
    <3>3. session' \in [Sessions -> Session]
      BY <2>1, <3>1, <3>2
    <3>4. cover' \in [Sessions -> Nat]
      BY <2>1, <1>2, <1>3
    <3>5. QED
      BY <1>3, <3>3, <3>4 DEF SessionTypes
  <2>7. ASSUME NEW s \in Sessions PROVE Serves(s)'
    <3>1. cover'[s] <= version'
      BY <1>2, <1>3, <2>1
    <3>2. CASE s \in gone
      <4>1. session'[s] = ss[s]
        BY <1>4, <2>1, <3>2
      <4>2. QED
        BY <1>4, <3>1, <3>2, <4>1, ClosedServes
    <3>3. CASE s \notin gone /\ session[s].state # "open"
      <4>1. s \notin Routed(e)
        BY <3>3 DEF Routed, Leases
      <4>2. session'[s] = session[s] /\ cover'[s] = cover[s]
        BY <1>5, <2>1, <3>3, <4>1
      <4>3. QED
        BY <1>3, <3>3, <4>2, NotOpenServes
    <3>4. CASE s \notin gone /\ session[s].state = "open"
      <4>1. (s \in Routed(e)) <=> session[s].lease = "routed"
        BY <3>4, OpenSession DEF Routed, Leases
      <4>2. session[s].lease = "routed" => session'[s] = Changed(session[s], TRUE) /\ cover'[s] = version
        BY <1>5, <2>1, <3>4, <4>1
      <4>3. session[s].lease # "routed" => session'[s] = session[s] /\ cover'[s] = cover[s]
        BY <1>5, <2>1, <3>4, <4>1
      <4>4. Up(current)' /\ entry'[current].generation = entry[current].generation /\ entry'[current].wasReady
        BY <2>3, <2>5 DEF Up
      <4>5. QED
        BY <1>1, <3>4, <4>2, <4>3, <4>4, UpServes
    <3>5. QED
      BY <3>2, <3>3, <3>4
  <2>8. QED
    BY <2>5, <2>6, <2>7 DEF ObservationInv
<1>7. CASE rest # {}
  <2>1. session' = ss /\ cover' = cover
    BY <1>7 DEF NextCheck
  <2>2. PICK t \in rest : entry' = [entry EXCEPT ![e].stage = "revalidate", ![e].todo = rest, ![e].checking = t]
    BY <1>7 DEF NextCheck
  <2> DEFINE r == [x EXCEPT !.stage = "revalidate", !.todo = rest, !.checking = t]
  <2>3. entry' = [entry EXCEPT ![e] = r]
    BY <2>2, <1>3 DEF EntryRecord
  <2>4. /\ r.stage = "revalidate" /\ r.available = x.available /\ r.wasReady = x.wasReady
        /\ r.connection = x.connection /\ r.factory = x.factory /\ r.generation = x.generation
    BY <1>1 DEF EntryRecord
  <2>5. r \in EntryRecord
    BY <1>1 DEF EntryRecord, Stages
  <2> HIDE DEF r
  <2>6. ListenerTypes' /\ ListenerOK' /\ entry'[e] = r
    BY <1>1, <2>3, <2>4, <2>5, NextCheckListener
  <2>7. SessionTypes'
    <3>1. \A s \in Sessions : ss[s] \in Session
      BY <1>2, <1>4, <1>5
    <3>2. QED
      BY <2>1, <3>1 DEF ObservationInv, SessionTypes
  <2>8. ASSUME NEW s \in Sessions PROVE Serves(s)'
    <3>1. CASE s \in gone
      BY <1>2, <1>3, <1>4, <2>1, <3>1, ClosedServes
    <3>2. CASE s \notin gone /\ session[s].state # "open"
      BY <1>3, <1>5, <2>1, <3>2, NotOpenServes
    <3>3. CASE s \notin gone /\ session[s].state = "open"
      <4>1. session'[s] = session[s] /\ cover'[s] = cover[s]
        BY <1>5, <2>1, <3>3
      <4>2. Alike([session[s] EXCEPT !.lease = session'[s].lease], session'[s])
        BY <1>2, <4>1 DEF Alike, Session, SessionType
      <4>3. session[s].lease \notin {"resolve", "validate"}
        <5>1. ~Up(current)
          BY DEF Up
        <5>2. QED
          BY <3>3, <5>1, OpenSession DEF Fits, SessionOK, OpenOK
      <4>4. /\ entry'[current].generation \in Nat /\ ~entry'[current].available /\ ~entry[current].available
            /\ entry[current].wasReady => entry'[current].wasReady
            /\ entry'[current].generation >= entry[current].generation
        <5>1. entry'[current] = r /\ entry[current] = x
          BY <2>6
        <5>2. x.generation >= x.generation
          BY <1>1
        <5> HIDE DEF x
        <5>3. QED
          BY <1>1, <2>4, <5>1, <5>2
      <4>5. QED
        BY <3>3, <4>1, <4>2, <4>3, <4>4, DownServes
    <3>4. QED
      BY <3>1, <3>2, <3>3
  <2>9. QED
    BY <2>6, <2>7, <2>8 DEF ObservationInv
<1>8. QED
  BY <1>6, <1>7

\* The connections stay as they are.
LEMMA StillListening ==
  ASSUME ObservationInv, current # 0, entry[current].stage \in {"revalidate", "up"}, UNCHANGED conn
  PROVE  Listening(current)
BY CurrentEntry DEF ObservationInv, ListenerTypes, EntryOK, Listening

LEMMA ListensKeeps == ASSUME ObservationInv, NEW e \in Entries, Listens(e) PROVE ObservationInv'
<1> DEFINE x == entry[e]
           c == x.connection
<1>1. /\ x.stage = "listen" /\ conn' = [conn EXCEPT ![c].listening = TRUE]
      /\ UNCHANGED <<current, barrier, disposal, version, failures, out>>
  BY Zenon DEF Listens, x, c
<1>2. e = current /\ current # 0
  BY <1>1, AliveIsCurrent
<1>3. x \in EntryRecord /\ EntryOK(e) /\ c \in Connections /\ ~x.available /\ x.generation \in Nat
  BY <1>1, <1>2, CurrentEntry DEF EntryOK, Connected
<1>4. Listening(e)
  <2> DEFINE k == [conn[c] EXCEPT !.listening = TRUE]
  <2>1. conn \in [Connections -> ConnectionRecord] /\ conn[c] \in ConnectionRecord
    BY <1>3 DEF ObservationInv, ListenerTypes
  <2>2. conn' = [conn EXCEPT ![c] = k]
    BY <1>1, Zenon
  <2>3. k.listening /\ k \in ConnectionRecord /\ k.state = conn[c].state
    BY <2>1 DEF ConnectionRecord
  <2> HIDE DEF k, c, x
  <2>4. conn' \in [Connections -> ConnectionRecord] /\ conn'[c] = k
        /\ \A d \in Connections : conn'[d].state = conn[d].state
    BY <1>3, <2>1, <2>2, <2>3
  <2>5. QED
    BY <2>3, <2>4 DEF Listening, c, x
<1>5. CASE x.wasReady
  <2>1. NextCheck(e, Routed(e), session)
    BY <1>5 DEF Listens
  <2>2. session = [s \in Sessions |-> IF s \in {} THEN Ended(session[s]) ELSE session[s]]
    BY DEF ObservationInv, SessionTypes
  <2>3. Routed(e) \in SUBSET Sessions /\ {} \in SUBSET Sessions
    BY DEF Routed, Leases
  <2>4. QED
    BY <1>1, <1>2, <1>4, <1>5, <2>1, <2>2, <2>3, NextCheckKeeps
<1>6. CASE ~x.wasReady
  <2> DEFINE r == [x EXCEPT !.stage = "up"]
  <2>1. entry' = [entry EXCEPT ![e] = r] /\ UNCHANGED <<session, cover>>
    BY <1>6, Zenon DEF Listens, r, x
  <2>2. /\ r.stage = "up" /\ r.available = x.available /\ r.wasReady = x.wasReady
        /\ r.connection = x.connection /\ r.factory = x.factory /\ r.generation = x.generation
    BY <1>3 DEF EntryRecord
  <2>3. r \in EntryRecord
    BY <1>3 DEF EntryRecord, Stages
  <2> HIDE DEF r
  <2>4. ListenerTypes' /\ ListenerOK' /\ entry'[e] = r
    BY <1>1, <1>2, <1>3, <1>4, <1>6, <2>1, <2>2, <2>3, NextCheckListener
  <2>5. /\ entry'[current].generation \in Nat /\ ~entry'[current].available
        /\ entry'[current].wasReady = entry[current].wasReady
        /\ entry'[current].generation >= entry[current].generation
    <3>1. entry'[current] = r /\ entry[current] = x /\ x.generation >= x.generation
      BY <1>2, <1>3, <2>4
    <3> HIDE DEF x
    <3>2. QED
      BY <1>3, <2>2, <3>1
  <2>6. SessionTypes /\ \A s \in Sessions : Serves(s)'
    BY <1>1, <1>2, <2>1, <2>5, StillDownServes
  <2>7. SessionTypes'
    BY <1>1, <2>1, <2>6 DEF SessionTypes
  <2>8. QED
    BY <2>4, <2>6, <2>7 DEF ObservationInv
<1>7. QED
  BY <1>5, <1>6

LEMMA UncheckedAreSessions ==
  ASSUME ObservationInv, NEW e \in Entries
  PROVE  Unchecked(e) \in SUBSET Sessions
BY DEF Unchecked, ObservationInv, ListenerTypes, EntryRecord

LEMMA RevalidatedKeeps == ASSUME ObservationInv, NEW e \in Entries, Revalidated(e) PROVE ObservationInv'
<1>1. /\ entry[e].stage = "revalidate" /\ NextCheck(e, Unchecked(e), session)
      /\ UNCHANGED <<current, conn, barrier, disposal, version, failures, out>>
  BY DEF Revalidated
<1>2. e = current /\ current # 0
  BY <1>1, AliveIsCurrent
<1>3. entry[e].wasReady
  BY <1>1, <1>2, CurrentEntry DEF EntryOK
<1>4. session = [s \in Sessions |-> IF s \in {} THEN Ended(session[s]) ELSE session[s]]
  BY DEF ObservationInv, SessionTypes
<1>5. Listening(e)
  BY <1>1, <1>2, StillListening
<1>6. Unchecked(e) \in SUBSET Sessions /\ {} \in SUBSET Sessions
  BY UncheckedAreSessions
<1>7. QED
  BY <1>1, <1>2, <1>3, <1>4, <1>5, <1>6, NextCheckKeeps

LEMMA RevalidationRefusedKeeps ==
  ASSUME ObservationInv, NEW e \in Entries, RevalidationRefused(e)
  PROVE  ObservationInv'
<1> DEFINE s == entry[e].checking
<1>1. /\ entry[e].stage = "revalidate" /\ s \in Leases(e) /\ s \in Sessions
      /\ UNCHANGED <<disposal, version, failures, out>>
  BY DEF RevalidationRefused, Leases
<1>2. e = current /\ current # 0
  BY <1>1, AliveIsCurrent
<1>3. CASE Leases(e) = {s}
  <2>1. End({s}, e) /\ UNCHANGED cover /\ failures \in Nat
    BY <1>3 DEF RevalidationRefused, ObservationInv, SessionTypes
  <2>2. QED
    BY <1>1, <1>2, <2>1, EndKeeps
<1>4. CASE Leases(e) # {s}
  <2> DEFINE ss == [session EXCEPT ![s] = Ended(session[s])]
  <2>1. NextCheck(e, Unchecked(e), ss) /\ UNCHANGED <<current, conn, barrier>>
    BY <1>4 DEF RevalidationRefused
  <2>2. ss = [t \in Sessions |-> IF t \in {s} THEN Ended(session[t]) ELSE session[t]]
    BY <1>1 DEF ObservationInv, SessionTypes
  <2>3. entry[e].wasReady
    BY <1>1, <1>2, CurrentEntry DEF EntryOK
  <2>4. Listening(e)
    BY <1>1, <1>2, <2>1, StillListening
  <2>5. Unchecked(e) \in SUBSET Sessions /\ {s} \in SUBSET Sessions
    BY <1>1, UncheckedAreSessions
  <2> HIDE DEF ss, s
  <2>6. QED
    BY <1>1, <1>2, <2>1, <2>2, <2>3, <2>4, <2>5, NextCheckKeeps
<1>5. QED
  BY <1>3, <1>4

LEMMA LeaseRoutesKeeps == ASSUME ObservationInv, NEW s \in Sessions, LeaseRoutes(s) PROVE ObservationInv'
<1> DEFINE x == entry[current]
           r == [x EXCEPT !.available = TRUE, !.wasReady = TRUE]
           y == [session[s] EXCEPT !.lease = "routed", !.read = "gate"]
<1>1. /\ session[s].state = "open" /\ session[s].lease = "validate" /\ session[s] \in Session
      /\ session[s].entry = current
      /\ UNCHANGED <<current, conn, barrier, disposal, version, failures, out, cover>>
  BY OpenSession DEF LeaseRoutes
<1>2. current \in Entries /\ current # 0 /\ x \in EntryRecord /\ EntryOK(current) /\ x.generation \in Nat
  BY <1>1, OpenSession, CurrentEntry, Bounds
<1>3. Up(current) /\ x.stage = "up"
  BY <1>1, OpenSession DEF Fits, SessionOK, OpenOK, Up
<1>4. entry' = [entry EXCEPT ![current] = r]
  <2>1. entry' = [entry EXCEPT ![current].available = TRUE, ![current].wasReady = TRUE]
    BY <1>1 DEF LeaseRoutes
  <2>2. entry \in [Entries -> EntryRecord]
    BY DEF ObservationInv, ListenerTypes
  <2>3. QED
    BY <1>2, <2>1, <2>2 DEF EntryRecord
<1>5. session' = [session EXCEPT ![s] = y]
  <2>1. session' = [session EXCEPT ![s].lease = "routed", ![s].read = "gate"]
    BY DEF LeaseRoutes
  <2>2. session \in [Sessions -> Session]
    BY DEF ObservationInv, SessionTypes
  <2>3. QED
    BY <2>1, <2>2 DEF Session, SessionType
<1>6. /\ r.stage = "up" /\ r.available = TRUE /\ r.wasReady = TRUE
      /\ r.connection = x.connection /\ r.factory = x.factory /\ r.generation = x.generation
  BY <1>2, <1>3 DEF EntryRecord
<1>7. r \in EntryRecord
  BY <1>2 DEF EntryRecord
<1>8. y \in Session
  BY <1>1 DEF Session, SessionType
<1>9. /\ y.state = "open" /\ y.entry = current /\ y.lease = "routed" /\ y.read = "gate"
      /\ y.hasValue = session[s].hasValue /\ y.emitted = session[s].emitted
  BY <1>1 DEF Session, SessionType
<1> HIDE DEF r, x, y
<1>10. Listening(current)
  BY <1>1, <1>2, <1>3, StillListening DEF x
<1>11. ListenerTypes' /\ ListenerOK' /\ entry'[current] = r
  BY <1>1, <1>2, <1>3, <1>4, <1>6, <1>7, <1>10, NextCheckListener DEF x
<1>12. SessionTypes'
  BY <1>1, <1>5, <1>8 DEF ObservationInv, SessionTypes
<1>13. ASSUME NEW t \in Sessions PROVE Serves(t)'
  <2>1. version \in Nat /\ version >= version /\ session \in [Sessions -> Session]
    BY DEF ObservationInv, SessionTypes
  <2>2. CASE t = s
    <3>1. session'[t] = y
      BY <1>5, <2>1, <2>2
    <3>2. ~y.hasValue /\ out[s] = -1 /\ ~y.emitted /\ cover[s] <= version
      BY <1>1, <1>9, OpenSession DEF Fits, SessionOK, OpenOK
    <3>3. OpenOK(y, out'[t], cover'[t], version', entry'[current].generation, Up(current)',
                 entry'[current].wasReady, entry'[current].available, Quiet(current)')
      BY <1>1, <1>6, <1>9, <1>11, <2>2, <3>2 DEF OpenOK
    <3>4. QED
      BY <1>1, <1>2, <1>9, <2>2, <3>1, <3>2, <3>3 DEF Serves, SessionOK
  <2>3. CASE t # s /\ session[t].state # "open"
    <3>1. session'[t] = session[t]
      BY <1>5, <2>1, <2>3
    <3>2. QED
      BY <1>1, <2>1, <2>3, <3>1, NotOpenServes
  <2>4. CASE t # s /\ session[t].state = "open"
    <3>1. session'[t] = session[t]
      BY <1>5, <2>1, <2>4
    <3>2. /\ session[t].entry = current /\ Fits(session[t], out[t], cover[t]) /\ cover[t] <= version
      BY <2>4, OpenSession
    <3>3. Up(current)' /\ (Quiet(current)' <=> Quiet(current))
      BY <1>1, <1>6, <1>11 DEF Up, Quiet, Intact, x
    <3>4. CASE x.wasReady
      <4>1. x.available
        BY <1>2, <1>3, <3>4 DEF EntryOK, x
      <4>2. OpenOK(session[t], out[t], cover[t], version, x.generation, TRUE, TRUE, TRUE, Quiet(current))
        BY <2>4, <3>2, <3>4, <4>1 DEF Fits, SessionOK, OpenOK, x
      <4>3. OpenOK(session[t], out'[t], cover'[t], version', entry'[current].generation, Up(current)',
                   entry'[current].wasReady, entry'[current].available, Quiet(current)')
        BY <1>1, <1>6, <1>11, <3>3, <4>2 DEF OpenOK
      <4>4. QED
        BY <1>1, <1>2, <2>4, <3>1, <3>2, <4>3 DEF Serves, SessionOK
    <3>5. CASE ~x.wasReady
      <4>1. session[t].lease # "routed"
        BY <2>4, <3>2, <3>5 DEF Fits, SessionOK, OpenOK, x
      <4>2. ~session[t].hasValue /\ session[t].read = "none" /\ out[t] = -1 /\ ~session[t].emitted
        BY <2>4, <3>2, <4>1 DEF Fits, SessionOK, OpenOK
      <4>3. OpenOK(session[t], out'[t], cover'[t], version', entry'[current].generation, Up(current)',
                   entry'[current].wasReady, entry'[current].available, Quiet(current)')
        BY <1>1, <3>3, <4>1, <4>2 DEF OpenOK
      <4>4. QED
        BY <1>1, <1>2, <2>4, <3>1, <3>2, <4>3 DEF Serves, SessionOK
    <3>6. QED
      BY <3>4, <3>5
  <2>5. QED
    BY <2>2, <2>3, <2>4
<1>14. QED
  BY <1>11, <1>12, <1>13 DEF ObservationInv

(***************************************************************************)
(* Ends, commits and notifications                                         *)
(***************************************************************************)

LEMMA SessionEnds ==
  ASSUME ObservationInv, NEW s \in Sessions, session[s].state = "open", End({s}, session[s].entry),
         UNCHANGED <<disposal, version, failures, out, cover>>
  PROVE  ObservationInv'
<1>1. session[s].entry = current /\ current # 0 /\ failures \in Nat
  BY OpenSession, Bounds DEF ObservationInv, SessionTypes
<1>2. QED
  BY <1>1, EndKeeps

LEMMA EndsKeep ==
  ASSUME ObservationInv, NEW s \in Sessions, LeaseRefused(s) \/ CloseSession(s)
  PROVE  ObservationInv'
BY SessionEnds DEF LeaseRefused, CloseSession

LEMMA ReadFailsKeeps == ASSUME ObservationInv, NEW s \in Sessions, ReadFails(s) PROVE ObservationInv'
<1>1. /\ session[s].state = "open" /\ session[s].read = "reading"
      /\ UNCHANGED <<disposal, version, failures, out, cover>>
  BY DEF ReadFails
<1>2. CASE IsCurrent(s)
  BY <1>1, <1>2, SessionEnds DEF ReadFails
<1>3. CASE ~IsCurrent(s)
  BY <1>1, <1>3, ReadRepeats DEF ReadFails, sessionOnly
<1>4. QED
  BY <1>2, <1>3

LEMMA CommitKeeps == ASSUME ObservationInv, Commit PROVE ObservationInv'
<1>1. /\ version' = version + 1
      /\ conn' = [c \in Connections |-> IF conn[c].listening THEN [conn[c] EXCEPT !.inbox = @ + 1] ELSE conn[c]]
      /\ UNCHANGED <<current, entry, barrier, disposal, session, failures, out, cover>>
  BY DEF Commit
<1>2. version \in Nat /\ version' \in Nat /\ version' >= version
  BY <1>1 DEF ObservationInv, SessionTypes
<1>3. ASSUME NEW c \in Connections
      PROVE  /\ conn'[c] \in ConnectionRecord /\ conn'[c].state = conn[c].state
             /\ conn'[c].listening = conn[c].listening
             /\ conn'[c].broken = conn[c].broken /\ conn'[c].timedOut = conn[c].timedOut
             /\ conn[c].listening => conn'[c].inbox # 0
  <2> DEFINE x == conn[c]
             y == [x EXCEPT !.inbox = @ + 1]
  <2>1. x \in ConnectionRecord /\ x.inbox \in Nat
    BY DEF ObservationInv, ListenerTypes, ConnectionRecord
  <2>2. conn'[c] = IF x.listening THEN y ELSE x
    BY <1>1
  <2> HIDE DEF x
  <2>3. /\ y \in ConnectionRecord /\ y.state = x.state /\ y.listening = x.listening
        /\ y.broken = x.broken /\ y.timedOut = x.timedOut /\ y.inbox = x.inbox + 1
    BY <2>1 DEF ConnectionRecord
  <2> HIDE DEF y
  <2>4. x.inbox + 1 # 0
    BY <2>1
  <2>5. CASE x.listening
    BY <2>2, <2>3, <2>4, <2>5 DEF x
  <2>6. CASE ~x.listening
    BY <2>1, <2>2, <2>6 DEF x
  <2>7. QED
    BY <2>5, <2>6
<1>4. ListenerTypes'
  <2>1. conn' \in [Connections -> ConnectionRecord]
    BY <1>1, <1>3
  <2>2. QED
    BY <1>1, <2>1 DEF ObservationInv, ListenerTypes
<1>5. ListenerOK'
  <2>1. \A e \in Entries : EntryOK(e)'
    <3> SUFFICES ASSUME NEW e \in Entries PROVE EntryOK(e)'
      OBVIOUS
    <3>1. EntryOK(e) /\ entry[e].factory \in Connections \cup {0} /\ entry[e].connection \in Connections \cup {0}
      BY DEF ObservationInv, ListenerTypes, ListenerOK, EntryRecord
    <3>2. entry[e].factory # 0 => conn'[entry[e].factory].state = conn[entry[e].factory].state
      BY <1>3, <3>1
    <3>3. entry[e].connection # 0 =>
            /\ conn'[entry[e].connection].state = conn[entry[e].connection].state
            /\ conn'[entry[e].connection].listening = conn[entry[e].connection].listening
            /\ conn'[entry[e].connection].broken = conn[entry[e].connection].broken
      BY <1>3, <3>1
    <3>4. QED
      BY <1>1, <3>1, <3>2, <3>3 DEF EntryOK, Connected
  <2>2. \A c \in Connections : ConnectionOK(c)'
    BY <1>1, <1>3 DEF ObservationInv, ListenerOK, ConnectionOK
  <2>3. QED
    BY <1>1, <1>3, <2>1, <2>2 DEF ObservationInv, ListenerOK
<1>6. SessionTypes'
  BY <1>1, <1>2 DEF ObservationInv, SessionTypes
<1>7. ASSUME NEW s \in Sessions PROVE Serves(s)'
  <2>1. CASE session[s].state # "open"
    BY <1>1, <1>2, <2>1, NotOpenServes
  <2>2. CASE session[s].state = "open"
    <3> DEFINE x == session[s]
    <3>1. /\ x.entry = current /\ current # 0 /\ Fits(x, out[s], cover[s]) /\ cover[s] <= version /\ x \in Session
          /\ EntryOK(current) /\ cover[s] \in Nat
      BY <2>2, OpenSession, Bounds
    <3>2. ~(entry[current].available /\ Quiet(current)')
      <4> SUFFICES ASSUME entry[current].available, Quiet(current)' PROVE FALSE
        OBVIOUS
      <4>1. entry[current].stage = "up" /\ entry[current].connection \in Connections
        BY <3>1, CurrentEntry DEF EntryOK, Connected
      <4>2. conn[entry[current].connection].listening \/ conn[entry[current].connection].broken
        BY <3>1, <4>1 DEF EntryOK
      <4>3. QED
        BY <1>1, <1>3, <4>1, <4>2 DEF Quiet, Intact
    <3>3. x.snapshot \in Nat /\ x.readFrom \in Nat
      BY <3>1 DEF Session, SessionType
    <3>4. OpenOK(x, out[s], cover[s], version', entry[current].generation, Up(current),
                 entry[current].wasReady, entry[current].available, Quiet(current)')
      <4> HIDE DEF x
      <4>1. OpenOK(x, out[s], cover[s], version, entry[current].generation, Up(current),
                   entry[current].wasReady, entry[current].available, Quiet(current))
        BY <2>2, <3>1 DEF Fits, SessionOK, x
      <4>2. QED
        BY <1>2, <3>2, <3>3, <4>1 DEF OpenOK
    <3>5. Up(current)' = Up(current) /\ cover[s] <= version'
      BY <1>1, <1>2, <3>1 DEF Up
    <3>6. QED
      BY <1>1, <2>2, <3>1, <3>4, <3>5 DEF Serves, SessionOK
  <2>3. QED
    BY <2>1, <2>2
<1>8. QED
  BY <1>4, <1>5, <1>6, <1>7 DEF ObservationInv

LEMMA NotifiedKeeps == ASSUME ObservationInv, NEW e \in Entries, Notified(e) PROVE ObservationInv'
<1> DEFINE c == entry[e].connection
           r == [conn[c] EXCEPT !.inbox = @ - 1]
<1>1. /\ c # 0 /\ conn[c].inbox > 0 /\ conn' = [conn EXCEPT ![c].inbox = @ - 1]
      /\ session' = [s \in Sessions |-> IF s \in Routed(e) THEN Changed(session[s], FALSE) ELSE session[s]]
      /\ UNCHANGED <<current, entry, barrier, disposal, version, failures, out, cover>>
  BY DEF Notified
<1>2. e = current /\ current # 0
  BY <1>1, AliveIsCurrent
<1>3. EntryOK(e) /\ c \in Connections /\ conn[c].state = "connected" /\ disposal = "none"
  BY <1>1, <1>2, CurrentEntry DEF EntryOK, EntryRecord
<1>4. conn[c] \in ConnectionRecord /\ conn[c].inbox - 1 \in Nat
  BY <1>1, <1>3 DEF ObservationInv, ListenerTypes, ConnectionRecord
<1>5. conn' = [conn EXCEPT ![c] = r]
  BY <1>1 
<1>6. /\ r.state = "connected" /\ r.listening = conn[c].listening /\ r.broken = conn[c].broken
  BY <1>3, <1>4 DEF ConnectionRecord
<1>7. r \in ConnectionRecord
  BY <1>4 DEF ConnectionRecord
<1> HIDE DEF r
<1>8. \A d \in Entries : entry[d].factory # c
  BY <1>3, Bounds DEF ObservationInv, ListenerOK, EntryOK
<1>9. ListenerTypes' /\ ListenerOK'
  <2>1. conn[c].listening \/ conn[c].broken => r.listening \/ r.broken
    BY <1>6
  <2>2. UNCHANGED <<current, entry, barrier, disposal>>
    BY <1>1
  <2> HIDE DEF c
  <2>3. QED
    BY <1>3, <1>5, <1>6, <1>7, <1>8, <2>1, <2>2, ConnectionStep
<1>10. SessionTypes'
  <2>1. \A s \in Sessions : session[s] \in Session /\ Changed(session[s], FALSE) \in Session
    BY ChangedResult DEF ObservationInv, SessionTypes
  <2>2. session' \in [Sessions -> Session]
    BY <1>1, <2>1
  <2>3. QED
    BY <1>1, <2>2 DEF ObservationInv, SessionTypes
<1>11. ASSUME NEW s \in Sessions PROVE Serves(s)'
  <2>1. version \in Nat /\ version >= version
    BY DEF ObservationInv, SessionTypes
  <2>2. CASE session[s].state # "open"
    <3>1. session'[s] = session[s]
      BY <1>1, <2>2 DEF Routed, Leases
    <3>2. QED
      BY <1>1, <2>1, <2>2, <3>1, NotOpenServes
  <2>3. CASE session[s].state = "open"
    <3> DEFINE x == session[s]
               y == session'[s]
    <3>1. /\ x.entry = current /\ Fits(x, out[s], cover[s]) /\ cover[s] <= version /\ x \in Session
          /\ (s \in Routed(e)) <=> x.lease = "routed"
      BY <1>2, <2>3, OpenSession DEF Routed, Leases
    <3>2. Up(current)' = Up(current)
      BY <1>1 DEF Up
    <3>3. CASE x.lease = "routed"
      <4>1. y = Changed(x, FALSE)
        BY <1>1, <3>1, <3>3
      <4>2. /\ y \in Session /\ Alike(x, y) /\ y.read = x.read /\ y.dirty /\ y.emitted = x.emitted
            /\ x.catchup => y.catchup
        BY <3>1, <4>1, ChangedResult
      <4> HIDE DEF y
      <4>3. y.state = "open" /\ y.entry = current
        BY <2>3, <3>1, <4>2 DEF Alike
      <4> HIDE DEF x
      <4>4. OpenOK(x, out[s], cover[s], version, entry[current].generation, Up(current),
                   entry[current].wasReady, entry[current].available, Quiet(current))
        BY <2>3, <3>1 DEF Fits, SessionOK, x
      <4>5. OpenOK(y, out[s], cover[s], version, entry[current].generation, Up(current),
                   entry[current].wasReady, entry[current].available, Quiet(current)')
        BY <3>3, <4>2, <4>4 DEF OpenOK, Alike
      <4>6. QED
        BY <1>1, <1>2, <3>1, <3>2, <4>3, <4>5 DEF Serves, SessionOK, y
    <3>4. CASE x.lease # "routed"
      <4>1. y = x
        BY <1>1, <3>1, <3>4
      <4>2. ~x.hasValue /\ x.read = "none" /\ out[s] = -1 /\ ~x.emitted
        BY <2>3, <3>1, <3>4 DEF Fits, SessionOK, OpenOK
      <4>3. x.lease \in {"resolve", "validate"} => Up(current)
        BY <2>3, <3>1 DEF Fits, SessionOK, OpenOK
      <4> HIDE DEF x
      <4>4. OpenOK(x, out[s], cover[s], version, entry[current].generation, Up(current),
                   entry[current].wasReady, entry[current].available, Quiet(current)')
        BY <3>4, <4>2, <4>3 DEF OpenOK
      <4>5. QED
        BY <1>1, <1>2, <2>3, <3>1, <3>2, <4>1, <4>4 DEF Serves, SessionOK, x, y
    <3>5. QED
      BY <3>3, <3>4
  <2>4. QED
    BY <2>2, <2>3
<1>12. QED
  BY <1>9, <1>10, <1>11 DEF ObservationInv

(***************************************************************************)
(* Acquiring and disposing                                                 *)
(***************************************************************************)

\* The entry the next acquire() creates.
FirstUnused ==
  CHOOSE e \in Entries : entry[e].stage = "none" /\ \A d \in Entries : d < e => entry[d].stage # "none"

LEMMA FirstUnusedIsUnused ==
  ASSUME NEW f \in Entries, entry[f].stage = "none"
  PROVE  FirstUnused \in Entries /\ entry[FirstUnused].stage = "none"
<1> DEFINE S == {e \in Entries : entry[e].stage = "none"}
<1>1. S \in SUBSET Nat /\ S # {}
  BY Bounds
<1>2. PICK m \in S : \A n \in S : m <= n
  BY <1>1, Minimum
<1>3. \A d \in Entries : d < m => entry[d].stage # "none"
  BY <1>1, <1>2, Bounds
<1>4. \E e \in Entries : entry[e].stage = "none" /\ \A d \in Entries : d < e => entry[d].stage # "none"
  BY <1>2, <1>3
<1>5. QED
  BY <1>4, Zenon DEF FirstUnused

\* A session that has just been opened asks for nothing yet.
LEMMA OpenedServes ==
  ASSUME ObservationInv, NEW s \in Sessions, session[s].state = "idle", current' \in Entries,
         session'[s] = Opened(current'), version' = version, out'[s] = out[s], cover'[s] = cover[s]
  PROVE  Serves(s)'
<1> DEFINE y == Opened(current')
<1>1. /\ y.state = "open" /\ y.entry = current' /\ y.lease = "waiting"
      /\ y.read = "none" /\ ~y.hasValue /\ ~y.emitted
  BY NewSessions
<1>2. out[s] = -1 /\ cover[s] <= version
  BY DEF ObservationInv, Serves, SessionOK
<1> HIDE DEF y
<1>3. session'[s] = y /\ current' # 0
  BY Bounds DEF y
<1>4. QED
  BY <1>1, <1>2, <1>3 DEF Serves, SessionOK, OpenOK

LEMMA AcquireKeeps == ASSUME ObservationInv, NEW s \in Sessions, Acquire(s) PROVE ObservationInv'
<1>1. /\ disposal = "none" /\ session[s].state = "idle"
      /\ UNCHANGED <<barrier, disposal, version, failures, out, cover>>
  BY DEF Acquire
<1>2. /\ session \in [Sessions -> Session] /\ entry \in [Entries -> EntryRecord]
      /\ conn \in [Connections -> ConnectionRecord] /\ barrier \in Connections \cup {0}
      /\ version \in Nat /\ version >= version
  BY DEF ObservationInv, ListenerTypes, SessionTypes
<1>3. CASE current # 0
  <2>1. session' = [session EXCEPT ![s] = Opened(current)] /\ UNCHANGED <<current, entry, conn>>
    BY <1>3 DEF Acquire
  <2>2. current \in Entries /\ Opened(current) \in Session
    BY <1>3, CurrentEntry, NewSessions
  <2>3. ListenerTypes' /\ ListenerOK'
    BY <1>1, <2>1 DEF ObservationInv, ListenerTypes, ListenerOK, EntryOK, ConnectionOK
  <2>4. SessionTypes'
    BY <1>1, <2>1, <2>2 DEF ObservationInv, SessionTypes
  <2>5. ASSUME NEW t \in Sessions PROVE Serves(t)'
    <3>1. CASE t = s
      BY <1>1, <1>2, <2>1, <2>2, <3>1, OpenedServes
    <3>2. CASE t # s
      <4>1. session'[t] = session[t] /\ Serves(t)
        BY <1>2, <2>1, <3>2 DEF ObservationInv
      <4>2. QED
        BY <1>1, <2>1, <4>1 DEF Serves, Up, Quiet, Intact
    <3>3. QED
      BY <3>1, <3>2
  <2>6. QED
    BY <2>3, <2>4, <2>5 DEF ObservationInv
<1>4. CASE current = 0
  <2> DEFINE e == FirstUnused
  <2>1. /\ \E d \in Entries : entry[d].stage = "none"
        /\ session' = [session EXCEPT ![s] = Opened(e)]
        /\ current' = e /\ Start(e, NewEntry)
    BY <1>4, Zenon DEF Acquire, FirstUnused, e
  <2>2. e \in Entries /\ e # 0
    BY <2>1, FirstUnusedIsUnused, Bounds
  <2> HIDE DEF e
  <2>3. PICK r \in EntryRecord :
           /\ entry' = [entry EXCEPT ![e] = r] /\ StartedFrom(NewEntry, r)
           /\ conn' \in [Connections -> ConnectionRecord]
           /\ r.stage = "factory" => barrier = 0 /\ conn'[r.factory].state = "pending"
           /\ \A c \in Connections : conn'[c] = conn[c] \/ (r.stage = "factory" /\ c = r.factory)
    BY <2>1, <2>2, NewEntryResult, StartResult
  <2>4. ListenerTypes'
    BY <1>1, <1>2, <2>1, <2>2, <2>3 DEF ObservationInv, ListenerTypes
  <2>5. ASSUME NEW d \in Entries PROVE EntryOK(d)'
    <3>1. CASE d = e
      <4>1. entry'[d] = r /\ ~NewEntry.wasReady
        BY <1>2, <2>3, <3>1, NewEntryResult
      <4>2. QED
        BY <1>1, <2>1, <2>2, <2>3, <3>1, <4>1, Bounds DEF EntryOK, Connected, StartedFrom
    <3>2. CASE d # e
      <4>1. entry'[d] = entry[d]
        BY <1>2, <2>3, <3>2
      <4>2. EntryOK(d) /\ entry[d].stage \in {"none", "dead"}
        BY <1>4, AliveIsCurrent DEF ObservationInv, ListenerOK
      <4>3. QED
        BY <2>1, <3>2, <4>1, <4>2 DEF EntryOK, Connected
    <3>3. QED
      BY <3>1, <3>2
  <2>6. \A c \in Connections : ConnectionOK(c)'
    <3>1. \A c \in Connections : ConnectionOK(c)
      BY DEF ObservationInv, ListenerOK
    <3>2. QED
      BY <1>1, <1>4, <2>3, <3>1 DEF ConnectionOK
  <2>7. ListenerOK'
    BY <1>1, <2>5, <2>6 DEF ListenerOK
  <2>8. SessionTypes'
    BY <1>1, <1>2, <2>1, <2>2, NewSessions DEF ObservationInv, SessionTypes
  <2>9. ASSUME NEW t \in Sessions PROVE Serves(t)'
    <3>1. CASE t = s
      BY <1>1, <1>2, <2>1, <2>2, <3>1, OpenedServes
    <3>2. CASE t # s
      <4>1. session'[t] = session[t]
        BY <1>2, <2>1, <3>2
      <4>2. session[t].state # "open"
        BY <1>4, OpenSession, Bounds
      <4>3. QED
        BY <1>1, <1>2, <4>1, <4>2, NotOpenServes
    <3>3. QED
      BY <3>1, <3>2
  <2>10. QED
    BY <2>4, <2>7, <2>8, <2>9 DEF ObservationInv
<1>5. QED
  BY <1>3, <1>4

LEMMA DisposalKeeps ==
  ASSUME ObservationInv, UNCHANGED <<managerVars, session, version, failures, out, cover>>,
         disposal' \in {"draining", "expired", "done", "late"}, current = 0,
         disposal' \in {"done", "late"} =>
           \A c \in Connections :
             \/ conn[c].state = "free" \/ conn[c].timedOut
             \/ disposal' = "late" /\ conn[c].state \in {"pending", "discarding"}
  PROVE  ObservationInv'
<1> USE DEF managerVars
<1>1. ListenerTypes' /\ SessionTypes'
  BY DEF ObservationInv, ListenerTypes, SessionTypes
<1>2. ListenerOK'
  BY DEF ObservationInv, ListenerOK, EntryOK, ConnectionOK
<1>3. \A s \in Sessions : Serves(s)'
  BY DEF ObservationInv, Serves, Up, Quiet, Intact
<1>4. QED
  BY <1>1, <1>2, <1>3 DEF ObservationInv

LEMMA DisposeKeeps == ASSUME ObservationInv, Dispose PROVE ObservationInv'
<1>1. disposal = "none" /\ disposal' = "draining" /\ UNCHANGED <<version, failures, out, cover>>
  BY DEF Dispose
<1>2. CASE current # 0
  <2>1. End(Leases(current), current) /\ Leases(current) \in SUBSET Sessions /\ failures \in Nat
    BY <1>2 DEF Dispose, Leases, ObservationInv, SessionTypes
  <2>2. QED
    BY <1>1, <1>2, <2>1, EndKeeps
<1>3. CASE current = 0
  BY <1>1, <1>3, DisposalKeeps DEF Dispose
<1>4. QED
  BY <1>2, <1>3

LEMMA DrainsKeep == ASSUME ObservationInv, Drains PROVE ObservationInv'
<1>1. UNCHANGED <<managerVars, session, version, failures, out, cover>>
  BY DEF Drains, FactoryDeadline, DrainSettles
<1>2. disposal # "none" /\ current = 0
  BY DEF Drains, FactoryDeadline, DrainSettles, ObservationInv, ListenerOK
<1>3. CASE FactoryDeadline
  BY <1>1, <1>2, <1>3, DisposalKeeps DEF FactoryDeadline
<1>4. CASE DrainSettles
  <2>1. /\ disposal' = (IF disposal = "expired" THEN "late" ELSE "done") /\ disposal \in {"draining", "expired"}
        /\ \A c \in Connections : conn[c].state \notin {"closing", "discarding"} \/ conn[c].timedOut
        /\ disposal = "draining" => \A c \in Connections : conn[c].state # "pending"
    BY <1>4 DEF DrainSettles, DrainedNow
  <2>2. \A c \in Connections :
          /\ conn[c].state \in {"free", "pending", "connected", "closing", "discarding"}
          /\ conn[c].state # "connected"
    BY <1>2 DEF ObservationInv, ListenerTypes, ListenerOK, ConnectionOK, ConnectionRecord
  <2>3. QED
    BY <1>1, <1>2, <2>1, <2>2, DisposalKeeps
<1>5. QED
  BY <1>3, <1>4 DEF Drains

(***************************************************************************)
(* The invariant                                                           *)
(***************************************************************************)

LEMMA InitObservation == Init => ObservationInv
<1> SUFFICES ASSUME Init PROVE ObservationInv
  OBVIOUS
<1>1. NewEntry \in EntryRecord /\ NewEntry.stage = "none" /\ NewEntry.factory = 0 /\ NewEntry.connection = 0
      /\ ~NewEntry.available
  BY DEF NewEntry, EntryRecord, Stages
<1>2. NoConnection \in ConnectionRecord /\ NoConnection.state = "free"
  BY DEF NoConnection, ConnectionRecord
<1>3. ListenerTypes
  BY <1>1, <1>2 DEF Init, ListenerTypes
<1>4. ASSUME NEW e \in Entries PROVE EntryOK(e)
  <2>1. entry[e] = NewEntry /\ current = 0 /\ e # 0
    BY Bounds DEF Init
  <2>2. QED
    BY <1>1, <2>1 DEF EntryOK, Connected
<1>5. ASSUME NEW c \in Connections PROVE ConnectionOK(c)
  <2>1. conn[c] = NoConnection
    BY DEF Init
  <2>2. QED
    BY <1>2, <2>1 DEF ConnectionOK
<1>6. ListenerOK
  BY <1>4, <1>5 DEF Init, ListenerOK
<1>7. IdleSession \in Session /\ IdleSession.state = "idle"
  BY NewSessions
<1>8. SessionTypes
  BY <1>7 DEF Init, SessionTypes
<1>9. ASSUME NEW s \in Sessions PROVE Serves(s)
  <2>1. session[s] = IdleSession /\ out[s] = -1 /\ cover[s] = 0 /\ version = 0
    BY DEF Init
  <2>2. QED
    BY <1>7, <2>1 DEF Serves, SessionOK
<1>10. QED
  BY <1>3, <1>6, <1>8, <1>9 DEF ObservationInv

LEMMA StutterKeeps == ASSUME ObservationInv, UNCHANGED vars PROVE ObservationInv'
<1> USE DEF vars, managerVars
<1>1. ListenerTypes' /\ SessionTypes'
  BY DEF ObservationInv, ListenerTypes, SessionTypes
<1>2. ListenerOK'
  BY DEF ObservationInv, ListenerOK, EntryOK, ConnectionOK
<1>3. \A s \in Sessions : Serves(s)'
  BY DEF ObservationInv, Serves, Up, Quiet, Intact
<1>4. QED
  BY <1>1, <1>2, <1>3 DEF ObservationInv

LEMMA EntryStepKeeps ==
  ASSUME ObservationInv, NEW e \in Entries,
         Opens(e) \/ Recovers(e) \/ LossDetected(e) \/ ListenerFails(e) \/ HeartbeatSucceeds(e) \/ Notified(e)
  PROVE  ObservationInv'
<1>1. CASE Opens(e)
  BY <1>1, BarrierPassesKeeps, FactoryYieldsKeeps, ConnectsKeeps, ListensKeeps, LossesKeep, RetryDelayEndsKeeps
  DEF Opens
<1>2. CASE Recovers(e)
  BY <1>2, RevalidatedKeeps, RevalidationRefusedKeeps DEF Recovers
<1>3. CASE LossDetected(e) \/ ListenerFails(e)
  BY <1>3, LossesKeep
<1>4. CASE HeartbeatSucceeds(e)
  BY <1>4, HeartbeatKeeps
<1>5. CASE Notified(e)
  BY <1>5, NotifiedKeeps
<1>6. QED
  BY <1>1, <1>2, <1>3, <1>4, <1>5

LEMMA SessionStepKeeps ==
  ASSUME ObservationInv, NEW s \in Sessions,
         \/ Acquire(s) \/ Readies(s) \/ CloseSession(s) \/ Adopt(s) \/ Current(s)
         \/ \E w \in Waiters : WaiterProceeds(s, w)
         \/ PumpRuns(s) \/ Reads(s)
  PROVE  ObservationInv'
<1>1. CASE Acquire(s) \/ Adopt(s) \/ Current(s) \/ PumpRuns(s)
  BY <1>1, AcquireKeeps, AdoptKeeps, CurrentKeeps, PumpRunsKeeps
<1>2. CASE Readies(s) \/ CloseSession(s)
  BY <1>2, LeaseStartsKeeps, LeaseResolvesKeeps, LeaseRoutesKeeps, EndsKeep DEF Readies
<1>3. CASE \E w \in Waiters : WaiterProceeds(s, w)
  BY <1>3, WaiterProceedsKeeps
<1>4. CASE Reads(s)
  BY <1>4, ReadStartsKeeps, ReadSettlesKeeps, ReadFailsKeeps DEF Reads
<1>5. QED
  BY <1>1, <1>2, <1>3, <1>4

LEMMA StepKeeps == ObservationInv /\ [Next]_vars => ObservationInv'
<1> SUFFICES ASSUME ObservationInv, [Next]_vars PROVE ObservationInv'
  OBVIOUS
<1>1. CASE UNCHANGED vars
  BY <1>1, StutterKeeps
<1>2. ASSUME NEW e \in Entries,
             Opens(e) \/ Recovers(e) \/ LossDetected(e) \/ ListenerFails(e) \/ HeartbeatSucceeds(e) \/ Notified(e)
      PROVE  ObservationInv'
  BY <1>2, EntryStepKeeps
<1>3. ASSUME NEW c \in Connections, Break(c) \/ LateFactorySettles(c) \/ CloseSettles(c) \/ CloseTimesOut(c)
      PROVE  ObservationInv'
  BY <1>3, BreakKeeps, LateFactoryKeeps, CloseSettlesKeeps, CloseTimesOutKeeps
<1>4. ASSUME NEW s \in Sessions,
             \/ Acquire(s) \/ Readies(s) \/ CloseSession(s) \/ Adopt(s) \/ Current(s)
             \/ \E w \in Waiters : WaiterProceeds(s, w)
             \/ PumpRuns(s) \/ Reads(s)
      PROVE  ObservationInv'
  BY <1>4, SessionStepKeeps
<1>5. CASE Commit \/ Dispose \/ Drains
  BY <1>5, CommitKeeps, DisposeKeeps, DrainsKeep
<1>6. QED
  BY <1>1, <1>2, <1>3, <1>4, <1>5 DEF Next

\* Between any two turns of the event loop the tenant has at most one living
\* entry, that has a factory or a connection but never both and never while the
\* previous connection still closes, and every open session holds a lease of that
\* entry with a value, a read or a pending change that accounts for the committed
\* state (PostgreSQLObservationManager.ts 113-357, DrizzleObservationSession.ts
\* 98-172).
THEOREM ObservationInvariant == Safety => []ObservationInv
<1>1. Init => ObservationInv
  BY InitObservation
<1>2. ObservationInv /\ [Next]_vars => ObservationInv'
  BY StepKeeps
<1>3. QED
  BY <1>1, <1>2, PTL DEF Safety

(***************************************************************************)
(* The properties                                                          *)
(***************************************************************************)

LEMMA SettledShows == ObservationInv => NoMissedChange
<1> SUFFICES ASSUME ObservationInv, NEW s \in Sessions, Settled(s)
             PROVE  session[s].snapshot = version /\ (session[s].emitted => out[s] = version)
  BY DEF NoMissedChange
<1>1. /\ session[s].state = "open" /\ session[s].hasValue /\ ~session[s].dirty /\ session[s].read = "none"
      /\ Available(s) /\ Quiet(session[s].entry)
  BY DEF Settled, Quiet
<1>2. session[s].entry = current /\ entry[current].available /\ Fits(session[s], out[s], cover[s])
  BY <1>1, OpenSession
<1>3. QED
  BY <1>1, <1>2 DEF Fits, SessionOK, OpenOK

\* A session with a value, no change to read and no read in flight shows the
\* committed state once the notifications have arrived, and its subscriber was
\* told: LISTEN, the routing of a lease, a read that raced a lost connection and
\* the catch-up after it leave no gap (DrizzleObservationSession.ts 140-172).
THEOREM NoMissedChangeHolds == Safety => []NoMissedChange
BY ObservationInvariant, SettledShows, PTL

LEMMA SocketOfCurrent ==
  ASSUME ObservationInv
  PROVE  \E d \in Connections \cup {0} :
           \A c \in Connections : conn[c].state \in {"connected", "closing"} => c = d
<1> DEFINE d == IF barrier # 0 THEN barrier ELSE IF current # 0 THEN entry[current].connection ELSE 0
<1>1. current \in Entries \cup {0} /\ barrier \in Connections \cup {0} /\ entry \in [Entries -> EntryRecord]
  BY DEF ObservationInv, ListenerTypes
<1>2. d \in Connections \cup {0}
  BY <1>1 DEF EntryRecord
<1>3. ASSUME NEW c \in Connections, conn[c].state \in {"connected", "closing"} PROVE c = d
  <2>1. c # 0 /\ ConnectionOK(c)
    BY Bounds DEF ObservationInv, ListenerOK
  <2>2. CASE conn[c].state = "closing"
    BY <2>1, <2>2 DEF ConnectionOK
  <2>3. CASE conn[c].state = "connected"
    <3>1. current \in Entries /\ entry[current].connection = c /\ EntryOK(current)
      BY <2>1, <2>3, <1>1 DEF ConnectionOK, ObservationInv, ListenerOK
    <3>2. barrier = 0
      BY <3>1, <2>1 DEF EntryOK
    <3>3. current # 0
      BY <2>1, <2>3 DEF ConnectionOK
    <3>4. QED
      BY <3>1, <3>2, <3>3
  <2>4. QED
    BY <1>3, <2>2, <2>3
<1>4. QED
  BY <1>2, <1>3

LEMMA AtMostOne ==
  ASSUME NEW S, NEW d, S \subseteq {d}
  PROVE  Cardinality(S) <= 1
<1>1. CASE S = {}
  BY <1>1, FS_EmptySet
<1>2. CASE S = {d}
  <2>1. Cardinality({d}) = 1
    BY FS_Singleton
  <2>2. QED
    BY <1>2, <2>1
<1>3. QED
  BY <1>1, <1>2

LEMMA SocketIsSingle == ObservationInv => OneSocket
<1> SUFFICES ASSUME ObservationInv PROVE OneSocket
  OBVIOUS
<1>1. PICK d \in Connections \cup {0} :
        \A c \in Connections : conn[c].state \in {"connected", "closing"} => c = d
  BY SocketOfCurrent
<1>2. {c \in Connections : conn[c].state \in {"connected", "closing"}} \subseteq {d}
  BY <1>1
<1>3. QED
  BY <1>2, AtMostOne DEF OneSocket

\* A tenant never has two sockets: scheduleClose() makes the close of the previous
\* connection the barrier of the next start, across lost connections, retired
\* entries and factories that answer late (PostgreSQLObservationManager.ts
\* 125-133, 347-357).
THEOREM OneSocketHolds == Safety => []OneSocket
BY ObservationInvariant, SocketIsSingle, PTL

LEMMA ConnectionInUse == ObservationInv => NoLeakedConnection
<1> SUFFICES ASSUME ObservationInv, NEW c \in Connections, conn[c].state = "connected"
             PROVE  \E e \in Entries : entry[e].connection = c
  BY DEF NoLeakedConnection
<1>1. current # 0 /\ entry[current].connection = c
  BY DEF ObservationInv, ListenerOK, ConnectionOK
<1>2. current \in Entries
  BY <1>1 DEF ObservationInv, ListenerTypes
<1>3. QED
  BY <1>1, <1>2

\* A connection that a factory handed over is the one the tenant's living entry
\* uses, or is being closed: none is forgotten by a start that timed out, an entry
\* that was retired or a manager that was disposed
\* (PostgreSQLObservationManager.ts 131-133, 245).
THEOREM NoLeakedConnectionHolds == Safety => []NoLeakedConnection
BY ObservationInvariant, ConnectionInUse, PTL

LEMMA DisposedIsDrained == ObservationInv => DrainedOnDisposal
<1> SUFFICES ASSUME ObservationInv, disposal \in {"done", "late"}
             PROVE  /\ \A s \in Sessions : session[s].state # "open"
                    /\ \A c \in Connections :
                         \/ conn[c].state = "free" \/ conn[c].timedOut
                         \/ disposal = "late" /\ conn[c].state \in {"pending", "discarding"}
  BY DEF DrainedOnDisposal
<1>1. current = 0
  BY DEF ObservationInv, ListenerOK
<1>2. ASSUME NEW s \in Sessions PROVE session[s].state # "open"
  BY <1>1 DEF ObservationInv, Serves
<1>3. QED
  BY <1>2 DEF ObservationInv, ListenerOK

\* When disposal returns no session is open, no connection is open or on its way
\* but those whose close or factory let its deadline pass, and nothing opens one
\* afterwards (PostgreSQLObservationManager.ts 385-398).
THEOREM DrainedOnDisposalHolds == Safety => []DrainedOnDisposal
BY ObservationInvariant, DisposedIsDrained, PTL

(***************************************************************************)
(* What a step means to the subscribers                                    *)
(***************************************************************************)

Same(s) == session'[s].state = session[s].state /\ session'[s].subscribed = session[s].subscribed
Stays(s) == Same(s) \/ (session[s].state = "open" /\ session'[s].state = "closed")
Enters(s) ==
  \/ session[s].state = "idle" /\ session'[s].state = "open" /\ ~session'[s].subscribed
  \/ /\ session[s].state = "open" /\ ~session[s].subscribed
     /\ session'[s].state = "open" /\ session'[s].subscribed
Hands(s) ==
  /\ session[s].state = "open" /\ Available(s)
  /\ \E o \in Nat : /\ out' = [out EXCEPT ![s] = o]
                    /\ out[s] <= o /\ cover[s] <= o /\ o <= version
Silent == UNCHANGED <<version, out>>

Effect ==
  \/ version' = version + 1 /\ UNCHANGED <<session, out>>
  \/ Silent /\ \A s \in Sessions : Stays(s)
  \/ Silent /\ \E s \in Sessions : Enters(s) /\ \A t \in Sessions \ {s} : session'[t] = session[t]
  \/ UNCHANGED version /\ (\A s \in Sessions : Same(s)) /\ \E s \in Sessions : Hands(s)

LEMMA OneSame ==
  ASSUME session \in [Sessions -> Session], NEW s \in Sessions, NEW y, session' = [session EXCEPT ![s] = y],
         y.state = session[s].state, y.subscribed = session[s].subscribed
  PROVE  \A t \in Sessions : Same(t)
<1> TAKE t \in Sessions
<1>1. CASE t = s
  BY <1>1 DEF Same
<1>2. CASE t # s
  BY <1>2 DEF Same
<1>3. QED
  BY <1>1, <1>2

LEMMA EndStays ==
  ASSUME session \in [Sessions -> Session], NEW S, NEW e, \A s \in S : s \in Sessions => session[s].state = "open",
         End(S, e)
  PROVE  \A s \in Sessions : Stays(s)
<1> TAKE s \in Sessions
<1>1. session'[s] = IF s \in S THEN Ended(session[s]) ELSE session[s]
  BY DEF End
<1>2. CASE s \in S
  BY <1>1, <1>2, EndedResult DEF Stays
<1>3. CASE s \notin S
  BY <1>1, <1>3 DEF Stays, Same
<1>4. QED
  BY <1>2, <1>3

LEMMA LostStays ==
  ASSUME session \in [Sessions -> Session], NEW e \in Entries, Lost(e)
  PROVE  \A s \in Sessions : Stays(s)
<1>1. CASE End(Leases(e), e)
  BY <1>1, EndStays DEF Leases
<1>2. CASE session' = Waiting(e)
  <2> TAKE s \in Sessions
  <2>1. [session[s] EXCEPT !.lease = "waiting"].state = session[s].state
        /\ [session[s] EXCEPT !.lease = "waiting"].subscribed = session[s].subscribed
    BY DEF Session, SessionType
  <2>2. session'[s] = session[s] \/ session'[s] = [session[s] EXCEPT !.lease = "waiting"]
    BY <1>2 DEF Waiting
  <2>3. QED
    BY <2>1, <2>2 DEF Stays, Same
<1>3. QED
  BY <1>1, <1>2 DEF Lost

LEMMA ChangedStays ==
  ASSUME NEW x \in Session, NEW c \in BOOLEAN
  PROVE  Changed(x, c).state = x.state /\ Changed(x, c).subscribed = x.subscribed
<1>1. Alike(x, Changed(x, c))
  BY ChangedResult
<1>2. QED
  BY <1>1 DEF Alike

LEMMA NextCheckStays ==
  ASSUME NEW ss \in [Sessions -> Session], NEW e \in Entries, NEW rest, NextCheck(e, rest, ss), NEW s \in Sessions
  PROVE  session'[s].state = ss[s].state /\ session'[s].subscribed = ss[s].subscribed
<1>1. session'[s] = ss[s] \/ session'[s] = Changed(ss[s], TRUE)
  BY DEF NextCheck
<1>2. ss[s] \in Session
  OBVIOUS
<1>3. Changed(ss[s], TRUE).state = ss[s].state /\ Changed(ss[s], TRUE).subscribed = ss[s].subscribed
  BY <1>2, ChangedStays
<1>4. QED
  BY <1>1, <1>3

LEMMA ListenerEffect ==
  ASSUME ObservationInv, NEW e \in Entries,
         Opens(e) \/ Recovers(e) \/ LossDetected(e) \/ ListenerFails(e) \/ HeartbeatSucceeds(e) \/ Notified(e)
  PROVE  Effect
<1>1. session \in [Sessions -> Session]
  BY DEF ObservationInv, SessionTypes
<1> SUFFICES Silent /\ \A s \in Sessions : Stays(s)
  BY DEF Effect
<1>2. CASE BarrierPasses(e) \/ FactoryYields(e) \/ Connects(e) \/ RetryDelayEnds(e) \/ HeartbeatSucceeds(e)
  BY <1>2 DEF BarrierPasses, FactoryYields, Connects, RetryDelayEnds, HeartbeatSucceeds, Silent, Stays, Same
<1>3. CASE StartTimesOut(e) \/ LossDetected(e) \/ ListenerFails(e)
  <2>1. Silent /\ Lost(e)
    BY <1>3 DEF StartTimesOut, LossDetected, ListenerFails, Silent
  <2>2. QED
    BY <1>1, <2>1, LostStays
<1>4. CASE Listens(e) \/ Revalidated(e)
  <2>1. Silent
    BY <1>4 DEF Listens, Revalidated, Silent
  <2>2. UNCHANGED session \/ NextCheck(e, Routed(e), session) \/ NextCheck(e, Unchecked(e), session)
    BY <1>4 DEF Listens, Revalidated
  <2>3. QED
    BY <1>1, <2>1, <2>2, NextCheckStays DEF Stays, Same
<1>5. CASE RevalidationRefused(e)
  <2> DEFINE s == entry[e].checking
             ss == [session EXCEPT ![s] = Ended(session[s])]
  <2>1. Silent /\ s \in Leases(e)
    BY <1>5 DEF RevalidationRefused, Silent
  <2>2. End({s}, e) \/ NextCheck(e, Unchecked(e), ss)
    BY <1>5 DEF RevalidationRefused
  <2>3. s \in Sessions /\ session[s].state = "open"
    BY <2>1 DEF Leases
  <2>4. CASE End({s}, e)
    BY <1>1, <2>1, <2>3, <2>4, EndStays
  <2>5. CASE NextCheck(e, Unchecked(e), ss)
    <3> HIDE DEF s
    <3>1. Ended(session[s]) \in Session /\ Ended(session[s]).state = "closed"
      BY <1>1, <2>3, EndedResult
    <3>2. ss \in [Sessions -> Session] /\ ss[s] = Ended(session[s]) /\ \A t \in Sessions \ {s} : ss[t] = session[t]
      BY <1>1, <2>3, <3>1
    <3> HIDE DEF ss
    <3>3. \A t \in Sessions : session'[t].state = ss[t].state /\ session'[t].subscribed = ss[t].subscribed
      BY <2>5, <3>2, NextCheckStays
    <3>4. ASSUME NEW t \in Sessions PROVE Stays(t)
      BY <2>3, <3>1, <3>2, <3>3 DEF Stays, Same
    <3>5. QED
      BY <2>1, <3>4
  <2>6. QED
    BY <2>2, <2>4, <2>5
<1>6. CASE Notified(e)
  <2>1. Silent
    BY <1>6 DEF Notified, Silent
  <2>2. ASSUME NEW s \in Sessions PROVE Stays(s)
    <3>1. session'[s] = session[s] \/ session'[s] = Changed(session[s], FALSE)
      BY <1>6 DEF Notified
    <3>2. session[s] \in Session
      BY <1>1
    <3>3. Changed(session[s], FALSE).state = session[s].state
          /\ Changed(session[s], FALSE).subscribed = session[s].subscribed
      BY <3>2, ChangedStays
    <3>4. QED
      BY <3>1, <3>3 DEF Stays, Same
  <2>3. QED
    BY <2>1, <2>2
<1>7. QED
  BY <1>2, <1>3, <1>4, <1>5, <1>6 DEF Opens, Recovers

LEMMA WaiterEffect ==
  ASSUME ObservationInv, NEW s \in Sessions, NEW w \in Waiters, WaiterProceeds(s, w)
  PROVE  Effect
<1> DEFINE x == session[s]
<1>1. session \in [Sessions -> Session] /\ x \in Session /\ UNCHANGED version
  BY DEF ObservationInv, SessionTypes, WaiterProceeds, sessionOnly
<1>2. CASE MustWait(x)
  <2>1. session' = [session EXCEPT ![s] = Waits(x, w)] /\ UNCHANGED out
    BY <1>2 DEF WaiterProceeds
  <2>2. Waits(x, w).state = x.state /\ Waits(x, w).subscribed = x.subscribed
    BY <1>1, WaitsResult, PumpedResult DEF Alike
  <2>3. \A t \in Sessions : Same(t)
    BY <1>1, <2>1, <2>2, OneSame
  <2>4. QED
    BY <1>1, <2>1, <2>3 DEF Effect, Silent, Stays
<1>3. CASE ~MustWait(x)
  <2>1. session' = [session EXCEPT ![s] = HandsOut(x, w)] /\ out' = [out EXCEPT ![s] = x.snapshot]
    BY <1>3 DEF WaiterProceeds
  <2>2. HandsOut(x, w).state = x.state /\ HandsOut(x, w).subscribed = x.subscribed
    BY <1>1, HandsOutResult DEF Alike
  <2>3. \A t \in Sessions : Same(t)
    BY <1>1, <2>1, <2>2, OneSame
  <2>4. x.state = "open" /\ x.hasValue /\ Available(s) /\ ~x.catchup
    BY <1>3 DEF WaiterProceeds, MustWait
  <2>5. Fits(x, out[s], cover[s])
    BY <2>4, OpenSession
  <2>6. x.snapshot \in Nat /\ out[s] <= x.snapshot /\ cover[s] <= x.snapshot /\ x.snapshot <= version
    BY <1>1, <2>4, <2>5 DEF Fits, SessionOK, OpenOK, Session, SessionType
  <2>7. Hands(s)
    BY <2>1, <2>4, <2>6 DEF Hands
  <2>8. QED
    BY <1>1, <2>3, <2>7 DEF Effect
<1>4. QED
  BY <1>2, <1>3

LEMMA ReadEffect ==
  ASSUME ObservationInv, NEW s \in Sessions, ReadSettles(s)
  PROVE  Effect
<1> DEFINE x == session[s]
<1>1. session \in [Sessions -> Session] /\ x \in Session /\ UNCHANGED version
  BY DEF ObservationInv, SessionTypes, ReadSettles, sessionOnly
<1>2. x.state = "open" /\ x.read = "reading"
  BY DEF ReadSettles
<1>3. CASE ~IsCurrent(s)
  <2> DEFINE y == [x EXCEPT !.read = "gate"]
  <2>1. session' = [session EXCEPT ![s] = y] /\ UNCHANGED out
    BY <1>3 DEF ReadSettles
  <2>2. y.state = x.state /\ y.subscribed = x.subscribed
    BY <1>1 DEF Session, SessionType
  <2> HIDE DEF y
  <2>3. \A t \in Sessions : Same(t)
    BY <1>1, <2>1, <2>2, OneSame
  <2>4. QED
    BY <1>1, <2>1, <2>3 DEF Effect, Silent, Stays
<1>4. CASE IsCurrent(s)
  <2>1. PICK v \in x.readFrom .. version :
          IF ~x.hasValue THEN session' = [session EXCEPT ![s] = AfterInitialRead(x, v)] /\ UNCHANGED out
          ELSE /\ session' = [session EXCEPT ![s] = AfterRead(x, v)]
               /\ out' = IF Reaches(x) THEN [out EXCEPT ![s] = v] ELSE out
    BY <1>4, Zenon DEF ReadSettles, x
  <2>2. /\ x.entry = current /\ Available(s) /\ x.readGeneration = entry[current].generation
        /\ Fits(x, out[s], cover[s]) /\ out[s] \in Int /\ cover[s] \in Nat /\ version \in Nat
    BY <1>2, <1>4, OpenSession DEF IsCurrent
  <2>3. x.readFrom \in Nat /\ x.snapshot \in Nat
    BY <1>1 DEF Session, SessionType
  <2>4. v \in Nat /\ x.readFrom <= v /\ v <= version
    BY <2>1, <2>2, <2>3
  <2> HIDE DEF x
  <2>5. cover[s] <= x.readFrom /\ (x.hasValue => out[s] <= x.snapshot /\ x.snapshot <= x.readFrom)
    BY <1>2, <2>2 DEF Fits, SessionOK, OpenOK
  <2>6. CASE ~x.hasValue
    <3>1. session' = [session EXCEPT ![s] = AfterInitialRead(x, v)] /\ UNCHANGED out
      BY <2>1, <2>6
    <3>2. AfterInitialRead(x, v).state = x.state /\ AfterInitialRead(x, v).subscribed = x.subscribed
      BY <1>1, <2>4, AfterInitialReadResult
    <3>3. \A t \in Sessions : Same(t)
      BY <1>1, <3>1, <3>2, OneSame DEF x
    <3>4. QED
      BY <1>1, <3>1, <3>3 DEF Effect, Silent, Stays
  <2>7. CASE x.hasValue
    <3>1. session' = [session EXCEPT ![s] = AfterRead(x, v)]
      BY <2>1, <2>7
    <3>2. AfterRead(x, v).state = x.state /\ AfterRead(x, v).subscribed = x.subscribed
      BY <1>1, <2>4, AfterReadResult
    <3>3. \A t \in Sessions : Same(t)
      BY <1>1, <3>1, <3>2, OneSame DEF x
    <3>4. CASE Reaches(x)
      <4>1. out' = [out EXCEPT ![s] = v]
        BY <2>1, <2>7, <3>4
      <4>2. out[s] <= v /\ cover[s] <= v
        BY <2>2, <2>3, <2>4, <2>5, <2>7
      <4>3. Hands(s)
        BY <1>2, <2>2, <2>4, <4>1, <4>2 DEF Hands, x
      <4>4. QED
        BY <1>1, <3>3, <4>3 DEF Effect
    <3>5. CASE ~Reaches(x)
      <4>1. UNCHANGED out
        BY <2>1, <2>7, <3>5
      <4>2. QED
        BY <1>1, <3>3, <4>1 DEF Effect, Silent, Stays
    <3>6. QED
      BY <3>4, <3>5
  <2>8. QED
    BY <2>6, <2>7
<1>5. QED
  BY <1>3, <1>4

\* The sessions whose step hands nothing out.
LEMMA QuietEffect ==
  ASSUME ObservationInv, NEW s \in Sessions,
         \/ Acquire(s) \/ Readies(s) \/ CloseSession(s) \/ Adopt(s) \/ Current(s) \/ PumpRuns(s)
         \/ ReadStarts(s) \/ ReadFails(s)
  PROVE  Effect
<1> DEFINE x == session[s]
<1>1. session \in [Sessions -> Session] /\ x \in Session /\ UNCHANGED version
  BY DEF ObservationInv, SessionTypes, Acquire, Readies, LeaseStarts, LeaseResolves, LeaseRoutes, LeaseRefused,
         CloseSession, Adopt, Current, PumpRuns, ReadStarts, ReadFails, sessionOnly
<1>2. UNCHANGED out
  BY DEF Acquire, Readies, LeaseStarts, LeaseResolves, LeaseRoutes, LeaseRefused,
         CloseSession, Adopt, Current, PumpRuns, ReadStarts, ReadFails
<1>3. ASSUME NEW y, session' = [session EXCEPT ![s] = y], y.state = x.state, y.subscribed = x.subscribed
      PROVE  Effect
  <2>1. \A t \in Sessions : Same(t)
    BY <1>1, <1>3, OneSame
  <2>2. QED
    BY <1>1, <1>2, <2>1 DEF Effect, Silent, Stays
<1>4. ASSUME NEW y, session' = [session EXCEPT ![s] = y], y.state = "open",
             \/ x.state = "idle" /\ ~y.subscribed
             \/ x.state = "open" /\ ~x.subscribed /\ y.subscribed
      PROVE  Effect
  <2>1. session'[s] = y /\ \A t \in Sessions \ {s} : session'[t] = session[t]
    BY <1>1, <1>4
  <2>2. Enters(s)
    BY <1>4, <2>1 DEF Enters
  <2>3. QED
    BY <1>1, <1>2, <2>1, <2>2 DEF Effect, Silent
<1>5. ASSUME NEW e, x.state = "open", End({s}, e) PROVE Effect
  <2>1. \A t \in Sessions : Stays(t)
    BY <1>1, <1>5, EndStays
  <2>2. QED
    BY <1>1, <1>2, <2>1 DEF Effect, Silent
<1>6. CASE Acquire(s)
  <2>1. PICK e : session' = [session EXCEPT ![s] = Opened(e)]
    BY <1>6 DEF Acquire
  <2>2. Opened(e).state = "open" /\ ~Opened(e).subscribed
    BY DEF Opened, IdleSession
  <2>3. x.state = "idle"
    BY <1>6 DEF Acquire
  <2>4. QED
    BY <1>4, <2>1, <2>2, <2>3
<1>7. CASE Adopt(s)
  <2> DEFINE y == [x EXCEPT !.subscribed = TRUE, !.adopt = "called"]
  <2>1. session' = [session EXCEPT ![s] = y] /\ x.state = "open" /\ ~x.subscribed
    BY <1>7, Zenon DEF Adopt
  <2>2. y.state = x.state /\ y.subscribed
    BY <1>1 DEF Session, SessionType
  <2> HIDE DEF y
  <2>3. QED
    BY <1>4, <2>1, <2>2
<1>8. CASE CloseSession(s) \/ LeaseRefused(s)
  BY <1>5, <1>8 DEF CloseSession, LeaseRefused
<1>9. CASE LeaseStarts(s)
  <2> DEFINE y == [x EXCEPT !.lease = "resolve"]
  <2>1. session' = [session EXCEPT ![s] = y]
    BY <1>9, Zenon DEF LeaseStarts
  <2>2. y.state = x.state /\ y.subscribed = x.subscribed
    BY <1>1 DEF Session, SessionType
  <2> HIDE DEF y
  <2>3. QED
    BY <1>3, <2>1, <2>2
<1>10. CASE LeaseResolves(s)
  <2> DEFINE y == [x EXCEPT !.lease = "validate"]
  <2>1. session' = [session EXCEPT ![s] = y]
    BY <1>10, Zenon DEF LeaseResolves
  <2>2. y.state = x.state /\ y.subscribed = x.subscribed
    BY <1>1 DEF Session, SessionType
  <2> HIDE DEF y
  <2>3. QED
    BY <1>3, <2>1, <2>2
<1>11. CASE LeaseRoutes(s)
  <2> DEFINE y == [x EXCEPT !.lease = "routed", !.read = "gate"]
  <2>1. session' = [session EXCEPT ![s] = y]
    BY <1>1, <1>11 DEF LeaseRoutes
  <2>2. y.state = x.state /\ y.subscribed = x.subscribed
    BY <1>1 DEF Session, SessionType
  <2> HIDE DEF y
  <2>3. QED
    BY <1>3, <2>1, <2>2
<1>12. CASE Current(s)
  <2> DEFINE y == [x EXCEPT !.current = "called"]
  <2>1. session' = [session EXCEPT ![s] = y]
    BY <1>12, Zenon DEF Current
  <2>2. y.state = x.state /\ y.subscribed = x.subscribed
    BY <1>1 DEF Session, SessionType
  <2> HIDE DEF y
  <2>3. QED
    BY <1>3, <2>1, <2>2
<1>13. CASE PumpRuns(s)
  <2> DEFINE z == [x EXCEPT !.scheduled = FALSE]
  <2>1. session' = [session EXCEPT ![s] = Pumped(z)]
    BY <1>13, Zenon DEF PumpRuns
  <2>2. z \in Session /\ z.state = x.state /\ z.subscribed = x.subscribed
    BY <1>1 DEF Session, SessionType
  <2> HIDE DEF z
  <2>3. Pumped(z).state = x.state /\ Pumped(z).subscribed = x.subscribed
    BY <2>2, PumpedResult DEF Alike
  <2>4. QED
    BY <1>3, <2>1, <2>3
<1>14. CASE ReadStarts(s)
  <2> DEFINE g == entry[session[s].entry].generation
             y == [x EXCEPT !.read = "reading", !.readFrom = version, !.readGeneration = g]
  <2>1. session' = [session EXCEPT ![s] = y]
    BY <1>14, Zenon DEF ReadStarts
  <2> HIDE DEF g
  <2>2. y.state = x.state /\ y.subscribed = x.subscribed
    BY <1>1 DEF Session, SessionType
  <2> HIDE DEF y
  <2>3. QED
    BY <1>3, <2>1, <2>2
<1>15. CASE ReadFails(s)
  <2> DEFINE y == [x EXCEPT !.read = "gate"]
  <2>1. CASE End({s}, session[s].entry)
    <3>1. x.state = "open"
      BY <1>15 DEF ReadFails
    <3>2. QED
      BY <1>5, <2>1, <3>1
  <2>2. CASE session' = [session EXCEPT ![s] = y]
    <3>1. y.state = x.state /\ y.subscribed = x.subscribed
      BY <1>1 DEF Session, SessionType
    <3> HIDE DEF y
    <3>2. QED
      BY <1>3, <2>2, <3>1
  <2>3. QED
    BY <1>15, <2>1, <2>2, Zenon DEF ReadFails
<1>16. QED
  BY <1>6, <1>7, <1>8, <1>9, <1>10, <1>11, <1>12, <1>13, <1>14, <1>15 DEF Readies

LEMMA StepEffect == ASSUME ObservationInv, [Next]_vars PROVE Effect
<1>1. CASE UNCHANGED vars
  BY <1>1 DEF vars, Effect, Silent, Stays, Same
<1>2. ASSUME NEW e \in Entries,
             Opens(e) \/ Recovers(e) \/ LossDetected(e) \/ ListenerFails(e) \/ HeartbeatSucceeds(e) \/ Notified(e)
      PROVE  Effect
  BY <1>2, ListenerEffect
<1>3. ASSUME NEW c \in Connections, Break(c) \/ LateFactorySettles(c) \/ CloseSettles(c) \/ CloseTimesOut(c)
      PROVE  Effect
  BY <1>3 DEF Break, LateFactorySettles, CloseSettles, CloseTimesOut, Effect, Silent, Stays, Same
<1>4. ASSUME NEW s \in Sessions,
             \/ Acquire(s) \/ Readies(s) \/ CloseSession(s) \/ Adopt(s) \/ Current(s)
             \/ \E w \in Waiters : WaiterProceeds(s, w)
             \/ PumpRuns(s) \/ Reads(s)
      PROVE  Effect
  <2>1. CASE \E w \in Waiters : WaiterProceeds(s, w)
    BY <2>1, WaiterEffect
  <2>2. CASE Reads(s)
    BY <2>2, QuietEffect, ReadEffect DEF Reads
  <2>3. CASE Acquire(s) \/ Readies(s) \/ CloseSession(s) \/ Adopt(s) \/ Current(s) \/ PumpRuns(s)
    BY <2>3, QuietEffect
  <2>4. QED
    BY <1>4, <2>1, <2>2, <2>3
<1>5. CASE Commit
  BY <1>5 DEF Commit, Effect
<1>6. CASE Dispose
  <2>1. session \in [Sessions -> Session] /\ Silent
    BY <1>6 DEF ObservationInv, SessionTypes, Dispose, Silent
  <2>2. CASE End(Leases(current), current)
    BY <2>1, <2>2, EndStays DEF Effect, Leases
  <2>3. CASE UNCHANGED session
    BY <2>1, <2>3 DEF Effect, Stays, Same
  <2>4. QED
    BY <1>6, <2>2, <2>3 DEF Dispose
<1>7. CASE Drains
  BY <1>7 DEF Drains, FactoryDeadline, DrainSettles, Effect, Silent, Stays, Same
<1>8. QED
  BY <1>1, <1>2, <1>3, <1>4, <1>5, <1>6, <1>7 DEF Next

\* A session hands out a snapshot only while its listener is available, and a
\* later one than before that is no older than the last recovery: current() and
\* adopt() wait for a catch-up that is due, and a read that raced a lost
\* connection is repeated (DrizzleObservationSession.ts 98-107, 123-138).
THEOREM FreshHandoutsHold == Safety => FreshHandouts
<1>1. ASSUME ObservationInv, [Next]_vars
      PROVE  [\A s \in Sessions : out'[s] # out[s] => out'[s] > out[s] /\ out'[s] >= cover[s] /\ Available(s)]_vars
  <2> SUFFICES ASSUME NEW s \in Sessions, out'[s] # out[s]
               PROVE  out'[s] > out[s] /\ out'[s] >= cover[s] /\ Available(s)
    OBVIOUS
  <2>1. out \in [Sessions -> Int] /\ cover[s] \in Nat
    BY <1>1 DEF ObservationInv, SessionTypes
  <2>2. PICK t \in Sessions : Hands(t)
    BY <1>1, StepEffect DEF Effect, Silent
  <2>3. PICK o \in Nat : out' = [out EXCEPT ![t] = o] /\ out[t] <= o /\ cover[t] <= o
    BY <2>2 DEF Hands
  <2>4. s = t /\ out'[s] = o
    BY <2>1, <2>3
  <2>5. out[s] \in Int
    BY <2>1
  <2>6. QED
    BY <2>1, <2>2, <2>3, <2>4, <2>5 DEF Hands
<1>2. QED
  BY <1>1, ObservationInvariant, PTL DEF Safety, FreshHandouts

(***************************************************************************)
(* The observation implements the contract of a live query, step by step   *)
(***************************************************************************)

\* What a session does is what the contract calls it.
LEMMA StatusResult ==
  ASSUME NEW x \in Session
  PROVE  /\ x.state = "idle" => SessionStatus(x) = "off"
         /\ x.state = "open" => SessionStatus(x) = IF x.subscribed THEN "watched" ELSE "open"
         /\ x.state = "closed" => SessionStatus(x) = "ended"
         /\ x.state \in {"idle", "open", "closed"}
<1>1. x.state \in {"idle", "open", "closed"}
  BY DEF Session, SessionType
<1>2. QED
  BY <1>1 DEF SessionStatus

LEMMA StepImplements ==
  ASSUME ObservationInv, ObservationInv', [Next]_vars
  PROVE  [LiveQuery!Next]_(LiveQuery!vars)
<1> DEFINE db == [k \in {"table"} |-> version]
           status == [s \in Sessions |-> SessionStatus(session[s])]
           view == [s \in Sessions |-> [k \in {"table"} |-> out[s]]]
<1>1. /\ Effect /\ session \in [Sessions -> Session] /\ session' \in [Sessions -> Session]
      /\ out \in [Sessions -> Int] /\ version \in Nat
  BY StepEffect DEF ObservationInv, SessionTypes
<1>2. ASSUME NEW s \in Sessions, Same(s) PROVE status'[s] = status[s]
  BY <1>2 DEF Same, SessionStatus
<1>3. ASSUME version' = version + 1, UNCHANGED <<session, out>> PROVE LiveQuery!Change("table")
  <2>1. db' = [db EXCEPT !["table"] = db["table"] + 1]
    BY <1>3
  <2>2. UNCHANGED <<status, view>>
    BY <1>3
  <2>3. QED
    BY <2>1, <2>2 DEF LiveQuery!Change
<1>4. ASSUME Silent, \A s \in Sessions : Stays(s) PROVE \E S \in SUBSET Sessions : LiveQuery!End(S)
  <2>1. PICK S \in SUBSET Sessions : S = {s \in Sessions : ~Same(s)}
    OBVIOUS
  <2>2. ASSUME NEW s \in S PROVE status[s] # "ended" /\ status'[s] = "ended"
    <3>1. s \in Sessions /\ session[s].state = "open" /\ session'[s].state = "closed"
      BY <1>4, <2>1 DEF Stays
    <3>2. session[s] \in Session /\ session'[s] \in Session
      BY <1>1, <3>1
    <3>3. SessionStatus(session[s]) # "ended" /\ SessionStatus(session'[s]) = "ended"
      BY <3>1, <3>2, StatusResult
    <3>4. QED
      BY <3>1, <3>3
  <2>3. \A s \in Sessions : status'[s] = IF s \in S THEN "ended" ELSE status[s]
    BY <1>2, <2>1, <2>2
  <2>4. status' = [s \in Sessions |-> IF s \in S THEN "ended" ELSE status[s]]
    BY <2>3
  <2>5. UNCHANGED <<db, view>>
    BY <1>4 DEF Silent
  <2>6. LiveQuery!End(S)
    BY <2>2, <2>4, <2>5 DEF LiveQuery!End
  <2>7. QED
    BY <2>6
<1>5. ASSUME Silent, NEW s \in Sessions, Enters(s), \A t \in Sessions \ {s} : session'[t] = session[t]
      PROVE  LiveQuery!Open(s) \/ LiveQuery!Watch(s)
  <2>1. session[s] \in Session /\ session'[s] \in Session /\ UNCHANGED <<db, view>>
    BY <1>1, <1>5 DEF Silent
  <2>2. \A t \in Sessions \ {s} : status'[t] = status[t]
    BY <1>5
  <2>3. \/ status[s] = "off" /\ status'[s] = "open"
        \/ status[s] = "open" /\ status'[s] = "watched"
    BY <1>5, <2>1, StatusResult DEF Enters
  <2>4. status' = [status EXCEPT ![s] = status'[s]]
    BY <2>2
  <2>5. CASE status[s] = "off" /\ status'[s] = "open"
    BY <2>1, <2>4, <2>5 DEF LiveQuery!Open
  <2>6. CASE status[s] = "open" /\ status'[s] = "watched"
    BY <2>1, <2>4, <2>6 DEF LiveQuery!Watch
  <2>7. QED
    BY <2>3, <2>5, <2>6
<1>6. ASSUME UNCHANGED version, \A t \in Sessions : Same(t), NEW s \in Sessions, Hands(s)
      PROVE  LiveQuery!Show(s)
  <2>1. UNCHANGED <<db, status>>
    BY <1>2, <1>6
  <2>2. session[s] \in Session /\ session[s].state = "open"
    BY <1>1, <1>6 DEF Hands
  <2>3. status[s] \in {"open", "watched"}
    BY <2>2, StatusResult
  <2>4. PICK o \in Nat : out' = [out EXCEPT ![s] = o] /\ out[s] <= o /\ o <= version
    BY <1>6 DEF Hands
  <2>5. out'[s] = o /\ out[s] \in Int /\ \A t \in Sessions \ {s} : out'[t] = out[t]
    BY <1>1, <2>4
  <2>6. \A k \in {"table"} : view'[s][k] \in view[s][k] .. db[k] /\ view'[s][k] >= 0
    BY <1>1, <2>4, <2>5
  <2>7. \A t \in Sessions \ {s} : view'[t] = view[t]
    BY <2>5
  <2>8. QED
    BY <2>1, <2>3, <2>6, <2>7 DEF LiveQuery!Show
<1> HIDE DEF db, status, view
<1>7. CASE version' = version + 1 /\ UNCHANGED <<session, out>>
  BY <1>3, <1>7 DEF LiveQuery!Next
<1>8. CASE Silent /\ \A s \in Sessions : Stays(s)
  BY <1>4, <1>8 DEF LiveQuery!Next
<1>9. CASE Silent /\ \E s \in Sessions : Enters(s) /\ \A t \in Sessions \ {s} : session'[t] = session[t]
  BY <1>5, <1>9 DEF LiveQuery!Next
<1>10. CASE UNCHANGED version /\ (\A s \in Sessions : Same(s)) /\ \E s \in Sessions : Hands(s)
  BY <1>6, <1>10 DEF LiveQuery!Next
<1>11. QED
  BY <1>1, <1>7, <1>8, <1>9, <1>10 DEF Effect

\* The safety half of ImplementsLiveQuery: across lost listeners, recoveries and
\* reads that raced them, a session shows its subscriber committed states only,
\* never an older one after a later one, and nothing once it ended
\* (DrizzleObservationSession.ts 110-172).
THEOREM ObservationImplementsLiveQuery == Safety => LiveQuery!Init /\ [][LiveQuery!Next]_(LiveQuery!vars)
<1>1. Init => LiveQuery!Init
  <2> SUFFICES ASSUME Init PROVE LiveQuery!Init
    OBVIOUS
  <2>1. SessionStatus(IdleSession) = "off"
    BY NewSessions, StatusResult
  <2>2. [k \in {"table"} |-> version] = [k \in {"table"} |-> 0]
    BY DEF Init
  <2>3. [s \in Sessions |-> SessionStatus(session[s])] = [s \in Sessions |-> "off"]
    BY <2>1 DEF Init
  <2>4. [s \in Sessions |-> [k \in {"table"} |-> out[s]]] = [s \in Sessions |-> [k \in {"table"} |-> -1]]
    BY DEF Init
  <2>5. QED
    BY <2>2, <2>3, <2>4 DEF LiveQuery!Init, LiveQuery!Nothing
<1>2. QED
  BY <1>1, StepImplements, ObservationInvariant, PTL DEF Safety
=============================================================================
