--------------------------- MODULE MongoDBWatcher ---------------------------
(***************************************************************************)
(* Source/MongoDB/MongoDBWatcher.ts: the subscribers of a scope share one  *)
(* change stream.  The first opens it, the last to leave closes it, a      *)
(* failure of the stream ends all of them, and the disposal of the scope   *)
(* ends everything.  A joined query (select) reads all its collections     *)
(* again after every change; a raw feed (changes) passes the events on.    *)
(*                                                                         *)
(* MongoDB is external: it answers hello with a time between call and      *)
(* answer, delivers the events after that time in their order, and a find  *)
(* sees every change whose event was delivered before it.                  *)
(***************************************************************************)
EXTENDS Integers, Sequences, FiniteSets

CONSTANTS
  Subs,        \* the subscribe() calls; each subscription is used once
  Feeds,       \* those on changes()
  Collections,
  ReadsFrom,   \* the collections of each subscription
  MaxChanges,  \* bound: changes of the database
  None

ASSUME SubsKnown == Feeds \subseteq Subs /\ None \notin Subs /\ ReadsFrom \in [Subs -> (SUBSET Collections) \ {{}}]

VARIABLES
  log,       \* the changes of the database, by collection
  listeners, \* #listeners
  opening,   \* #opening: the subscription whose listen() called start()
  current,   \* #stream: the start that opened it
  disposed,  \* #disposed
  start,     \* the start() call of each subscription
  sub        \* the subscriptions

vars == <<log, listeners, opening, current, disposed, start, sub>>

\* cursor: the ChangeStream; read: how many events the pump took from it;
\* failed: the listeners its pump reports the failure to once it is closed.
NoStart == [state |-> "none", stale |-> FALSE, since |-> 0, cursor |-> "none", read |-> 0, failed |-> {}]
NoSub == [phase |-> "off", waitsFor |-> None, dirty |-> FALSE, running |-> FALSE, values |-> << >>,
          view |-> << >>, seen |-> -1, gap |-> FALSE]

VersionOf(k) == Cardinality({n \in 1..Len(log) : log[n] = k})
Open(x) == x.phase \in {"opening", "live"}
\* A subscriber that is closed keeps nothing but what its listen() awaits.
Shut(x) ==
  [NoSub EXCEPT !.view = x.view, !.gap = x.gap,
                !.phase = IF x.phase = "opening" THEN "abandoned" ELSE "closed",
                !.waitsFor = IF x.phase = "opening" THEN x.waitsFor ELSE None]
ShutAll(S) == [s \in Subs |-> IF s \in S /\ Open(sub[s]) THEN Shut(sub[s]) ELSE sub[s]]

----------------------------------------------------------------------------
(* The shared stream *)

\* stop(): the generation ends, a start in flight is stale, the stream is closed.
stop(st) ==
  /\ opening' = None /\ current' = None
  /\ start' = [s \in Subs |->
       [st[s] EXCEPT !.stale = st[s].state = "hello", !.cursor = IF s = current THEN "closing" ELSE @]]

\* The function listen() returns.
release(S) ==
  /\ listeners' = listeners \ S
  /\ IF listeners \ S = {} THEN stop(start) ELSE UNCHANGED <<opening, current, start>>

\* subscribe(): listen() adds the listener before it awaits the stream.
Subscribe(s) ==
  /\ sub[s].phase = "off"
  /\ IF disposed
     THEN sub' = [sub EXCEPT ![s] = Shut(@)] /\ UNCHANGED <<listeners, opening, start>>
     ELSE /\ listeners' = listeners \cup {s}
          /\ opening' = IF opening = None THEN s ELSE opening
          /\ start' = IF opening # None THEN start
                      ELSE [start EXCEPT ![s] = [NoStart EXCEPT !.state = "hello", !.since = Len(log)]]
          /\ sub' = [sub EXCEPT ![s].phase = "opening", ![s].waitsFor = opening']
  /\ UNCHANGED <<log, current, disposed>>

\* An answer of the server is a task of its own: what awaits a start that has
\* settled continues before it.
Answerable(i) ==
  /\ start[i].state = "hello"
  /\ \A s \in Subs : sub[s].phase \in {"opening", "abandoned"} => start[sub[s].waitsFor].state = "hello"

\* start() after hello.
HelloAnswers(i) ==
  /\ Answerable(i)
  /\ IF disposed \/ start[i].stale
     THEN start' = [start EXCEPT ![i].state = "done"] /\ UNCHANGED <<opening, current>>
     ELSE IF listeners = {}
     THEN start' = [start EXCEPT ![i].state = "done"] /\ opening' = None /\ UNCHANGED current
     ELSE /\ \E time \in start[i].since .. Len(log) :
               start' = [start EXCEPT ![i] = [NoStart EXCEPT !.state = "done", !.cursor = "open", !.read = time]]
          /\ current' = i
          /\ UNCHANGED opening
  /\ UNCHANGED <<log, listeners, disposed, sub>>
HelloFails(i) ==
  /\ Answerable(i)
  /\ start' = [start EXCEPT ![i].state = "failed"]
  /\ opening' = IF start[i].stale THEN opening ELSE None
  /\ UNCHANGED <<log, listeners, current, disposed, sub>>

----------------------------------------------------------------------------
(* Subscriptions *)

\* read(): one at a time; it notes a version of every collection.
read(x) == IF x.running \/ ~Open(x) THEN x ELSE [x EXCEPT !.running = TRUE, !.dirty = FALSE, !.values = << >>]

\* The callbacks given to listen(), for event n of the log.
ChangedWhileIdle(s, x, n) ==
  IF s \in Feeds THEN [x EXCEPT !.seen = n, !.gap = @ \/ (x.seen # -1 /\ x.seen + 1 # n)]
  ELSE IF log[n] \in ReadsFrom[s] THEN read(x) ELSE x
changed(s, x, n) ==
  IF s \in Feeds THEN [x EXCEPT !.seen = n, !.gap = @ \/ (x.seen # -1 /\ x.seen + 1 # n)]
  ELSE IF log[n] \in ReadsFrom[s] THEN read([x EXCEPT !.dirty = TRUE]) ELSE x

\* A raw feed that has seen no event begins where the stream stands.
Begins(x) == IF x.seen = -1 /\ current # None THEN [x EXCEPT !.seen = start[current].read] ELSE x

\* listen() resolves: a subscriber that left meanwhile releases at once.
ListenForgetsClosed(s) ==
  /\ sub[s].phase \in {"opening", "abandoned"} /\ start[sub[s].waitsFor].state = "done"
  /\ sub' = [sub EXCEPT ![s] = IF sub[s].phase = "abandoned" \/ disposed THEN Shut([sub[s] EXCEPT !.phase = "live"])
                               ELSE LET x == [sub[s] EXCEPT !.phase = "live"]
                                    IN IF s \in Feeds THEN Begins(x) ELSE read(x)]
  /\ UNCHANGED <<log, current, disposed, listeners, opening, start>>
ListenResolves(s) ==
  /\ sub[s].phase \in {"opening", "abandoned"}
  /\ start[sub[s].waitsFor].state = "done"
  /\ LET x == [sub[s] EXCEPT !.phase = "live"] IN
     IF disposed
     THEN /\ sub' = [sub EXCEPT ![s] = Shut(x)] /\ listeners' = listeners \ {s}
          /\ UNCHANGED <<opening, current, start>>
     ELSE IF sub[s].phase = "abandoned"
     THEN sub' = [sub EXCEPT ![s] = Shut(x)] /\ release({s})
     ELSE /\ sub' = [sub EXCEPT ![s] = IF s \in Feeds THEN Begins(x) ELSE read(x)]
          /\ UNCHANGED <<listeners, opening, current, start>>
  /\ UNCHANGED <<log, disposed>>
ListenFails(s) ==
  /\ sub[s].phase \in {"opening", "abandoned"}
  /\ start[sub[s].waitsFor].state = "failed"
  /\ sub' = [sub EXCEPT ![s] = Shut([@ EXCEPT !.phase = "live"])]
  /\ listeners' = listeners \ {s}
  /\ UNCHANGED <<log, opening, current, disposed, start>>

\* The subscriber leaves; before listen() has resolved there is nothing to release.
Unsubscribe(s) ==
  /\ Open(sub[s])
  /\ sub' = ShutAll({s})
  /\ IF sub[s].phase = "live" THEN release({s}) ELSE UNCHANGED <<listeners, opening, current, start>>
  /\ UNCHANGED <<log, disposed>>

ReadCollection(s, k) ==
  /\ sub[s].running /\ k \in ReadsFrom[s] \ DOMAIN sub[s].values
  /\ sub' = [sub EXCEPT ![s].values = [c \in DOMAIN @ \cup {k} |-> IF c = k THEN VersionOf(k) ELSE @[c]]]
  /\ UNCHANGED <<log, listeners, opening, current, disposed, start>>
\* All collections are read: the value is emitted, and a change since is read again.
ReadSettles(s) ==
  LET x == [sub[s] EXCEPT !.view = sub[s].values, !.running = FALSE, !.values = << >>] IN
  /\ sub[s].running /\ DOMAIN sub[s].values = ReadsFrom[s]
  /\ sub' = [sub EXCEPT ![s] = IF x.dirty THEN read(x) ELSE x]
  /\ UNCHANGED <<log, listeners, opening, current, disposed, start>>
ReadFails(s) ==
  /\ sub[s].running
  /\ sub' = ShutAll({s})
  /\ IF sub[s].phase = "live" THEN release({s}) ELSE UNCHANGED <<listeners, opening, current, start>>
  /\ UNCHANGED <<log, disposed>>

----------------------------------------------------------------------------
(* pump() *)

PumpEvent(i) ==
  LET n == start[i].read + 1 IN
  /\ start[i].cursor = "open" /\ i = current /\ ~disposed
  /\ n <= Len(log)
  /\ start' = [start EXCEPT ![i].read = n]
  /\ sub' = [s \in Subs |-> IF s \in listeners /\ Open(sub[s]) THEN changed(s, sub[s], n) ELSE sub[s]]
  /\ UNCHANGED <<log, listeners, opening, current, disposed>>
\* The stream fails or ends: its listeners are taken off and told once it is closed.
PumpFailsQuietly(i) ==
  /\ start[i].cursor = "open" /\ i = current /\ ~disposed
  /\ stop([start EXCEPT ![i].failed = listeners])
  /\ UNCHANGED <<log, disposed, listeners, sub>>
PumpFails(i) ==
  /\ start[i].cursor = "open" /\ i = current /\ ~disposed
  /\ stop([start EXCEPT ![i].failed = listeners])
  /\ listeners' = {}
  /\ UNCHANGED <<log, disposed, sub>>
\* stream.close() settles; the errors end subscriptions, which release what they held.
StreamCloses(i) ==
  LET S == {s \in start[i].failed : Open(sub[s])}
      closed == [start EXCEPT ![i] = [NoStart EXCEPT !.state = "done"]]
  IN
  /\ start[i].cursor = "closing"
  /\ sub' = ShutAll(S)
  /\ listeners' = listeners \ S
  /\ IF \E s \in S : sub[s].phase = "live" /\ listeners \ {s} = {}
     THEN stop(closed) ELSE start' = closed /\ UNCHANGED <<opening, current>>
  /\ UNCHANGED <<log, disposed>>

\* [Symbol.asyncDispose](), also called when the scope's signal aborts.
Dispose ==
  /\ ~disposed
  /\ disposed' = TRUE
  /\ sub' = ShutAll(listeners)
  /\ listeners' = {}
  /\ stop(start)
  /\ UNCHANGED log

Change(k) ==
  /\ Len(log) < MaxChanges
  /\ log' = Append(log, k)
  /\ UNCHANGED <<listeners, opening, current, disposed, start, sub>>

----------------------------------------------------------------------------
Init ==
  /\ log = << >>
  /\ listeners = {} /\ opening = None /\ current = None /\ disposed = FALSE
  /\ start = [s \in Subs |-> NoStart]
  /\ sub = [s \in Subs |-> [NoSub EXCEPT !.view = [k \in ReadsFrom[s] |-> -1]]]

Opens(s) == HelloAnswers(s) \/ HelloFails(s)
Listens(s) == ListenResolves(s) \/ ListenFails(s)
Reads(s) == ReadSettles(s) \/ ReadFails(s) \/ \E k \in Collections : ReadCollection(s, k)
Pumps(s) == PumpEvent(s) \/ PumpFails(s)

Next ==
  \/ \E s \in Subs :
       Subscribe(s) \/ Opens(s) \/ Listens(s) \/ Unsubscribe(s) \/ Reads(s) \/ Pumps(s) \/ StreamCloses(s)
  \/ \E k \in Collections : Change(k)
  \/ Dispose

\* Commands, finds and closes settle, and an open stream delivers its events or fails.
Spec ==
  /\ Init /\ [][Next]_vars
  /\ \A s \in Subs :
       WF_vars(Opens(s)) /\ WF_vars(Listens(s)) /\ WF_vars(Reads(s)) /\ WF_vars(StreamCloses(s))
       /\ WF_vars(start[s].read < Len(log) /\ Pumps(s))

----------------------------------------------------------------------------
(* Properties *)

\* What select() shows: the watcher implements the contract of a live query.
Queries == Subs \ Feeds
LiveQuery == INSTANCE LiveQuery WITH
  Subscribers <- Queries, Sources <- Collections,
  db <- [k \in Collections |-> VersionOf(k)],
  status <- [s \in Queries |-> CASE sub[s].phase = "off" -> "off" [] Open(sub[s]) -> "watched" [] OTHER -> "ended"],
  view <- [s \in Queries |-> sub[s].view]

\* A joined query never shows an older state of a collection, and every change of
\* its collections is shown or the subscription ends, whatever subscribing,
\* leaving, failing streams and running reads do in between (select, lines 46-76).
ImplementsLiveQuery == LiveQuery!Spec

\* The one open cursor and the subscriptions belong together.  An open cursor is
\* the watcher's and one of its listeners is not closed: the last to leave closes
\* it, also one that left while it was opening (lines 69-73, 90-93).  A
\* subscription whose listen() has resolved is fed by the open stream until it
\* learns that the stream failed: no stop() or stale start() leaves it with
\* nothing (listen and start, lines 83-112).
StreamServesListeners ==
  /\ \A i \in Subs : start[i].cursor = "open" => i = current /\ \E s \in listeners : sub[s].phase # "closed"
  /\ \A s \in Subs : sub[s].phase = "live" =>
       \/ s \in listeners /\ current # None
       \/ \E i \in Subs : s \in start[i].failed

\* A raw feed has no holes from where its stream stands when listen() resolves:
\* it is never moved to a stream that started later (pump, lines 122-128; "does not
\* silently reconnect and skip an unknown interval",
\* Documentation/mongodb/change-stream-watcher.md:34).
FeedHasNoGap == \A s \in Feeds : ~sub[s].gap
=============================================================================
