------------------------ MODULE MongoDBWatcherProofs ------------------------
(* Proofs about MongoDBWatcher, for any number of subscriptions,           *)
(* collections and changes.                                                *)
EXTENDS MongoDBWatcher, FiniteSetTheorems, TLAPS

(***************************************************************************)
(* The inductive invariant                                                 *)
(***************************************************************************)

Versions == {<< >>} \cup UNION {[S -> Int] : S \in SUBSET Collections}

Start ==
  [state : {"none", "hello", "done", "failed"}, stale : BOOLEAN, since : Nat,
   cursor : {"none", "open", "closing"}, read : Nat, failed : SUBSET Subs]
Subscription ==
  [phase : {"off", "opening", "live", "abandoned", "closed"}, waitsFor : Subs \cup {None},
   dirty : BOOLEAN, running : BOOLEAN, values : Versions, view : Versions, seen : Int, gap : BOOLEAN]

WatcherTypeOK ==
  /\ log \in Seq(Collections)
  /\ listeners \subseteq Subs /\ disposed \in BOOLEAN
  /\ opening \in Subs \cup {None} /\ current \in Subs \cup {None}
  /\ start \in [Subs -> Start]
  /\ sub \in [Subs -> Subscription]

\* A start that is in flight and was not overtaken by stop() is the one of
\* #opening; only the cursor of #stream is open, and only a cursor that closes
\* owes its listeners the news of a failure.
StartOK(i) ==
  /\ start[i].state # "done" => start[i].cursor = "none"
  /\ start[i].cursor = "open" => i = current
  /\ start[i].cursor # "closing" => start[i].failed = {}
  /\ start[i].state = "hello" /\ ~start[i].stale => opening = i

\* #opening is a start in flight or the one that opened #stream.
OpeningOK ==
  opening # None =>
    \/ start[opening].state = "hello" /\ ~start[opening].stale
    \/ start[opening].state = "done" /\ current = opening

\* #stream is open and has a listener.
CurrentOK ==
  current # None =>
    /\ start[current].state = "done" /\ start[current].cursor = "open"
    /\ opening = current /\ listeners # {}

\* A listener is fed by the stream, or its listen() waits for a start that will
\* feed it, feeds it already, or failed before another one opened the stream.
ListenerOK(s) ==
  \/ sub[s].phase = "live" /\ current # None
  \/ /\ sub[s].phase \in {"opening", "abandoned"} /\ sub[s].waitsFor # None
     /\ \/ start[sub[s].waitsFor].state = "hello" /\ ~start[sub[s].waitsFor].stale
        \/ start[sub[s].waitsFor].state = "done" /\ current = sub[s].waitsFor
        \/ start[sub[s].waitsFor].state = "failed" /\ current = None

Told(s) == \E i \in Subs : s \in start[i].failed

\* A subscription that is no listener is closed, or its stream failed and it will
\* be told; then it cannot be a listener again.
SubscriptionOK(s) ==
  /\ sub[s].phase = "off" => start[s].state = "none"
  /\ Open(sub[s]) => s \in listeners \/ Told(s)
  /\ Told(s) => s \notin listeners /\ sub[s].phase # "off"

\* A raw feed has seen exactly what the pump took from the stream.
FeedOK(s) ==
  /\ ~sub[s].gap
  /\ s \in listeners /\ Open(sub[s]) /\ sub[s].seen # -1 => current # None /\ sub[s].seen = start[current].read
  /\ sub[s].phase = "off" => sub[s].seen = -1

StreamInv ==
  /\ WatcherTypeOK
  /\ \A i \in Subs : StartOK(i)
  /\ OpeningOK /\ CurrentOK
  /\ \A s \in listeners : ListenerOK(s)
  /\ \A s \in Subs : SubscriptionOK(s)
  /\ \A s \in Feeds : FeedOK(s)
  /\ disposed => listeners = {} /\ opening = None

\* A running read belongs to an open query, which shows a version of every
\* collection it reads, at most as new as what it has read since.
ReadOK(s) ==
  /\ sub[s].running => Open(sub[s]) /\ s \notin Feeds
  /\ sub[s].view \in [ReadsFrom[s] -> Int]
  /\ DOMAIN sub[s].values \subseteq ReadsFrom[s]
  /\ \A k \in ReadsFrom[s] : sub[s].view[k] \in -1 .. VersionOf(k)
  /\ \A k \in DOMAIN sub[s].values : sub[s].values[k] \in Nat /\ sub[s].values[k] \in sub[s].view[k] .. VersionOf(k)

ReadInv == \A s \in Subs : ReadOK(s)

(***************************************************************************)
(* What the helpers do to a subscription and to the starts                 *)
(***************************************************************************)

\* A subscriber that is closed keeps its value and, while listen() is in flight,
\* what it waits for.
LEMMA ShutResult ==
  ASSUME NEW x \in Subscription
  PROVE  /\ Shut(x) \in Subscription /\ ~Open(Shut(x)) /\ Shut(x).phase # "off"
         /\ Shut(x).phase = IF x.phase = "opening" THEN "abandoned" ELSE "closed"
         /\ x.phase = "opening" => Shut(x).waitsFor = x.waitsFor
         /\ Shut(x).view = x.view /\ Shut(x).gap = x.gap /\ Shut(x).seen = -1
         /\ Shut(x).running = FALSE /\ Shut(x).values = << >>
<1>1. /\ NoSub \in Subscription
      /\ NoSub.running = FALSE /\ NoSub.values = << >> /\ NoSub.seen = -1
  BY DEF NoSub, Subscription, Versions
<1>2. x.waitsFor \in Subs \cup {None} /\ x.view \in Versions /\ x.gap \in BOOLEAN
  BY DEF Subscription
<1> HIDE DEF Versions
<1>3. QED
  BY <1>1, <1>2 DEF Shut, Subscription, Open

\* read() changes what a query has read, never whether it is open.
LEMMA ReadResult ==
  ASSUME NEW x \in Subscription
  PROVE  /\ read(x) \in Subscription
         /\ read(x).phase = x.phase /\ read(x).waitsFor = x.waitsFor
         /\ read(x).view = x.view /\ read(x).seen = x.seen /\ read(x).gap = x.gap
         /\ read(x).running => x.running \/ Open(x)
         /\ read(x).values = x.values \/ read(x).values = << >>
  BY DEF read, Open, Subscription, Versions

\* A raw feed that begins notes where the stream stands, and nothing else.
LEMMA BeginsResult ==
  ASSUME NEW x \in Subscription, start \in [Subs -> Start], current \in Subs \cup {None}
  PROVE  /\ Begins(x) \in Subscription
         /\ Begins(x).phase = x.phase /\ Begins(x).waitsFor = x.waitsFor
         /\ Begins(x).view = x.view /\ Begins(x).gap = x.gap
         /\ Begins(x).running = x.running /\ Begins(x).values = x.values
         /\ Begins(x).seen = x.seen \/ (current # None /\ Begins(x).seen = start[current].read)
<1>1. CASE x.seen = -1 /\ current # None
  <2> DEFINE n == start[current].read
  <2>1. Begins(x) = [x EXCEPT !.seen = n]
    BY <1>1 DEF Begins
  <2>2. n \in Int
    BY <1>1 DEF Start
  <2>3. /\ Begins(x) \in Subscription /\ Begins(x).phase = x.phase /\ Begins(x).waitsFor = x.waitsFor
        /\ Begins(x).view = x.view /\ Begins(x).gap = x.gap
        /\ Begins(x).running = x.running /\ Begins(x).values = x.values /\ Begins(x).seen = n
    <3> HIDE DEF n
    <3>1. QED
      BY ONLY x \in Subscription, <2>1, <2>2 DEF Subscription
  <2>4. QED
    BY <1>1, <2>3
<1>2. CASE ~(x.seen = -1 /\ current # None)
  BY <1>2 DEF Begins
<1>3. QED
  BY <1>1, <1>2

\* A version is a number of changes, and no change takes one back.
LEMMA LogVersions ==
  ASSUME log \in Seq(Collections)
  PROVE  \A k : VersionOf(k) \in Nat
<1> TAKE k
<1> DEFINE S == {n \in 1..Len(log) : log[n] = k}
<1>1. IsFiniteSet(1..Len(log))
  BY FS_Interval
<1>2. IsFiniteSet(S)
  BY <1>1, FS_Subset
<1>3. QED
  BY <1>2, FS_CardinalityType DEF VersionOf

LEMMA NoStartResult ==
  /\ NoStart \in Start /\ NoStart.state = "none" /\ NoStart.stale = FALSE
  /\ NoStart.cursor = "none" /\ NoStart.failed = {}
  BY DEF NoStart, Start

LEMMA StopResult ==
  ASSUME NEW st \in [Subs -> Start], stop(st)
  PROVE  /\ opening' = None /\ current' = None /\ start' \in [Subs -> Start]
         /\ \A i \in Subs :
              /\ start'[i].state = st[i].state /\ start'[i].failed = st[i].failed
              /\ start'[i].stale <=> st[i].state = "hello"
              /\ start'[i].cursor = IF i = current THEN "closing" ELSE st[i].cursor
<1>1. \A i \in Subs :
        start'[i] = [st[i] EXCEPT !.stale = st[i].state = "hello", !.cursor = IF i = current THEN "closing" ELSE @]
  BY DEF stop
<1>2. \A i \in Subs :
        /\ start'[i] \in Start
        /\ start'[i].state = st[i].state /\ start'[i].failed = st[i].failed
        /\ start'[i].stale <=> st[i].state = "hello"
        /\ start'[i].cursor = IF i = current THEN "closing" ELSE st[i].cursor
  <2> TAKE i \in Subs
  <2>1. st[i] \in Start /\ (st[i].state = "hello") \in BOOLEAN
    OBVIOUS
  <2>2. start'[i] = [st[i] EXCEPT !.stale = st[i].state = "hello", !.cursor = IF i = current THEN "closing" ELSE @]
    BY <1>1
  <2>3. QED
    BY <2>1, <2>2 DEF Start
<1>3. start' \in [Subs -> Start]
  BY <1>2 DEF stop
<1>4. QED
  BY <1>2, <1>3 DEF stop

(***************************************************************************)
(* Steps that leave the stream alone, and steps that stop it               *)
(***************************************************************************)

\* The ways in which a subscription, its place among the listeners included, may
\* change while the stream stays what it is.
Keeps(s) ==
  /\ sub'[s].phase = sub[s].phase /\ sub'[s].waitsFor = sub[s].waitsFor
  /\ sub'[s].seen = sub[s].seen /\ sub'[s].gap = sub[s].gap
  /\ s \in listeners' <=> s \in listeners
Leaves(s) ==
  /\ ~Open(sub'[s]) /\ sub'[s].phase # "off" /\ sub'[s].gap = sub[s].gap
  /\ s \notin listeners'
Abandons(s) ==
  /\ sub[s].phase = "opening" /\ sub'[s].phase = "abandoned" /\ sub'[s].waitsFor = sub[s].waitsFor
  /\ sub'[s].gap = sub[s].gap
  /\ s \in listeners' <=> s \in listeners
Listening(s) ==
  /\ sub[s].phase = "opening" /\ sub'[s].phase = "live" /\ start[sub[s].waitsFor].state = "done"
  /\ sub'[s].seen = sub[s].seen \/ (current # None /\ sub'[s].seen = start[current].read)
  /\ sub'[s].gap = sub[s].gap
  /\ s \in listeners' <=> s \in listeners

\* The cursor of a failed stream has closed and its listeners were told.
Settled(i) ==
  /\ start[i].cursor = "closing"
  /\ start'[i] = [NoStart EXCEPT !.state = "done"]
  /\ \A s \in start[i].failed : ~Open(sub'[s])

LEMMA QuietStep ==
  ASSUME StreamInv, log' \in Seq(Collections), UNCHANGED <<disposed, opening, current>>,
         listeners' \subseteq listeners, current # None => listeners' # {},
         sub' \in [Subs -> Subscription], start' \in [Subs -> Start],
         \A s \in Subs : Keeps(s) \/ Leaves(s) \/ Abandons(s) \/ Listening(s),
         \A i \in Subs : start'[i] = start[i] \/ Settled(i)
  PROVE  StreamInv'
<1>1. /\ start \in [Subs -> Start] /\ current \in Subs \cup {None} /\ opening \in Subs \cup {None}
      /\ sub \in [Subs -> Subscription]
      /\ \A i \in Subs : StartOK(i)
      /\ OpeningOK /\ CurrentOK
      /\ \A s \in listeners : ListenerOK(s)
      /\ \A s \in Subs : SubscriptionOK(s)
      /\ \A s \in Feeds : FeedOK(s)
      /\ Feeds \subseteq Subs /\ listeners \subseteq Subs
  BY SubsKnown DEF StreamInv, WatcherTypeOK
<1>2. WatcherTypeOK'
  BY DEF StreamInv, WatcherTypeOK
<1>3. \A i \in Subs :
        /\ start'[i].state = start[i].state
        /\ start'[i] = start[i] \/ (start[i].state = "done" /\ start[i].cursor = "closing" /\ start'[i].cursor = "none" /\ start'[i].failed = {})
        /\ start'[i].failed \subseteq start[i].failed
  <2> TAKE i \in Subs
  <2>1. CASE start'[i] = start[i]
    BY <2>1
  <2>2. CASE Settled(i)
    <3>1. start[i].state = "done" /\ start[i].cursor = "closing"
      BY <1>1, <2>2 DEF Settled, StartOK
    <3>2. start'[i] = [state |-> "done", stale |-> FALSE, since |-> 0, cursor |-> "none", read |-> 0, failed |-> {}]
      BY <2>2 DEF Settled, NoStart
    <3>3. QED
      BY <3>1, <3>2
  <2>3. QED
    BY <2>1, <2>2
<1>4. \A i \in Subs : StartOK(i)'
  BY <1>1, <1>3 DEF StartOK
<1>5. OpeningOK' /\ CurrentOK'
  BY <1>1, <1>3 DEF OpeningOK, CurrentOK
<1>6. \A s \in listeners' : ListenerOK(s)'
  <2> SUFFICES ASSUME NEW s \in listeners' PROVE ListenerOK(s)'
    OBVIOUS
  <2>1. s \in Subs /\ s \in listeners /\ ListenerOK(s) /\ sub[s].waitsFor \in Subs \cup {None}
    BY <1>1 DEF Subscription
  <2>2. CASE Keeps(s) \/ Abandons(s)
    BY <1>1, <1>3, <2>1, <2>2 DEF ListenerOK, Keeps, Abandons
  <2>3. CASE Listening(s)
    BY <1>1, <1>3, <2>1, <2>3 DEF ListenerOK, Listening
  <2>4. QED
    BY <2>1, <2>2, <2>3 DEF Leaves
<1>7. \A s \in Subs : SubscriptionOK(s)'
  <2> SUFFICES ASSUME NEW s \in Subs PROVE SubscriptionOK(s)'
    OBVIOUS
  <2>1. Told(s)' => Told(s)
    BY <1>3 DEF Told
  <2>2. Open(sub'[s]) /\ Told(s) => Told(s)'
    BY DEF Told, Settled
  <2>3. SubscriptionOK(s)
    BY <1>1
  <2>4. CASE Keeps(s)
    BY <1>3, <2>1, <2>2, <2>3, <2>4 DEF SubscriptionOK, Keeps, Open
  <2>5. CASE Leaves(s)
    BY <1>3, <2>1, <2>2, <2>3, <2>5 DEF SubscriptionOK, Leaves, Open
  <2>6. CASE Abandons(s) \/ Listening(s)
    BY <1>3, <2>1, <2>2, <2>3, <2>6 DEF SubscriptionOK, Abandons, Listening, Open
  <2>7. QED
    BY <2>4, <2>5, <2>6
<1>8. \A s \in Feeds : FeedOK(s)'
  <2> SUFFICES ASSUME NEW s \in Feeds PROVE FeedOK(s)'
    OBVIOUS
  <2>1. s \in Subs /\ FeedOK(s) /\ (current # None => start'[current].read = start[current].read)
    BY <1>1, <1>3 DEF CurrentOK
  <2>2. QED
    BY <2>1 DEF FeedOK, Keeps, Leaves, Abandons, Listening, Open
<1>9. QED
  BY <1>2, <1>4, <1>5, <1>6, <1>7, <1>8 DEF StreamInv

\* The stream is stopped only when the last listener left, failed with the stream
\* or was disposed; whoever is still open is owed the news.
LEMMA StopStep ==
  ASSUME StreamInv, NEW st \in [Subs -> Start], stop(st), listeners' = {}, disposed' \in BOOLEAN, UNCHANGED log,
         sub' \in [Subs -> Subscription],
         \A i \in Subs : st[i].state = start[i].state,
         \A i \in Subs : st[i].cursor = start[i].cursor \/ st[i].cursor = "none",
         \A i \in Subs : i # current /\ st[i].cursor # "closing" => st[i].failed = {},
         \A s \in Subs :
           /\ sub'[s] = sub[s] \/ Leaves(s)
           /\ Open(sub'[s]) => \E i \in Subs : s \in st[i].failed
           /\ \A i \in Subs : s \in st[i].failed => sub'[s].phase # "off"
  PROVE  StreamInv'
<1>1. /\ opening' = None /\ current' = None /\ start' \in [Subs -> Start]
      /\ \A i \in Subs :
           /\ start'[i].state = start[i].state /\ start'[i].failed = st[i].failed
           /\ start'[i].stale <=> start[i].state = "hello"
           /\ start'[i].cursor = IF i = current THEN "closing" ELSE st[i].cursor
  BY StopResult
<1>2. WatcherTypeOK'
  BY <1>1 DEF StreamInv, WatcherTypeOK
<1>3. \A i \in Subs : StartOK(i)'
  <2> SUFFICES ASSUME NEW i \in Subs PROVE StartOK(i)'
    OBVIOUS
  <2>1. StartOK(i) /\ CurrentOK /\ start'[i] \in Start /\ st[i] \in Start
    BY <1>1 DEF StreamInv
  <2>2. QED
    BY <1>1, <2>1, SubsKnown DEF StartOK, CurrentOK, Start
<1>4. OpeningOK' /\ CurrentOK'
  BY <1>1 DEF OpeningOK, CurrentOK
<1>5. \A s \in Subs : SubscriptionOK(s)'
  <2> SUFFICES ASSUME NEW s \in Subs PROVE SubscriptionOK(s)'
    OBVIOUS
  <2>1. Told(s)' <=> \E i \in Subs : s \in st[i].failed
    BY <1>1 DEF Told
  <2>2. SubscriptionOK(s)
    BY DEF StreamInv
  <2>3. QED
    BY <1>1, <2>1, <2>2 DEF SubscriptionOK, Leaves
<1>6. \A s \in Feeds : FeedOK(s)'
  BY SubsKnown DEF StreamInv, FeedOK, Leaves
<1>7. QED
  BY <1>1, <1>2, <1>3, <1>4, <1>5, <1>6 DEF StreamInv

(***************************************************************************)
(* The steps of a subscription                                             *)
(***************************************************************************)

LEMMA InitStream == Init => StreamInv
<1> SUFFICES ASSUME Init PROVE StreamInv
  OBVIOUS
<1>1. NoStart \in Start /\ NoStart.state = "none" /\ NoStart.cursor = "none" /\ NoStart.failed = {}
  BY DEF NoStart, Start
<1>2. \A s \in Subs :
        /\ sub[s] \in Subscription /\ sub[s].phase = "off" /\ sub[s].seen = -1 /\ ~sub[s].gap
  <2> TAKE s \in Subs
  <2> DEFINE v == [k \in ReadsFrom[s] |-> -1]
  <2>1. v \in Versions
    BY SubsKnown DEF Versions
  <2>2. sub[s] = [NoSub EXCEPT !.view = v] /\ << >> \in Versions
    BY DEF Init, Versions
  <2> HIDE DEF v, Versions
  <2>3. NoSub \in Subscription /\ NoSub.phase = "off" /\ NoSub.seen = -1 /\ NoSub.gap = FALSE
    BY <2>2 DEF NoSub, Subscription
  <2>4. QED
    BY <2>1, <2>2, <2>3 DEF Subscription
<1>3. start = [s \in Subs |-> NoStart] /\ listeners = {} /\ opening = None /\ current = None /\ disposed = FALSE
      /\ log \in Seq(Collections) /\ DOMAIN sub = Subs /\ sub \in [Subs -> Subscription]
  BY <1>2 DEF Init
<1>4. WatcherTypeOK
  BY <1>1, <1>2, <1>3 DEF WatcherTypeOK
<1>5. \A s \in Subs : StartOK(s) /\ SubscriptionOK(s) /\ FeedOK(s)
  BY <1>1, <1>2, <1>3 DEF StartOK, SubscriptionOK, FeedOK, Told, Open
<1>6. QED
  BY <1>3, <1>4, <1>5, SubsKnown DEF StreamInv, OpeningOK, CurrentOK

\* The function listen() returns, called for a subscriber that is shut.
LEMMA ReleaseStep ==
  ASSUME StreamInv, NEW s \in Subs, release({s}), UNCHANGED <<log, disposed>>,
         sub' = [sub EXCEPT ![s] = sub'[s]], sub'[s] \in Subscription,
         ~Open(sub'[s]), sub'[s].phase # "off", sub'[s].gap = sub[s].gap
  PROVE  StreamInv'
<1>1. /\ start \in [Subs -> Start] /\ sub' \in [Subs -> Subscription] /\ sub \in [Subs -> Subscription]
      /\ disposed' \in BOOLEAN /\ log' \in Seq(Collections)
  BY DEF StreamInv, WatcherTypeOK
<1>2. listeners' = listeners \ {s}
  BY DEF release
<1>3. \A t \in Subs : t # s => sub'[t] = sub[t]
  BY <1>1
<1>4. CASE listeners \ {s} = {}
  <2>1. stop(start)
    BY <1>4 DEF release
  <2>2. \A i \in Subs : i # current /\ start[i].cursor # "closing" => start[i].failed = {}
    BY DEF StreamInv, StartOK
  <2>3. \A t \in Subs :
          /\ sub'[t] = sub[t] \/ Leaves(t)
          /\ Open(sub'[t]) => \E i \in Subs : t \in start[i].failed
          /\ \A i \in Subs : t \in start[i].failed => sub'[t].phase # "off"
    BY <1>2, <1>3, <1>4 DEF StreamInv, SubscriptionOK, Told, Leaves
  <2>4. QED
    BY <1>1, <1>2, <1>4, <2>1, <2>2, <2>3, StopStep
<1>5. CASE listeners \ {s} # {}
  <2>1. UNCHANGED <<opening, current, start>>
    BY <1>5 DEF release
  <2>2. \A t \in Subs : Keeps(t) \/ Leaves(t)
    BY <1>2, <1>3 DEF Keeps, Leaves
  <2>3. QED
    BY <1>1, <1>2, <1>5, <2>1, <2>2, QuietStep
<1>6. QED
  BY <1>4, <1>5

\* A subscriber leaves on its own: before listen() has resolved it keeps its
\* place among the listeners.
LEMMA DepartureStep ==
  ASSUME StreamInv, NEW s \in Subs, Open(sub[s]), sub' = ShutAll({s}), UNCHANGED <<log, disposed>>,
         IF sub[s].phase = "live" THEN release({s}) ELSE UNCHANGED <<listeners, opening, current, start>>
  PROVE  StreamInv'
<1>1. sub \in [Subs -> Subscription] /\ start \in [Subs -> Start] /\ log \in Seq(Collections) /\ CurrentOK
  BY DEF StreamInv, WatcherTypeOK
<1>2. /\ sub' = [sub EXCEPT ![s] = sub'[s]] /\ sub'[s] = Shut(sub[s])
      /\ \A t \in Subs : t # s => sub'[t] = sub[t]
  BY <1>1 DEF ShutAll
<1>3. /\ sub'[s] \in Subscription /\ ~Open(sub'[s]) /\ sub'[s].phase # "off" /\ sub'[s].gap = sub[s].gap
      /\ sub[s].phase = "opening" => sub'[s].phase = "abandoned" /\ sub'[s].waitsFor = sub[s].waitsFor
  BY <1>1, <1>2, ShutResult, ZenonT(40)
<1>4. CASE sub[s].phase = "live"
  BY <1>2, <1>3, <1>4, ReleaseStep
<1>5. CASE sub[s].phase = "opening"
  <2>1. UNCHANGED <<listeners, opening, current, start>>
    BY <1>5
  <2>2. \A t \in Subs : Keeps(t) \/ Abandons(t)
    BY <1>2, <1>3, <1>5, <2>1 DEF Keeps, Abandons
  <2>3. sub' \in [Subs -> Subscription] /\ start' \in [Subs -> Start] /\ log' \in Seq(Collections)
    BY <1>1, <1>2, <1>3, <2>1
  <2>4. current # None => listeners' # {}
    BY <1>1, <2>1 DEF CurrentOK
  <2>5. QED
    BY <2>1, <2>2, <2>3, <2>4, QuietStep
<1>6. QED
  BY <1>4, <1>5 DEF Open

LEMMA ListenPreserves ==
  ASSUME StreamInv, NEW s \in Subs, Listens(s)
  PROVE  StreamInv'
<1>1. /\ sub \in [Subs -> Subscription] /\ start \in [Subs -> Start] /\ log \in Seq(Collections)
      /\ current \in Subs \cup {None} /\ CurrentOK /\ (disposed => listeners = {} /\ opening = None)
  BY DEF StreamInv, WatcherTypeOK
<1> DEFINE x == [sub[s] EXCEPT !.phase = "live"]
<1>2. /\ x \in Subscription /\ x.phase = "live" /\ x.waitsFor = sub[s].waitsFor
      /\ x.seen = sub[s].seen /\ x.gap = sub[s].gap
  BY <1>1 DEF Subscription
<1> HIDE DEF x
<1>3. Shut(x) \in Subscription /\ ~Open(Shut(x)) /\ Shut(x).phase # "off" /\ Shut(x).gap = sub[s].gap
  BY <1>2, ShutResult
<1>4. CASE ListenResolves(s) /\ ~disposed /\ sub[s].phase = "abandoned"
  <2>1. sub' = [sub EXCEPT ![s] = Shut(x)] /\ release({s}) /\ UNCHANGED <<log, disposed>>
    BY <1>4 DEF ListenResolves, x
  <2>2. sub' = [sub EXCEPT ![s] = sub'[s]] /\ sub'[s] = Shut(x)
    BY <1>1, <2>1
  <2>3. QED
    BY <1>3, <2>1, <2>2, ReleaseStep
<1>5. CASE (ListenResolves(s) /\ disposed) \/ ListenFails(s)
  <2>1. /\ sub' = [sub EXCEPT ![s] = Shut(x)] /\ listeners' = listeners \ {s}
        /\ UNCHANGED <<log, disposed, opening, current, start>>
    BY <1>5 DEF ListenResolves, ListenFails, x
  <2>2. current # None => listeners' # {}
    <3>1. CASE disposed
      BY <1>1, <3>1 DEF CurrentOK
    <3>2. CASE ListenFails(s)
      <4>1. s \in listeners => current = None
        BY <3>2 DEF StreamInv, ListenerOK, ListenFails, CurrentOK
      <4>2. QED
        BY <1>1, <2>1, <4>1 DEF CurrentOK
    <3>3. QED
      BY <1>5, <3>1, <3>2
  <2>3. \A t \in Subs : Keeps(t) \/ Leaves(t)
    BY <1>1, <1>3, <2>1 DEF Keeps, Leaves
  <2>4. sub' \in [Subs -> Subscription] /\ start' \in [Subs -> Start] /\ log' \in Seq(Collections) /\ listeners' \subseteq listeners
    BY <1>1, <1>3, <2>1
  <2>5. QED
    BY <2>1, <2>2, <2>3, <2>4, QuietStep
<1>6. CASE ListenResolves(s) /\ ~disposed /\ sub[s].phase = "opening"
  <2>1. /\ sub' = [sub EXCEPT ![s] = IF s \in Feeds THEN Begins(x) ELSE read(x)]
        /\ UNCHANGED <<log, disposed, listeners, opening, current, start>>
        /\ start[sub[s].waitsFor].state = "done"
    BY <1>6 DEF ListenResolves, x
  <2>2. /\ sub'[s] \in Subscription /\ sub'[s].phase = "live"
        /\ sub'[s].seen = sub[s].seen \/ (current # None /\ sub'[s].seen = start[current].read)
        /\ sub'[s].gap = sub[s].gap
    BY <1>1, <1>2, <2>1, ReadResult, BeginsResult
  <2>3. \A t \in Subs : Keeps(t) \/ Listening(t)
    BY <1>1, <1>6, <2>1, <2>2 DEF Keeps, Listening
  <2>4. sub' \in [Subs -> Subscription] /\ start' \in [Subs -> Start] /\ log' \in Seq(Collections)
    BY <1>1, <2>1, <2>2
  <2>5. current # None => listeners' # {}
    BY <1>1, <2>1 DEF CurrentOK
  <2>6. QED
    BY <2>1, <2>3, <2>4, <2>5, QuietStep
<1>7. QED
  BY <1>4, <1>5, <1>6 DEF Listens, ListenResolves

LEMMA ReadPreserves ==
  ASSUME StreamInv, ReadInv, NEW s \in Subs, Reads(s)
  PROVE  StreamInv'
<1>1. /\ sub \in [Subs -> Subscription] /\ start \in [Subs -> Start] /\ log \in Seq(Collections)
      /\ CurrentOK /\ sub[s] \in Subscription /\ ReadOK(s)
  BY DEF StreamInv, WatcherTypeOK, ReadInv
<1>2. CASE ReadFails(s)
  BY <1>1, <1>2, DepartureStep DEF ReadFails, ReadOK
<1>3. ASSUME sub' = [sub EXCEPT ![s] = sub'[s]], sub'[s] \in Subscription, Keeps(s),
             UNCHANGED <<log, listeners, opening, current, disposed, start>>
      PROVE  StreamInv'
  <2>1. \A t \in Subs : Keeps(t)
    BY <1>1, <1>3 DEF Keeps
  <2>2. sub' \in [Subs -> Subscription] /\ start' \in [Subs -> Start] /\ log' \in Seq(Collections)
    BY <1>1, <1>3
  <2>3. current # None => listeners' # {}
    BY <1>1, <1>3 DEF CurrentOK
  <2>4. QED
    BY <1>3, <2>1, <2>2, <2>3, QuietStep
<1>4. ASSUME NEW k \in Collections, ReadCollection(s, k) PROVE StreamInv'
  <2> DEFINE v == [c \in DOMAIN sub[s].values \cup {k} |-> IF c = k THEN VersionOf(k) ELSE sub[s].values[c]]
  <2>1. sub' = [sub EXCEPT ![s] = [sub[s] EXCEPT !.values = v]]
    BY <1>1, <1>4 DEF ReadCollection
  <2>2. v \in Versions
    <3>1. VersionOf(k) \in Int
      BY <1>1, LogVersions
    <3>2. DOMAIN sub[s].values \in SUBSET Collections /\ \A c \in DOMAIN sub[s].values : sub[s].values[c] \in Int
      BY <1>1, SubsKnown DEF ReadOK
    <3>3. v \in [DOMAIN sub[s].values \cup {k} -> Int]
      BY <3>1, <3>2
    <3>4. QED
      BY <3>2, <3>3 DEF Versions
  <2> HIDE DEF v, Versions
  <2>3. sub' = [sub EXCEPT ![s] = sub'[s]] /\ sub'[s] = [sub[s] EXCEPT !.values = v]
    BY <1>1, <2>1
  <2>4. sub'[s] \in Subscription /\ Keeps(s)
    BY <1>1, <1>4, <2>2, <2>3 DEF Subscription, Keeps, ReadCollection
  <2>5. QED
    BY <1>3, <1>4, <2>3, <2>4 DEF ReadCollection
<1>5. CASE ReadSettles(s)
  <2> DEFINE x == [sub[s] EXCEPT !.view = sub[s].values, !.running = FALSE, !.values = << >>]
  <2>1. /\ x \in Subscription /\ x.phase = sub[s].phase /\ x.waitsFor = sub[s].waitsFor
        /\ x.seen = sub[s].seen /\ x.gap = sub[s].gap
    <3>1. << >> \in Versions /\ sub[s].values \in Versions
      BY <1>1 DEF Versions, Subscription
    <3> HIDE DEF Versions
    <3>2. QED
      BY <1>1, <3>1 DEF Subscription
  <2>2. sub' = [sub EXCEPT ![s] = IF x.dirty THEN read(x) ELSE x]
    BY <1>5 DEF ReadSettles
  <2> HIDE DEF x
  <2>3. sub' = [sub EXCEPT ![s] = sub'[s]] /\ sub'[s] = IF x.dirty THEN read(x) ELSE x
    BY <1>1, <2>2
  <2>4. sub'[s] \in Subscription /\ Keeps(s)
    BY <1>5, <2>1, <2>3, ReadResult DEF Keeps, ReadSettles
  <2>5. QED
    BY <1>3, <1>5, <2>3, <2>4 DEF ReadSettles
<1>6. QED
  BY <1>2, <1>4, <1>5 DEF Reads

LEMMA SubscribePreserves ==
  ASSUME StreamInv, NEW s \in Subs, Subscribe(s)
  PROVE  StreamInv'
<1>1. /\ sub \in [Subs -> Subscription] /\ start \in [Subs -> Start] /\ log \in Seq(Collections)
      /\ opening \in Subs \cup {None} /\ current \in Subs \cup {None} /\ listeners \subseteq Subs /\ disposed \in BOOLEAN
      /\ CurrentOK /\ OpeningOK /\ (disposed => listeners = {} /\ opening = None)
      /\ sub[s].phase = "off" /\ SubscriptionOK(s) /\ StartOK(s) /\ UNCHANGED <<log, current, disposed>>
  BY DEF StreamInv, WatcherTypeOK, Subscribe
<1>2. CASE disposed
  <2>1. sub' = [sub EXCEPT ![s] = Shut(sub[s])] /\ UNCHANGED <<listeners, opening, start>>
    BY <1>2 DEF Subscribe
  <2>2. Shut(sub[s]) \in Subscription /\ ~Open(Shut(sub[s])) /\ Shut(sub[s]).phase # "off" /\ Shut(sub[s]).gap = sub[s].gap
    BY <1>1, ShutResult
  <2>3. \A t \in Subs : Keeps(t) \/ Leaves(t)
    BY <1>1, <1>2, <2>1, <2>2 DEF Keeps, Leaves
  <2>4. /\ sub' \in [Subs -> Subscription] /\ start' \in [Subs -> Start] /\ log' \in Seq(Collections)
        /\ current # None => listeners' # {}
    BY <1>1, <1>2, <2>1, <2>2 DEF CurrentOK
  <2>5. QED
    BY <1>1, <2>1, <2>3, <2>4, QuietStep
<1>3. CASE ~disposed
  <2> DEFINE hello == [NoStart EXCEPT !.state = "hello", !.since = Len(log)]
  <2>1. /\ hello \in Start /\ hello.state = "hello" /\ ~hello.stale /\ hello.cursor = "none" /\ hello.failed = {}
    <3>1. Len(log) \in Nat
      BY <1>1
    <3>2. QED
      BY <3>1, NoStartResult DEF Start
  <2>2. /\ listeners' = listeners \cup {s}
        /\ opening' = IF opening = None THEN s ELSE opening
        /\ start' = IF opening # None THEN start ELSE [start EXCEPT ![s] = hello]
        /\ sub' = [sub EXCEPT ![s].phase = "opening", ![s].waitsFor = opening']
    BY <1>3 DEF Subscribe
  <2> HIDE DEF hello
  <2>3. opening' \in Subs /\ start' \in [Subs -> Start]
    BY <1>1, <2>1, <2>2
  <2>4. /\ sub' \in [Subs -> Subscription] /\ sub'[s].phase = "opening" /\ sub'[s].waitsFor = opening'
        /\ sub'[s].seen = sub[s].seen /\ sub'[s].gap = sub[s].gap
        /\ \A t \in Subs : t # s => sub'[t] = sub[t]
    <3> DEFINE x == [sub[s] EXCEPT !.phase = "opening", !.waitsFor = opening']
    <3>1. x \in Subscription /\ x.phase = "opening" /\ x.waitsFor = opening' /\ x.seen = sub[s].seen /\ x.gap = sub[s].gap
      BY <1>1, <2>3 DEF Subscription
    <3>2. sub' = [sub EXCEPT ![s] = x]
      BY <1>1, <2>2
    <3> HIDE DEF x
    <3>3. QED
      BY <1>1, <3>1, <3>2
  <2>5. WatcherTypeOK'
    BY <1>1, <2>2, <2>3, <2>4 DEF WatcherTypeOK
  <2>6. start[s].state = "none" /\ start[s].cursor = "none" /\ start[s].failed = {} /\ s \notin listeners
    BY <1>1 DEF SubscriptionOK, StartOK, StreamInv, ListenerOK
  <2>7. /\ \A i \in Subs : start'[i] = start[i] \/ (i = s /\ opening = None /\ start'[i] = hello)
        /\ \A i \in Subs : start'[i].failed = start[i].failed
    BY <1>1, <2>1, <2>2, <2>6
  <2>8. \A i \in Subs : StartOK(i)'
    BY <1>1, <2>1, <2>2, <2>7, SubsKnown DEF StreamInv, StartOK
  <2>9. OpeningOK' /\ CurrentOK'
    BY <1>1, <2>1, <2>2, <2>6 DEF OpeningOK, CurrentOK
  <2>10. \A t \in listeners' : ListenerOK(t)'
    <3> SUFFICES ASSUME NEW t \in listeners' PROVE ListenerOK(t)'
      OBVIOUS
    <3>1. CASE t = s
      BY <1>1, <2>3, <2>4, <2>9, <3>1, SubsKnown DEF ListenerOK, OpeningOK
    <3>2. CASE t # s
      <4>1. t \in Subs /\ ListenerOK(t) /\ sub'[t] = sub[t] /\ sub[t].waitsFor \in Subs \cup {None}
        BY <1>1, <2>2, <2>4, <3>2 DEF StreamInv, Subscription
      <4>2. QED
        BY <1>1, <2>6, <2>7, <4>1 DEF ListenerOK
    <3>3. QED
      BY <3>1, <3>2
  <2>11. \A t \in Subs : SubscriptionOK(t)'
    <3> SUFFICES ASSUME NEW t \in Subs PROVE SubscriptionOK(t)'
      OBVIOUS
    <3>1. Told(t)' <=> Told(t)
      BY <2>7 DEF Told
    <3>2. SubscriptionOK(t) /\ (t = s => ~Told(t))
      BY <1>1 DEF SubscriptionOK, StreamInv
    <3>3. QED
      BY <1>1, <2>2, <2>4, <2>7, <3>1, <3>2 DEF SubscriptionOK
  <2>12. \A t \in Feeds : FeedOK(t)'
    <3> SUFFICES ASSUME NEW t \in Feeds PROVE FeedOK(t)'
      OBVIOUS
    <3>1. t \in Subs /\ FeedOK(t) /\ (current # None => start'[current] = start[current])
      BY <1>1, <2>6, <2>7, SubsKnown DEF StreamInv, CurrentOK
    <3>2. QED
      BY <1>1, <2>2, <2>4, <3>1 DEF FeedOK
  <2>13. QED
    BY <1>1, <1>3, <2>5, <2>8, <2>9, <2>10, <2>11, <2>12 DEF StreamInv
<1>4. QED
  BY <1>2, <1>3

(***************************************************************************)
(* The steps of the stream                                                 *)
(***************************************************************************)

LEMMA HelloPreserves ==
  ASSUME StreamInv, NEW i \in Subs, Opens(i)
  PROVE  StreamInv'
<1>1. /\ sub \in [Subs -> Subscription] /\ start \in [Subs -> Start] /\ log \in Seq(Collections)
      /\ opening \in Subs \cup {None} /\ current \in Subs \cup {None} /\ listeners \subseteq Subs
      /\ CurrentOK /\ OpeningOK /\ StartOK(i) /\ (disposed => listeners = {} /\ opening = None) /\ start[i] \in Start
      /\ start[i].state = "hello" /\ start[i].cursor = "none" /\ start[i].failed = {}
      /\ UNCHANGED <<log, listeners, disposed, sub>>
  BY DEF StreamInv, WatcherTypeOK, Opens, HelloAnswers, HelloFails, Answerable, StartOK
<1>2. /\ current # i
      /\ ~start[i].stale => opening = i /\ current = None
  BY <1>1, SubsKnown DEF CurrentOK, StartOK
<1>3. ASSUME start' \in [Subs -> Start], \A j \in Subs : j # i => start'[j] = start[j],
             start'[i].state # "none", start'[i].cursor # "closing", start'[i].failed = {},
             opening' \in Subs \cup {None}, current' \in Subs \cup {None},
             StartOK(i)', OpeningOK', CurrentOK',
             \A s \in listeners : ListenerOK(s)',
             current' = current \/ current = None, disposed => opening' = None,
             \A j \in Subs : j # i /\ start[j].state = "hello" /\ ~start[j].stale => opening' = j
      PROVE  StreamInv'
  <2>1. WatcherTypeOK'
    BY <1>1, <1>3 DEF StreamInv, WatcherTypeOK
  <2>2. \A j \in Subs : StartOK(j)'
    <3> SUFFICES ASSUME NEW j \in Subs, j # i PROVE StartOK(j)'
      BY <1>3
    <3>1. StartOK(j) /\ start'[j] = start[j]
      BY <1>3 DEF StreamInv
    <3>2. QED
      BY <1>1, <1>3, <3>1, SubsKnown DEF StartOK, CurrentOK
  <2>3. \A s \in Subs : SubscriptionOK(s)'
    <3> SUFFICES ASSUME NEW s \in Subs PROVE SubscriptionOK(s)'
      OBVIOUS
    <3>1. Told(s)' <=> Told(s)
      BY <1>1, <1>3 DEF Told
    <3>2. QED
      BY <1>1, <1>3, <3>1 DEF StreamInv, SubscriptionOK
  <2>4. \A s \in Feeds : FeedOK(s)'
    <3> SUFFICES ASSUME NEW s \in Feeds PROVE FeedOK(s)'
      OBVIOUS
    <3>1. s \in Subs /\ FeedOK(s) /\ (current # None => current' = current /\ start'[current] = start[current])
      BY <1>1, <1>2, <1>3, SubsKnown DEF StreamInv
    <3>2. QED
      BY <1>1, <3>1 DEF FeedOK
  <2>5. QED
    BY <1>1, <1>3, <2>1, <2>2, <2>3, <2>4 DEF StreamInv
<1>4. \A j \in Subs : start[j].state = "hello" /\ ~start[j].stale => opening = j
  BY DEF StreamInv, StartOK
<1>5. \A s \in listeners : s \in Subs /\ ListenerOK(s) /\ sub[s].waitsFor \in Subs \cup {None}
  BY <1>1 DEF StreamInv, Subscription
<1>6. CASE HelloAnswers(i) /\ (disposed \/ start[i].stale \/ listeners = {})
  <2>1. /\ start' = [start EXCEPT ![i].state = "done"] /\ current' = current
        /\ opening' = IF disposed \/ start[i].stale THEN opening ELSE None
    BY <1>6 DEF HelloAnswers
  <2>2. /\ start' \in [Subs -> Start] /\ \A j \in Subs : j # i => start'[j] = start[j]
        /\ start'[i].state = "done" /\ start'[i].cursor = "none" /\ start'[i].failed = {}
    BY <1>1, <2>1 DEF Start
  <2>3. StartOK(i)' /\ CurrentOK'
    BY <1>1, <1>2, <2>1, <2>2, SubsKnown DEF StartOK, CurrentOK
  <2>4. OpeningOK'
    BY <1>1, <1>2, <1>6, <2>1, <2>2 DEF OpeningOK
  <2>5. \A s \in listeners : ListenerOK(s)'
    BY <1>1, <1>2, <1>5, <1>6, <2>1, <2>2 DEF ListenerOK
  <2>6. \A j \in Subs : j # i /\ start[j].state = "hello" /\ ~start[j].stale => opening' = j
    BY <1>2, <1>4, <2>1
  <2>7. QED
    BY <1>1, <1>3, <2>1, <2>2, <2>3, <2>4, <2>5, <2>6
<1>7. CASE HelloAnswers(i) /\ ~(disposed \/ start[i].stale \/ listeners = {})
  <2>1. PICK time \in start[i].since .. Len(log) :
          start' = [start EXCEPT ![i] = [NoStart EXCEPT !.state = "done", !.cursor = "open", !.read = time]]
    BY <1>7 DEF HelloAnswers
  <2>2. current' = i /\ opening' = opening /\ opening = i /\ current = None
    BY <1>2, <1>7 DEF HelloAnswers
  <2>3. time \in Nat
    BY <1>1 DEF Start
  <2>4. /\ start' \in [Subs -> Start] /\ \A j \in Subs : j # i => start'[j] = start[j]
        /\ start'[i].state = "done" /\ start'[i].cursor = "open" /\ start'[i].failed = {}
    <3> DEFINE st == [NoStart EXCEPT !.state = "done", !.cursor = "open", !.read = time]
    <3>1. st \in Start /\ st.state = "done" /\ st.cursor = "open" /\ st.failed = {}
      BY <2>3, NoStartResult DEF Start
    <3>2. start' = [start EXCEPT ![i] = st]
      BY <2>1
    <3> HIDE DEF st
    <3>3. QED
      BY <1>1, <3>1, <3>2
  <2>5. StartOK(i)' /\ CurrentOK' /\ OpeningOK'
    BY <1>1, <1>7, <2>2, <2>4 DEF StartOK, CurrentOK, OpeningOK
  <2>6. \A s \in listeners : ListenerOK(s)'
    <3> SUFFICES ASSUME NEW s \in listeners PROVE ListenerOK(s)'
      OBVIOUS
    <3>1. sub[s].phase \in {"opening", "abandoned"} => start[sub[s].waitsFor].state = "hello"
      BY <1>1, <1>7 DEF HelloAnswers, Answerable
    <3>2. sub[s].phase \in {"opening", "abandoned"} => sub[s].waitsFor = i
      BY <1>4, <1>5, <2>2, <3>1 DEF ListenerOK
    <3>3. QED
      BY <1>1, <1>5, <2>2, <2>4, <3>2, SubsKnown DEF ListenerOK
  <2>7. \A j \in Subs : j # i /\ start[j].state = "hello" /\ ~start[j].stale => opening' = j
    BY <1>4, <2>2
  <2>8. QED
    BY <1>1, <1>3, <1>7, <2>2, <2>4, <2>5, <2>6, <2>7
<1>8. CASE HelloFails(i)
  <2>1. /\ start' = [start EXCEPT ![i].state = "failed"] /\ current' = current
        /\ opening' = IF start[i].stale THEN opening ELSE None
    BY <1>8 DEF HelloFails
  <2>2. /\ start' \in [Subs -> Start] /\ \A j \in Subs : j # i => start'[j] = start[j]
        /\ start'[i].state = "failed" /\ start'[i].cursor = "none" /\ start'[i].failed = {}
    BY <1>1, <2>1 DEF Start
  <2>3. StartOK(i)' /\ CurrentOK'
    BY <1>1, <1>2, <2>1, <2>2, SubsKnown DEF StartOK, CurrentOK
  <2>4. OpeningOK'
    BY <1>1, <1>2, <2>1, <2>2 DEF OpeningOK
  <2>5. \A s \in listeners : ListenerOK(s)'
    BY <1>1, <1>2, <1>5, <2>1, <2>2 DEF ListenerOK
  <2>6. \A j \in Subs : j # i /\ start[j].state = "hello" /\ ~start[j].stale => opening' = j
    BY <1>2, <1>4, <2>1
  <2>7. QED
    BY <1>1, <1>3, <2>1, <2>2, <2>3, <2>4, <2>5, <2>6
<1>9. QED
  BY <1>6, <1>7, <1>8 DEF Opens

LEMMA PumpEventPreserves ==
  ASSUME StreamInv, NEW i \in Subs, PumpEvent(i)
  PROVE  StreamInv'
<1> DEFINE n == start[i].read + 1
<1>1. /\ sub \in [Subs -> Subscription] /\ start \in [Subs -> Start] /\ log \in Seq(Collections)
      /\ CurrentOK /\ current = i /\ listeners \subseteq Subs
      /\ UNCHANGED <<log, listeners, opening, current, disposed>>
  BY DEF StreamInv, WatcherTypeOK, PumpEvent
<1>2. /\ start' = [start EXCEPT ![i].read = n] /\ n \in Nat
      /\ sub' = [s \in Subs |-> IF s \in listeners /\ Open(sub[s]) THEN changed(s, sub[s], n) ELSE sub[s]]
  BY <1>1 DEF PumpEvent, Start
<1> HIDE DEF n
<1>3. /\ start' \in [Subs -> Start] /\ start'[i].read = n
      /\ \A j \in Subs :
           /\ start'[j].state = start[j].state /\ start'[j].stale = start[j].stale
           /\ start'[j].cursor = start[j].cursor /\ start'[j].failed = start[j].failed
  <2> DEFINE x == [start[i] EXCEPT !.read = n]
  <2>1. /\ x \in Start /\ x.read = n /\ x.state = start[i].state /\ x.stale = start[i].stale
        /\ x.cursor = start[i].cursor /\ x.failed = start[i].failed
    <3>1. start[i] \in Start /\ n \in Nat
      BY <1>1, <1>2
    <3>2. QED
      BY <3>1 DEF Start
  <2>2. start' = [start EXCEPT ![i] = x]
    BY <1>1, <1>2
  <2> HIDE DEF x
  <2>3. QED
    BY <1>1, <2>1, <2>2
<1>4. \A s \in Subs :
        /\ sub'[s] \in Subscription
        /\ sub'[s].phase = sub[s].phase /\ sub'[s].waitsFor = sub[s].waitsFor
        /\ ~(s \in listeners /\ Open(sub[s])) => sub'[s] = sub[s]
        /\ s \in Feeds /\ s \in listeners /\ Open(sub[s]) =>
             /\ sub'[s].seen = n
             /\ sub'[s].gap <=> sub[s].gap \/ (sub[s].seen # -1 /\ sub[s].seen + 1 # n)
  <2> TAKE s \in Subs
  <2>1. CASE ~(s \in listeners /\ Open(sub[s]))
    BY <1>1, <1>2, <2>1
  <2>2. CASE s \in listeners /\ Open(sub[s]) /\ s \in Feeds
    <3> DEFINE gap == sub[s].gap \/ (sub[s].seen # -1 /\ sub[s].seen + 1 # n)
    <3>1. sub'[s] = [sub[s] EXCEPT !.seen = n, !.gap = gap]
      BY <1>1, <1>2, <2>2 DEF changed
    <3>2. gap \in BOOLEAN /\ n \in Int
      BY <1>2
    <3> HIDE DEF gap
    <3>3. sub'[s] \in Subscription /\ sub'[s].phase = sub[s].phase /\ sub'[s].waitsFor = sub[s].waitsFor
          /\ sub'[s].seen = n /\ sub'[s].gap = gap
      BY <1>1, <3>1, <3>2, ZenonT(40) DEF Subscription
    <3>4. QED
      BY <2>2, <3>3 DEF gap
  <2>3. CASE s \in listeners /\ Open(sub[s]) /\ s \notin Feeds
    <3> DEFINE x == [sub[s] EXCEPT !.dirty = TRUE]
    <3>1. x \in Subscription /\ x.phase = sub[s].phase /\ x.waitsFor = sub[s].waitsFor
      BY <1>1 DEF Subscription
    <3>2. sub'[s] = IF log[n] \in ReadsFrom[s] THEN read(x) ELSE sub[s]
      BY <1>1, <1>2, <2>3 DEF changed
    <3> HIDE DEF x
    <3>3. QED
      BY <1>1, <2>3, <3>1, <3>2, ReadResult
  <2>4. QED
    BY <2>1, <2>2, <2>3
<1>5. WatcherTypeOK'
  <2>1. sub' \in [Subs -> Subscription]
    BY <1>2, <1>4
  <2>2. QED
    BY <1>1, <1>3, <2>1 DEF StreamInv, WatcherTypeOK
<1>6. \A j \in Subs : StartOK(j)'
  <2> SUFFICES ASSUME NEW j \in Subs PROVE StartOK(j)'
    OBVIOUS
  <2>1. StartOK(j)
    BY DEF StreamInv
  <2>2. QED
    BY <1>1, <1>3, <2>1 DEF StartOK
<1>7. OpeningOK' /\ CurrentOK'
  BY <1>1, <1>3 DEF StreamInv, WatcherTypeOK, OpeningOK, CurrentOK
<1>8. \A s \in listeners : ListenerOK(s)'
  <2> SUFFICES ASSUME NEW s \in listeners PROVE ListenerOK(s)'
    OBVIOUS
  <2>1. s \in Subs /\ ListenerOK(s) /\ sub[s].waitsFor \in Subs \cup {None}
    BY <1>1 DEF StreamInv, Subscription
  <2>2. QED
    BY <1>1, <1>3, <1>4, <2>1 DEF ListenerOK
<1>9. \A s \in Subs : SubscriptionOK(s)'
  <2> SUFFICES ASSUME NEW s \in Subs PROVE SubscriptionOK(s)'
    OBVIOUS
  <2>1. SubscriptionOK(s) /\ (Told(s)' <=> Told(s))
    BY <1>3 DEF StreamInv, Told
  <2>2. QED
    BY <1>1, <1>3, <1>4, <2>1 DEF SubscriptionOK, Open
<1>10. \A s \in Feeds : FeedOK(s)'
  <2> SUFFICES ASSUME NEW s \in Feeds PROVE FeedOK(s)'
    OBVIOUS
  <2>1. s \in Subs /\ FeedOK(s) /\ sub[s] \in Subscription /\ start[i].read \in Nat
    BY <1>1, SubsKnown DEF StreamInv, Start
  <2>2. CASE s \in listeners /\ Open(sub[s])
    BY <1>1, <1>3, <1>4, <2>1, <2>2, SubsKnown DEF FeedOK, Open, n
  <2>3. CASE ~(s \in listeners /\ Open(sub[s]))
    BY <1>1, <1>4, <2>1, <2>3 DEF FeedOK
  <2>4. QED
    BY <2>2, <2>3
<1>11. QED
  BY <1>1, <1>5, <1>6, <1>7, <1>8, <1>9, <1>10 DEF StreamInv

LEMMA PumpFailsPreserves ==
  ASSUME StreamInv, NEW i \in Subs, PumpFails(i)
  PROVE  StreamInv'
<1> DEFINE st == [start EXCEPT ![i].failed = listeners]
<1>1. /\ sub \in [Subs -> Subscription] /\ start \in [Subs -> Start] /\ listeners \subseteq Subs
      /\ disposed \in BOOLEAN /\ current = i /\ stop(st) /\ listeners' = {} /\ UNCHANGED <<log, disposed, sub>>
      /\ start[i].cursor = "open"
  BY DEF StreamInv, WatcherTypeOK, PumpFails
<1>2. /\ st \in [Subs -> Start] /\ st[i].failed = listeners
      /\ \A j \in Subs : st[j].state = start[j].state /\ st[j].cursor = start[j].cursor
      /\ \A j \in Subs : j # i => st[j] = start[j]
  BY <1>1 DEF Start
<1> HIDE DEF st
<1>3. \A j \in Subs : j # current /\ st[j].cursor # "closing" => st[j].failed = {}
  BY <1>1, <1>2 DEF StreamInv, StartOK
<1>4. \A s \in Subs :
        /\ Open(sub[s]) => \E j \in Subs : s \in st[j].failed
        /\ \A j \in Subs : s \in st[j].failed => sub[s].phase # "off"
  <2> TAKE s \in Subs
  <2>1. SubscriptionOK(s) /\ (s \in listeners => ListenerOK(s)) /\ start[i].failed = {}
    BY <1>1 DEF StreamInv, StartOK
  <2>2. QED
    BY <1>1, <1>2, <2>1 DEF SubscriptionOK, ListenerOK, Told
<1>5. QED
  BY <1>1, <1>2, <1>3, <1>4, StopStep

\* Closes any of the subscriptions that are open.
LEMMA ShutAllResult ==
  ASSUME sub \in [Subs -> Subscription], NEW S \in SUBSET Subs, sub' = ShutAll(S)
  PROVE  /\ sub' \in [Subs -> Subscription]
         /\ \A s \in Subs : s \in S /\ Open(sub[s]) => sub'[s] = Shut(sub[s])
         /\ \A s \in Subs : ~(s \in S /\ Open(sub[s])) => sub'[s] = sub[s]
         /\ \A s \in Subs : s \in S /\ Open(sub[s]) => ~Open(sub'[s]) /\ sub'[s].phase # "off" /\ sub'[s].gap = sub[s].gap
  BY ShutResult DEF ShutAll

LEMMA DisposePreserves ==
  ASSUME StreamInv, Dispose
  PROVE  StreamInv'
<1>1. /\ sub \in [Subs -> Subscription] /\ start \in [Subs -> Start] /\ listeners \subseteq Subs
      /\ disposed' \in BOOLEAN /\ stop(start) /\ listeners' = {} /\ UNCHANGED log /\ sub' = ShutAll(listeners)
  BY DEF StreamInv, WatcherTypeOK, Dispose
<1>2. \A i \in Subs : i # current /\ start[i].cursor # "closing" => start[i].failed = {}
  BY DEF StreamInv, StartOK
<1>3. \A s \in Subs :
        /\ sub'[s] = sub[s] \/ Leaves(s)
        /\ Open(sub'[s]) => \E j \in Subs : s \in start[j].failed
        /\ \A j \in Subs : s \in start[j].failed => sub'[s].phase # "off"
  <2> TAKE s \in Subs
  <2>1. SubscriptionOK(s)
    BY DEF StreamInv
  <2>2. QED
    BY <1>1, <2>1, ShutAllResult DEF SubscriptionOK, Leaves, Told
<1>4. sub' \in [Subs -> Subscription]
  BY <1>1, ShutAllResult
<1>5. QED
  BY <1>1, <1>2, <1>3, <1>4, StopStep

LEMMA StreamClosesPreserves ==
  ASSUME StreamInv, NEW i \in Subs, StreamCloses(i)
  PROVE  StreamInv'
<1> DEFINE S == {s \in start[i].failed : Open(sub[s])}
           done == [NoStart EXCEPT !.state = "done"]
           closed == [start EXCEPT ![i] = done]
<1>1. /\ sub \in [Subs -> Subscription] /\ start \in [Subs -> Start] /\ listeners \subseteq Subs
      /\ disposed \in BOOLEAN /\ log \in Seq(Collections) /\ CurrentOK /\ UNCHANGED <<log, disposed>>
      /\ start[i].cursor = "closing" /\ sub' = ShutAll(S) /\ listeners' = listeners \ S
  BY DEF StreamInv, WatcherTypeOK, StreamCloses
<1>2. S \in SUBSET Subs /\ \A s \in S : s \notin listeners
  <2>1. S \in SUBSET Subs
    BY <1>1 DEF Start
  <2>2. QED
    BY <2>1 DEF StreamInv, SubscriptionOK, Told
<1>3. listeners' = listeners
  BY <1>1, <1>2
<1>4. done \in Start /\ done.state = "done" /\ done.cursor = "none" /\ done.failed = {}
  BY NoStartResult DEF Start
<1>5. start[i].state = "done"
  BY <1>1 DEF StreamInv, StartOK
<1>6. /\ closed \in [Subs -> Start] /\ closed[i] = done
      /\ \A j \in Subs : closed[j].state = start[j].state
      /\ \A j \in Subs : closed[j].cursor = start[j].cursor \/ closed[j].cursor = "none"
      /\ \A j \in Subs : j # i => closed[j] = start[j]
  <2> HIDE DEF done
  <2>1. QED
    BY <1>1, <1>4, <1>5
<1>7. /\ sub' \in [Subs -> Subscription]
      /\ \A s \in Subs : sub'[s] = sub[s] \/ Leaves(s)
      /\ \A s \in Subs : s \in start[i].failed => ~Open(sub'[s])
  <2>1. \A s \in Subs : s \in S <=> s \in start[i].failed /\ Open(sub[s])
    OBVIOUS
  <2> HIDE DEF S
  <2>2. QED
    BY <1>1, <1>2, <1>3, <2>1, ShutAllResult DEF Leaves
<1>8. CASE \E s \in S : sub[s].phase = "live" /\ listeners \ {s} = {}
  <2>1. stop(closed) /\ listeners' = {}
    BY <1>2, <1>3, <1>8 DEF StreamCloses
  <2> HIDE DEF closed, done, S
  <2>2. \A j \in Subs : j # current /\ closed[j].cursor # "closing" => closed[j].failed = {}
    BY <1>4, <1>6 DEF StreamInv, StartOK
  <2>3. \A s \in Subs :
          /\ Open(sub'[s]) => \E j \in Subs : s \in closed[j].failed
          /\ \A j \in Subs : s \in closed[j].failed => sub'[s].phase # "off"
    <3> TAKE s \in Subs
    <3>1. SubscriptionOK(s)
      BY DEF StreamInv
    <3>2. QED
      BY <1>3, <1>4, <1>6, <1>7, <2>1, <3>1 DEF SubscriptionOK, Told, Leaves, Open
  <2>4. QED
    BY <1>1, <1>6, <1>7, <2>1, <2>2, <2>3, StopStep
<1>9. CASE ~ \E s \in S : sub[s].phase = "live" /\ listeners \ {s} = {}
  <2>1. start' = closed /\ UNCHANGED <<opening, current>>
    BY <1>9 DEF StreamCloses
  <2>2. \A j \in Subs : start'[j] = start[j] \/ Settled(j)
    <3>1. \A j \in Subs : j # i => start'[j] = start[j]
      BY <1>6, <2>1
    <3>2. Settled(i)
      <4>1. start'[i] = [NoStart EXCEPT !.state = "done"]
        BY <1>6, <2>1
      <4>2. \A s \in start[i].failed : ~Open(sub'[s])
        BY <1>1, <1>7 DEF Start
      <4>3. QED
        BY <1>1, <4>1, <4>2 DEF Settled
    <3>3. QED
      BY <3>1, <3>2
  <2>3. \A s \in Subs : Keeps(s) \/ Leaves(s)
    BY <1>3, <1>7 DEF Keeps
  <2>4. current # None => listeners' # {}
    BY <1>1, <1>3 DEF CurrentOK
  <2>5. start' \in [Subs -> Start] /\ log' \in Seq(Collections) /\ listeners' \subseteq listeners
    BY <1>1, <1>3, <1>6, <2>1
  <2>6. QED
    BY <1>1, <1>7, <2>1, <2>2, <2>3, <2>4, <2>5, QuietStep
<1>10. QED
  BY <1>8, <1>9

LEMMA ChangePreserves ==
  ASSUME StreamInv, NEW k \in Collections, Change(k)
  PROVE  StreamInv'
<1>1. /\ log \in Seq(Collections) /\ log' = Append(log, k) /\ CurrentOK
      /\ UNCHANGED <<listeners, opening, current, disposed, start, sub>>
      /\ sub \in [Subs -> Subscription] /\ start \in [Subs -> Start]
  BY DEF StreamInv, WatcherTypeOK, Change
<1>2. \A s \in Subs : Keeps(s)
  BY <1>1 DEF Keeps
<1>3. log' \in Seq(Collections)
  BY <1>1
<1>4. current # None => listeners' # {}
  BY <1>1 DEF CurrentOK
<1>5. QED
  BY <1>1, <1>2, <1>3, <1>4, QuietStep

(***************************************************************************)
(* What a step may do to what the subscribers see                          *)
(***************************************************************************)

Ended(x) == ~Open(x) /\ x.phase # "off"
SameStatus(s) == (Open(sub'[s]) <=> Open(sub[s])) /\ (sub'[s].phase = "off" <=> sub[s].phase = "off")

\* What s shows is left alone; what it has read since may be dropped.
ShowsTheSame(s) ==
  /\ sub'[s].view = sub[s].view
  /\ sub'[s].values = sub[s].values \/ sub'[s].values = << >>
  /\ sub'[s].running => Open(sub'[s]) /\ s \notin Feeds
Stays(s) == ShowsTheSame(s) /\ (SameStatus(s) \/ (~Ended(sub[s]) /\ Ended(sub'[s])))
Enters(s) == ShowsTheSame(s) /\ sub[s].phase = "off" /\ Open(sub'[s])
Reading(s, k) ==
  /\ SameStatus(s) /\ sub[s].running /\ k \in ReadsFrom[s] /\ sub'[s].running
  /\ sub'[s].view = sub[s].view
  /\ sub'[s].values = [c \in DOMAIN sub[s].values \cup {k} |-> IF c = k THEN VersionOf(k) ELSE sub[s].values[c]]
Shows(s) ==
  /\ SameStatus(s) /\ sub[s].running /\ (sub'[s].running => Open(sub'[s]))
  /\ DOMAIN sub[s].values = ReadsFrom[s]
  /\ sub'[s].view = sub[s].values /\ sub'[s].values = << >>

Effect ==
  \/ \E k \in Collections : log' = Append(log, k) /\ UNCHANGED sub
  \/ /\ UNCHANGED log
     /\ \/ \A s \in Subs : Stays(s)
        \/ \E s \in Subs :
             /\ Enters(s) \/ Shows(s) \/ \E k \in Collections : Reading(s, k)
             /\ \A t \in Subs \ {s} : sub'[t] = sub[t]

\* Some subscriptions are shut, the others left alone.
LEMMA ShutEffect ==
  ASSUME ReadInv, UNCHANGED log, sub \in [Subs -> Subscription],
         \A s \in Subs : sub'[s] = sub[s] \/ (sub'[s] = Shut(sub[s]) /\ ~Ended(sub[s]))
  PROVE  Effect
<1>1. \A s \in Subs : Stays(s)
  <2> SUFFICES ASSUME NEW s \in Subs PROVE Stays(s)
    OBVIOUS
  <2>1. CASE sub'[s] = sub[s]
    BY <2>1 DEF ReadInv, ReadOK, Stays, ShowsTheSame, SameStatus
  <2>2. CASE sub'[s] = Shut(sub[s]) /\ ~Ended(sub[s])
    <3>1. /\ ~Open(sub'[s]) /\ sub'[s].phase # "off" /\ sub'[s].running = FALSE
          /\ sub'[s].view = sub[s].view /\ sub'[s].values = << >>
      <4>1. sub[s] \in Subscription
        OBVIOUS
      <4>2. QED
        BY <2>2, <4>1, ShutResult
    <3>2. QED
      BY <2>2, <3>1 DEF Stays, ShowsTheSame, Ended
  <2>3. QED
    BY <2>1, <2>2
<1>2. QED
  BY <1>1 DEF Effect

LEMMA ListenEffect ==
  ASSUME StreamInv, ReadInv, NEW s \in Subs, Listens(s)
  PROVE  Effect
<1>1. sub \in [Subs -> Subscription] /\ start \in [Subs -> Start] /\ current \in Subs \cup {None}
  BY DEF StreamInv, WatcherTypeOK
<1> DEFINE x == [sub[s] EXCEPT !.phase = "live"]
<1>2. /\ x \in Subscription /\ x.phase = "live" /\ x.view = sub[s].view /\ x.values = sub[s].values
      /\ x.running = sub[s].running
  BY <1>1 DEF Subscription
<1>3. /\ sub' = [sub EXCEPT ![s] = sub'[s]] /\ UNCHANGED log
      /\ sub[s].phase \in {"opening", "abandoned"}
      /\ \/ sub'[s] = Shut(x)
         \/ sub[s].phase = "opening" /\ sub'[s] = IF s \in Feeds THEN Begins(x) ELSE read(x)
  BY <1>1 DEF Listens, ListenResolves, ListenFails
<1> HIDE DEF x
<1>4. ReadOK(s) /\ \A t \in Subs \ {s} : Stays(t)
  BY <1>1, <1>3 DEF ReadInv, ReadOK, Stays, ShowsTheSame, SameStatus
<1>5. CASE sub'[s] = Shut(x)
  <2>1. Ended(sub'[s]) /\ ShowsTheSame(s)
    <3>1. /\ ~Open(Shut(x)) /\ Shut(x).phase # "off" /\ Shut(x).view = x.view
          /\ Shut(x).running = FALSE /\ Shut(x).values = << >>
      BY <1>2, ShutResult
    <3>2. QED
      BY <1>2, <1>5, <3>1 DEF Ended, ShowsTheSame
  <2>2. Stays(s)
    BY <2>1 DEF Stays, SameStatus, Ended
  <2>3. QED
    BY <1>3, <1>4, <2>2 DEF Effect
<1>6. CASE sub[s].phase = "opening" /\ sub'[s] = IF s \in Feeds THEN Begins(x) ELSE read(x)
  <2>1. ShowsTheSame(s) /\ sub'[s].phase = "live"
    BY <1>1, <1>2, <1>4, <1>6, ReadResult, BeginsResult DEF ReadOK, ShowsTheSame, Open
  <2>2. Stays(s)
    BY <1>6, <2>1 DEF Stays, SameStatus, Open
  <2>3. QED
    BY <1>3, <1>4, <2>2 DEF Effect
<1>7. QED
  BY <1>3, <1>5, <1>6

LEMMA PumpEventEffect ==
  ASSUME StreamInv, ReadInv, NEW i \in Subs, PumpEvent(i)
  PROVE  Effect
<1> DEFINE n == start[i].read + 1
<1>1. /\ sub \in [Subs -> Subscription] /\ UNCHANGED log /\ n \in Int
      /\ sub' = [s \in Subs |-> IF s \in listeners /\ Open(sub[s]) THEN changed(s, sub[s], n) ELSE sub[s]]
  BY DEF StreamInv, WatcherTypeOK, PumpEvent, Start
<1> HIDE DEF n
<1>2. ASSUME NEW s \in Subs PROVE Stays(s)
  <2>1. ReadOK(s) /\ sub[s] \in Subscription
    BY <1>1 DEF ReadInv
  <2>2. CASE sub'[s] = sub[s]
    BY <2>1, <2>2 DEF ReadOK, Stays, ShowsTheSame, SameStatus
  <2>3. CASE Open(sub[s]) /\ sub'[s] = changed(s, sub[s], n) /\ s \in Feeds
    <3> DEFINE gap == sub[s].gap \/ (sub[s].seen # -1 /\ sub[s].seen + 1 # n)
    <3>1. sub'[s] = [sub[s] EXCEPT !.seen = n, !.gap = gap]
      BY <2>3 DEF changed
    <3> HIDE DEF gap
    <3>2. /\ sub'[s].phase = sub[s].phase /\ sub'[s].view = sub[s].view
          /\ sub'[s].values = sub[s].values /\ sub'[s].running = sub[s].running
      BY <2>1, <3>1 DEF Subscription
    <3>3. QED
      BY <2>1, <3>2 DEF ReadOK, Stays, ShowsTheSame, SameStatus, Open
  <2>4. CASE Open(sub[s]) /\ sub'[s] = changed(s, sub[s], n) /\ s \notin Feeds
    <3> DEFINE x == [sub[s] EXCEPT !.dirty = TRUE]
    <3>1. /\ x \in Subscription /\ x.phase = sub[s].phase /\ x.view = sub[s].view
          /\ x.values = sub[s].values /\ x.running = sub[s].running
      BY <2>1 DEF Subscription
    <3>2. sub'[s] = read(x) \/ sub'[s] = sub[s]
      BY <2>4 DEF changed
    <3> HIDE DEF x
    <3>3. /\ sub'[s].phase = sub[s].phase /\ sub'[s].view = sub[s].view
          /\ sub'[s].values = sub[s].values \/ sub'[s].values = << >>
      BY <3>1, <3>2, ReadResult
    <3>4. QED
      BY <2>4, <3>3 DEF Stays, ShowsTheSame, SameStatus, Open
  <2>5. QED
    BY <1>1, <2>2, <2>3, <2>4
<1>3. QED
  BY <1>1, <1>2 DEF Effect

LEMMA ReadEffect ==
  ASSUME StreamInv, ReadInv, NEW s \in Subs, Reads(s)
  PROVE  Effect
<1>1. sub \in [Subs -> Subscription] /\ sub[s] \in Subscription /\ ReadOK(s)
  BY DEF StreamInv, WatcherTypeOK, ReadInv
<1>2. CASE ReadFails(s)
  <2>1. sub' = ShutAll({s}) /\ UNCHANGED log
    BY <1>2 DEF ReadFails
  <2>2. \A t \in Subs : sub'[t] = sub[t] \/ (sub'[t] = Shut(sub[t]) /\ ~Ended(sub[t]))
    BY <2>1 DEF ShutAll, Ended
  <2>3. QED
    BY <1>1, <2>1, <2>2, ShutEffect
<1>3. ASSUME NEW k \in Collections, ReadCollection(s, k) PROVE Effect
  <2> DEFINE v == [c \in DOMAIN sub[s].values \cup {k} |-> IF c = k THEN VersionOf(k) ELSE sub[s].values[c]]
  <2>1. sub' = [sub EXCEPT ![s] = [sub[s] EXCEPT !.values = v]]
    BY <1>1, <1>3 DEF ReadCollection
  <2> HIDE DEF v
  <2>2. /\ sub'[s].view = sub[s].view /\ sub'[s].phase = sub[s].phase /\ sub'[s].running = sub[s].running
        /\ sub'[s].values = v
    BY <1>1, <2>1 DEF Subscription
  <2>3. Reading(s, k)
    BY <1>3, <2>2 DEF Reading, SameStatus, Open, ReadCollection, v
  <2>4. QED
    BY <1>1, <1>3, <2>1, <2>3 DEF Effect, ReadCollection
<1>4. CASE ReadSettles(s)
  <2> DEFINE x == [sub[s] EXCEPT !.view = sub[s].values, !.running = FALSE, !.values = << >>]
  <2>1. /\ x \in Subscription /\ x.phase = sub[s].phase /\ x.view = sub[s].values
        /\ x.values = << >> /\ x.running = FALSE
    <3>1. << >> \in Versions /\ sub[s].values \in Versions
      BY <1>1 DEF Versions, Subscription
    <3> HIDE DEF Versions
    <3>2. QED
      BY <1>1, <3>1 DEF Subscription
  <2>2. sub' = [sub EXCEPT ![s] = IF x.dirty THEN read(x) ELSE x]
    BY <1>4 DEF ReadSettles
  <2> HIDE DEF x
  <2>3. /\ sub'[s].phase = sub[s].phase /\ sub'[s].view = sub[s].values /\ sub'[s].values = << >>
        /\ sub'[s].running => Open(sub'[s])
    BY <1>1, <2>1, <2>2, ReadResult DEF Open
  <2>4. Shows(s)
    BY <1>4, <2>3 DEF Shows, SameStatus, Open, ReadSettles
  <2>5. QED
    BY <1>1, <1>4, <2>2, <2>4 DEF Effect, ReadSettles
<1>5. QED
  BY <1>2, <1>3, <1>4 DEF Reads

LEMMA SubscribeEffect ==
  ASSUME StreamInv, ReadInv, NEW s \in Subs, Subscribe(s)
  PROVE  Effect
<1>1. /\ sub \in [Subs -> Subscription] /\ opening \in Subs \cup {None}
      /\ sub[s] \in Subscription /\ ReadOK(s) /\ sub[s].phase = "off" /\ UNCHANGED log
  BY DEF StreamInv, WatcherTypeOK, ReadInv, Subscribe
<1>2. CASE disposed
  <2>1. sub' = [sub EXCEPT ![s] = Shut(sub[s])]
    BY <1>2 DEF Subscribe
  <2>2. \A t \in Subs : sub'[t] = sub[t] \/ (sub'[t] = Shut(sub[t]) /\ ~Ended(sub[t]))
    BY <1>1, <2>1 DEF Ended
  <2>3. QED
    BY <1>1, <2>2, ShutEffect
<1>3. CASE ~disposed
  <2>1. sub' = [sub EXCEPT ![s] = [sub[s] EXCEPT !.phase = "opening", !.waitsFor = opening']]
    BY <1>1, <1>3 DEF Subscribe
  <2>2. /\ sub'[s].phase = "opening" /\ sub'[s].view = sub[s].view
        /\ sub'[s].values = sub[s].values /\ sub'[s].running = sub[s].running
    BY <1>1, <2>1 DEF Subscription
  <2>3. Enters(s)
    BY <1>1, <2>2 DEF Enters, ShowsTheSame, ReadOK, Open
  <2>4. QED
    BY <1>1, <2>1, <2>3 DEF Effect
<1>4. QED
  BY <1>2, <1>3

LEMMA StepEffect ==
  ASSUME StreamInv, ReadInv, [Next]_vars
  PROVE  Effect
<1>1. sub \in [Subs -> Subscription] /\ listeners \subseteq Subs
  BY DEF StreamInv, WatcherTypeOK
<1>2. ASSUME UNCHANGED <<log, sub>> PROVE Effect
  BY <1>1, <1>2, ShutEffect
<1>3. ASSUME NEW S, UNCHANGED log, sub' = ShutAll(S) PROVE Effect
  <2>1. \A t \in Subs : sub'[t] = sub[t] \/ (sub'[t] = Shut(sub[t]) /\ ~Ended(sub[t]))
    BY <1>3 DEF ShutAll, Ended
  <2>2. QED
    BY <1>1, <1>3, <2>1, ShutEffect
<1>4. CASE UNCHANGED vars
  BY <1>2, <1>4 DEF vars
<1>5. ASSUME NEW s \in Subs, Opens(s) \/ PumpFails(s) PROVE Effect
  BY <1>2, <1>5 DEF Opens, HelloAnswers, HelloFails, PumpFails
<1>6. ASSUME NEW s \in Subs, Unsubscribe(s) PROVE Effect
  BY <1>3, <1>6 DEF Unsubscribe
<1>7. ASSUME NEW s \in Subs, StreamCloses(s) PROVE Effect
  BY <1>3, <1>7 DEF StreamCloses
<1>8. CASE Dispose
  BY <1>3, <1>8 DEF Dispose
<1>9. ASSUME NEW k \in Collections, Change(k) PROVE Effect
  BY <1>9 DEF Change, Effect
<1>10. QED
  BY <1>4, <1>5, <1>6, <1>7, <1>8, <1>9, ListenEffect, PumpEventEffect, ReadEffect, SubscribeEffect
     DEF Next, Pumps

(***************************************************************************)
(* The theorems                                                            *)
(***************************************************************************)

\* An event of a collection raises its version by one and no other.
LEMMA ChangeVersion ==
  ASSUME log \in Seq(Collections), NEW k \in Collections, log' = Append(log, k)
  PROVE  \A c : VersionOf(c)' = VersionOf(c) + (IF c = k THEN 1 ELSE 0)
<1> TAKE c
<1> DEFINE S == {n \in 1..Len(log) : log[n] = c}
           T == {n \in 1..Len(log') : log'[n] = c}
<1>1. Len(log) \in Nat /\ Len(log') = Len(log) + 1
      /\ \A n \in 1..Len(log) : log'[n] = log[n]
      /\ log'[Len(log) + 1] = k
  OBVIOUS
<1>2. IsFiniteSet(S)
  <2>1. IsFiniteSet(1..Len(log))
    BY FS_Interval
  <2>2. QED
    BY <2>1, FS_Subset
<1>3. CASE c = k
  <2>1. T = S \cup {Len(log) + 1} /\ Len(log) + 1 \notin S
    BY <1>1, <1>3
  <2> HIDE DEF S, T
  <2>2. Cardinality(T) = Cardinality(S) + 1
    BY <1>2, <2>1, FS_AddElement
  <2>3. QED
    BY <1>3, <2>2 DEF VersionOf, S, T
<1>4. CASE c # k
  <2>1. T = S
    BY <1>1, <1>4
  <2>2. Cardinality(S) \in Nat
    BY <1>2, FS_CardinalityType
  <2> HIDE DEF S, T
  <2>3. Cardinality(T) = Cardinality(S) + 0
    BY <2>1, <2>2
  <2>4. QED
    BY <1>4, <2>3 DEF VersionOf, S, T
<1>5. QED
  BY <1>3, <1>4

LEMMA EffectReads ==
  ASSUME StreamInv, ReadInv, Effect
  PROVE  ReadInv'
<1>1. log \in Seq(Collections) /\ \A k : VersionOf(k) \in Nat
  BY LogVersions DEF StreamInv, WatcherTypeOK
<1> SUFFICES ASSUME NEW s \in Subs PROVE ReadOK(s)'
  BY DEF ReadInv
<1>2. ReadOK(s) /\ ReadsFrom[s] \subseteq Collections
  BY SubsKnown DEF ReadInv
<1>3. ASSUME NEW k \in Collections, log' = Append(log, k), UNCHANGED sub PROVE ReadOK(s)'
  <2>1. \A c : VersionOf(c)' \in Nat /\ VersionOf(c) <= VersionOf(c)'
    BY <1>1, <1>3, ChangeVersion
  <2>2. QED
    BY <1>1, <1>2, <1>3, <2>1 DEF ReadOK
<1>4. ASSUME UNCHANGED log, ShowsTheSame(s) PROVE ReadOK(s)'
  <2>1. \A k : VersionOf(k)' = VersionOf(k)
    BY <1>4 DEF VersionOf
  <2>2. DOMAIN << >> = {}
    OBVIOUS
  <2>3. CASE sub'[s].values = sub[s].values
    BY <1>1, <1>2, <1>4, <2>1, <2>3 DEF ReadOK, ShowsTheSame
  <2>4. CASE sub'[s].values = << >>
    BY <1>1, <1>2, <1>4, <2>1, <2>2, <2>4 DEF ReadOK, ShowsTheSame
  <2>5. QED
    BY <1>4, <2>3, <2>4 DEF ShowsTheSame
<1>5. ASSUME UNCHANGED log, NEW k \in Collections, Reading(s, k) PROVE ReadOK(s)'
  <2>1. \A c : VersionOf(c)' = VersionOf(c)
    BY <1>5 DEF VersionOf
  <2>2. /\ sub'[s].view = sub[s].view /\ Open(sub'[s]) /\ s \notin Feeds
        /\ DOMAIN sub'[s].values = DOMAIN sub[s].values \cup {k}
        /\ sub'[s].values[k] = VersionOf(k)
        /\ \A c \in DOMAIN sub[s].values : c # k => sub'[s].values[c] = sub[s].values[c]
    BY <1>2, <1>5 DEF Reading, SameStatus, ReadOK
  <2>3. k \in ReadsFrom[s]
    BY <1>5 DEF Reading
  <2>4. QED
    BY <1>1, <1>2, <2>1, <2>2, <2>3 DEF ReadOK
<1>6. ASSUME UNCHANGED log, Shows(s) PROVE ReadOK(s)'
  <2>1. \A c : VersionOf(c)' = VersionOf(c)
    BY <1>6 DEF VersionOf
  <2>2. DOMAIN << >> = {} /\ (sub'[s].running => Open(sub'[s]) /\ s \notin Feeds)
    BY <1>2, <1>6 DEF Shows, ReadOK
  <2>3. sub'[s].values = << >> /\ sub'[s].view = sub[s].values /\ DOMAIN sub[s].values = ReadsFrom[s]
    BY <1>6 DEF Shows
  <2>4. sub[s].values \in [ReadsFrom[s] -> Int]
    <3>1. sub[s].values = [c \in DOMAIN sub[s].values |-> sub[s].values[c]]
      BY DEF StreamInv, WatcherTypeOK, Subscription, Versions
    <3>2. QED
      BY <1>2, <2>3, <3>1 DEF ReadOK
  <2>5. \A k \in ReadsFrom[s] : sub[s].values[k] \in -1 .. VersionOf(k)
    BY <1>1, <1>2, <2>3 DEF ReadOK
  <2>6. QED
    BY <2>1, <2>2, <2>3, <2>4, <2>5 DEF ReadOK
<1>7. sub'[s] = sub[s] => ShowsTheSame(s)
  BY <1>2 DEF ReadOK, ShowsTheSame
<1>8. QED
  BY <1>3, <1>4, <1>5, <1>6, <1>7 DEF Effect, Stays, Enters

\* What is true in the beginning and kept by every step.
WatcherInv == StreamInv /\ ReadInv

LEMMA InitReads == Init => ReadInv
<1> SUFFICES ASSUME Init, NEW s \in Subs PROVE ReadOK(s)
  BY DEF ReadInv
<1> DEFINE v == [k \in ReadsFrom[s] |-> -1]
<1>1. sub[s] = [NoSub EXCEPT !.view = v]
  BY DEF Init
<1>2. NoSub.running = FALSE /\ NoSub.values = << >> /\ DOMAIN << >> = {}
  BY DEF NoSub
<1>3. sub[s].view = v /\ sub[s].running = FALSE /\ sub[s].values = << >>
  <2> HIDE DEF v
  <2>1. NoSub = [phase |-> "off", waitsFor |-> None, dirty |-> FALSE, running |-> FALSE, values |-> << >>,
                 view |-> << >>, seen |-> -1, gap |-> FALSE]
    BY DEF NoSub
  <2>2. QED
    BY <1>1, <2>1
<1>4. \A k : VersionOf(k) \in Nat
  BY LogVersions DEF Init
<1>5. QED
  BY <1>2, <1>3, <1>4 DEF ReadOK

LEMMA WatcherStep == WatcherInv /\ [Next]_vars => WatcherInv'
<1> SUFFICES ASSUME StreamInv, ReadInv, [Next]_vars PROVE StreamInv' /\ ReadInv'
  BY DEF WatcherInv
<1>1. ReadInv'
  BY StepEffect, EffectReads
<1>2. CASE UNCHANGED vars
  <2>1. \A s \in Subs : Keeps(s)
    BY <1>2 DEF vars, Keeps
  <2>2. /\ log \in Seq(Collections) /\ sub \in [Subs -> Subscription] /\ start \in [Subs -> Start]
        /\ current # None => listeners # {}
    BY DEF StreamInv, WatcherTypeOK, CurrentOK
  <2>3. QED
    BY <1>1, <1>2, <2>1, <2>2, QuietStep DEF vars
<1>3. ASSUME NEW s \in Subs, Unsubscribe(s) PROVE StreamInv'
  BY <1>3, DepartureStep DEF Unsubscribe
<1>4. QED
  BY <1>1, <1>2, <1>3, SubscribePreserves, HelloPreserves, ListenPreserves, ReadPreserves,
     PumpEventPreserves, PumpFailsPreserves, StreamClosesPreserves, DisposePreserves, ChangePreserves
     DEF Next, Pumps

\* The inductive invariant holds throughout.
THEOREM WatcherInvariant == Spec => []WatcherInv
<1>1. Init => WatcherInv
  BY InitStream, InitReads DEF WatcherInv
<1>2. QED
  BY <1>1, WatcherStep, PTL DEF Spec

\* The one open cursor has a listener, and every subscription whose listen() has
\* resolved is fed by it or will learn that it failed, whatever subscribing,
\* leaving, failing and disposing interleave (listen, start and stop,
\* MongoDBWatcher.ts 83-121).
THEOREM StreamAlwaysServesListeners == Spec => []StreamServesListeners
<1>1. WatcherInv => StreamServesListeners
  <2> SUFFICES ASSUME StreamInv PROVE StreamServesListeners
    BY DEF WatcherInv
  <2>1. ASSUME NEW i \in Subs, start[i].cursor = "open"
        PROVE  i = current /\ \E s \in listeners : sub[s].phase # "closed"
    <3>1. i = current /\ listeners # {}
      BY <2>1, SubsKnown DEF StreamInv, StartOK, CurrentOK
    <3>2. \A s \in listeners : sub[s].phase # "closed"
      BY DEF StreamInv, ListenerOK
    <3>3. QED
      BY <3>1, <3>2
  <2>2. ASSUME NEW s \in Subs, sub[s].phase = "live"
        PROVE  (s \in listeners /\ current # None) \/ \E i \in Subs : s \in start[i].failed
    <3>1. s \in listeners \/ Told(s)
      BY <2>2 DEF StreamInv, SubscriptionOK, Open
    <3>2. s \in listeners => current # None
      BY <2>2 DEF StreamInv, ListenerOK
    <3>3. QED
      BY <3>1, <3>2 DEF Told
  <2>3. QED
    BY <2>1, <2>2 DEF StreamServesListeners
<1>2. QED
  BY <1>1, WatcherInvariant, PTL

\* A raw feed is never moved to a stream that started later, so its events have no
\* gap from where its stream stands when listen() resolves (pump, MongoDBWatcher.ts
\* 122-128).
THEOREM FeedNeverHasGap == Spec => []FeedHasNoGap
<1>1. WatcherInv => FeedHasNoGap
  BY DEF WatcherInv, StreamInv, FeedOK, FeedHasNoGap
<1>2. QED
  BY <1>1, WatcherInvariant, PTL

(***************************************************************************)
(* The watcher implements the contract of a live query, step by step       *)
(***************************************************************************)

Status(s) == CASE sub[s].phase = "off" -> "off" [] Open(sub[s]) -> "watched" [] OTHER -> "ended"

\* What a subscription does is what the contract calls it.
LEMMA StatusResult ==
  ASSUME NEW s \in Subs
  PROVE  /\ Status(s) = "off" <=> sub[s].phase = "off"
         /\ Status(s) = "watched" <=> Open(sub[s])
         /\ Status(s) = "ended" <=> Ended(sub[s])
         /\ Status(s) \in {"off", "watched", "ended"}
  BY DEF Status, Open, Ended

LEMMA StepImplements ==
  ASSUME WatcherInv, [Next]_vars
  PROVE  [LiveQuery!Next]_(LiveQuery!vars)
<1> DEFINE db == [k \in Collections |-> VersionOf(k)]
           status == [s \in Queries |-> Status(s)]
           view == [s \in Queries |-> sub[s].view]
<1>1. Effect /\ log \in Seq(Collections) /\ (\A s \in Subs : ReadOK(s)) /\ Queries \subseteq Subs
  BY StepEffect DEF WatcherInv, ReadInv, StreamInv, WatcherTypeOK, Queries
<1>2. \A s \in Subs : SameStatus(s) => Status(s)' = Status(s)
  BY DEF SameStatus, Status
<1>3. UNCHANGED log => UNCHANGED db
  BY DEF VersionOf
<1>4. ASSUME NEW k \in Collections, log' = Append(log, k), UNCHANGED sub PROVE LiveQuery!Change(k)
  <2>1. \A c : VersionOf(c)' = VersionOf(c) + (IF c = k THEN 1 ELSE 0)
    BY <1>1, <1>4, ChangeVersion
  <2>2. \A c : VersionOf(c) \in Nat
    BY <1>1, LogVersions
  <2>3. db' = [db EXCEPT ![k] = db[k] + 1]
    <3>1. \A c \in Collections : db'[c] = IF c = k THEN db[k] + 1 ELSE db[c]
      <4> TAKE c \in Collections
      <4>1. db'[c] = VersionOf(c)' /\ db[c] = VersionOf(c) /\ db[k] = VersionOf(k)
        OBVIOUS
      <4> HIDE DEF db
      <4>2. CASE c = k
        BY <2>1, <4>1, <4>2
      <4>3. CASE c # k
        BY <2>1, <2>2, <4>1, <4>3
      <4>4. QED
        BY <4>2, <4>3
    <3>2. DOMAIN db = Collections /\ db' = [c \in Collections |-> db'[c]] /\ db = [c \in Collections |-> db[c]]
      OBVIOUS
    <3> HIDE DEF db
    <3>3. QED
      BY <3>1, <3>2
  <2>4. UNCHANGED <<status, view>>
    BY <1>4 DEF Status
  <2>5. QED
    BY <2>3, <2>4 DEF LiveQuery!Change, Status
<1>5. ASSUME UNCHANGED log, \A s \in Subs : Stays(s) PROVE \E S \in SUBSET Queries : LiveQuery!End(S)
  <2>0. PICK S \in SUBSET Queries : S = {s \in Queries : ~Ended(sub[s]) /\ Ended(sub'[s])}
    OBVIOUS
  <2>1. \A s \in S : status[s] # "ended"
    BY <1>1, <2>0, StatusResult
  <2>2. \A s \in Queries : status'[s] = IF s \in S THEN "ended" ELSE status[s]
    <3> TAKE s \in Queries
    <3>1. s \in Subs /\ Stays(s)
      BY <1>1, <1>5
    <3>2. CASE s \in S
      BY <2>0, <3>2 DEF Status, Ended
    <3>3. CASE s \notin S
      BY <1>2, <2>0, <3>1, <3>3 DEF Stays
    <3>4. QED
      BY <3>2, <3>3
  <2>3. status' = [s \in Queries |-> IF s \in S THEN "ended" ELSE status[s]]
    BY <2>2
  <2>4. UNCHANGED <<db, view>>
    BY <1>1, <1>3, <1>5 DEF Stays, ShowsTheSame
  <2>5. LiveQuery!End(S)
    BY <2>1, <2>3, <2>4 DEF LiveQuery!End, Status
  <2>6. QED
    BY <2>5
<1>6. ASSUME UNCHANGED log, NEW s \in Subs, \A t \in Subs \ {s} : sub'[t] = sub[t], Enters(s)
      PROVE  (s \in Queries /\ LiveQuery!Watch(s)) \/ UNCHANGED LiveQuery!vars
  <2>1. UNCHANGED <<db, view>>
    BY <1>1, <1>3, <1>6 DEF Enters, ShowsTheSame
  <2>2. Status(s) = "off" /\ Status(s)' = "watched" /\ \A t \in Subs \ {s} : Status(t)' = Status(t)
    BY <1>6 DEF Enters, Status, Open
  <2>3. CASE s \in Queries
    <3>1. status' = [status EXCEPT ![s] = "watched"] /\ status[s] \in {"off", "open"}
      BY <1>1, <2>2, <2>3
    <3>2. QED
      BY <2>1, <2>3, <3>1 DEF LiveQuery!Watch, Status
  <2>4. CASE s \notin Queries
    <3>1. UNCHANGED status
      BY <1>1, <2>2, <2>4
    <3>2. QED
      BY <2>1, <3>1 DEF LiveQuery!vars, Status
  <2>5. QED
    BY <2>3, <2>4
<1>7. ASSUME UNCHANGED log, NEW s \in Subs, \A t \in Subs \ {s} : sub'[t] = sub[t], NEW k \in Collections, Reading(s, k)
      PROVE  UNCHANGED LiveQuery!vars
  <2>1. UNCHANGED <<db, status, view>>
    BY <1>1, <1>2, <1>3, <1>7 DEF Reading, Status
  <2>2. QED
    BY <2>1 DEF LiveQuery!vars, Status
<1>8. ASSUME UNCHANGED log, NEW s \in Subs, \A t \in Subs \ {s} : sub'[t] = sub[t], Shows(s)
      PROVE  s \in Queries /\ LiveQuery!Show(s)
  <2>1. ReadOK(s) /\ s \in Queries /\ status[s] = "watched"
    BY <1>1, <1>8, StatusResult DEF Shows, ReadOK, Queries
  <2>2. UNCHANGED <<db, status>>
    BY <1>1, <1>2, <1>3, <1>8 DEF Shows, Status
  <2>3. \A t \in Queries \ {s} : view'[t] = view[t]
    BY <1>1, <1>8
  <2>4. \A k \in ReadsFrom[s] : view'[s][k] \in view[s][k] .. db[k] /\ view'[s][k] >= 0
    <3> TAKE k \in ReadsFrom[s]
    <3>1. k \in Collections /\ k \in DOMAIN sub[s].values /\ view'[s] = sub[s].values
      BY <1>8, <2>1, SubsKnown DEF Shows, Queries
    <3>2. QED
      BY <2>1, <3>1 DEF ReadOK
  <2>5. QED
    BY <2>1, <2>2, <2>3, <2>4 DEF LiveQuery!Show, Status
<1> HIDE DEF db, status, view
<1>9. CASE \E k \in Collections : log' = Append(log, k) /\ UNCHANGED sub
  BY <1>4, <1>9 DEF LiveQuery!Next
<1>10. CASE UNCHANGED log /\ \A s \in Subs : Stays(s)
  BY <1>5, <1>10 DEF LiveQuery!Next
<1>11. ASSUME UNCHANGED log, NEW s \in Subs, \A t \in Subs \ {s} : sub'[t] = sub[t],
              Enters(s) \/ Shows(s) \/ \E k \in Collections : Reading(s, k)
       PROVE  [LiveQuery!Next]_(LiveQuery!vars)
  <2>1. \/ s \in Queries /\ (LiveQuery!Watch(s) \/ LiveQuery!Show(s))
        \/ UNCHANGED LiveQuery!vars
    BY <1>6, <1>7, <1>8, <1>11
  <2>2. QED
    BY <2>1 DEF LiveQuery!Next
<1>12. QED
  BY <1>1, <1>9, <1>10, <1>11 DEF Effect

\* The safety half of ImplementsLiveQuery: a joined query never shows an older
\* state of a collection nor one that was not committed, and a subscription that
\* ended stays ended (select, MongoDBWatcher.ts 46-76).
THEOREM WatcherImplementsLiveQuery == Spec => LiveQuery!Init /\ [][LiveQuery!Next]_(LiveQuery!vars)
<1>1. Init => LiveQuery!Init
  <2> SUFFICES ASSUME Init PROVE LiveQuery!Init
    OBVIOUS
  <2>1. \A k : VersionOf(k) = 0
    <3> TAKE k
    <3>1. {n \in 1..Len(log) : log[n] = k} = {}
      BY DEF Init
    <3>2. QED
      BY <3>1, FS_EmptySet DEF VersionOf
  <2>2. \A s \in Subs : sub[s].view = [k \in ReadsFrom[s] |-> -1] /\ sub[s].phase = "off"
    <3> TAKE s \in Subs
    <3> DEFINE v == [k \in ReadsFrom[s] |-> -1]
    <3>1. sub[s] = [NoSub EXCEPT !.view = v]
      BY DEF Init
    <3> HIDE DEF v
    <3>2. NoSub = [phase |-> "off", waitsFor |-> None, dirty |-> FALSE, running |-> FALSE, values |-> << >>,
                   view |-> << >>, seen |-> -1, gap |-> FALSE]
      BY DEF NoSub
    <3>3. sub[s].view = v /\ sub[s].phase = "off"
      BY <3>1, <3>2
    <3>4. QED
      BY <3>3 DEF v
  <2>3. QED
    <3>1. [k \in Collections |-> VersionOf(k)] = [k \in Collections |-> 0]
      BY <2>1
    <3>2. [s \in Queries |-> Status(s)] = [s \in Queries |-> "off"]
      BY <2>2, StatusResult DEF Queries
    <3>3. [s \in Queries |-> sub[s].view] = [s \in Queries |-> [k \in ReadsFrom[s] |-> -1]]
      BY <2>2 DEF Queries
    <3>4. QED
      BY <3>1, <3>2, <3>3, Zenon DEF LiveQuery!Init, LiveQuery!Nothing, Status
<1>2. QED
  BY <1>1, StepImplements, WatcherInvariant, PTL DEF Spec
=============================================================================
