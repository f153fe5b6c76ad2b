---------------------- MODULE ObservableSessionsProofs ----------------------
(* Proofs about ObservableSessions, for any finite set of sessions, any    *)
(* callers and any budgets.                                                *)
EXTENDS ObservableSessions, FiniteSetTheorems, TLAPS

(***************************************************************************)
(* The inductive invariant                                                 *)
(***************************************************************************)

Returned(r) == r.producer \in {"none", "released"}
NotOpened(r) == r.call \in {"idle", "opening"}

\* The call of openSession: until its pipeline settles nothing but a cancellation
\* has happened to the session, and its place is reserved or was given up.
CallOK(r) ==
  /\ NotOpened(r) =>
       /\ ~r.released /\ ~r.held /\ r.closing = "no" /\ r.stream = "none"
       /\ r.work \in {"no", "operations"}
  /\ r.call = "idle" => ~r.coordinated /\ r.work = "no"
  /\ r.call = "opening" => r.scope = "open"
  /\ r.scope = "none" <=> r.call = "idle"
  /\ r.call = "opening" /\ r.admission = "subscription" => r.reserved \/ r.lateCancel
  /\ r.reserved => r.call \in OpeningCall
  /\ r.lateCancel => r.aborted /\ ~r.reserved /\ ~r.released

\* The stream: a source is opened by the first pull and returned before the
\* generator ends.
StreamOK(r) ==
  /\ r.stream \in {"none", "created"} => r.producer = "none"
  /\ r.stream \in {"pulling", "emitting"} => r.producer # "none"
  /\ r.stream \in {"finishing", "done"} => Returned(r)

\* The end: a session that closes is canceled and gave its place up, and its
\* source is returned before close() gets as far as the scope.
EndOK(r) ==
  /\ r.scope \in {"joining", "disposing"} => r.released
  /\ r.scope = "joining" => r.coordinated /\ Returned(r)
  /\ r.closing # "no" => r.aborted \/ (r.call = "done" /\ r.stream = "none")
  /\ r.closing # "no" => r.released \/ r.scope = "disposed"
  /\ r.closing \in {"scope", "done"} => Returned(r)
  /\ r.closing = "producer" => r.coordinated
  /\ r.coordinated => r.aborted /\ r.producer # "open"

\* The work phase ends a session through its close().
WorkOK(r) ==
  /\ r.work = "close" => r.closing # "no"
  /\ r.work = "done" => r.closing = "done"

SessionOK(r) == CallOK(r) /\ StreamOK(r) /\ EndOK(r) /\ WorkOK(r)

\* Where a session is to be found.
PlaceOK(s) ==
  /\ s \in pool.observable \cup pool.snapshot =>
       /\ ses[s].call \in {"open", "done"} /\ ses[s].scope = "open"
       /\ ~ses[s].released /\ ses[s].held
  /\ s \in pool.retiring \cup owned => ~NotOpened(ses[s])
  /\ s \in coordinatedSessions => ses[s].call # "idle"
  /\ ses[s].scope \notin {"none", "disposed"} =>
       \/ ses[s].released /\ s \in pool.retiring \cup pool.releasedOpening
       \/ ~ses[s].released /\ ses[s].held /\ s \in pool.observable \cup pool.snapshot
       \/ ~ses[s].released /\ ~ses[s].held /\ s \in pool.opening

\* The registry takes no scope before the operations it admitted have settled, and
\* admits none afterwards.
RegistryOK ==
  /\ registry \in {"running", "coordinated", "draining"} => \A s \in Sessions : ses[s].taken = "no"
  /\ registry \in {"closing", "closed"} => \A s \in Sessions : Operations(ses[s]) = {}

SessionsInv ==
  /\ TypeOK
  /\ \A s \in Sessions : SessionOK(ses[s]) /\ PlaceOK(s)
  /\ RegistryOK
  /\ shutdown \in {"scopes", "ended"} => \A s \in Coordinated : ses[s].work = "done"

(***************************************************************************)
(* What a step of one session may do                                       *)
(***************************************************************************)

\* The scope of a session in state b is disposed on the way to r, which is what
\* ScopeOutlivesWork is about.
ScopeSafe(b, r) ==
  b.scope \in {"open", "joining"} /\ r.scope \in {"disposing", "disposed"} =>
    Returned(b) /\ Operations(r) \subseteq IF b.coordinated THEN {} ELSE {"current"}

\* The registry does not take the session's scope, and no tracked operation starts
\* once it is shutting down.
NoneStarts(b, r) ==
  /\ r.taken = b.taken
  /\ r.call = "opening" => b.call = "opening"
  /\ r.stream = "emitting" => b.stream = "emitting" \/ ~servicesDisposed
  /\ r.read = "operation" => b.read = "operation" \/ ~servicesDisposed

Advances(b, r) ==
  /\ r.admission = b.admission /\ r.held = b.held /\ r.coordinated = b.coordinated
  /\ \/ r.call = b.call
     \/ b.call = "opening" /\ r.call \in {"rejecting", "throwing"}
     \/ b.call = "open" /\ r.call = "done"
  /\ b.released => r.released
  /\ r.reserved => b.reserved
  /\ b.lateCancel => r.lateCancel \/ r.released
  /\ \/ r.scope = b.scope
     \/ b.scope = "open" /\ r.scope \in {"joining", "disposing"}
     \/ b.scope = "joining" /\ r.scope = "disposing"
     \/ b.scope = "disposing" /\ r.scope = "disposed"
  /\ b.work = "done" => r.work = "done"
  /\ ScopeSafe(b, r) /\ NoneStarts(b, r)

Good(b, r) == r \in SessionState /\ SessionOK(r) /\ Advances(b, r)

USE DEF OpeningCall, Admission, Stream

\* Two states of a session that agree on what its opening, its caller and its
\* transaction decided.
Kept(b, r) ==
  /\ r.call = b.call /\ r.admission = b.admission /\ r.reserved = b.reserved /\ r.held = b.held
  /\ r.coordinated = b.coordinated /\ r.read = b.read /\ r.work = b.work /\ r.taken = b.taken

LEMMA ReleaseAdmissionResult ==
  ASSUME NEW b \in SessionState, NEW r, r = releaseAdmission(b)
  PROVE  /\ r \in SessionState /\ Kept(b, r)
         /\ r.released = TRUE /\ r.lateCancel = FALSE
         /\ r.aborted = b.aborted /\ r.stream = b.stream /\ r.returning = b.returning
         /\ r.producer = b.producer /\ r.closing = b.closing /\ r.scope = b.scope
  BY DEF releaseAdmission, SessionState, Kept

LEMMA ReleaseProducerResult ==
  ASSUME NEW b \in SessionState, NEW r, r = releaseProducer(b)
  PROVE  /\ r \in SessionState /\ Kept(b, r)
         /\ r.aborted = TRUE /\ r.producer = IF b.producer = "open" THEN "closing" ELSE b.producer
         /\ r.released = b.released /\ r.lateCancel = b.lateCancel
         /\ r.stream = b.stream /\ r.returning = b.returning
         /\ r.closing = b.closing /\ r.scope = b.scope
  BY ZenonT(40) DEF releaseProducer, SessionState, Kept

LEMMA DisposeScopeResult ==
  ASSUME NEW b \in SessionState, NEW r, r = disposeScope(b)
  PROVE  /\ r \in SessionState /\ Kept(b, r)
         /\ b.scope # "open" => r = b
         /\ b.scope = "open" =>
              /\ r.released = TRUE /\ r.lateCancel = FALSE
              /\ r.scope = IF b.coordinated THEN "joining" ELSE "disposing"
         /\ r.aborted = b.aborted /\ r.stream = b.stream /\ r.returning = b.returning
         /\ r.producer = b.producer /\ r.closing = b.closing
<1>1. CASE b.scope # "open"
  BY <1>1 DEF disposeScope, Kept
<1>2. CASE b.scope = "open"
  <2> DEFINE x == releaseAdmission(b)
  <2>1. /\ x \in SessionState /\ Kept(b, x)
        /\ x.released = TRUE /\ x.lateCancel = FALSE
        /\ x.aborted = b.aborted /\ x.stream = b.stream /\ x.returning = b.returning
        /\ x.producer = b.producer /\ x.closing = b.closing
    BY ReleaseAdmissionResult
  <2>2. r = [x EXCEPT !.scope = IF b.coordinated THEN "joining" ELSE "disposing"]
    BY <1>2 DEF disposeScope
  <2> HIDE DEF x
  <2>3. QED
    BY <1>2, <2>1, <2>2 DEF SessionState, Kept
<1>3. QED
  BY <1>1, <1>2

LEMMA CloseScopeResult ==
  ASSUME NEW b \in SessionState, NEW r, r = closeScope(b)
  PROVE  /\ r \in SessionState /\ Kept(b, r)
         /\ b.coordinated \/ b.scope = "open" => r.released = TRUE /\ r.lateCancel = FALSE
         /\ ~b.coordinated /\ b.scope # "open" => r.released = b.released /\ r.lateCancel = b.lateCancel
         /\ r.scope = IF ~b.coordinated /\ b.scope = "open" THEN "disposing" ELSE b.scope
         /\ r.aborted = b.aborted /\ r.stream = b.stream /\ r.returning = b.returning
         /\ r.producer = b.producer /\ r.closing = b.closing
<1>1. CASE b.coordinated
  BY <1>1, ReleaseAdmissionResult DEF closeScope
<1>2. CASE ~b.coordinated
  <2>1. r = disposeScope(b)
    BY <1>2 DEF closeScope
  <2>2. /\ r \in SessionState /\ Kept(b, r)
        /\ b.scope # "open" => r = b
        /\ b.scope = "open" =>
             /\ r.released = TRUE /\ r.lateCancel = FALSE
             /\ r.scope = IF b.coordinated THEN "joining" ELSE "disposing"
        /\ r.aborted = b.aborted /\ r.stream = b.stream /\ r.returning = b.returning
        /\ r.producer = b.producer /\ r.closing = b.closing
    BY <2>1, DisposeScopeResult
  <2>3. QED
    BY <1>2, <2>2
<1>3. QED
  BY <1>1, <1>2

\* close() of a session whose call of openSession is past its pipeline.
LEMMA CloseResult ==
  ASSUME NEW b \in SessionState, CallOK(b), StreamOK(b), EndOK(b), ~NotOpened(b), NEW r, r = close(b)
  PROVE  /\ r \in SessionState /\ Kept(b, r)
         /\ CallOK(r) /\ StreamOK(r) /\ EndOK(r) /\ r.closing # "no"
         /\ r.stream = b.stream
         /\ b.released => r.released
         /\ b.lateCancel => r.lateCancel \/ r.released
         /\ b.closing = "done" => r.closing = "done"
         /\ \/ r.scope = b.scope
            \/ /\ b.scope = "open" /\ r.scope = "disposing" /\ r.released
               /\ ~b.coordinated /\ b.stream = "none" /\ b.producer = "none"
<1>1. CASE b.closing # "no"
  BY <1>1 DEF close, Kept
<1>2. CASE b.closing = "no" /\ b.coordinated
  <2> DEFINE x == releaseAdmission(b)
             y == releaseProducer(x)
  <2>1. /\ x \in SessionState /\ Kept(b, x) /\ x.released = TRUE /\ x.lateCancel = FALSE
        /\ x.aborted = b.aborted /\ x.stream = b.stream /\ x.producer = b.producer
        /\ x.closing = b.closing /\ x.scope = b.scope
    BY ReleaseAdmissionResult
  <2> HIDE DEF x
  <2>2. /\ y \in SessionState /\ Kept(x, y) /\ y.released = TRUE /\ y.lateCancel = FALSE
        /\ y.aborted = TRUE /\ y.producer = IF x.producer = "open" THEN "closing" ELSE x.producer
        /\ y.stream = x.stream /\ y.closing = x.closing /\ y.scope = x.scope
    BY <2>1, ReleaseProducerResult
  <2>3. r = [y EXCEPT !.closing = "producer"]
    BY <1>2 DEF close, x
  <2> HIDE DEF y
  <2>4. /\ r \in SessionState /\ Kept(y, r) /\ r.released = TRUE /\ r.lateCancel = FALSE
        /\ r.aborted = TRUE /\ r.producer = y.producer /\ r.stream = y.stream
        /\ r.scope = y.scope /\ r.closing = "producer"
    BY <2>2, <2>3 DEF SessionState, Kept
  <2>5. QED
    BY <1>2, <2>1, <2>2, <2>4 DEF Kept, CallOK, StreamOK, EndOK, NotOpened, Returned
<1>3. CASE b.closing = "no" /\ ~b.coordinated /\ b.stream = "none"
  <2> DEFINE x == disposeScope(b)
  <2>1. /\ x \in SessionState /\ Kept(b, x)
        /\ b.scope # "open" => x = b
        /\ b.scope = "open" =>
             /\ x.released = TRUE /\ x.lateCancel = FALSE
             /\ x.scope = IF b.coordinated THEN "joining" ELSE "disposing"
        /\ x.aborted = b.aborted /\ x.stream = b.stream /\ x.returning = b.returning
        /\ x.producer = b.producer /\ x.closing = b.closing
    BY DisposeScopeResult
  <2>2. r = [x EXCEPT !.aborted = TRUE, !.closing = "scope"]
    BY <1>3 DEF close
  <2> HIDE DEF x
  <2>3. x \in SessionState
    BY <2>1
  <2>4. /\ r \in SessionState /\ Kept(x, r) /\ r.released = x.released /\ r.lateCancel = x.lateCancel
        /\ r.aborted = TRUE /\ r.producer = x.producer /\ r.stream = x.stream
        /\ r.scope = x.scope /\ r.closing = "scope"
    BY ONLY <2>3, <2>2, ZenonT(60) DEF SessionState, Kept
  <2>5. QED
    BY <1>3, <2>1, <2>4 DEF Kept, CallOK, StreamOK, EndOK, NotOpened, Returned, SessionState
<1>4. CASE b.closing = "no" /\ ~b.coordinated /\ b.stream # "none"
  <2> DEFINE x == releaseAdmission(b)
  <2>1. /\ x \in SessionState /\ Kept(b, x) /\ x.released = TRUE /\ x.lateCancel = FALSE
        /\ x.aborted = b.aborted /\ x.stream = b.stream /\ x.producer = b.producer
        /\ x.closing = b.closing /\ x.scope = b.scope
    BY ReleaseAdmissionResult
  <2> DEFINE y == [x EXCEPT !.aborted = TRUE, !.returning = TRUE]
  <2>2. r = [y EXCEPT !.closing = "stream"]
    BY <1>4, <2>1 DEF close, SessionState
  <2> HIDE DEF x
  <2>3. x \in SessionState
    BY <2>1
  <2>4. /\ y \in SessionState /\ Kept(x, y) /\ y.released = x.released /\ y.lateCancel = x.lateCancel
        /\ y.aborted = TRUE /\ y.producer = x.producer /\ y.stream = x.stream /\ y.scope = x.scope
    BY ONLY <2>3 DEF SessionState, Kept
  <2> HIDE DEF y
  <2>5. /\ r \in SessionState /\ Kept(y, r) /\ r.released = y.released /\ r.lateCancel = y.lateCancel
        /\ r.aborted = y.aborted /\ r.producer = y.producer /\ r.stream = y.stream
        /\ r.scope = y.scope /\ r.closing = "stream"
    BY ONLY <2>4, <2>2 DEF SessionState, Kept
  <2>6. QED
    BY <1>4, <2>1, <2>4, <2>5 DEF Kept, CallOK, StreamOK, EndOK, NotOpened, Returned
<1>5. QED
  BY <1>1, <1>2, <1>3, <1>4 DEF SessionState

\* The generator ends once its source is returned.
LEMMA FinishingGood ==
  ASSUME NEW b \in SessionState, SessionOK(b), b.stream \notin {"none", "finishing", "done"}, Returned(b),
         NEW r, r = [closeScope(b) EXCEPT !.stream = "finishing"]
  PROVE  Good(b, r)
<1>1. ~NotOpened(b)
  BY DEF SessionOK, CallOK
<1> DEFINE x == closeScope(b)
<1>2. /\ x \in SessionState /\ Kept(b, x)
      /\ b.coordinated \/ b.scope = "open" => x.released = TRUE /\ x.lateCancel = FALSE
      /\ ~b.coordinated /\ b.scope # "open" => x.released = b.released /\ x.lateCancel = b.lateCancel
      /\ x.scope = IF ~b.coordinated /\ b.scope = "open" THEN "disposing" ELSE b.scope
      /\ x.aborted = b.aborted /\ x.stream = b.stream
      /\ x.producer = b.producer /\ x.closing = b.closing
  BY CloseScopeResult
<1>3. r = [x EXCEPT !.stream = "finishing"]
  OBVIOUS
<1> HIDE DEF x
<1>4. x \in SessionState
  BY <1>2
<1>5. /\ r \in SessionState /\ Kept(x, r) /\ r.released = x.released /\ r.lateCancel = x.lateCancel
      /\ r.aborted = x.aborted /\ r.producer = x.producer /\ r.stream = "finishing"
      /\ r.scope = x.scope /\ r.closing = x.closing
  BY ONLY <1>4, <1>3 DEF SessionState, Kept
<1>6. CallOK(r) /\ StreamOK(r) /\ WorkOK(r)
  BY <1>1, <1>2, <1>5 DEF Kept, SessionOK, CallOK, StreamOK, WorkOK, NotOpened, Returned, SessionState
<1>7. EndOK(r)
  BY <1>1, <1>2, <1>5 DEF Kept, SessionOK, EndOK, NotOpened, Returned, SessionState
<1>8. Operations(r) \subseteq {"current"}
  BY <1>1, <1>2, <1>5 DEF Kept, Operations, NotOpened
<1>9. Advances(b, r)
  BY <1>1, <1>2, <1>5, <1>8 DEF Kept, Advances, NoneStarts, ScopeSafe, NotOpened, SessionOK, EndOK
<1>10. QED
  BY <1>5, <1>6, <1>7, <1>9 DEF Good, SessionOK

\* The generator leaves its loop and returns the source.
LEMMA ReleasingGood ==
  ASSUME NEW b \in SessionState, SessionOK(b), b.stream \notin {"none", "finishing", "done"}, b.producer # "none",
         NEW v \in {"releasing", "failing"},
         NEW r, r = [b EXCEPT !.stream = v, !.producer = IF b.producer = "open" THEN "closing" ELSE b.producer]
  PROVE  Good(b, r)
<1>1. ~NotOpened(b)
  BY DEF SessionOK, CallOK
<1> DEFINE p == IF b.producer = "open" THEN "closing" ELSE b.producer
<1>2. /\ r \in SessionState /\ Kept(b, r) /\ r.released = b.released /\ r.lateCancel = b.lateCancel
      /\ r.aborted = b.aborted /\ r.producer = p /\ r.stream = v
      /\ r.scope = b.scope /\ r.closing = b.closing
  BY ZenonT(40) DEF SessionState, Kept
<1>3. SessionOK(r)
  BY <1>1, <1>2 DEF Kept, SessionOK, CallOK, StreamOK, EndOK, WorkOK, NotOpened, Returned, SessionState
<1>4. Advances(b, r)
  BY <1>1, <1>2 DEF Kept, Advances, NoneStarts, ScopeSafe, Returned, NotOpened
<1>5. QED
  BY <1>2, <1>3, <1>4 DEF Good

LEMMA UnwindGood ==
  ASSUME NEW b \in SessionState, SessionOK(b), b.stream \notin {"none", "finishing", "done"},
         NEW r, r = Unwind(b)
  PROVE  Good(b, r)
<1>1. CASE b.producer = "none"
  BY <1>1, FinishingGood DEF Unwind, Returned
<1>2. CASE b.producer # "none"
  BY <1>2, ReleasingGood DEF Unwind
<1>3. QED
  BY <1>1, <1>2

\* current(): the read changes nothing the other fields depend on.
LEMMA ReadGood ==
  ASSUME NEW b \in SessionState, SessionOK(b), NEW v \in {"source", "operation", "done"},
         v = "operation" => ~servicesDisposed, NEW r, r = [b EXCEPT !.read = v]
  PROVE  Good(b, r)
  BY DEF Good, SessionState, SessionOK, CallOK, StreamOK, EndOK, WorkOK, NotOpened, Returned, Advances, NoneStarts, ScopeSafe

\* The generator moves on by itself.
LEMMA StreamGood ==
  ASSUME NEW b \in SessionState, SessionOK(b), b.stream # "none" \/ b.call = "open",
         NEW v \in Stream \ {"none"},
         v = "created" => b.producer = "none",
         v \in {"pulling", "emitting"} => b.producer # "none",
         v = "emitting" => ~servicesDisposed,
         v \in {"finishing", "done"} => Returned(b),
         NEW r, r = [b EXCEPT !.stream = v]
  PROVE  Good(b, r)
<1>1. ~NotOpened(b)
  BY DEF SessionOK, CallOK, NotOpened
<1>2. /\ r \in SessionState /\ Kept(b, r) /\ r.released = b.released /\ r.lateCancel = b.lateCancel
      /\ r.aborted = b.aborted /\ r.producer = b.producer /\ r.stream = v
      /\ r.scope = b.scope /\ r.closing = b.closing
  BY DEF SessionState, Kept
<1>3. SessionOK(r)
  BY <1>1, <1>2 DEF Kept, SessionOK, CallOK, StreamOK, EndOK, WorkOK, NotOpened, Returned, SessionState
<1>4. Advances(b, r)
  BY <1>1, <1>2 DEF Kept, Advances, NoneStarts, ScopeSafe
<1>5. QED
  BY <1>2, <1>3, <1>4 DEF Good

\* next() opens the source of a stream nobody has canceled.
LEMMA PullGood ==
  ASSUME NEW b \in SessionState, SessionOK(b), b.stream \in {"created", "yielded"}, ~b.aborted,
         NEW r, r = [b EXCEPT !.stream = "pulling", !.producer = "open"]
  PROVE  Good(b, r)
<1>1. ~NotOpened(b) /\ ~b.coordinated /\ b.closing = "no"
  BY DEF SessionOK, CallOK, EndOK
<1>2. /\ r \in SessionState /\ Kept(b, r) /\ r.released = b.released /\ r.lateCancel = b.lateCancel
      /\ r.aborted = b.aborted /\ r.producer = "open" /\ r.stream = "pulling"
      /\ r.scope = b.scope /\ r.closing = b.closing
  BY ZenonT(40) DEF SessionState, Kept
<1>3. SessionOK(r)
  BY <1>1, <1>2 DEF Kept, SessionOK, CallOK, StreamOK, EndOK, WorkOK, NotOpened, Returned, SessionState
<1>4. Advances(b, r)
  BY <1>1, <1>2 DEF Kept, Advances, NoneStarts, ScopeSafe
<1>5. QED
  BY <1>2, <1>3, <1>4 DEF Good

\* iterator.return() settled.
LEMMA ProducerGood ==
  ASSUME NEW b \in SessionState, SessionOK(b), b.producer = "closing",
         NEW r, r = [b EXCEPT !.producer = "released"]
  PROVE  Good(b, r)
  BY DEF Good, SessionState, SessionOK, CallOK, StreamOK, EndOK, WorkOK, NotOpened, Returned, Advances, NoneStarts, ScopeSafe

\* close() and the scope move on.
LEMMA CloseProceedsGood ==
  ASSUME NEW b \in SessionState, SessionOK(b), NEW r,
         \/ b.closing = "producer" /\ b.producer # "closing" /\ r = [closeScope(b) EXCEPT !.closing = "done"]
         \/ b.closing = "stream" /\ b.stream = "done" /\ r = [disposeScope(b) EXCEPT !.closing = "scope"]
         \/ b.closing = "scope" /\ b.scope = "disposed" /\ r = [b EXCEPT !.closing = "done"]
  PROVE  Good(b, r)
<1>1. ~NotOpened(b) /\ b.closing # "no"
  BY DEF SessionOK, CallOK
<1>2. CASE b.closing = "producer" /\ b.producer # "closing" /\ r = [closeScope(b) EXCEPT !.closing = "done"]
  <2> DEFINE x == closeScope(b)
  <2>1. b.coordinated /\ Returned(b)
    BY <1>2 DEF SessionOK, EndOK, Returned, SessionState
  <2>2. x = releaseAdmission(b)
    BY <2>1 DEF closeScope
  <2>3. /\ x \in SessionState /\ Kept(b, x) /\ x.released = TRUE /\ x.lateCancel = FALSE
        /\ x.aborted = b.aborted /\ x.stream = b.stream /\ x.producer = b.producer
        /\ x.closing = b.closing /\ x.scope = b.scope
    BY <2>2, ReleaseAdmissionResult
  <2>4. r = [x EXCEPT !.closing = "done"]
    BY <1>2
  <2> HIDE DEF x
  <2>5. /\ r \in SessionState /\ Kept(x, r) /\ r.released = TRUE /\ r.lateCancel = FALSE
        /\ r.aborted = x.aborted /\ r.producer = x.producer /\ r.stream = x.stream
        /\ r.scope = x.scope /\ r.closing = "done"
    BY <2>3, <2>4 DEF SessionState, Kept
  <2>6. SessionOK(r)
    BY <1>1, <2>1, <2>3, <2>5 DEF Kept, SessionOK, CallOK, StreamOK, EndOK, WorkOK, NotOpened, Returned, SessionState
  <2>7. Advances(b, r)
    BY <2>3, <2>5 DEF Kept, Advances, NoneStarts, ScopeSafe
  <2>8. QED
    BY <2>5, <2>6, <2>7 DEF Good
<1>3. CASE b.closing = "stream" /\ b.stream = "done" /\ r = [disposeScope(b) EXCEPT !.closing = "scope"]
  <2> DEFINE x == disposeScope(b)
  <2>1. Returned(b)
    BY <1>3 DEF SessionOK, StreamOK
  <2>2. /\ x \in SessionState /\ Kept(b, x)
        /\ b.scope # "open" => x = b
        /\ b.scope = "open" =>
             /\ x.released = TRUE /\ x.lateCancel = FALSE
             /\ x.scope = IF b.coordinated THEN "joining" ELSE "disposing"
        /\ x.aborted = b.aborted /\ x.stream = b.stream /\ x.returning = b.returning
        /\ x.producer = b.producer /\ x.closing = b.closing
    BY DisposeScopeResult
  <2>3. r = [x EXCEPT !.closing = "scope"]
    BY <1>3
  <2> HIDE DEF x
  <2>4. /\ r \in SessionState /\ Kept(x, r) /\ r.released = x.released /\ r.lateCancel = x.lateCancel
        /\ r.aborted = x.aborted /\ r.producer = x.producer /\ r.stream = x.stream
        /\ r.scope = x.scope /\ r.closing = "scope"
    BY <2>2, <2>3 DEF SessionState, Kept
  <2>5. SessionOK(r)
    BY <1>1, <1>3, <2>1, <2>2, <2>4
       DEF Kept, SessionOK, CallOK, StreamOK, EndOK, WorkOK, NotOpened, Returned, SessionState
  <2>6. Operations(r) \subseteq {"current"}
    BY <1>1, <1>3, <2>2, <2>4 DEF Kept, Operations, NotOpened
  <2>7. ScopeSafe(b, r)
    BY <1>1, <1>3, <2>1, <2>2, <2>4, <2>6 DEF Kept, ScopeSafe, SessionOK, EndOK
  <2>8. Advances(b, r)
    BY <1>3, <2>2, <2>4, <2>7 DEF Kept, Advances, NoneStarts
  <2>9. QED
    BY <2>4, <2>5, <2>8 DEF Good
<1>4. CASE b.closing = "scope" /\ b.scope = "disposed" /\ r = [b EXCEPT !.closing = "done"]
  BY <1>1, <1>4
     DEF Good, SessionState, SessionOK, CallOK, StreamOK, EndOK, WorkOK, NotOpened, Returned, Advances, NoneStarts, ScopeSafe
<1>5. QED
  BY <1>2, <1>3, <1>4

\* The caller's signal aborts.
LEMMA CancelGood ==
  ASSUME NEW b \in SessionState, SessionOK(b), b.call \in OpeningCall \cup {"open"}, ~b.aborted \/ b.reserved,
         NEW v \in BOOLEAN, v <=> b.call \in OpeningCall /\ ~b.released,
         NEW r, r = [b EXCEPT !.aborted = TRUE, !.reserved = FALSE, !.lateCancel = v]
  PROVE  Good(b, r)
<1>1. /\ r \in SessionState
      /\ r.call = b.call /\ r.admission = b.admission /\ r.held = b.held /\ r.coordinated = b.coordinated
      /\ r.read = b.read /\ r.work = b.work /\ r.scope = b.scope /\ r.closing = b.closing
      /\ r.taken = b.taken
  BY ZenonT(40) DEF SessionState
<1>2. /\ r.aborted = TRUE /\ r.reserved = FALSE /\ r.lateCancel = v
      /\ r.stream = b.stream /\ r.producer = b.producer /\ r.released = b.released
  BY DEF SessionState
<1>3. SessionOK(r)
  BY <1>1, <1>2 DEF SessionOK, CallOK, StreamOK, EndOK, WorkOK, NotOpened, Returned, SessionState
<1>4. Advances(b, r)
  BY <1>1, <1>2 DEF Advances, NoneStarts, ScopeSafe, SessionOK, CallOK
<1>5. QED
  BY <1>1, <1>3, <1>4 DEF Good

\* close() by the call of openSession, by the caller, by a shutdown or by its
\* work phase: x is the session with what they note about it.
LEMMA CloseGood ==
  ASSUME NEW b \in SessionState, SessionOK(b), NEW x \in SessionState, ~NotOpened(x),
         /\ x.admission = b.admission /\ x.reserved = b.reserved /\ x.lateCancel = b.lateCancel
         /\ x.held = b.held /\ x.coordinated = b.coordinated /\ x.aborted = b.aborted
         /\ x.released = b.released /\ x.stream = b.stream /\ x.producer = b.producer
         /\ x.closing = b.closing /\ x.scope = b.scope /\ x.read = b.read /\ x.taken = b.taken,
         \/ x.call = b.call
         \/ b.call = "opening" /\ x.call \in {"rejecting", "throwing"}
         \/ b.call = "open" /\ x.call = "done",
         x.work = b.work \/ (b.work # "done" /\ x.work = "close"),
         NEW r, r = close(x)
  PROVE  Good(b, r)
<1>1. CallOK(x)
  BY DEF SessionOK, CallOK, NotOpened
<1>2. StreamOK(x) /\ EndOK(x)
  BY DEF SessionOK, CallOK, StreamOK, EndOK, NotOpened, Returned
<1>3. /\ r \in SessionState /\ Kept(x, r)
      /\ CallOK(r) /\ StreamOK(r) /\ EndOK(r) /\ r.closing # "no"
      /\ r.stream = x.stream
      /\ x.released => r.released
      /\ x.lateCancel => r.lateCancel \/ r.released
      /\ x.closing = "done" => r.closing = "done"
      /\ \/ r.scope = x.scope
         \/ /\ x.scope = "open" /\ r.scope = "disposing" /\ r.released
            /\ ~x.coordinated /\ x.stream = "none" /\ x.producer = "none"
  BY <1>1, <1>2, CloseResult
<1>4. WorkOK(r)
  BY <1>3 DEF Kept, SessionOK, WorkOK
<1>5. r.scope # x.scope => Operations(r) \subseteq {"current"}
  BY <1>3 DEF Kept, Operations, NotOpened
<1>6. ScopeSafe(b, r)
  BY <1>3, <1>5 DEF ScopeSafe, Returned
<1>7. Advances(b, r)
  BY <1>3, <1>6 DEF Advances, NoneStarts, Kept
<1>8. QED
  BY <1>3, <1>4, <1>7 DEF Good, SessionOK

\* The scope of a session under a transaction, and of one that is closed.
LEMMA ScopeGood ==
  ASSUME NEW b \in SessionState, SessionOK(b),
         NEW v, \/ b.scope = "joining" /\ Operations(b) = {} /\ v = "disposing"
                \/ b.scope = "disposing" /\ v = "disposed",
         NEW r, r = [b EXCEPT !.scope = v]
  PROVE  Good(b, r)
<1>1. /\ r \in SessionState /\ Kept(b, r) /\ r.released = b.released /\ r.lateCancel = b.lateCancel
      /\ r.aborted = b.aborted /\ r.producer = b.producer /\ r.stream = b.stream
      /\ r.scope = v /\ r.closing = b.closing
  BY DEF SessionState, Kept
<1>2. SessionOK(r)
  BY <1>1 DEF Kept, SessionOK, CallOK, StreamOK, EndOK, WorkOK, NotOpened, Returned, SessionState
<1>3. Operations(r) = Operations(b)
  BY <1>1 DEF Kept, Operations
<1>4. ScopeSafe(b, r)
  BY <1>1, <1>3 DEF ScopeSafe, SessionOK, EndOK
<1>5. Advances(b, r)
  BY <1>1, <1>4 DEF Kept, Advances, NoneStarts
<1>6. QED
  BY <1>1, <1>2, <1>5 DEF Good

\* finishScope() of a session whose work is done.
LEMMA FinishScopeGood ==
  ASSUME NEW b \in SessionState, SessionOK(b), b.coordinated, b.scope = "open", b.work = "done",
         NEW r, r = disposeScope(b)
  PROVE  Good(b, r)
<1>1. Returned(b) /\ ~NotOpened(b)
  BY DEF SessionOK, CallOK, EndOK, WorkOK
<1>2. /\ r \in SessionState /\ Kept(b, r)
      /\ b.scope = "open" =>
           /\ r.released = TRUE /\ r.lateCancel = FALSE
           /\ r.scope = IF b.coordinated THEN "joining" ELSE "disposing"
      /\ r.aborted = b.aborted /\ r.stream = b.stream /\ r.returning = b.returning
      /\ r.producer = b.producer /\ r.closing = b.closing
  BY DisposeScopeResult
<1>3. SessionOK(r)
  BY <1>1, <1>2 DEF Kept, SessionOK, CallOK, StreamOK, EndOK, WorkOK, NotOpened, Returned, SessionState
<1>4. Advances(b, r)
  BY <1>2 DEF Kept, Advances, NoneStarts, ScopeSafe
<1>5. QED
  BY <1>2, <1>3, <1>4 DEF Good

\* joinWork() waits for the stream, and ends.
LEMMA WorkGood ==
  ASSUME NEW b \in SessionState, SessionOK(b), NEW r,
         \/ ~NotOpened(b) /\ b.work = "operations" /\ r = [b EXCEPT !.work = "stream", !.returning = TRUE]
         \/ b.work = "close" /\ b.closing = "done" /\ r = [b EXCEPT !.work = "done"]
  PROVE  Good(b, r)
<1>1. ~NotOpened(b)
  BY DEF SessionOK, CallOK
<1> DEFINE v == IF b.work = "operations" THEN "stream" ELSE "done"
<1>2. /\ r \in SessionState
      /\ r.call = b.call /\ r.admission = b.admission /\ r.reserved = b.reserved /\ r.held = b.held
      /\ r.coordinated = b.coordinated /\ r.work = v /\ r.read = b.read /\ r.taken = b.taken
      /\ r.released = b.released /\ r.lateCancel = b.lateCancel
      /\ r.aborted = b.aborted /\ r.producer = b.producer /\ r.stream = b.stream
      /\ r.scope = b.scope /\ r.closing = b.closing
  <2>1. CASE b.work = "operations" /\ r = [b EXCEPT !.work = "stream", !.returning = TRUE]
    BY ONLY <2>1, b \in SessionState DEF SessionState
  <2>2. CASE b.work = "close" /\ r = [b EXCEPT !.work = "done"]
    BY ONLY <2>2, b \in SessionState DEF SessionState
  <2>3. QED
    BY <2>1, <2>2
<1>3. SessionOK(r)
  BY <1>1, <1>2 DEF SessionOK, CallOK, StreamOK, EndOK, WorkOK, NotOpened, Returned, SessionState
<1>4. Advances(b, r)
  BY <1>1, <1>2 DEF Advances, NoneStarts, ScopeSafe
<1>5. QED
  BY <1>2, <1>3, <1>4 DEF Good

(***************************************************************************)
(* What a step of one session does to the whole                            *)
(***************************************************************************)

\* The sessions the budget of a caller is spent on.
Charged(c) == {s \in OwnedBy(c) \cup ReservedBy(c) : ~ses[s].lateCancel}

\* No budget is spent.
SpendsNothing ==
  /\ limits' = limits
  /\ pool'.observable \subseteq pool.observable
  /\ OpeningFor("subscription")' \subseteq OpeningFor("subscription")
  /\ \A c \in Callers : Charged(c)' \subseteq Charged(c)

\* ScopeOutlivesWork of a step.
ScopesSafe == \A s \in Sessions : ScopeSafe(ses[s], ses'[s])

\* onRelease and onClose move the session and no other.
LEMMA PoolsResult ==
  ASSUME NEW p \in [PoolName -> SUBSET Sessions], NEW s \in Sessions,
         NEW b \in SessionState, NEW r \in SessionState, NEW q, q = Pools(p, s, b, r)
  PROVE  /\ q \in [PoolName -> SUBSET Sessions]
         /\ \A n \in PoolName : \A t \in Sessions \ {s} : t \in q[n] <=> t \in p[n]
         /\ r.released /\ ~b.released =>
              /\ r.held => s \notin q["observable"] /\ s \notin q["snapshot"] /\ s \in q["retiring"]
              /\ ~r.held => s \in q["releasedOpening"] /\ \A n \in PoolName : p[n] \subseteq q[n]
              /\ ~r.held => \A n \in PoolName \ {"releasedOpening"} : q[n] = p[n]
              /\ \A n \in PoolName \ {"retiring", "releasedOpening"} : q[n] \subseteq p[n]
         /\ ~(r.released /\ ~b.released) => \A n \in PoolName : q[n] \subseteq p[n]
         /\ ~(r.released /\ ~b.released) /\ r.scope # "disposed" => q = p
<1>1. CASE r.released /\ ~b.released
  <2>1. q = onRelease(p, s, r.held)
    BY <1>1 DEF Pools
  <2>2. CASE r.held
    <3> DEFINE o == p["observable"] \ {s}
               h == p["snapshot"] \ {s}
               g == p["retiring"] \cup {s}
    <3>1. q = [p EXCEPT !["observable"] = o, !["snapshot"] = h, !["retiring"] = g]
      BY <2>1, <2>2 DEF onRelease
    <3>2. /\ q \in [PoolName -> SUBSET Sessions]
          /\ q["observable"] = o /\ q["snapshot"] = h /\ q["retiring"] = g
          /\ q["opening"] = p["opening"] /\ q["releasedOpening"] = p["releasedOpening"]
      BY <3>1 DEF PoolName
    <3>3. QED
      BY <1>1, <2>2, <3>2 DEF PoolName
  <2>3. CASE ~r.held
    BY <1>1, <2>1, <2>3 DEF onRelease, PoolName
  <2>4. QED
    BY <2>2, <2>3
<1>2. CASE ~(r.released /\ ~b.released) /\ r.scope = "disposed" /\ b.scope # "disposed"
  <2>1. q = onClose(p, s, r.held)
    BY <1>2 DEF Pools
  <2>2. QED
    BY <1>2, <2>1 DEF onClose, PoolName
<1>3. CASE ~(r.released /\ ~b.released) /\ ~(r.scope = "disposed" /\ b.scope # "disposed")
  BY <1>3 DEF Pools
<1>4. QED
  BY <1>1, <1>2, <1>3

LEMMA GoneOK ==
  /\ Gone \in SessionState /\ SessionOK(Gone)
  /\ Gone.call = "done" /\ ~Gone.coordinated /\ ~Gone.reserved /\ Gone.scope = "disposed"
  /\ Gone.taken = "no" /\ Operations(Gone) = {}
  BY DEF Gone, Fresh, Operations, SessionState, SessionOK, CallOK, StreamOK, EndOK, WorkOK, NotOpened, Returned

LEMMA StepResult ==
  ASSUME SessionsInv, NEW s \in Sessions, NEW r, Good(ses[s], r), Step(s, r)
  PROVE  SessionsInv' /\ SpendsNothing /\ ScopesSafe
<1> DEFINE b == ses[s]
           e == IF Collected(r) THEN Gone ELSE r
<1>1. /\ b \in SessionState /\ SessionOK(b) /\ PlaceOK(s)
      /\ r \in SessionState /\ SessionOK(r) /\ Advances(b, r)
      /\ pool \in [PoolName -> SUBSET Sessions]
  BY DEF SessionsInv, TypeOK, Good
<1>2. /\ ses' = [ses EXCEPT ![s] = e]
      /\ pool' = Pools(pool, s, b, r)
      /\ limits' = limits /\ shutdown' = shutdown /\ owned' = owned /\ registry' = registry
  BY DEF Step, Put
<1>3. /\ e \in SessionState /\ SessionOK(e)
      /\ e # r => e = Gone /\ r.scope = "disposed" /\ r.call = "done"
  BY <1>1, GoneOK DEF Collected
<1>4. /\ ses' \in [Sessions -> SessionState] /\ ses'[s] = e
      /\ \A t \in Sessions \ {s} : ses'[t] = ses[t]
  BY <1>2, <1>3 DEF SessionsInv, TypeOK
<1>5. /\ pool' \in [PoolName -> SUBSET Sessions]
      /\ \A n \in PoolName : \A t \in Sessions \ {s} : t \in pool'[n] <=> t \in pool[n]
      /\ r.released /\ ~b.released =>
           /\ r.held => s \notin pool'["observable"] /\ s \notin pool'["snapshot"] /\ s \in pool'["retiring"]
           /\ ~r.held => s \in pool'["releasedOpening"] /\ \A n \in PoolName : pool[n] \subseteq pool'[n]
           /\ ~r.held => \A n \in PoolName \ {"releasedOpening"} : pool'[n] = pool[n]
           /\ \A n \in PoolName \ {"retiring", "releasedOpening"} : pool'[n] \subseteq pool[n]
      /\ ~(r.released /\ ~b.released) => \A n \in PoolName : pool'[n] \subseteq pool[n]
      /\ ~(r.released /\ ~b.released) /\ r.scope # "disposed" => pool' = pool
  BY <1>1, <1>2, PoolsResult
<1> HIDE DEF e, b
<1>6. TypeOK'
  BY <1>2, <1>4, <1>5 DEF SessionsInv, TypeOK
<1>7. \A t \in Sessions \ {s} : (SessionOK(ses[t]) /\ PlaceOK(t))'
  BY <1>2, <1>4, <1>5 DEF SessionsInv, PlaceOK, coordinatedSessions, sessions, PoolName
<1>8. PlaceOK(s)'
  <2>1. s \in pool'["observable"] \cup pool'["snapshot"] =>
          e = r /\ r.call \in {"open", "done"} /\ r.scope = "open" /\ ~r.released /\ r.held
    <3>1. SUFFICES ASSUME s \in pool'["observable"] \cup pool'["snapshot"]
                   PROVE  e = r /\ r.call \in {"open", "done"} /\ r.scope = "open" /\ ~r.released /\ r.held
      OBVIOUS
    <3>2. s \in pool["observable"] \cup pool["snapshot"]
      BY <1>5, <3>1 DEF PoolName
    <3>3. b.call \in {"open", "done"} /\ b.scope = "open" /\ ~b.released /\ b.held
      BY <1>1, <3>2 DEF PlaceOK, b
    <3>4. r.held /\ r.call \in {"open", "done"} /\ r.scope \in {"open", "joining", "disposing"}
      BY <1>1, <3>3 DEF Advances
    <3>5. ~r.released
      BY <1>5, <3>1, <3>3, <3>4
    <3>6. QED
      BY <1>1, <1>3, <3>4, <3>5 DEF SessionOK, EndOK
  <2>2. s \in pool'["retiring"] \cup owned' => ~NotOpened(e)
    <3>1. SUFFICES ASSUME s \in pool'["retiring"] \cup owned', NotOpened(e)
                   PROVE  FALSE
      OBVIOUS
    <3>2. e = r /\ ~r.released
      BY <1>3, <3>1, GoneOK DEF NotOpened, SessionOK, CallOK
    <3>3. NotOpened(b)
      BY <1>1, <3>1, <3>2 DEF NotOpened, Advances
    <3>4. s \in pool["retiring"] \cup owned
      BY <1>2, <1>5, <3>1, <3>2 DEF PoolName
    <3>5. QED
      BY <1>1, <3>3, <3>4 DEF PlaceOK, b
  <2>3. e.call = "idle" => \A n \in PoolName : s \notin pool'[n]
    <3>1. SUFFICES ASSUME e.call = "idle", NEW n \in PoolName, s \in pool'[n]
                   PROVE  FALSE
      OBVIOUS
    <3>2. e = r /\ ~r.released
      BY <1>3, <3>1, GoneOK DEF NotOpened, SessionOK, CallOK
    <3>3. b.call = "idle"
      BY <1>1, <3>1, <3>2 DEF Advances
    <3>4. s \in pool[n]
      BY <1>5, <3>1, <3>2
    <3>5. QED
      BY <1>1, <3>3, <3>4 DEF PlaceOK, b, coordinatedSessions, sessions, PoolName
  <2>4. e.scope \notin {"none", "disposed"} =>
         \/ e.released /\ s \in pool'["retiring"] \cup pool'["releasedOpening"]
         \/ ~e.released /\ e.held /\ s \in pool'["observable"] \cup pool'["snapshot"]
         \/ ~e.released /\ ~e.held /\ s \in pool'["opening"]
    <3>1. SUFFICES ASSUME e.scope \notin {"none", "disposed"}
                   PROVE  \/ r.released /\ s \in pool'["retiring"] \cup pool'["releasedOpening"]
                          \/ ~r.released /\ r.held /\ s \in pool'["observable"] \cup pool'["snapshot"]
                          \/ ~r.released /\ ~r.held /\ s \in pool'["opening"]
      BY <1>3, GoneOK
    <3>2. e = r /\ r.scope \notin {"none", "disposed"}
      BY <1>3, <3>1, GoneOK
    <3>3. b.scope \notin {"none", "disposed"}
      BY <1>1, <3>2 DEF Advances
    <3>4. \/ b.released /\ s \in pool["retiring"] \cup pool["releasedOpening"]
          \/ ~b.released /\ b.held /\ s \in pool["observable"] \cup pool["snapshot"]
          \/ ~b.released /\ ~b.held /\ s \in pool["opening"]
      BY <1>1, <3>3 DEF PlaceOK, b
    <3>5. CASE r.released /\ ~b.released
      BY <1>1, <1>5, <3>5 DEF SessionState
    <3>6. CASE ~(r.released /\ ~b.released)
      BY <1>1, <1>5, <3>2, <3>4, <3>6 DEF Advances
    <3>7. QED
      BY <3>5, <3>6
  <2>5. QED
    BY <1>4, <2>1, <2>2, <2>3, <2>4 DEF PlaceOK, coordinatedSessions, sessions, PoolName
<1>9. shutdown' \in {"scopes", "ended"} => \A t \in Coordinated' : ses'[t].work = "done"
  <2>1. SUFFICES ASSUME shutdown' \in {"scopes", "ended"}, NEW t \in Sessions, ses'[t].coordinated
                 PROVE  ses'[t].work = "done"
    BY DEF Coordinated
  <2>2. \A u \in Sessions : ses[u].coordinated => ses[u].work = "done"
    BY <1>2, <2>1 DEF SessionsInv, Coordinated
  <2>3. CASE t = s
    <3>1. e = r
      BY <1>3, <1>4, <2>1, <2>3, GoneOK
    <3>2. b.coordinated /\ b.work = "done"
      BY <1>1, <1>4, <2>1, <2>2, <2>3, <3>1 DEF Advances, b
    <3>3. QED
      BY <1>1, <1>4, <2>3, <3>1, <3>2 DEF Advances
  <2>4. CASE t # s
    BY <1>4, <2>1, <2>2, <2>4
  <2>5. QED
    BY <2>3, <2>4
<1>10. SpendsNothing
  <2>1. pool'["observable"] \subseteq pool["observable"]
    BY <1>5 DEF PoolName
  <2>2. OpeningFor("subscription")' \subseteq OpeningFor("subscription")
    <3>1. e.call \in OpeningCall => b.call \in OpeningCall /\ e.admission = b.admission
      BY <1>1, <1>3, GoneOK DEF Advances
    <3>2. QED
      BY <1>4, <3>1 DEF OpeningFor, b
  <2>3. ASSUME NEW c \in Callers PROVE Charged(c)' \subseteq Charged(c)
    <3>1. ASSUME s \in Charged(c)' PROVE s \in Charged(c)
      <4>1. e = r /\ ~r.lateCancel
        BY <1>3, <1>4, <1>8, <3>1, GoneOK DEF Charged, OwnedBy, ReservedBy, PlaceOK
      <4>2. CallerOf[s] = c /\ (s \in pool'["observable"] \/ r.reserved)
        BY <1>4, <3>1, <4>1 DEF Charged, OwnedBy, ReservedBy
      <4>3. s \in pool["observable"] \/ b.reserved
        BY <1>1, <2>1, <4>2 DEF Advances
      <4>4. ~b.lateCancel
        <5>1. CASE r.reserved
          BY <1>1, <5>1 DEF Advances, SessionOK, CallOK
        <5>2. CASE s \in pool'["observable"]
          BY <1>1, <1>4, <1>8, <4>1, <5>2 DEF Advances, PlaceOK
        <5>3. QED
          BY <4>2, <5>1, <5>2
      <4>5. QED
        BY <4>2, <4>3, <4>4 DEF Charged, OwnedBy, ReservedBy, b
    <3>2. ASSUME NEW t \in Sessions \ {s}, t \in Charged(c)' PROVE t \in Charged(c)
      BY <1>4, <2>1, <3>2 DEF Charged, OwnedBy, ReservedBy
    <3>3. Charged(c)' \subseteq Sessions
      BY <1>5 DEF Charged, OwnedBy, ReservedBy, PoolName
    <3>4. QED
      BY <3>1, <3>2, <3>3
  <2>4. QED
    BY <1>2, <2>1, <2>2, <2>3 DEF SpendsNothing
<1>11. ScopesSafe
  <2>1. ScopeSafe(b, e)
    BY <1>1, <1>3, GoneOK DEF Advances, ScopeSafe
  <2>2. QED
    BY <1>4, <2>1 DEF ScopesSafe, ScopeSafe, b
<1>12. RegistryOK'
  <2>1. e.taken = "no" \/ e.taken = b.taken
    BY <1>1, <1>3, GoneOK DEF Advances, NoneStarts
  <2>2. servicesDisposed => Operations(e) \subseteq Operations(b)
    BY <1>1, <1>3, GoneOK DEF Advances, NoneStarts, Operations
  <2>3. RegistryOK
    BY DEF SessionsInv
  <2>4. QED
    BY <1>2, <1>4, <2>1, <2>2, <2>3 DEF RegistryOK, servicesDisposed, b
<1>13. QED
  BY <1>3, <1>4, <1>6, <1>7, <1>8, <1>9, <1>10, <1>11, <1>12 DEF SessionsInv

(***************************************************************************)
(* The actions that are a step of one session                              *)
(***************************************************************************)

\* What a caller does.
LEMMA CallerSteps ==
  ASSUME SessionsInv, NEW s \in Sessions,
         \/ Cancel(s) \/ ReadCurrent(s) \/ results(s) \/ CallerCloses(s)
         \/ Pull(s) \/ SourceEmits(s) \/ PullEnds(s) \/ StreamFails(s)
  PROVE  SessionsInv' /\ SpendsNothing /\ ScopesSafe
<1> DEFINE b == ses[s]
<1>1. b \in SessionState /\ SessionOK(b)
  BY DEF SessionsInv, TypeOK
<1>2. SUFFICES \E r : Good(b, r) /\ Step(s, r)
  BY StepResult
<1>3. CASE Cancel(s)
  <2> DEFINE v == b.call \in OpeningCall /\ ~b.released
             r == [b EXCEPT !.aborted = TRUE, !.reserved = FALSE, !.lateCancel = v]
  <2>1. Step(s, r) /\ b.call \in OpeningCall \cup {"open"} /\ (~b.aborted \/ b.reserved)
    BY <1>3 DEF Cancel
  <2>2. Good(b, r)
    BY <1>1, <2>1, CancelGood
  <2>3. QED
    BY <2>1, <2>2
<1>4. CASE ReadCurrent(s)
  <2> DEFINE r == [b EXCEPT !.read = "source"]
  <2>1. Step(s, r)
    BY <1>4 DEF ReadCurrent
  <2>2. Good(b, r)
    BY <1>1, ReadGood
  <2>3. QED
    BY <2>1, <2>2
<1>5. CASE results(s)
  <2> DEFINE r == [b EXCEPT !.stream = "created"]
  <2>1. Step(s, r) /\ b.call = "open" /\ b.stream = "none"
    BY <1>5 DEF results
  <2>2. b.producer = "none"
    BY <1>1, <2>1 DEF SessionOK, StreamOK
  <2>3. Good(b, r)
    BY <1>1, <2>1, <2>2, StreamGood
  <2>4. QED
    BY <2>1, <2>3
<1>6. CASE CallerCloses(s)
  <2> DEFINE x == [b EXCEPT !.call = "done"]
             r == close(x)
  <2>1. Step(s, r) /\ b.call = "open"
    BY <1>6 DEF CallerCloses
  <2>2. /\ x \in SessionState /\ x.call = "done" /\ x.work = b.work
        /\ x.admission = b.admission /\ x.reserved = b.reserved /\ x.lateCancel = b.lateCancel
        /\ x.held = b.held /\ x.coordinated = b.coordinated /\ x.aborted = b.aborted
        /\ x.released = b.released /\ x.stream = b.stream /\ x.producer = b.producer
        /\ x.closing = b.closing /\ x.scope = b.scope /\ x.read = b.read /\ x.taken = b.taken
    BY ONLY <1>1 DEF SessionState
  <2> HIDE DEF x
  <2>3. ~NotOpened(x)
    BY <2>2 DEF NotOpened
  <2>4. Good(b, r)
    BY <1>1, <2>1, <2>2, <2>3, CloseGood
  <2>5. QED
    BY <2>1, <2>4
<1>7. CASE Pull(s)
  <2>1. b.stream \in {"created", "yielded", "yieldedLast"}
    BY <1>7 DEF Pull
  <2>2. CASE b.aborted \/ b.stream = "yieldedLast"
    <3>1. Step(s, Unwind(b))
      BY <1>7, <2>2 DEF Pull
    <3>2. Good(b, Unwind(b))
      BY <1>1, <2>1, UnwindGood
    <3>3. QED
      BY <3>1, <3>2
  <2>3. CASE ~(b.aborted \/ b.stream = "yieldedLast")
    <3> DEFINE r == [b EXCEPT !.stream = "pulling", !.producer = "open"]
    <3>1. Step(s, r)
      BY <1>7, <2>3 DEF Pull
    <3>2. Good(b, r)
      BY <1>1, <2>1, <2>3, PullGood
    <3>3. QED
      BY <3>1, <3>2
  <2>4. QED
    BY <2>2, <2>3
<1>8. CASE SourceEmits(s)
  <2> DEFINE r == [b EXCEPT !.stream = "emitting"]
  <2>1. Step(s, r) /\ b.stream = "pulling" /\ ~servicesDisposed
    BY <1>8 DEF SourceEmits
  <2>2. b.producer # "none"
    BY <1>1, <2>1 DEF SessionOK, StreamOK
  <2>3. Good(b, r)
    BY <1>1, <2>1, <2>2, StreamGood
  <2>4. QED
    BY <2>1, <2>3
<1>9. CASE PullEnds(s)
  <2>1. Step(s, Unwind(b)) /\ b.stream = "pulling"
    BY <1>9 DEF PullEnds
  <2>2. Good(b, Unwind(b))
    BY <1>1, <2>1, UnwindGood
  <2>3. QED
    BY <2>1, <2>2
<1>10. CASE StreamFails(s)
  <2> DEFINE v == IF b.aborted THEN "releasing" ELSE "failing"
             q == IF b.producer = "open" THEN "closing" ELSE b.producer
             r == [b EXCEPT !.stream = v, !.producer = q]
  <2>1. b.stream \in {"pulling", "emitting"} /\ Step(s, [Unwind(b) EXCEPT !.stream = v])
    BY <1>10 DEF StreamFails
  <2>2. b.producer # "none"
    BY <1>1, <2>1 DEF SessionOK, StreamOK
  <2>3. Unwind(b) = [b EXCEPT !.stream = "releasing", !.producer = q]
    BY <2>2 DEF Unwind
  <2>4. [Unwind(b) EXCEPT !.stream = v] = r
    BY ONLY <1>1, <2>3 DEF SessionState
  <2>5. Good(b, r)
    BY <1>1, <2>1, <2>2, ReleasingGood
  <2>6. QED
    BY <2>1, <2>4, <2>5
<1>11. QED
  BY <1>3, <1>4, <1>5, <1>6, <1>7, <1>8, <1>9, <1>10

\* What the session's own code does.
LEMMA RunSteps ==
  ASSUME SessionsInv, NEW s \in Sessions,
         \/ \E how \in {"rejecting", "throwing"} : PipelineFails(s, how)
         \/ \E value \in BOOLEAN : SourceReads(s, value)
         \/ ReadSettles(s)
         \/ \E next \in {"yielded", "yieldedLast", "pulling"} : EmissionSettles(s, next)
         \/ ReturnTaken(s) \/ ProducerReleased(s) \/ ReleaseAwaited(s) \/ StreamDone(s)
         \/ CloseProceeds(s) \/ OperationsJoined(s) \/ ScopeDisposed(s)
  PROVE  SessionsInv' /\ SpendsNothing /\ ScopesSafe
<1> DEFINE b == ses[s]
<1>1. b \in SessionState /\ SessionOK(b)
  BY DEF SessionsInv, TypeOK
<1>2. SUFFICES \E r : Good(b, r) /\ Step(s, r)
  BY StepResult
<1>3. CASE \E how \in {"rejecting", "throwing"} : PipelineFails(s, how)
  <2>1. PICK how \in {"rejecting", "throwing"} : PipelineFails(s, how)
    BY <1>3
  <2> DEFINE x == [b EXCEPT !.call = how]
             r == close(x)
  <2>2. Step(s, r) /\ b.call = "opening"
    BY <2>1 DEF PipelineFails
  <2>3. /\ x \in SessionState /\ x.call = how /\ x.work = b.work
        /\ x.admission = b.admission /\ x.reserved = b.reserved /\ x.lateCancel = b.lateCancel
        /\ x.held = b.held /\ x.coordinated = b.coordinated /\ x.aborted = b.aborted
        /\ x.released = b.released /\ x.stream = b.stream /\ x.producer = b.producer
        /\ x.closing = b.closing /\ x.scope = b.scope /\ x.read = b.read /\ x.taken = b.taken
    BY ONLY <1>1, how \in {"rejecting", "throwing"} DEF SessionState
  <2> HIDE DEF x
  <2>4. ~NotOpened(x)
    BY <2>3 DEF NotOpened
  <2>5. Good(b, r)
    BY <1>1, <2>2, <2>3, <2>4, CloseGood
  <2>6. QED
    BY <2>2, <2>5
<1>4. CASE \E value \in BOOLEAN : SourceReads(s, value)
  <2>1. PICK value \in BOOLEAN : SourceReads(s, value)
    BY <1>4
  <2> DEFINE v == IF value /\ ~servicesDisposed THEN "operation" ELSE "done"
             r == [b EXCEPT !.read = v]
  <2>2. Step(s, r)
    BY <2>1 DEF SourceReads
  <2>3. Good(b, r)
    BY <1>1, ReadGood
  <2>4. QED
    BY <2>2, <2>3
<1>5. CASE ReadSettles(s)
  <2> DEFINE r == [b EXCEPT !.read = "done"]
  <2>1. Step(s, r)
    BY <1>5 DEF ReadSettles
  <2>2. Good(b, r)
    BY <1>1, ReadGood
  <2>3. QED
    BY <2>1, <2>2
<1>6. CASE \E next \in {"yielded", "yieldedLast", "pulling"} : EmissionSettles(s, next)
  <2>1. PICK next \in {"yielded", "yieldedLast", "pulling"} : EmissionSettles(s, next)
    BY <1>6
  <2>2. b.stream = "emitting"
    BY <2>1 DEF EmissionSettles
  <2>3. CASE (b.coordinated \/ next = "pulling") /\ b.aborted
    <3>1. Step(s, Unwind(b))
      BY <2>1, <2>3 DEF EmissionSettles
    <3>2. Good(b, Unwind(b))
      BY <1>1, <2>2, UnwindGood
    <3>3. QED
      BY <3>1, <3>2
  <2>4. CASE ~((b.coordinated \/ next = "pulling") /\ b.aborted)
    <3> DEFINE r == [b EXCEPT !.stream = next]
    <3>1. Step(s, r)
      BY <2>1, <2>4 DEF EmissionSettles
    <3>2. b.producer # "none"
      BY <1>1, <2>2 DEF SessionOK, StreamOK
    <3>3. Good(b, r)
      BY <1>1, <2>2, <3>2, StreamGood
    <3>4. QED
      BY <3>1, <3>3
  <2>5. QED
    BY <2>3, <2>4
<1>7. CASE ReturnTaken(s)
  <2>1. CASE b.stream = "created" /\ Step(s, [b EXCEPT !.stream = "done"])
    <3> DEFINE r == [b EXCEPT !.stream = "done"]
    <3>1. Returned(b)
      BY <1>1, <2>1 DEF SessionOK, StreamOK, Returned
    <3>2. Good(b, r)
      BY <1>1, <2>1, <3>1, StreamGood
    <3>3. QED
      BY <2>1, <3>2
  <2>2. CASE b.stream \in {"yielded", "yieldedLast"} /\ Step(s, Unwind(b))
    <3>1. Good(b, Unwind(b))
      BY <1>1, <2>2, UnwindGood
    <3>2. QED
      BY <2>2, <3>1
  <2>3. QED
    BY <1>7, <2>1, <2>2 DEF ReturnTaken
<1>8. CASE ProducerReleased(s)
  <2> DEFINE r == [b EXCEPT !.producer = "released"]
  <2>1. Step(s, r) /\ b.producer = "closing"
    BY <1>8 DEF ProducerReleased
  <2>2. Good(b, r)
    BY <1>1, <2>1, ProducerGood
  <2>3. QED
    BY <2>1, <2>2
<1>9. CASE ReleaseAwaited(s)
  <2>1. b.producer = "released" /\ Returned(b)
    BY <1>9 DEF ReleaseAwaited, Returned
  <2>2. CASE b.stream = "releasing" /\ Step(s, [closeScope(b) EXCEPT !.stream = "finishing"])
    <3> DEFINE r == [closeScope(b) EXCEPT !.stream = "finishing"]
    <3>1. Good(b, r)
      BY <1>1, <2>1, <2>2, FinishingGood
    <3>2. QED
      BY <2>2, <3>1
  <2>3. CASE b.stream = "failing" /\ b.aborted /\ Step(s, [b EXCEPT !.stream = "releasing"])
    <3> DEFINE r == [b EXCEPT !.stream = "releasing"]
    <3>1. Good(b, r)
      BY <1>1, <2>3, StreamGood
    <3>2. QED
      BY <2>3, <3>1
  <2>4. CASE b.stream = "failing" /\ ~b.aborted /\ Step(s, [b EXCEPT !.stream = "yieldedLast"])
    <3> DEFINE r == [b EXCEPT !.stream = "yieldedLast"]
    <3>1. Good(b, r)
      BY <1>1, <2>4, StreamGood
    <3>2. QED
      BY <2>4, <3>1
  <2>5. QED
    BY <1>9, <2>2, <2>3, <2>4 DEF ReleaseAwaited
<1>10. CASE StreamDone(s)
  <2> DEFINE r == [b EXCEPT !.stream = "done"]
  <2>1. Step(s, r) /\ b.stream = "finishing"
    BY <1>10 DEF StreamDone
  <2>2. Returned(b)
    BY <1>1, <2>1 DEF SessionOK, StreamOK
  <2>3. Good(b, r)
    BY <1>1, <2>1, <2>2, StreamGood
  <2>4. QED
    BY <2>1, <2>3
<1>11. CASE CloseProceeds(s)
  <2>1. PICK r : /\ Step(s, r)
                 /\ \/ b.closing = "producer" /\ b.producer # "closing" /\ r = [closeScope(b) EXCEPT !.closing = "done"]
                    \/ b.closing = "stream" /\ b.stream = "done" /\ r = [disposeScope(b) EXCEPT !.closing = "scope"]
                    \/ b.closing = "scope" /\ b.scope = "disposed" /\ r = [b EXCEPT !.closing = "done"]
    BY <1>11 DEF CloseProceeds
  <2>2. Good(b, r)
    BY <1>1, <2>1, CloseProceedsGood
  <2>3. QED
    BY <2>1, <2>2
<1>12. CASE OperationsJoined(s)
  <2> DEFINE r == [b EXCEPT !.scope = "disposing"]
  <2>1. Step(s, r) /\ b.scope = "joining" /\ Operations(b) = {}
    BY <1>12 DEF OperationsJoined
  <2>2. Good(b, r)
    BY <1>1, <2>1, ScopeGood
  <2>3. QED
    BY <2>1, <2>2
<1>13. CASE ScopeDisposed(s)
  <2> DEFINE r == [b EXCEPT !.scope = "disposed"]
  <2>1. Step(s, r) /\ b.scope = "disposing"
    BY <1>13 DEF ScopeDisposed
  <2>2. Good(b, r)
    BY <1>1, <2>1, ScopeGood
  <2>3. QED
    BY <2>1, <2>2
<1>14. QED
  BY <1>3, <1>4, <1>5, <1>6, <1>7, <1>8, <1>9, <1>10, <1>11, <1>12, <1>13

\* What a shutdown does with a session.
LEMMA EndSteps ==
  ASSUME SessionsInv, NEW s \in Sessions, Ends(s)
  PROVE  SessionsInv' /\ SpendsNothing /\ ScopesSafe
<1> DEFINE b == ses[s]
           x == [b EXCEPT !.work = "close"]
<1>1. b \in SessionState /\ SessionOK(b)
  BY DEF SessionsInv, TypeOK
<1>2. SUFFICES \E r : Good(b, r) /\ Step(s, r)
  BY StepResult
<1>3. ~NotOpened(b) /\ b.work # "done" => Good(b, close(x))
  <2>1. /\ x \in SessionState /\ x.call = b.call /\ x.work = "close"
        /\ x.admission = b.admission /\ x.reserved = b.reserved /\ x.lateCancel = b.lateCancel
        /\ x.held = b.held /\ x.coordinated = b.coordinated /\ x.aborted = b.aborted
        /\ x.released = b.released /\ x.stream = b.stream /\ x.producer = b.producer
        /\ x.closing = b.closing /\ x.scope = b.scope /\ x.read = b.read /\ x.taken = b.taken
    BY ONLY <1>1 DEF SessionState
  <2> HIDE DEF x
  <2>2. QED
    BY <1>1, <2>1, CloseGood DEF NotOpened
<1>4. Operations(b) = {} /\ b.work # "no" => ~NotOpened(b)
  BY <1>1 DEF Operations, NotOpened, SessionOK, CallOK
<1>5. CASE b.work = "operations" /\ Operations(b) = {} /\ b.stream = "none" /\ Step(s, close(x))
  BY <1>3, <1>4, <1>5
<1>6. CASE /\ b.work = "operations" /\ Operations(b) = {} /\ b.stream # "none"
           /\ Step(s, [b EXCEPT !.work = "stream", !.returning = TRUE])
  BY <1>1, <1>4, <1>6, WorkGood
<1>7. CASE b.work = "stream" /\ b.stream = "done" /\ Step(s, close(x))
  <2>1. ~NotOpened(b)
    BY <1>1, <1>7 DEF SessionOK, CallOK
  <2>2. QED
    BY <1>3, <1>7, <2>1
<1>8. CASE b.work = "close" /\ b.closing = "done" /\ Step(s, [b EXCEPT !.work = "done"])
  BY <1>1, <1>8, WorkGood
<1>9. CASE finishScope(s)
  <2>1. b.coordinated /\ b.scope = "open" /\ shutdown = "scopes" /\ Step(s, disposeScope(b))
    BY <1>9 DEF finishScope
  <2>2. b.work = "done"
    BY <2>1 DEF SessionsInv, Coordinated
  <2>3. Good(b, disposeScope(b))
    BY <1>1, <2>1, <2>2, FinishScopeGood
  <2>4. QED
    BY <2>1, <2>3
<1>10. CASE CloseOwned(s)
  <2>1. s \in owned /\ Step(s, close(b))
    BY <1>10 DEF CloseOwned
  <2>2. ~NotOpened(b)
    BY <2>1 DEF SessionsInv, PlaceOK
  <2>3. Good(b, close(b))
    BY <1>1, <2>2, CloseGood
  <2>4. QED
    BY <2>1, <2>3
<1>11. QED
  <2>1. joinWork(s) \/ finishScope(s) \/ CloseOwned(s)
    BY DEF Ends
  <2>2. QED
    BY <1>5, <1>6, <1>7, <1>8, <1>9, <1>10, <2>1 DEF joinWork

(***************************************************************************)
(* Budgets                                                                 *)
(***************************************************************************)

LEMMA FiniteParts ==
  ASSUME TypeOK
  PROVE  /\ IsFiniteSet(pool.observable) /\ IsFiniteSet(OpeningFor("subscription"))
         /\ \A c \in Callers : IsFiniteSet(OwnedBy(c)) /\ IsFiniteSet(ReservedBy(c)) /\ IsFiniteSet(Charged(c))
         /\ Cardinality(pool.observable) \in Nat /\ Cardinality(OpeningFor("subscription")) \in Nat
         /\ \A c \in Callers : /\ Cardinality(OwnedBy(c)) \in Nat /\ Cardinality(ReservedBy(c)) \in Nat
                              /\ Cardinality(Charged(c)) \in Nat
         /\ limits.subscriptions \in Nat /\ limits.perCaller \in Nat
<1>1. \A S : S \subseteq Sessions => IsFiniteSet(S) /\ Cardinality(S) \in Nat
  BY SessionsFinite, FS_Subset, FS_CardinalityType
<1>2. pool.observable \subseteq Sessions
  BY DEF TypeOK, PoolName
<1>3. OpeningFor("subscription") \subseteq Sessions
  BY DEF OpeningFor
<1>4. \A c \in Callers : /\ OwnedBy(c) \subseteq Sessions /\ ReservedBy(c) \subseteq Sessions
                         /\ Charged(c) \subseteq Sessions
  BY <1>2 DEF OwnedBy, ReservedBy, Charged
<1>5. limits.subscriptions \in Nat /\ limits.perCaller \in Nat
  BY BudgetsPositive DEF TypeOK
<1>6. QED
  BY <1>1, <1>2, <1>3, <1>4, <1>5

LEMMA OneMore ==
  ASSUME NEW S, IsFiniteSet(S), NEW x, NEW T, T \subseteq S \cup {x}
  PROVE  IsFiniteSet(T) /\ Cardinality(T) \in Nat /\ Cardinality(T) <= Cardinality(S) + 1
<1>1. /\ IsFiniteSet(S \cup {x}) /\ Cardinality(S) \in Nat
      /\ Cardinality(S \cup {x}) \in Nat /\ Cardinality(S \cup {x}) <= Cardinality(S) + 1
  <2>1. Cardinality(S) \in Nat
    BY FS_CardinalityType
  <2>2. /\ IsFiniteSet(S \cup {x})
        /\ Cardinality(S \cup {x}) = IF x \in S THEN Cardinality(S) ELSE Cardinality(S) + 1
    BY FS_AddElement
  <2>3. QED
    BY ONLY <2>1, <2>2
<1>2. IsFiniteSet(T) /\ Cardinality(T) <= Cardinality(S \cup {x})
  BY <1>1, FS_Subset
<1>3. Cardinality(T) \in Nat
  BY <1>2, FS_CardinalityType
<1>4. QED
  BY <1>1, <1>2, <1>3

LEMMA BudgetKept ==
  ASSUME SessionsInv, SubscriptionBudgets, SpendsNothing
  PROVE  SubscriptionBudgets'
<1>1. TypeOK
  BY DEF SessionsInv
<1>2. /\ Cardinality(pool'.observable) <= Cardinality(pool.observable)
      /\ Cardinality(OpeningFor("subscription")') <= Cardinality(OpeningFor("subscription"))
      /\ Cardinality(pool'.observable) \in Nat /\ Cardinality(OpeningFor("subscription")') \in Nat
  BY <1>1, FiniteParts, FS_Subset, FS_CardinalityType DEF SpendsNothing
<1>3. ASSUME NEW c \in Callers
      PROVE  Cardinality(Charged(c)') <= Cardinality(Charged(c)) /\ Cardinality(Charged(c)') \in Nat
  BY <1>1, FiniteParts, FS_Subset, FS_CardinalityType DEF SpendsNothing
<1>4. limits' = limits
  BY DEF SpendsNothing
<1>5. \A c \in Callers : Cardinality(Charged(c)) <= limits.perCaller
  BY DEF SubscriptionBudgets, Charged
<1>6. \A c \in Callers : Cardinality(Charged(c)') <= limits'.perCaller
  BY <1>1, <1>3, <1>4, <1>5, FiniteParts
<1>7. Cardinality(pool'.observable) + Cardinality(OpeningFor("subscription")') <= limits'.subscriptions
  BY <1>1, <1>2, <1>4, FiniteParts DEF SubscriptionBudgets
<1>8. QED
  BY <1>6, <1>7 DEF SubscriptionBudgets, Charged

\* A place given under hasSubscriptionCapacity is the only one that is taken.
LEMMA CapacityChecked ==
  ASSUME SessionsInv, SubscriptionBudgets, NEW s \in Sessions, hasSubscriptionCapacity(CallerOf[s]),
         limits' = limits,
         \/ /\ pool'.observable \subseteq pool.observable \cup {s}
            /\ OpeningFor("subscription")' \subseteq OpeningFor("subscription")
         \/ /\ pool'.observable \subseteq pool.observable
            /\ OpeningFor("subscription")' \subseteq OpeningFor("subscription") \cup {s},
         \A c \in Callers : Charged(c)' \subseteq IF c = CallerOf[s] THEN Charged(c) \cup {s} ELSE Charged(c)
  PROVE  SubscriptionBudgets'
<1>1. TypeOK
  BY DEF SessionsInv
<1> DEFINE o == Cardinality(pool.observable)
           p == Cardinality(OpeningFor("subscription"))
           o1 == Cardinality(pool'.observable)
           p1 == Cardinality(OpeningFor("subscription")')
<1>2. o \in Nat /\ p \in Nat /\ o + p < limits.subscriptions /\ limits.subscriptions \in Nat
  BY <1>1, FiniteParts DEF hasSubscriptionCapacity
<1>3. o1 \in Nat /\ p1 \in Nat /\ ((o1 <= o + 1 /\ p1 <= p) \/ (o1 <= o /\ p1 <= p + 1))
  <2>1. CASE /\ pool'.observable \subseteq pool.observable \cup {s}
             /\ OpeningFor("subscription")' \subseteq OpeningFor("subscription")
    <3>1. o1 \in Nat /\ o1 <= o + 1
      BY <1>1, <2>1, FiniteParts, OneMore
    <3>2. p1 \in Nat /\ p1 <= p
      BY <1>1, <2>1, FiniteParts, FS_Subset, FS_CardinalityType
    <3>3. QED
      BY <3>1, <3>2
  <2>2. CASE /\ pool'.observable \subseteq pool.observable
             /\ OpeningFor("subscription")' \subseteq OpeningFor("subscription") \cup {s}
    <3>1. p1 \in Nat /\ p1 <= p + 1
      BY <1>1, <2>2, FiniteParts, OneMore
    <3>2. o1 \in Nat /\ o1 <= o
      BY <1>1, <2>2, FiniteParts, FS_Subset, FS_CardinalityType
    <3>3. QED
      BY <3>1, <3>2
  <2>3. QED
    BY <2>1, <2>2
<1>4. o1 + p1 <= limits.subscriptions
  <2> HIDE DEF o, p, o1, p1
  <2>1. QED
    BY <1>2, <1>3
<1>5. ASSUME NEW c \in Callers PROVE Cardinality(Charged(c)') <= limits.perCaller
  <2>1. CASE c # CallerOf[s]
    <3>1. Charged(c)' \subseteq Charged(c)
      BY <2>1
    <3>2. Cardinality(Charged(c)') <= Cardinality(Charged(c)) /\ Cardinality(Charged(c)') \in Nat
      BY <1>1, <3>1, FiniteParts, FS_Subset, FS_CardinalityType
    <3>3. Cardinality(Charged(c)) <= limits.perCaller
      BY DEF SubscriptionBudgets, Charged
    <3>4. QED
      BY <1>1, <3>2, <3>3, FiniteParts
  <2>2. CASE c = CallerOf[s]
    <3> DEFINE u == OwnedBy(c)
               v == ReservedBy(c)
               w == Charged(c)
    <3>1. /\ IsFiniteSet(u) /\ IsFiniteSet(v) /\ IsFiniteSet(w)
          /\ Cardinality(u) \in Nat /\ Cardinality(v) \in Nat
          /\ Cardinality(w) \in Nat /\ limits.perCaller \in Nat
      BY <1>1, FiniteParts
    <3>2. Cardinality(u) + Cardinality(v) < limits.perCaller
      BY <2>2 DEF hasSubscriptionCapacity
    <3>3. w \subseteq u \cup v
      BY DEF Charged
    <3>4. Charged(c)' \subseteq w \cup {s}
      BY <2>2
    <3>5. Cardinality(Charged(c)') \in Nat /\ Cardinality(Charged(c)') <= Cardinality(w) + 1
      <4> HIDE DEF w
      <4>1. QED
        BY <3>1, <3>4, OneMore
    <3>6. /\ IsFiniteSet(u \cup v) /\ Cardinality(u \cup v) \in Nat
          /\ Cardinality(u \cup v) <= Cardinality(u) + Cardinality(v)
      <4> HIDE DEF u, v
      <4>1. IsFiniteSet(u \cap v) /\ Cardinality(u \cap v) \in Nat
        BY <3>1, FS_Intersection, FS_CardinalityType
      <4>2. /\ IsFiniteSet(u \cup v)
            /\ Cardinality(u \cup v) = Cardinality(u) + Cardinality(v) - Cardinality(u \cap v)
        BY <3>1, FS_Union
      <4>3. Cardinality(u \cup v) \in Nat
        BY <4>2, FS_CardinalityType
      <4>4. QED
        BY <3>1, <4>1, <4>2, <4>3
    <3>7. Cardinality(w) <= Cardinality(u \cup v)
      BY <3>3, <3>6, FS_Subset
    <3> HIDE DEF u, v, w
    <3>8. QED
      BY <3>1, <3>2, <3>5, <3>6, <3>7
  <2>3. QED
    BY <2>1, <2>2
<1>6. QED
  BY <1>4, <1>5 DEF SubscriptionBudgets, Charged

(***************************************************************************)
(* The actions that change more than one session's own state               *)
(***************************************************************************)

\* Every session but s, and every pool as far as it holds other sessions, is
\* left alone: the conjuncts about the others hold on.
LEMMA OthersKept ==
  ASSUME SessionsInv, NEW s \in Sessions, NEW e \in SessionState, SessionOK(e),
         ses' = [ses EXCEPT ![s] = e], limits' = limits, owned' = owned, shutdown' = shutdown,
         pool' \in [PoolName -> SUBSET Sessions],
         \A n \in PoolName : \A t \in Sessions \ {s} : t \in pool'[n] <=> t \in pool[n],
         PlaceOK(s)', e.coordinated => ses[s].coordinated /\ e.work = ses[s].work,
         registry' = registry, e.taken \in {"no", ses[s].taken},
         servicesDisposed => Operations(e) \subseteq Operations(ses[s])
  PROVE  SessionsInv'
<1>1. /\ ses' \in [Sessions -> SessionState] /\ ses'[s] = e
      /\ \A t \in Sessions \ {s} : ses'[t] = ses[t]
  BY DEF SessionsInv, TypeOK
<1>2. TypeOK'
  BY <1>1 DEF SessionsInv, TypeOK
<1>3. \A t \in Sessions \ {s} : (SessionOK(ses[t]) /\ PlaceOK(t))'
  BY <1>1 DEF SessionsInv, PlaceOK, coordinatedSessions, sessions, PoolName
<1>4. shutdown' \in {"scopes", "ended"} => \A t \in Coordinated' : ses'[t].work = "done"
  BY <1>1 DEF SessionsInv, Coordinated
<1>5. RegistryOK'
  BY <1>1 DEF SessionsInv, RegistryOK, servicesDisposed
<1>6. QED
  BY <1>1, <1>2, <1>3, <1>4, <1>5 DEF SessionsInv

LEMMA OpenSession ==
  ASSUME SessionsInv, NEW s \in Sessions, NEW a \in Admission, openSession(s, a)
  PROVE  SessionsInv' /\ (SubscriptionBudgets => SubscriptionBudgets') /\ ScopesSafe
<1> DEFINE e == [Fresh EXCEPT !.call = "opening", !.admission = a, !.reserved = a = "subscription", !.scope = "open"]
<1>1. /\ e \in SessionState /\ e.call = "opening" /\ e.admission = a
      /\ e.reserved <=> a = "subscription"
      /\ e.scope = "open" /\ ~e.released /\ ~e.held /\ ~e.coordinated /\ ~e.lateCancel
      /\ e.taken = "no"
  BY DEF Fresh, SessionState
<1>2. SessionOK(e)
  BY DEF Fresh, SessionOK, CallOK, StreamOK, EndOK, WorkOK, NotOpened, Returned
<1>3. /\ ses' = [ses EXCEPT ![s] = e] /\ limits' = limits /\ owned' = owned /\ shutdown' = shutdown
      /\ pool' = [pool EXCEPT !["opening"] = @ \cup {s}]
      /\ registry' = registry /\ ~servicesDisposed
  BY DEF openSession
<1>4. /\ ses[s].call = "idle" /\ ses[s].scope = "none"
      /\ ses \in [Sessions -> SessionState] /\ pool \in [PoolName -> SUBSET Sessions] /\ PlaceOK(s)
  BY DEF openSession, SessionsInv, TypeOK, SessionOK, CallOK
<1> HIDE DEF e
<1>5. /\ pool' \in [PoolName -> SUBSET Sessions] /\ pool'["opening"] = pool["opening"] \cup {s}
      /\ \A n \in PoolName \ {"opening"} : pool'[n] = pool[n]
  BY <1>3, <1>4 DEF PoolName
<1>6. ses'[s] = e /\ \A t \in Sessions \ {s} : ses'[t] = ses[t]
  BY <1>3, <1>4
<1>7. \A n \in PoolName : s \notin pool[n]
  BY <1>4 DEF PlaceOK, coordinatedSessions, sessions, PoolName
<1>8. PlaceOK(s)'
  <2>1. s \notin owned
    BY <1>4 DEF PlaceOK, NotOpened
  <2>2. QED
    BY <1>1, <1>3, <1>5, <1>6, <1>7, <2>1 DEF PlaceOK, coordinatedSessions, sessions, PoolName
<1>9. SessionsInv'
  BY <1>1, <1>2, <1>3, <1>4, <1>5, <1>8, OthersKept
<1>10. SubscriptionBudgets => SubscriptionBudgets'
  <2>1. SUFFICES ASSUME SubscriptionBudgets PROVE SubscriptionBudgets'
    OBVIOUS
  <2>2. pool'["observable"] = pool["observable"]
    BY <1>5 DEF PoolName
  <2>3. CASE a = "subscription"
    <3>1. hasSubscriptionCapacity(CallerOf[s])
      BY <2>3 DEF openSession, hasSessionCapacity
    <3>2. OpeningFor("subscription")' \subseteq OpeningFor("subscription") \cup {s}
      BY <1>6 DEF OpeningFor
    <3>3. \A c \in Callers : Charged(c)' \subseteq IF c = CallerOf[s] THEN Charged(c) \cup {s} ELSE Charged(c)
      <4>1. ASSUME NEW c \in Callers, NEW t \in Charged(c)', t # s PROVE t \in Charged(c)
        <5>1. t \in Sessions \ {s}
          BY <2>2, <1>4, <4>1 DEF Charged, OwnedBy, ReservedBy, PoolName
        <5>2. QED
          BY <1>6, <2>2, <4>1, <5>1 DEF Charged, OwnedBy, ReservedBy
      <4>2. ASSUME NEW c \in Callers, s \in Charged(c)' PROVE c = CallerOf[s]
        BY <4>2 DEF Charged, OwnedBy, ReservedBy
      <4>3. QED
        BY <4>1, <4>2
    <3>4. QED
      BY <1>3, <2>1, <2>2, <3>1, <3>2, <3>3, CapacityChecked
  <2>4. CASE a = "snapshot"
    <3>1. OpeningFor("subscription")' \subseteq OpeningFor("subscription")
      BY <1>1, <1>6, <2>4 DEF OpeningFor
    <3>2. ASSUME NEW c \in Callers, NEW t \in Charged(c)' PROVE t \in Charged(c)
      <4>1. t \in Sessions
        BY <2>2, <1>4, <3>2 DEF Charged, OwnedBy, ReservedBy, PoolName
      <4>2. t # s
        BY <1>1, <1>6, <1>7, <2>2, <2>4, <3>2 DEF Charged, OwnedBy, ReservedBy, PoolName
      <4>3. QED
        BY <1>6, <2>2, <3>2, <4>1, <4>2 DEF Charged, OwnedBy, ReservedBy
    <3>3. SpendsNothing
      BY <1>3, <2>2, <3>1, <3>2 DEF SpendsNothing
    <3>4. QED
      BY <2>1, <3>3, BudgetKept
  <2>5. QED
    BY <2>3, <2>4
<1>11. ScopesSafe
  BY <1>1, <1>4, <1>6 DEF ScopesSafe, ScopeSafe
<1>12. QED
  BY <1>9, <1>10, <1>11

\* What the pipeline of a session finds: nothing but cancellations has happened.
LEMMA OpeningState ==
  ASSUME SessionsInv, NEW s \in Sessions, ses[s].call = "opening"
  PROVE  /\ ses[s] \in SessionState /\ SessionOK(ses[s]) /\ PlaceOK(s)
         /\ ses \in [Sessions -> SessionState] /\ pool \in [PoolName -> SUBSET Sessions]
         /\ ses[s].scope = "open" /\ ~ses[s].released /\ ~ses[s].held /\ ses[s].closing = "no"
         /\ ses[s].stream = "none" /\ ses[s].producer = "none" /\ ses[s].work \in {"no", "operations"}
         /\ s \notin pool["observable"] /\ s \notin pool["snapshot"] /\ s \notin pool["retiring"] /\ s \notin owned
         /\ s \in pool["opening"]
         /\ ses[s].admission = "subscription" => ses[s].reserved \/ ses[s].lateCancel
  BY DEF SessionsInv, TypeOK, PlaceOK, SessionOK, CallOK, StreamOK, NotOpened

\* The session is registered.
LEMMA PipelineRegisters ==
  ASSUME SessionsInv, NEW s \in Sessions, PipelineSucceeds(s), ~(disposed \/ servicesDisposed)
  PROVE  SessionsInv' /\ (SubscriptionBudgets => SubscriptionBudgets') /\ ScopesSafe
<1> DEFINE b == ses[s]
           x == [b EXCEPT !.held = TRUE]
           e == [x EXCEPT !.call = "open", !.reserved = FALSE]
           m == IF b.admission = "snapshot" THEN "snapshot" ELSE "observable"
           o == pool["opening"] \ {s}
           q == [pool EXCEPT !["opening"] = o]
<1>1. /\ b.call = "opening" /\ ~(b.coordinated /\ b.aborted)
      /\ ses' = [ses EXCEPT ![s] = e] /\ limits' = limits /\ owned' = owned /\ shutdown' = shutdown
      /\ registry' = registry
      /\ pool' = Admitted(pool, s)
  <2>1. x.call = b.call /\ x.coordinated = b.coordinated /\ x.aborted = b.aborted
    BY DEF SessionsInv, TypeOK, SessionState
  <2>2. QED
    BY <2>1 DEF PipelineSucceeds
<1>2. /\ b \in SessionState /\ SessionOK(b) /\ PlaceOK(s)
      /\ ses \in [Sessions -> SessionState] /\ pool \in [PoolName -> SUBSET Sessions]
      /\ b.scope = "open" /\ ~b.released /\ ~b.held /\ b.closing = "no"
      /\ b.stream = "none" /\ b.producer = "none" /\ b.work \in {"no", "operations"}
      /\ s \notin pool["observable"] /\ s \notin pool["snapshot"] /\ s \notin pool["retiring"] /\ s \notin owned
      /\ s \in pool["opening"]
      /\ b.admission = "subscription" => b.reserved \/ b.lateCancel
  BY <1>1, OpeningState
<1>3. /\ x \in SessionState /\ x.held = TRUE
      /\ x.admission = b.admission /\ x.lateCancel = b.lateCancel /\ x.coordinated = b.coordinated
      /\ x.aborted = b.aborted /\ x.released = b.released /\ x.stream = b.stream /\ x.producer = b.producer
      /\ x.closing = b.closing /\ x.work = b.work /\ x.scope = b.scope
      /\ x.read = b.read /\ x.taken = b.taken
  BY ONLY <1>2 DEF SessionState
<1> HIDE DEF x
<1>4. /\ e \in SessionState /\ e.call = "open" /\ e.reserved = FALSE /\ e.held = x.held
      /\ e.admission = x.admission /\ e.lateCancel = x.lateCancel /\ e.coordinated = x.coordinated
      /\ e.aborted = x.aborted /\ e.released = x.released /\ e.stream = x.stream /\ e.producer = x.producer
      /\ e.closing = x.closing /\ e.work = x.work /\ e.scope = x.scope
      /\ e.read = x.read /\ e.taken = x.taken
  BY ONLY <1>3 DEF SessionState
<1> HIDE DEF e
<1>5. SessionOK(e)
  BY <1>2, <1>3, <1>4 DEF SessionOK, CallOK, StreamOK, EndOK, WorkOK, NotOpened, Returned
<1>6. m \in {"snapshot", "observable"} /\ (m = "observable" <=> b.admission = "subscription")
  BY <1>2 DEF SessionState
<1> HIDE DEF m
<1>7. /\ pool' \in [PoolName -> SUBSET Sessions]
      /\ pool'["opening"] = pool["opening"] \ {s} /\ pool'[m] = pool[m] \cup {s}
      /\ \A n \in PoolName \ {"opening", m} : pool'[n] = pool[n]
  BY <1>1, <1>2, <1>6 DEF Admitted, PoolName, m
<1>8. ses'[s] = e /\ \A t \in Sessions \ {s} : ses'[t] = ses[t]
  BY <1>1, <1>2
<1>9. PlaceOK(s)'
  <2>1. e.held /\ ~e.released /\ e.scope = "open" /\ e.call = "open"
    BY <1>2, <1>3, <1>4
  <2>2. s \in pool'["observable"] \cup pool'["snapshot"]
    BY <1>6, <1>7
  <2>3. QED
    BY <1>8, <2>1, <2>2 DEF PlaceOK, NotOpened
<1>10. SessionsInv'
  <2>1. \A n \in PoolName : \A t \in Sessions \ {s} : t \in pool'[n] <=> t \in pool[n]
    BY <1>6, <1>7 DEF PoolName
  <2>2. e.coordinated => b.coordinated /\ e.work = b.work
    BY <1>3, <1>4
  <2>3. e.taken = b.taken /\ Operations(e) \subseteq Operations(b)
    BY <1>1, <1>2, <1>3, <1>4 DEF Operations
  <2>4. QED
    BY <1>1, <1>4, <1>5, <1>7, <1>9, <2>1, <2>2, <2>3, OthersKept
<1>11. SubscriptionBudgets => SubscriptionBudgets'
  <2>1. SUFFICES ASSUME SubscriptionBudgets PROVE SubscriptionBudgets'
    OBVIOUS
  <2>2. CASE b.admission = "snapshot"
    <3>1. pool'["observable"] = pool["observable"]
      BY <1>6, <1>7, <2>2 DEF PoolName
    <3>2. OpeningFor("subscription")' \subseteq OpeningFor("subscription")
      BY <1>4, <1>8 DEF OpeningFor
    <3>3. ASSUME NEW c \in Callers, NEW t \in Charged(c)' PROVE t \in Charged(c)
      <4>1. t \in Sessions /\ t # s
        BY <1>2, <1>4, <1>8, <3>1, <3>3 DEF Charged, OwnedBy, ReservedBy, PoolName
      <4>2. QED
        BY <1>8, <3>1, <3>3, <4>1 DEF Charged, OwnedBy, ReservedBy
    <3>4. SpendsNothing
      BY <1>1, <3>1, <3>2, <3>3 DEF SpendsNothing
    <3>5. QED
      BY <2>1, <3>4, BudgetKept
  <2>3. CASE b.admission = "subscription"
    <3>1. pool'["observable"] = pool["observable"] \cup {s}
      BY <1>6, <1>7, <2>3
    <3> DEFINE u == OpeningFor("subscription")
               v == OpeningFor("subscription")'
    <3>2. v = u \ {s} /\ s \in u
      <4>1. s \in u /\ s \notin v
        BY <1>1, <1>4, <1>8, <2>3 DEF OpeningFor
      <4>2. ASSUME NEW t \in Sessions \ {s} PROVE t \in u <=> t \in v
        BY <1>8 DEF OpeningFor
      <4>3. u \subseteq Sessions /\ v \subseteq Sessions
        BY DEF OpeningFor
      <4> HIDE DEF u, v
      <4>4. QED
        BY <4>1, <4>2, <4>3
    <3>3. TypeOK /\ TypeOK'
      BY <1>10 DEF SessionsInv
    <3>4. /\ IsFiniteSet(u) /\ Cardinality(u) \in Nat /\ Cardinality(v) = Cardinality(u) - 1
          /\ IsFiniteSet(pool["observable"]) /\ Cardinality(pool["observable"]) \in Nat
          /\ limits.subscriptions \in Nat /\ limits.perCaller \in Nat
      <4>1. /\ IsFiniteSet(u) /\ Cardinality(u) \in Nat
            /\ IsFiniteSet(pool["observable"]) /\ Cardinality(pool["observable"]) \in Nat
            /\ limits.subscriptions \in Nat /\ limits.perCaller \in Nat
        BY <3>3, FiniteParts
      <4> HIDE DEF u, v
      <4>2. QED
        BY <3>2, <4>1, FS_RemoveElement
    <3>5. Cardinality(pool'["observable"]) \in Nat /\ Cardinality(pool'["observable"]) <= Cardinality(pool["observable"]) + 1
      BY <3>1, <3>4, OneMore
    <3>6. Cardinality(pool["observable"]) + Cardinality(u) <= limits.subscriptions
      BY <2>1 DEF SubscriptionBudgets
    <3>7. Cardinality(pool'["observable"]) + Cardinality(v) <= limits'.subscriptions
      <4> HIDE DEF u, v
      <4>1. QED
        BY <1>1, <3>4, <3>5, <3>6
    <3>8. ASSUME NEW c \in Callers PROVE Cardinality(Charged(c)') <= limits'.perCaller
      <4>1. ASSUME s \in Charged(c)' PROVE s \in Charged(c)
        <5>1. CallerOf[s] = c /\ ~b.lateCancel
          BY <1>3, <1>4, <1>8, <4>1 DEF Charged, OwnedBy, ReservedBy
        <5>2. QED
          BY <1>2, <2>3, <5>1 DEF Charged, ReservedBy
      <4>2. ASSUME NEW t \in Charged(c)', t # s PROVE t \in Charged(c)
        <5>1. t \in Sessions \ {s}
          BY <1>7, <4>2 DEF Charged, OwnedBy, ReservedBy, PoolName
        <5>2. QED
          BY <1>8, <3>1, <4>2, <5>1 DEF Charged, OwnedBy, ReservedBy
      <4>3. Charged(c)' \subseteq Charged(c)
        BY <4>1, <4>2
      <4>4. IsFiniteSet(Charged(c)) /\ Cardinality(Charged(c)) \in Nat
        BY <3>3, FiniteParts
      <4>5. Cardinality(Charged(c)') <= Cardinality(Charged(c)) /\ Cardinality(Charged(c)') \in Nat
        BY <4>3, <4>4, FS_Subset, FS_CardinalityType
      <4>6. Cardinality(Charged(c)) <= limits.perCaller
        BY <2>1 DEF SubscriptionBudgets, Charged
      <4>7. QED
        BY <1>1, <3>4, <4>4, <4>5, <4>6
    <3>9. QED
      BY <3>7, <3>8 DEF SubscriptionBudgets, Charged
  <2>4. QED
    BY <1>2, <2>2, <2>3 DEF SessionState
<1>12. ScopesSafe
  BY <1>2, <1>3, <1>4, <1>8 DEF ScopesSafe, ScopeSafe
<1>13. QED
  BY <1>10, <1>11, <1>12

\* The server was disposed meanwhile: the session is closed instead.
LEMMA PipelineClosesLate ==
  ASSUME SessionsInv, NEW s \in Sessions, PipelineSucceeds(s), disposed \/ servicesDisposed
  PROVE  SessionsInv' /\ SpendsNothing /\ ScopesSafe
<1> DEFINE b == ses[s]
           x == [b EXCEPT !.held = TRUE]
           y == [x EXCEPT !.call = "closingLate"]
           e == close(y)
           o == pool["opening"] \ {s}
           p == [pool EXCEPT !["opening"] = o]
<1>1. /\ b.call = "opening" /\ ~(b.coordinated /\ b.aborted)
      /\ ses' = [ses EXCEPT ![s] = e] /\ limits' = limits /\ owned' = owned /\ shutdown' = shutdown
      /\ registry' = registry
      /\ pool' = Pools(p, s, x, e)
  <2>1. x.call = b.call /\ x.coordinated = b.coordinated /\ x.aborted = b.aborted
    BY DEF SessionsInv, TypeOK, SessionState
  <2>2. QED
    BY <2>1 DEF PipelineSucceeds
<1>2. /\ b \in SessionState /\ SessionOK(b) /\ PlaceOK(s)
      /\ ses \in [Sessions -> SessionState] /\ pool \in [PoolName -> SUBSET Sessions]
      /\ b.scope = "open" /\ ~b.released /\ ~b.held /\ b.closing = "no"
      /\ b.stream = "none" /\ b.producer = "none" /\ b.work \in {"no", "operations"}
      /\ s \notin pool["observable"] /\ s \notin pool["snapshot"] /\ s \notin pool["retiring"] /\ s \notin owned
  BY <1>1, OpeningState
<1>3. /\ x \in SessionState /\ x.held = TRUE
      /\ x.admission = b.admission /\ x.reserved = b.reserved /\ x.lateCancel = b.lateCancel
      /\ x.coordinated = b.coordinated
      /\ x.aborted = b.aborted /\ x.released = b.released /\ x.stream = b.stream /\ x.producer = b.producer
      /\ x.closing = b.closing /\ x.work = b.work /\ x.scope = b.scope
      /\ x.read = b.read /\ x.taken = b.taken
  BY ONLY <1>2 DEF SessionState
<1> HIDE DEF x
<1>4. /\ y \in SessionState /\ y.call = "closingLate" /\ y.held = x.held
      /\ y.admission = x.admission /\ y.reserved = x.reserved /\ y.lateCancel = x.lateCancel
      /\ y.coordinated = x.coordinated
      /\ y.aborted = x.aborted /\ y.released = x.released /\ y.stream = x.stream /\ y.producer = x.producer
      /\ y.closing = x.closing /\ y.work = x.work /\ y.scope = x.scope
      /\ y.read = x.read /\ y.taken = x.taken
  BY ONLY <1>3 DEF SessionState
<1> HIDE DEF y
<1>5. CallOK(y) /\ StreamOK(y) /\ EndOK(y) /\ ~NotOpened(y)
  BY <1>2, <1>3, <1>4 DEF SessionOK, CallOK, StreamOK, EndOK, NotOpened, Returned
<1>6. /\ e \in SessionState /\ Kept(y, e)
      /\ CallOK(e) /\ StreamOK(e) /\ EndOK(e) /\ e.closing # "no"
      /\ e.stream = y.stream
      /\ \/ e.scope = y.scope
         \/ y.scope = "open" /\ e.scope = "disposing"
  BY <1>4, <1>5, CloseResult
<1> HIDE DEF e
<1>7. e.released /\ e.held /\ ~e.lateCancel /\ e.call = "closingLate" /\ ~e.coordinated
  <2>1. ~b.coordinated
    BY <1>1, <1>2 DEF SessionOK, EndOK
  <2>2. e.released /\ e.held /\ e.call = "closingLate" /\ ~e.coordinated
    BY <1>2, <1>3, <1>4, <1>6, <2>1 DEF Kept, EndOK
  <2>3. QED
    BY <1>6, <2>2 DEF CallOK
<1>8. SessionOK(e)
  BY <1>2, <1>3, <1>4, <1>6 DEF Kept, SessionOK, WorkOK
<1>9. /\ p \in [PoolName -> SUBSET Sessions] /\ p["opening"] = pool["opening"] \ {s}
      /\ \A n \in PoolName \ {"opening"} : p[n] = pool[n]
  BY <1>2 DEF PoolName
<1> HIDE DEF p
<1>10. /\ pool' \in [PoolName -> SUBSET Sessions]
       /\ \A n \in PoolName : \A t \in Sessions \ {s} : t \in pool'[n] <=> t \in p[n]
       /\ s \notin pool'["observable"] /\ s \notin pool'["snapshot"] /\ s \in pool'["retiring"]
       /\ \A n \in PoolName \ {"retiring", "releasedOpening"} : pool'[n] \subseteq p[n]
  BY <1>1, <1>2, <1>3, <1>6, <1>7, <1>9, PoolsResult
<1>11. ses'[s] = e /\ \A t \in Sessions \ {s} : ses'[t] = ses[t]
  BY <1>1, <1>2
<1>12. PlaceOK(s)'
  BY <1>7, <1>10, <1>11 DEF PlaceOK, NotOpened
<1>13. SessionsInv'
  <2>1. \A n \in PoolName : \A t \in Sessions \ {s} : t \in pool'[n] <=> t \in pool[n]
    BY <1>9, <1>10 DEF PoolName
  <2>2. e.taken = b.taken /\ Operations(e) \subseteq Operations(b)
    BY <1>2, <1>3, <1>4, <1>6, <1>7 DEF Kept, Operations
  <2>3. QED
    BY <1>1, <1>6, <1>7, <1>8, <1>10, <1>12, <2>1, <2>2, OthersKept
<1>14. SpendsNothing
  <2>1. pool'["observable"] \subseteq pool["observable"]
    BY <1>9, <1>10 DEF PoolName
  <2>2. OpeningFor("subscription")' \subseteq OpeningFor("subscription")
    BY <1>1, <1>3, <1>4, <1>6, <1>11 DEF OpeningFor, Kept
  <2>3. ASSUME NEW c \in Callers, NEW t \in Charged(c)' PROVE t \in Charged(c)
    <3>1. CASE t = s
      <4>1. CallerOf[s] = c /\ e.reserved
        BY <1>10, <1>11, <2>3, <3>1 DEF Charged, OwnedBy, ReservedBy
      <4>2. b.reserved
        BY <1>3, <1>4, <1>6, <4>1 DEF Kept
      <4>3. QED
        BY <1>2, <3>1, <4>1, <4>2 DEF Charged, ReservedBy, SessionOK, CallOK
    <3>2. CASE t # s
      <4>1. t \in Sessions \ {s}
        BY <1>10, <2>3, <3>2 DEF Charged, OwnedBy, ReservedBy, PoolName
      <4>2. QED
        BY <1>11, <2>1, <2>3, <4>1 DEF Charged, OwnedBy, ReservedBy
    <3>3. QED
      BY <3>1, <3>2
  <2>4. QED
    BY <1>1, <2>1, <2>2, <2>3 DEF SpendsNothing
<1>15. ScopesSafe
  <2>1. Operations(e) \subseteq {"current"}
    BY <1>2, <1>3, <1>4, <1>6, <1>7 DEF Operations
  <2>2. ~b.coordinated
    BY <1>1, <1>2 DEF SessionOK, EndOK
  <2>3. QED
    BY <1>2, <1>11, <2>1, <2>2 DEF ScopesSafe, ScopeSafe, Returned
<1>16. QED
  BY <1>13, <1>14, <1>15

\* The call of openSession ends with the close() of the session it gave up.
LEMMA OpeningEndsResult ==
  ASSUME SessionsInv, NEW s \in Sessions, OpeningEnds(s)
  PROVE  SessionsInv' /\ SpendsNothing /\ ScopesSafe
<1> DEFINE b == ses[s]
           h == b.call # "throwing"
           x == [b EXCEPT !.call = "done", !.reserved = FALSE, !.held = h]
           e == IF Collected(x) THEN Gone ELSE x
<1>1. /\ b.call \in {"rejecting", "throwing", "closingLate"} /\ b.closing = "done"
      /\ ses' = [ses EXCEPT ![s] = e] /\ limits' = limits /\ owned' = owned /\ shutdown' = shutdown
      /\ registry' = registry
      /\ pool' = IF b.call = "rejecting" THEN [pool EXCEPT !["opening"] = @ \ {s}] ELSE pool
  BY DEF OpeningEnds, Put
<1>2. /\ b \in SessionState /\ SessionOK(b) /\ PlaceOK(s)
      /\ ses \in [Sessions -> SessionState] /\ pool \in [PoolName -> SUBSET Sessions]
  BY DEF SessionsInv, TypeOK
<1>3. s \notin pool["observable"] /\ s \notin pool["snapshot"]
  BY <1>1, <1>2 DEF PlaceOK
<1>4. /\ x \in SessionState /\ x.call = "done" /\ x.reserved = FALSE
      /\ x.admission = b.admission /\ x.lateCancel = b.lateCancel /\ x.coordinated = b.coordinated
      /\ x.aborted = b.aborted /\ x.released = b.released /\ x.stream = b.stream /\ x.producer = b.producer
      /\ x.closing = b.closing /\ x.work = b.work /\ x.scope = b.scope
      /\ x.read = b.read /\ x.taken = b.taken
  BY ONLY <1>2, ZenonT(40) DEF SessionState
<1> HIDE DEF x
<1>5. SessionOK(x)
  BY <1>1, <1>2, <1>4 DEF SessionOK, CallOK, StreamOK, EndOK, WorkOK, NotOpened, Returned
<1>6. /\ e \in SessionState /\ SessionOK(e) /\ e.call = "done" /\ ~e.reserved
      /\ e = x \/ (e = Gone /\ x.scope = "disposed")
  BY <1>4, <1>5, GoneOK DEF Collected
<1> HIDE DEF e
<1>7. /\ pool' \in [PoolName -> SUBSET Sessions]
      /\ \A n \in PoolName \ {"opening"} : pool'[n] = pool[n]
      /\ pool'["opening"] \subseteq pool["opening"] /\ pool["opening"] \subseteq pool'["opening"] \cup {s}
  BY <1>1, <1>2 DEF PoolName
<1>8. ses'[s] = e /\ \A t \in Sessions \ {s} : ses'[t] = ses[t]
  BY <1>1, <1>2
<1>9. PlaceOK(s)'
  <2>1. s \notin pool'["observable"] \cup pool'["snapshot"]
    BY <1>3, <1>7 DEF PoolName
  <2>2. ASSUME e.scope \notin {"none", "disposed"}
        PROVE  e.released /\ s \in pool'["retiring"] \cup pool'["releasedOpening"]
    <3>1. e = x /\ b.released /\ b.scope \notin {"none", "disposed"}
      BY <1>1, <1>2, <1>4, <1>6, <2>2, GoneOK DEF SessionOK, EndOK
    <3>2. s \in pool["retiring"] \cup pool["releasedOpening"]
      BY <1>2, <3>1 DEF PlaceOK
    <3>3. QED
      BY <1>4, <1>7, <3>1, <3>2 DEF PoolName
  <2>3. QED
    BY <1>6, <1>8, <2>1, <2>2 DEF PlaceOK, NotOpened
<1>10. SessionsInv'
  <2>1. \A n \in PoolName : \A t \in Sessions \ {s} : t \in pool'[n] <=> t \in pool[n]
    BY <1>7 DEF PoolName
  <2>2. e.coordinated => b.coordinated /\ e.work = b.work
    BY <1>4, <1>6, GoneOK
  <2>3. e.taken \in {"no", b.taken} /\ Operations(e) \subseteq Operations(b)
    BY <1>4, <1>6, GoneOK DEF Operations
  <2>4. QED
    BY <1>1, <1>6, <1>7, <1>9, <2>1, <2>2, <2>3, OthersKept
<1>11. SpendsNothing
  <2>1. pool'["observable"] = pool["observable"]
    BY <1>7 DEF PoolName
  <2>2. OpeningFor("subscription")' \subseteq OpeningFor("subscription")
    BY <1>6, <1>8 DEF OpeningFor
  <2>3. ASSUME NEW c \in Callers, NEW t \in Charged(c)' PROVE t \in Charged(c)
    <3>1. t # s
      BY <1>3, <1>6, <1>8, <2>1, <2>3 DEF Charged, OwnedBy, ReservedBy
    <3>2. t \in Sessions \ {s}
      BY <1>2, <2>1, <2>3, <3>1 DEF Charged, OwnedBy, ReservedBy, PoolName
    <3>3. QED
      BY <1>8, <2>1, <2>3, <3>2 DEF Charged, OwnedBy, ReservedBy
  <2>4. QED
    BY <1>1, <2>1, <2>2, <2>3 DEF SpendsNothing
<1>12. ScopesSafe
  BY <1>4, <1>6, <1>8, GoneOK DEF ScopesSafe, ScopeSafe
<1>13. QED
  BY <1>10, <1>11, <1>12

\* A snapshot is charged like a subscription from now on.
LEMMA ReserveSession ==
  ASSUME SessionsInv, NEW s \in Sessions, reserveSession(s)
  PROVE  SessionsInv' /\ (SubscriptionBudgets => SubscriptionBudgets') /\ ScopesSafe
<1> DEFINE h == pool["snapshot"] \ {s}
           o == pool["observable"] \cup {s}
<1>1. /\ s \in pool["snapshot"] /\ hasSubscriptionCapacity(CallerOf[s])
      /\ ses' = ses /\ limits' = limits /\ owned' = owned /\ shutdown' = shutdown
      /\ registry' = registry
      /\ pool' = [pool EXCEPT !["snapshot"] = h, !["observable"] = o]
  BY DEF reserveSession, hasSessionCapacity
<1>2. /\ ses[s] \in SessionState /\ SessionOK(ses[s]) /\ PlaceOK(s)
      /\ ses \in [Sessions -> SessionState] /\ pool \in [PoolName -> SUBSET Sessions]
  BY DEF SessionsInv, TypeOK
<1>3. /\ pool' \in [PoolName -> SUBSET Sessions]
      /\ pool'["snapshot"] = pool["snapshot"] \ {s} /\ pool'["observable"] = pool["observable"] \cup {s}
      /\ \A n \in PoolName \ {"snapshot", "observable"} : pool'[n] = pool[n]
  BY <1>1, <1>2 DEF PoolName
<1>4. PlaceOK(s)'
  <2>1. /\ ses[s].call \in {"open", "done"} /\ ses[s].scope = "open" /\ ~ses[s].released /\ ses[s].held
    BY <1>1, <1>2 DEF PlaceOK
  <2>2. s \in pool'["observable"]
    BY <1>3
  <2>3. QED
    BY <1>1, <2>1, <2>2 DEF PlaceOK, NotOpened
<1>5. SessionsInv'
  <2>1. \A n \in PoolName : \A t \in Sessions \ {s} : t \in pool'[n] <=> t \in pool[n]
    BY <1>3 DEF PoolName
  <2>2. ses' = [ses EXCEPT ![s] = ses[s]]
    BY <1>1, <1>2
  <2>3. QED
    BY <1>1, <1>2, <1>3, <1>4, <2>1, <2>2, OthersKept
<1>6. SubscriptionBudgets => SubscriptionBudgets'
  <2>1. OpeningFor("subscription")' \subseteq OpeningFor("subscription")
    BY <1>1 DEF OpeningFor
  <2>2. \A c \in Callers : Charged(c)' \subseteq IF c = CallerOf[s] THEN Charged(c) \cup {s} ELSE Charged(c)
    BY <1>1, <1>3 DEF Charged, OwnedBy, ReservedBy
  <2>3. QED
    BY <1>1, <1>3, <2>1, <2>2, CapacityChecked
<1>7. ScopesSafe
  BY <1>1 DEF ScopesSafe, ScopeSafe
<1>8. QED
  BY <1>5, <1>6, <1>7

\* A shutdown that moves on changes what a session notes of its transaction.
LEMMA ShutdownMoves ==
  ASSUME SessionsInv, limits' = limits, pool' = pool, owned' \in {owned, sessions},
         shutdown' \in {"release", "work", "scopes", "ended", "draining", "disposed"},
         ses' \in [Sessions -> SessionState],
         \A s \in Sessions :
           /\ SessionOK(ses'[s])
           /\ ses'[s].call = ses[s].call /\ ses'[s].admission = ses[s].admission /\ ses'[s].held = ses[s].held
           /\ ses'[s].reserved = ses[s].reserved /\ ses'[s].lateCancel = ses[s].lateCancel
           /\ ses'[s].released = ses[s].released /\ ses'[s].scope = ses[s].scope
           /\ ses'[s].stream = ses[s].stream /\ ses'[s].read = ses[s].read /\ ses'[s].taken = ses[s].taken,
         registry' = registry \/ (registry = "running" /\ registry' = "coordinated"),
         shutdown' \in {"scopes", "ended"} => \A s \in Coordinated' : ses'[s].work = "done"
  PROVE  SessionsInv' /\ SpendsNothing /\ ScopesSafe
<1>1. sessions \subseteq Sessions
  BY DEF SessionsInv, TypeOK, sessions, PoolName
<1>2. TypeOK'
  BY <1>1 DEF SessionsInv, TypeOK
<1>3. ASSUME NEW s \in Sessions PROVE PlaceOK(s)'
  <2>1. PlaceOK(s)
    BY DEF SessionsInv
  <2>2. s \in owned' => ~NotOpened(ses[s])
    BY <2>1 DEF PlaceOK, sessions, NotOpened
  <2>3. QED
    BY <2>1, <2>2 DEF PlaceOK, NotOpened, coordinatedSessions, sessions
<1>4. SpendsNothing
  <2>1. OpeningFor("subscription")' \subseteq OpeningFor("subscription")
    BY DEF OpeningFor
  <2>2. ASSUME NEW c \in Callers PROVE Charged(c)' \subseteq Charged(c)
    <3>1. pool["observable"] \subseteq Sessions
      BY DEF SessionsInv, TypeOK, PoolName
    <3>2. QED
      BY <3>1 DEF Charged, OwnedBy, ReservedBy
  <2>3. QED
    BY <2>1, <2>2 DEF SpendsNothing
<1>5. ScopesSafe
  BY DEF ScopesSafe, ScopeSafe
<1>6. RegistryOK'
  <2>1. \A s \in Sessions : Operations(ses'[s]) = Operations(ses[s])
    BY DEF Operations
  <2>2. QED
    BY <2>1 DEF SessionsInv, RegistryOK
<1>7. QED
  BY <1>2, <1>3, <1>4, <1>5, <1>6 DEF SessionsInv

LEMMA ShutdownSteps ==
  ASSUME SessionsInv, Settles \/ coordinateShutdown \/ disposeServer
  PROVE  SessionsInv' /\ SpendsNothing /\ ScopesSafe
<1>1. /\ ses \in [Sessions -> SessionState]
      /\ \A s \in Sessions : ses[s] \in SessionState /\ SessionOK(ses[s]) /\ PlaceOK(s)
  BY DEF SessionsInv, TypeOK
<1>2. CASE coordinateShutdown
  <2>1. /\ shutdown' = "release" /\ limits' = limits /\ pool' = pool /\ owned' = owned
        /\ registry = "running" /\ registry' = "coordinated"
        /\ ses' = [s \in Sessions |-> IF s \in coordinatedSessions
                                     THEN releaseProducer([ses[s] EXCEPT !.coordinated = TRUE]) ELSE ses[s]]
    BY <1>2 DEF coordinateShutdown
  <2>2. ASSUME NEW s \in Sessions
        PROVE  /\ ses'[s] \in SessionState /\ SessionOK(ses'[s])
               /\ ses'[s].call = ses[s].call /\ ses'[s].admission = ses[s].admission /\ ses'[s].held = ses[s].held
               /\ ses'[s].reserved = ses[s].reserved /\ ses'[s].lateCancel = ses[s].lateCancel
               /\ ses'[s].released = ses[s].released /\ ses'[s].scope = ses[s].scope
               /\ ses'[s].stream = ses[s].stream /\ ses'[s].read = ses[s].read /\ ses'[s].taken = ses[s].taken
    <3>1. CASE s \in coordinatedSessions
      <4> DEFINE b == ses[s]
                 x == [b EXCEPT !.coordinated = TRUE]
                 e == releaseProducer(x)
      <4>1. ses'[s] = e
        BY <2>1, <3>1
      <4>2. b \in SessionState /\ SessionOK(b) /\ b.call # "idle"
        BY <1>1, <3>1 DEF PlaceOK
      <4>3. /\ x \in SessionState /\ x.coordinated = TRUE /\ x.call = b.call
            /\ x.admission = b.admission /\ x.held = b.held /\ x.reserved = b.reserved
            /\ x.lateCancel = b.lateCancel /\ x.aborted = b.aborted /\ x.released = b.released
            /\ x.stream = b.stream /\ x.producer = b.producer
            /\ x.closing = b.closing /\ x.work = b.work /\ x.scope = b.scope
            /\ x.read = b.read /\ x.taken = b.taken
        BY ONLY <4>2 DEF SessionState
      <4> HIDE DEF x
      <4>4. /\ e \in SessionState /\ Kept(x, e)
            /\ e.aborted = TRUE /\ e.producer = IF x.producer = "open" THEN "closing" ELSE x.producer
            /\ e.released = x.released /\ e.lateCancel = x.lateCancel
            /\ e.stream = x.stream /\ e.closing = x.closing /\ e.scope = x.scope
        BY <4>3, ReleaseProducerResult
      <4> HIDE DEF e, b
      <4>5. SessionOK(e)
        BY <4>2, <4>3, <4>4 DEF Kept, SessionOK, CallOK, StreamOK, EndOK, WorkOK, NotOpened, Returned
      <4>6. QED
        BY <4>1, <4>3, <4>4, <4>5 DEF Kept, b
    <3>2. CASE s \notin coordinatedSessions
      BY <1>1, <2>1, <3>2
    <3>3. QED
      BY <3>1, <3>2
  <2>3. ses' \in [Sessions -> SessionState]
    BY <2>1, <2>2
  <2>4. QED
    BY <2>1, <2>2, <2>3, ShutdownMoves
<1>3. CASE ReleaseSettled
  <2>1. /\ shutdown' = "work" /\ limits' = limits /\ pool' = pool /\ owned' = owned
        /\ registry' = registry
        /\ ses' = [s \in Sessions |-> IF s \in Coordinated THEN [ses[s] EXCEPT !.work = "operations"] ELSE ses[s]]
    BY <1>3 DEF ReleaseSettled
  <2>2. ASSUME NEW s \in Sessions
        PROVE  /\ ses'[s] \in SessionState /\ SessionOK(ses'[s])
               /\ ses'[s].call = ses[s].call /\ ses'[s].admission = ses[s].admission /\ ses'[s].held = ses[s].held
               /\ ses'[s].reserved = ses[s].reserved /\ ses'[s].lateCancel = ses[s].lateCancel
               /\ ses'[s].released = ses[s].released /\ ses'[s].scope = ses[s].scope
               /\ ses'[s].stream = ses[s].stream /\ ses'[s].read = ses[s].read /\ ses'[s].taken = ses[s].taken
    <3>1. CASE s \in Coordinated
      <4> DEFINE b == ses[s]
                 e == [b EXCEPT !.work = "operations"]
      <4>1. ses'[s] = e
        BY <2>1, <3>1
      <4>2. b \in SessionState /\ SessionOK(b) /\ b.coordinated
        BY <1>1, <3>1 DEF Coordinated
      <4>3. /\ e \in SessionState /\ e.coordinated = b.coordinated /\ e.call = b.call
            /\ e.admission = b.admission /\ e.held = b.held /\ e.reserved = b.reserved
            /\ e.lateCancel = b.lateCancel /\ e.aborted = b.aborted /\ e.released = b.released
            /\ e.stream = b.stream /\ e.producer = b.producer
            /\ e.closing = b.closing /\ e.work = "operations" /\ e.scope = b.scope
            /\ e.read = b.read /\ e.taken = b.taken
        BY ONLY <4>2 DEF SessionState
      <4> HIDE DEF e, b
      <4>4. SessionOK(e)
        BY <4>2, <4>3 DEF SessionOK, CallOK, StreamOK, EndOK, WorkOK, NotOpened, Returned
      <4>5. QED
        BY <4>1, <4>3, <4>4 DEF b
    <3>2. CASE s \notin Coordinated
      BY <1>1, <2>1, <3>2
    <3>3. QED
      BY <3>1, <3>2
  <2>3. ses' \in [Sessions -> SessionState]
    BY <2>1, <2>2
  <2>4. QED
    BY <2>1, <2>2, <2>3, ShutdownMoves
<1>4. CASE WorkSettled \/ ScopesSettled \/ OwnedClosed \/ disposeServer
  <2>1. /\ limits' = limits /\ pool' = pool /\ ses' = ses /\ owned' \in {owned, sessions}
        /\ shutdown' \in {"scopes", "ended", "disposed", "draining"} /\ registry' = registry
    BY <1>4 DEF WorkSettled, ScopesSettled, OwnedClosed, disposeServer
  <2>2. shutdown' \in {"scopes", "ended"} => \A s \in Coordinated' : ses'[s].work = "done"
    BY <1>4, <2>1 DEF WorkSettled, ScopesSettled, OwnedClosed, disposeServer, SessionsInv, Coordinated
  <2>3. QED
    BY <1>1, <2>1, <2>2, ShutdownMoves
<1>5. QED
  BY <1>2, <1>3, <1>4 DEF Settles

\* What the registry notes of a scope changes nothing else of the session.
LEMMA TakenResult ==
  ASSUME NEW b \in SessionState, SessionOK(b), NEW v \in {"closing", "closed"},
         NEW r, r = [b EXCEPT !.taken = v]
  PROVE  /\ r \in SessionState /\ SessionOK(r) /\ Operations(r) = Operations(b)
         /\ r.call = b.call /\ r.admission = b.admission /\ r.held = b.held /\ r.reserved = b.reserved
         /\ r.lateCancel = b.lateCancel /\ r.released = b.released /\ r.scope = b.scope
         /\ r.coordinated = b.coordinated /\ r.work = b.work
  BY DEF SessionState, SessionOK, CallOK, StreamOK, EndOK, WorkOK, NotOpened, Returned, Operations

\* The registry's own shutdown.
LEMMA RegistrySteps ==
  ASSUME SessionsInv, beginShutdown \/ RegistryShutdown
  PROVE  SessionsInv' /\ SpendsNothing /\ ScopesSafe
<1>1. /\ ses \in [Sessions -> SessionState] /\ RegistryOK /\ TypeOK
      /\ \A s \in Sessions : ses[s] \in SessionState /\ SessionOK(ses[s]) /\ PlaceOK(s)
  BY DEF SessionsInv, TypeOK
<1>2. CASE beginShutdown \/ ExecutionsSettled \/ RegistryClosed
  <2>1. /\ ses' = ses /\ limits' = limits /\ pool' = pool /\ shutdown' = shutdown /\ owned' = owned
        /\ registry' \in {"draining", "closing", "closed"}
    BY <1>2 DEF beginShutdown, ExecutionsSettled, RegistryClosed, Registry
  <2>2. RegistryOK'
    <3>1. CASE beginShutdown
      BY <1>1, <2>1, <3>1 DEF RegistryOK, beginShutdown, Registry
    <3>2. CASE ExecutionsSettled
      BY <1>1, <2>1, <3>2 DEF RegistryOK, ExecutionsSettled, Registry
    <3>3. CASE RegistryClosed
      BY <1>1, <2>1, <3>3 DEF RegistryOK, RegistryClosed, Registry
    <3>4. QED
      BY <1>2, <3>1, <3>2, <3>3
  <2>3. SessionsInv'
    BY <2>1, <2>2 DEF SessionsInv, TypeOK, PlaceOK, Coordinated, coordinatedSessions, sessions
  <2>4. SpendsNothing /\ ScopesSafe
    BY <2>1 DEF SpendsNothing, OpeningFor, Charged, OwnedBy, ReservedBy, ScopesSafe, ScopeSafe
  <2>5. QED
    BY <2>3, <2>4
<1>3. ASSUME NEW s \in Sessions, closeServiceScope(s) \/ ServiceScopeClosed(s)
      PROVE  SessionsInv' /\ SpendsNothing /\ ScopesSafe
  <2>1. PICK v \in {"closing", "closed"} : ses' = [ses EXCEPT ![s].taken = v]
    BY <1>3 DEF closeServiceScope, ServiceScopeClosed
  <2>2. /\ limits' = limits /\ pool' = pool /\ shutdown' = shutdown /\ owned' = owned
        /\ registry' = registry
    BY <1>3 DEF closeServiceScope, ServiceScopeClosed
  <2>3. registry \in {"closing", "closed"}
    BY <1>1, <1>3 DEF closeServiceScope, ServiceScopeClosed, RegistryOK, TypeOK
  <2> DEFINE r == [ses[s] EXCEPT !.taken = v]
  <2>4. ses'[s] = r /\ \A t \in Sessions \ {s} : ses'[t] = ses[t]
    BY <1>1, <2>1
  <2>5. /\ r \in SessionState /\ SessionOK(r) /\ Operations(r) = Operations(ses[s])
        /\ r.call = ses[s].call /\ r.admission = ses[s].admission /\ r.held = ses[s].held
        /\ r.reserved = ses[s].reserved /\ r.lateCancel = ses[s].lateCancel
        /\ r.released = ses[s].released /\ r.scope = ses[s].scope
        /\ r.coordinated = ses[s].coordinated /\ r.work = ses[s].work
    BY <1>1, TakenResult
  <2>6. ses' \in [Sessions -> SessionState]
    BY <1>1, <2>1, <2>5
  <2> HIDE DEF r
  <2>7. \A t \in Sessions :
          /\ SessionOK(ses'[t]) /\ Operations(ses'[t]) = Operations(ses[t])
          /\ ses'[t].call = ses[t].call /\ ses'[t].admission = ses[t].admission /\ ses'[t].held = ses[t].held
          /\ ses'[t].reserved = ses[t].reserved /\ ses'[t].lateCancel = ses[t].lateCancel
          /\ ses'[t].released = ses[t].released /\ ses'[t].scope = ses[t].scope
          /\ ses'[t].coordinated = ses[t].coordinated /\ ses'[t].work = ses[t].work
    BY <1>1, <2>4, <2>5
  <2>8. TypeOK'
    BY <1>1, <2>2, <2>6 DEF TypeOK
  <2>9. \A t \in Sessions : PlaceOK(t)'
    BY <1>1, <2>2, <2>7 DEF PlaceOK, NotOpened, coordinatedSessions, sessions
  <2>10. RegistryOK'
    BY <1>1, <2>2, <2>3, <2>7 DEF RegistryOK
  <2>11. SessionsInv'
    BY <2>2, <2>7, <2>8, <2>9, <2>10 DEF SessionsInv, Coordinated
  <2>12. SpendsNothing
    <3>1. pool["observable"] \subseteq Sessions
      BY <1>1 DEF TypeOK, PoolName
    <3>2. ASSUME NEW c \in Callers PROVE Charged(c)' \subseteq Charged(c)
      BY <2>2, <2>7, <3>1 DEF Charged, OwnedBy, ReservedBy
    <3>3. OpeningFor("subscription")' \subseteq OpeningFor("subscription")
      BY <2>7 DEF OpeningFor
    <3>4. QED
      BY <2>2, <3>2, <3>3 DEF SpendsNothing
  <2>13. ScopesSafe
    BY <2>7 DEF ScopesSafe, ScopeSafe
  <2>14. QED
    BY <2>11, <2>12, <2>13
<1>4. QED
  BY <1>2, <1>3 DEF RegistryShutdown

(***************************************************************************)
(* Theorems                                                                *)
(***************************************************************************)

LEMMA InitResult == Init => SessionsInv /\ SubscriptionBudgets
<1> SUFFICES ASSUME Init PROVE SessionsInv /\ SubscriptionBudgets
  OBVIOUS
<1>1. Fresh \in SessionState /\ SessionOK(Fresh) /\ Fresh.call = "idle" /\ Fresh.scope = "none" /\ ~Fresh.reserved
  BY DEF Fresh, SessionState, SessionOK, CallOK, StreamOK, EndOK, WorkOK, NotOpened, Returned
<1>2. ses \in [Sessions -> SessionState] /\ \A s \in Sessions : ses[s] = Fresh
  BY <1>1 DEF Init
<1>3. pool \in [PoolName -> SUBSET Sessions] /\ \A n \in PoolName : pool[n] = {}
  BY DEF Init
<1>4. TypeOK
  BY <1>2, <1>3 DEF Init, TypeOK
<1>5. ASSUME NEW s \in Sessions PROVE SessionOK(ses[s]) /\ PlaceOK(s)
  BY <1>1, <1>2, <1>3 DEF Init, PlaceOK, coordinatedSessions, sessions, PoolName
<1>6. SessionsInv
  <2>1. RegistryOK
    BY <1>2 DEF Init, RegistryOK, Fresh
  <2>2. QED
    BY <1>4, <1>5, <2>1 DEF Init, SessionsInv
<1>7. pool["observable"] = {} /\ OpeningFor("subscription") = {} /\ \A c \in Callers : Charged(c) = {}
  BY <1>1, <1>2, <1>3 DEF PoolName, OpeningFor, Charged, OwnedBy, ReservedBy
<1>8. Cardinality({}) = 0
  BY FS_EmptySet
<1>9. SubscriptionBudgets
  <2>1. limits.subscriptions \in Nat /\ limits.perCaller \in Nat
    BY <1>4, FiniteParts
  <2>2. Cardinality(pool.observable) + Cardinality(OpeningFor("subscription")) <= limits.subscriptions
    BY <1>7, <1>8, <2>1
  <2>3. \A c \in Callers : Cardinality(Charged(c)) <= limits.perCaller
    BY <1>7, <1>8, <2>1
  <2>4. QED
    BY <2>2, <2>3 DEF SubscriptionBudgets, Charged
<1>10. QED
  BY <1>6, <1>9

LEMMA NextResult ==
  ASSUME SessionsInv, [Next]_vars
  PROVE  SessionsInv' /\ (SubscriptionBudgets => SubscriptionBudgets') /\ ScopesSafe
<1>1. SessionsInv' /\ SpendsNothing /\ ScopesSafe =>
        SessionsInv' /\ (SubscriptionBudgets => SubscriptionBudgets') /\ ScopesSafe
  BY BudgetKept
<1>2. ASSUME NEW s \in Sessions, NEW a \in Admission, openSession(s, a)
      PROVE  SessionsInv' /\ (SubscriptionBudgets => SubscriptionBudgets') /\ ScopesSafe
  BY <1>2, OpenSession
<1>3. ASSUME NEW s \in Sessions,
             \/ Cancel(s) \/ ReadCurrent(s) \/ reserveSession(s) \/ results(s) \/ CallerCloses(s)
             \/ Pull(s) \/ SourceEmits(s) \/ PullEnds(s) \/ StreamFails(s)
      PROVE  SessionsInv' /\ (SubscriptionBudgets => SubscriptionBudgets') /\ ScopesSafe
  BY <1>1, <1>3, CallerSteps, ReserveSession
<1>4. ASSUME NEW s \in Sessions, PipelineSucceeds(s) \/ OpeningEnds(s)
      PROVE  SessionsInv' /\ (SubscriptionBudgets => SubscriptionBudgets') /\ ScopesSafe
  BY <1>1, <1>4, PipelineRegisters, PipelineClosesLate, OpeningEndsResult
<1>5. ASSUME NEW s \in Sessions, Runs(s)
      PROVE  SessionsInv' /\ (SubscriptionBudgets => SubscriptionBudgets') /\ ScopesSafe
  <2>1. CASE PipelineSucceeds(s) \/ OpeningEnds(s)
    BY <1>4, <2>1
  <2>2. CASE ~(PipelineSucceeds(s) \/ OpeningEnds(s))
    <3>1. PullEnds(s) => SessionsInv' /\ SpendsNothing /\ ScopesSafe
      BY CallerSteps
    <3>2. \/ \E how \in {"rejecting", "throwing"} : PipelineFails(s, how)
          \/ \E value \in BOOLEAN : SourceReads(s, value)
          \/ ReadSettles(s)
          \/ \E next \in {"yielded", "yieldedLast", "pulling"} : EmissionSettles(s, next)
          \/ ReturnTaken(s) \/ ProducerReleased(s) \/ ReleaseAwaited(s) \/ StreamDone(s)
          \/ CloseProceeds(s) \/ OperationsJoined(s) \/ ScopeDisposed(s)
          \/ PullEnds(s)
      BY <1>5, <2>2 DEF Runs
    <3>3. QED
      BY <1>1, <3>1, <3>2, RunSteps
  <2>3. QED
    BY <2>1, <2>2
<1>6. ASSUME NEW s \in Sessions, Ends(s)
      PROVE  SessionsInv' /\ (SubscriptionBudgets => SubscriptionBudgets') /\ ScopesSafe
  BY <1>1, <1>6, EndSteps
<1>7. ASSUME Settles \/ coordinateShutdown \/ disposeServer
      PROVE  SessionsInv' /\ (SubscriptionBudgets => SubscriptionBudgets') /\ ScopesSafe
  BY <1>1, <1>7, ShutdownSteps
<1>8. ASSUME beginShutdown \/ RegistryShutdown
      PROVE  SessionsInv' /\ (SubscriptionBudgets => SubscriptionBudgets') /\ ScopesSafe
  BY <1>1, <1>8, RegistrySteps
<1>9. CASE UNCHANGED vars
  <2>1. /\ ses' = ses /\ pool' = pool /\ limits' = limits /\ shutdown' = shutdown /\ owned' = owned
        /\ registry' = registry
    BY <1>9 DEF vars
  <2>2. SessionsInv'
    BY <2>1 DEF SessionsInv, TypeOK, PlaceOK, Coordinated, coordinatedSessions, sessions, RegistryOK
  <2>3. SubscriptionBudgets => SubscriptionBudgets'
    BY <2>1 DEF SubscriptionBudgets, OpeningFor, OwnedBy, ReservedBy
  <2>4. ScopesSafe
    BY <2>1 DEF ScopesSafe, ScopeSafe
  <2>5. QED
    BY <2>2, <2>3, <2>4
<1>10. QED
  BY <1>2, <1>3, <1>5, <1>6, <1>7, <1>8, <1>9 DEF Next

\* The inductive invariant: what every state of every session, at any await of
\* its opening, its stream and its end, says about where it stands in the pools
\* and what is still open.
THEOREM SessionsInvariant == Spec => []SessionsInv
<1>1. Init => SessionsInv
  BY InitResult
<1>2. SessionsInv /\ [Next]_vars => SessionsInv'
  BY NextResult
<1>3. QED
  BY <1>1, <1>2, PTL DEF Spec

\* The budgets of ObservableLimits hold for any number of sessions and callers:
\* the capacity asked before the pipeline is awaited still holds when the
\* session is registered after it.
THEOREM BudgetsAlwaysKept == Spec => []SubscriptionBudgets
<1>1. Init => SessionsInv /\ SubscriptionBudgets
  BY InitResult
<1>2. SessionsInv /\ SubscriptionBudgets /\ [Next]_vars => (SessionsInv /\ SubscriptionBudgets)'
  BY NextResult
<1>3. QED
  BY <1>1, <1>2, PTL DEF Spec

\* No session whose scope is still to be disposed is missing from the sets a
\* coordinated shutdown goes through.
THEOREM NoSessionLeftBehind == Spec => []EverySessionIsFound
<1>1. SessionsInv => EverySessionIsFound
  BY DEF SessionsInv, PlaceOK, EverySessionIsFound, coordinatedSessions, sessions
<1>2. QED
  BY <1>1, SessionsInvariant, PTL

\* A session disposes its scope only once the source is returned and no tracked
\* operation uses it; a registry that takes the scope from under its session does
\* so when no operation uses it, and refuses every later one.
THEOREM ScopeNeverTakenFromWork == Spec => ScopeOutlivesWork
<1>1. SessionsInv /\ [Next]_vars =>
        [\A s \in Sessions :
           /\ ses[s].scope \in {"open", "joining"} /\ ses'[s].scope \in {"disposing", "disposed"} =>
                /\ ses[s].producer \in {"none", "released"}
                /\ Operations(ses'[s]) \subseteq IF ses[s].coordinated THEN {} ELSE {"current"}
           /\ ses'[s].taken # "no" => Operations(ses'[s]) = {}]_vars
  <2>1. SUFFICES ASSUME SessionsInv, [Next]_vars, NEW s \in Sessions
                 PROVE  /\ ses[s].scope \in {"open", "joining"} /\ ses'[s].scope \in {"disposing", "disposed"} =>
                             /\ ses[s].producer \in {"none", "released"}
                             /\ Operations(ses'[s]) \subseteq IF ses[s].coordinated THEN {} ELSE {"current"}
                        /\ ses'[s].taken # "no" => Operations(ses'[s]) = {}
    OBVIOUS
  <2>2. SessionsInv' /\ ScopeSafe(ses[s], ses'[s])
    <3>1. SessionsInv' /\ ScopesSafe
      BY <2>1, NextResult
    <3>2. QED
      BY <3>1 DEF ScopesSafe
  <2>3. ses'[s].taken # "no" => Operations(ses'[s]) = {}
    BY <2>2 DEF SessionsInv, RegistryOK, TypeOK
  <2>4. QED
    BY <2>2, <2>3 DEF ScopeSafe, Returned
<1>2. QED
  BY <1>1, SessionsInvariant, PTL DEF Spec, ScopeOutlivesWork
=============================================================================
