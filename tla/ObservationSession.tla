------------------------- MODULE ObservationSession -------------------------
(***************************************************************************)
(* Source/Drizzle/DrizzleObservationSession.ts: the state of one           *)
(* observation of a table, and what its methods make of it.  A session     *)
(* reads one snapshot at a time.  A change marks it dirty and makes it     *)
(* read again; a recovery of the listener also asks for a catch-up read    *)
(* that current() and a first subscriber wait for.  Snapshots are the      *)
(* versions of the table they show.                                        *)
(***************************************************************************)
EXTENDS Integers

IdleSession ==
  [state |-> "idle", entry |-> 0, lease |-> "waiting", subscribed |-> FALSE, dirty |-> FALSE, catchup |-> FALSE,
   catchingUp |-> FALSE, scheduled |-> FALSE, hasValue |-> FALSE, emitted |-> FALSE, read |-> "none",
   readFrom |-> 0, readGeneration |-> 0, snapshot |-> 0, current |-> "none", adopt |-> "none"]

Waiters == {"current", "adopt"}

SessionType(Entries, Versions) ==
  [state : {"idle", "open", "closed"}, entry : Entries, lease : {"waiting", "resolve", "validate", "routed"},
   subscribed : BOOLEAN, dirty : BOOLEAN, catchup : BOOLEAN, catchingUp : BOOLEAN, scheduled : BOOLEAN,
   hasValue : BOOLEAN, emitted : BOOLEAN, read : {"none", "gate", "reading"}, readFrom : Versions,
   readGeneration : Nat, snapshot : Versions, current : {"none", "called", "read", "catchup"},
   adopt : {"none", "called", "read", "catchup", "done"}]

Opened(e) == [IdleSession EXCEPT !.state = "open", !.entry = e]

\* fail() and close(): everything the session still waits for is given up.
Ended(x) == [IdleSession EXCEPT !.state = "closed", !.entry = x.entry]

\* #running: the read in flight is the pump's, not the initial one.
Running(x) == x.hasValue /\ x.read # "none"

Scheduled(x) == IF Running(x) THEN x ELSE [x EXCEPT !.scheduled = TRUE]

\* The listener's callback.
ChangedUnlessRunning(x, catchup) ==
  LET y == [x EXCEPT !.dirty = ~Running(x), !.catchup = @ \/ catchup]
  IN  IF x.subscribed \/ catchup THEN Scheduled(y) ELSE y
Changed(x, catchup) ==
  LET y == [x EXCEPT !.dirty = TRUE, !.catchup = @ \/ catchup]
  IN  IF x.subscribed \/ catchup THEN Scheduled(y) ELSE y

\* pump(): nothing to do without a first value or a change, or while it runs.
Pumped(x) ==
  IF Running(x) \/ ~x.hasValue \/ ~x.dirty THEN x
  ELSE [x EXCEPT !.dirty = FALSE, !.catchingUp = x.catchup, !.read = "gate"]

\* What current() and adopt() do once there is a first value and a listener:
\* catch up and wait, or hand the snapshot out.
MustWait(x) == x.catchup \/ Running(x) \/ x.dirty
Waits(x, w) == [Pumped(x) EXCEPT ![w] = IF x.catchup THEN "catchup" ELSE "read"]
HandsOut(x, w) == IF w = "adopt" THEN [x EXCEPT !.adopt = "done", !.emitted = TRUE] ELSE [x EXCEPT !.current = "none"]

\* The waiters that the end of a pump's read releases, and whether its value
\* reaches anyone.
Released(x) == {w \in Waiters : x[w] = "read" \/ (x[w] = "catchup" /\ x.catchingUp)}
Reaches(x) == x.emitted \/ Released(x) # {}

\* A read of the pump ends with value v.
AfterRead(x, v) ==
  LET y == [x EXCEPT !.snapshot = v, !.read = "none",
                     !.catchup = IF x.catchingUp THEN FALSE ELSE @, !.catchingUp = FALSE,
                     !.current = IF "current" \in Released(x) THEN "none" ELSE @,
                     !.adopt = IF "adopt" \in Released(x) THEN "done" ELSE @,
                     !.emitted = @ \/ "adopt" \in Released(x)]
  IN  Pumped(y)

\* The initial read ends with value v.
AfterInitialRead(x, v) ==
  LET y == [x EXCEPT !.snapshot = v, !.read = "none", !.hasValue = TRUE]
  IN  IF x.dirty /\ (x.subscribed \/ x.catchup) THEN Scheduled(y) ELSE y
=============================================================================
