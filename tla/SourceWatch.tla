----------------------------- MODULE SourceWatch -----------------------------
(***************************************************************************)
(* Source/Tools/ProxyGenerator: cli.ts, watchSource.ts,                    *)
(* SourceWatchMonitor.ts, sourceWatchSnapshot.ts and SourceWatchReader.ts, *)
(* over the generation of SourcePublication.  The process generates once,  *)
(* takes a checkpoint of the sources, and then regenerates when a native   *)
(* notification or a scan of the tree finds a file that differs from the   *)
(* checkpoint.                                                             *)
(*                                                                         *)
(* The file system is external.  A save announces its file, a directory    *)
(* that is moved in or out announces only itself.  With polling            *)
(* notifications may be lost; without it they arrive.  A second save       *)
(* within a timestamp's granularity keeps the stat signature.  The process *)
(* may end at any point and is then started again.                         *)
(***************************************************************************)
EXTENDS SourcePublication

CONSTANTS
  Directory  \* the directory that holds the sources, as a path notifications name

ASSUME WatchConstants ==
  /\ IsFiniteSet(Files) /\ Directory \notin Files
  /\ \A x \in Settings :
       x.polling \in BOOLEAN /\ DOMAIN x.edits \subseteq Files /\ x.edits \in [DOMAIN x.edits -> Nat]
  /\ MaxMishaps \in Nat

VARIABLES
  stage,     \* of the process: generate, checkpoint, watching, exited
  entries,   \* the checkpoint: None, or a signature with or without a hash
  reader,    \* the reads of each file, by the check or the scan that asked for them
  scan,      \* #scanning, with what the scan found and duringScan
  requested, \* scanRequested
  timer,     \* the poll timer
  events,    \* notifications that have not arrived
  dirty,     \* dirty: paths to check again
  folder,    \* the check of the directory
  debounce,  \* the timer of schedule()
  queue,     \* generations chained to pending
  known,     \* history: the edit of each file that entries knows of
  gap        \* history: an edit nothing will announce or find, see Unannounced and Overlooked

watchVars == <<entries, reader, scan, requested, timer, events, dirty, folder, debounce, queue, known, gap>>
vars == <<setting, file, publicationVars, mishaps, stage, watchVars>>

Readers == {"check", "scan"}
NoRead == [state |-> "none", compareHash |-> FALSE, entry |-> None, asOf |-> 0]
NoScan == [state |-> "none", duringScan |-> {}]
Pending(f) == reader[f]["check"].state # "none"

----------------------------------------------------------------------------
(* Sources *)

\* Whether a change of f to new is neither in what the first generation reads nor
\* announced or found later: it comes between that read and the read of the
\* checkpoint or, without polling, the registration of the watchers.
Unannounced(f, new) ==
  \/ stage = "generate" /\ queue = 0 /\ ~(gen.stage = "read" /\ f \in gen.todo)
  \/ stage = "checkpoint" /\
       \/ ~polling \/ reader[f]["scan"].state = "stat"
       \/ reader[f]["scan"].state = "hash" /\ (new.exists => new.signature = file[f].signature)

\* An edit that announces path p, or nothing.
Edit(f, new, p) ==
  /\ file[f].edit <= setting.edits[f]
  /\ file' = [file EXCEPT ![f] = new]
  /\ events' = IF stage = "watching" THEN events \cup (p \ {None}) ELSE events
  /\ gap' = (gap \/ Unannounced(f, new))
  /\ UNCHANGED <<publicationVars, mishaps, setting, stage, entries, reader, scan, requested, timer, dirty,
                 folder, debounce, queue, known>>
Announced(path) == {{path}} \cup IF polling THEN {{}} ELSE {}
Save(f) ==
  \E p \in Announced(f) :
    Edit(f, [edit |-> file[f].edit + 1, exists |-> TRUE, signature |-> file[f].edit + 1, recent |-> TRUE], p)
\* A save the timestamps do not show.
CoarseSave(f) ==
  /\ file[f].exists /\ file[f].recent
  /\ \E p \in Announced(f) : Edit(f, [file[f] EXCEPT !.edit = @ + 1], p)
Delete(f) ==
  /\ file[f].exists
  /\ \E p \in Announced(f) : Edit(f, [file[f] EXCEPT !.edit = @ + 1, !.exists = FALSE], p)
\* The directory leaves with its files, or comes back.
MoveDirectory(f) ==
  \E p \in Announced(Directory) :
    Edit(f, [file[f] EXCEPT !.edit = @ + 1, !.exists = ~@, !.signature = file[f].edit + 1], p)
\* A notification without an edit.
Repeated(f) ==
  /\ mishaps < MaxMishaps /\ stage = "watching"
  /\ mishaps' = mishaps + 1
  /\ events' = events \cup {f}
  /\ UNCHANGED <<file, publicationVars, setting, stage, entries, reader, scan, requested, timer, dirty, folder,
                 debounce, queue, known, gap>>
Ages(f) ==
  /\ file[f].recent
  /\ file' = [file EXCEPT ![f].recent = FALSE]
  /\ UNCHANGED <<publicationVars, mishaps, setting, stage, watchVars>>

----------------------------------------------------------------------------
(* SourceWatchReader.file(): stat, then the content of a recent or hashed file *)

Reading(f, who) == reader[f][who].state
Reads(f) == [NoRead EXCEPT !.state = "stat", !.compareHash = entries[f] # None /\ entries[f].hash # None]
StatResult(f, r) ==
  IF ~file[f].exists THEN [r EXCEPT !.state = "read", !.entry = None, !.asOf = file[f].edit]
  ELSE [r EXCEPT !.state = IF file[f].recent \/ r.compareHash THEN "hash" ELSE "read",
                 !.entry = [signature |-> file[f].signature, hash |-> None], !.asOf = file[f].edit]
HashResult(f, r) ==
  IF file[f].exists THEN [r EXCEPT !.state = "read", !.entry.hash = file[f].edit]
  ELSE [r EXCEPT !.state = "read", !.entry = None, !.asOf = file[f].edit]
ReadStep(f, who) ==
  LET r == reader[f][who] IN
  /\ r.state \in {"stat", "hash"}
  /\ reader' = [reader EXCEPT ![f][who] = IF r.state = "stat" THEN StatResult(f, r) ELSE HashResult(f, r)]
  /\ UNCHANGED <<file, publicationVars, mishaps, setting, stage, entries, scan, requested, timer, events, dirty,
                 folder, debounce, queue, known, gap>>

DiffersInSignature(f, e) ==
  \/ (entries[f] = None) # (e = None)
  \/ entries[f] # None /\ e # None /\ entries[f].signature # e.signature
\* update(): whether the entry e of f differs from the one in entries.
Differs(f, e) ==
  \/ (entries[f] = None) # (e = None)
  \/ /\ entries[f] # None /\ e # None
     /\ \/ entries[f].signature # e.signature
        \/ entries[f].hash # None /\ e.hash # None /\ entries[f].hash # e.hash
Update(S, who) ==
  /\ entries' = [f \in Files |-> IF f \in S THEN reader[f][who].entry ELSE entries[f]]
  /\ known' = [f \in Files |-> IF f \in S THEN reader[f][who].asOf ELSE known[f]]
  /\ debounce' = (debounce \/ \E f \in S : Differs(f, reader[f][who].entry))

----------------------------------------------------------------------------
(* requestReconcile() and reconcile() *)

ScanStarts(readers) == [f \in Files |-> IF f \in sources THEN [readers[f] EXCEPT !["scan"] = Reads(f)] ELSE readers[f]]
requestReconcile ==
  /\ timer' = FALSE
  /\ IF scan.state = "none"
     THEN /\ scan' = [NoScan EXCEPT !.state = "scanning"] /\ requested' = FALSE
          /\ reader' = ScanStarts(reader)
     ELSE requested' = TRUE /\ UNCHANGED <<scan, reader>>
PollFires ==
  /\ stage = "watching" /\ timer
  /\ requestReconcile
  /\ UNCHANGED <<file, publicationVars, mishaps, setting, stage, entries, events, dirty, folder, debounce, queue,
                 known, gap>>

\* Files whose check is pending or ended during the scan keep what the check found.
SkippedPendingOnly == {f \in Files : Pending(f)}
Skipped == {f \in Files : Pending(f)} \cup scan.duringScan
\* Those of which the scan saw a later state than a check that began before it.
LastCheck(f) ==
  CASE Reading(f, "check") = "none" -> known[f]
    [] Reading(f, "check") = "stat" -> file[f].edit
    [] OTHER -> reader[f]["check"].asOf
Overlooked == {f \in Skipped \ (events \cup dirty) : reader[f]["scan"].asOf > LastCheck(f)}
ScanEnds ==
  /\ stage = "watching" /\ scan.state = "scanning"
  /\ \A f \in sources : Reading(f, "scan") = "read"
  /\ Update(Files \ Skipped, "scan")
  /\ scan' = [NoScan EXCEPT !.state = IF requested THEN "scanning" ELSE "settling"]
  /\ requested' = FALSE
  /\ reader' = [f \in Files |-> [reader[f] EXCEPT !["scan"] =
       IF requested /\ f \in sources
       THEN [NoRead EXCEPT !.state = "stat", !.compareHash = entries'[f] # None /\ entries'[f].hash # None]
       ELSE NoRead]]
  /\ timer' = (polling /\ ~requested)
  /\ gap' = (gap \/ (~polling /\ Overlooked # {}))
  /\ UNCHANGED <<file, publicationVars, mishaps, setting, stage, events, dirty, folder, queue>>
\* The promise is cleared; a request made meanwhile starts the next scan.
ScanSettles ==
  /\ scan.state = "settling"
  /\ IF requested
     THEN scan' = [NoScan EXCEPT !.state = "scanning"] /\ reader' = ScanStarts(reader) /\ timer' = FALSE
     ELSE scan' = NoScan /\ UNCHANGED <<reader, timer>>
  /\ requested' = FALSE
  /\ UNCHANGED <<file, publicationVars, mishaps, setting, stage, entries, events, dirty, folder, debounce, queue,
                 known, gap>>

----------------------------------------------------------------------------
(* notify() and checkPath() *)

NotifyFile(f) ==
  /\ stage = "watching" /\ f \in events
  /\ events' = events \ {f}
  /\ IF Pending(f) THEN dirty' = dirty \cup {f} /\ UNCHANGED reader
     ELSE reader' = [reader EXCEPT ![f]["check"] = Reads(f)] /\ UNCHANGED dirty
  /\ UNCHANGED <<file, publicationVars, mishaps, setting, stage, entries, scan, requested, timer, folder, debounce,
                 queue, known, gap>>
CheckEnds(f) ==
  /\ stage = "watching" /\ Reading(f, "check") = "read"
  /\ Update({f}, "check")
  /\ scan' = IF scan.state = "scanning" THEN [scan EXCEPT !.duringScan = @ \cup {f}] ELSE scan
  /\ dirty' = dirty \ {f}
  /\ reader' = [reader EXCEPT ![f]["check"] =
       IF f \notin dirty THEN NoRead
       ELSE [NoRead EXCEPT !.state = "stat", !.compareHash = entries'[f] # None /\ entries'[f].hash # None]]
  /\ UNCHANGED <<file, publicationVars, mishaps, setting, stage, requested, timer, events, folder, queue, gap>>

NotifyDirectory ==
  /\ stage = "watching" /\ Directory \in events
  /\ events' = events \ {Directory}
  /\ IF folder # "none" THEN dirty' = dirty \cup {Directory} /\ UNCHANGED folder
     ELSE folder' = "stat" /\ UNCHANGED dirty
  /\ UNCHANGED <<file, publicationVars, mishaps, setting, stage, entries, reader, scan, requested, timer, debounce,
                 queue, known, gap>>
\* A directory that is there, or one that was and has entries, is reconciled.
DirectoryChecked ==
  /\ stage = "watching" /\ folder = "stat"
  /\ IF \E f \in Files : file[f].exists \/ entries[f] # None
     THEN folder' = "scan" /\ requestReconcile
     ELSE folder' = "read" /\ UNCHANGED <<scan, requested, timer, reader>>
  /\ UNCHANGED <<file, publicationVars, mishaps, setting, stage, entries, events, dirty, debounce, queue, known, gap>>
DirectoryDone ==
  /\ folder = "read" \/ (folder = "scan" /\ scan.state = "none")
  /\ folder' = IF Directory \in dirty THEN "stat" ELSE "none"
  /\ dirty' = dirty \ {Directory}
  /\ UNCHANGED <<file, publicationVars, mishaps, setting, stage, entries, reader, scan, requested, timer, events,
                 debounce, queue, known, gap>>

----------------------------------------------------------------------------
(* watchSource() and the process *)

StartsGeneration == gen' = [NoGen EXCEPT !.stage = "read", !.todo = sources] /\ gap' = FALSE
DebounceFires ==
  /\ stage = "watching" /\ debounce
  /\ debounce' = FALSE /\ queue' = queue + 1
  /\ UNCHANGED <<file, publicationVars, mishaps, setting, stage, entries, reader, scan, requested, timer, events,
                 dirty, folder, known, gap>>
GenerationStarts ==
  /\ gen.stage = "idle" /\ queue > 0
  /\ queue' = queue - 1
  /\ StartsGeneration
  /\ UNCHANGED <<file, out, meta, failed, mishaps, setting, stage, entries, reader, scan, requested, timer, events,
                 dirty, folder, debounce, known>>
\* cli.ts: the first generation is over; a failure ends the process.
FirstGenerationEnds ==
  /\ stage = "generate" /\ gen.stage = "idle" /\ queue = 0
  /\ stage' = IF failed THEN "exited" ELSE "checkpoint"
  /\ reader' = IF failed THEN reader ELSE ScanStarts(reader)
  /\ UNCHANGED <<file, publicationVars, mishaps, setting, entries, scan, requested, timer, events, dirty, folder,
                 debounce, queue, known, gap>>
\* monitor.start() returns and the watchers are registered.
CheckpointEnds ==
  /\ stage = "checkpoint"
  /\ \A f \in sources : Reading(f, "scan") = "read"
  /\ stage' = "watching"
  /\ entries' = [f \in Files |-> reader[f]["scan"].entry]
  /\ known' = [f \in Files |-> reader[f]["scan"].asOf]
  /\ reader' = [f \in Files |-> [who \in Readers |-> NoRead]]
  /\ timer' = polling
  /\ UNCHANGED <<file, publicationVars, mishaps, setting, scan, requested, events, dirty, folder, debounce, queue, gap>>

Generates ==
  /\ Publishes
  /\ UNCHANGED <<file, mishaps, setting, stage, watchVars>>
GenerationFails ==
  /\ StepFails
  /\ UNCHANGED <<file, setting, stage, watchVars>>
UserWritesOutput ==
  /\ UserWritesMetadata \/ \E f \in sources : UserWrites(f)
  /\ UNCHANGED <<file, setting, stage, watchVars>>

\* The process ends anywhere and is started again: only the files are left.
Booted ==
  /\ stage' = "generate" /\ queue' = 1
  /\ entries' = NoTexts /\ reader' = [f \in Files |-> [who \in Readers |-> NoRead]]
  /\ scan' = NoScan /\ requested' = FALSE /\ timer' = FALSE /\ events' = {} /\ dirty' = {}
  /\ folder' = "none" /\ debounce' = FALSE /\ known' = [f \in Files |-> 0] /\ gap' = FALSE
Crash ==
  /\ mishaps < MaxMishaps
  /\ mishaps' = mishaps + 1
  /\ gen' = NoGen /\ failed' = FALSE
  /\ Booted
  /\ UNCHANGED <<file, out, meta, setting>>

Init ==
  /\ setting \in Settings
  /\ file = [f \in Files |-> [edit |-> IF f \in sources THEN 1 ELSE 0, exists |-> f \in sources, signature |-> 1,
                              recent |-> FALSE]]
  /\ out = NoTexts /\ meta = None /\ gen = NoGen /\ failed = FALSE /\ mishaps = 0
  /\ stage = "generate" /\ queue = 1
  /\ entries = NoTexts /\ reader = [f \in Files |-> [who \in Readers |-> NoRead]]
  /\ scan = NoScan /\ requested = FALSE /\ timer = FALSE /\ events = {} /\ dirty = {}
  /\ folder = "none" /\ debounce = FALSE /\ known = [f \in Files |-> 0] /\ gap = FALSE

Checks == \E f \in sources : CheckEnds(f) \/ (~polling /\ NotifyFile(f))
CheckDirectory == DirectoryChecked \/ DirectoryDone \/ (~polling /\ NotifyDirectory)
Scans == PollFires \/ ScanEnds \/ ScanSettles
Process == FirstGenerationEnds \/ CheckpointEnds \/ GenerationStarts

Next ==
  \/ \E f \in sources :
       \/ Save(f) \/ CoarseSave(f) \/ Delete(f) \/ MoveDirectory(f) \/ Repeated(f) \/ Ages(f)
       \/ NotifyFile(f) \/ CheckEnds(f)
       \/ \E who \in Readers : ReadStep(f, who)
  \/ Scans
  \/ NotifyDirectory \/ DirectoryChecked \/ DirectoryDone
  \/ DebounceFires \/ Process
  \/ Generates \/ GenerationFails \/ UserWritesOutput \/ Crash

\* The event loop runs and timers fire; notifications arrive when there is no polling.
Spec ==
  /\ Init /\ [][Next]_vars
  /\ \A f \in Files, who \in Readers : WF_vars(ReadStep(f, who))
  /\ WF_vars(Checks) /\ WF_vars(CheckDirectory) /\ WF_vars(Scans)
  /\ WF_vars(DebounceFires \/ Process) /\ WF_vars(Generates)

----------------------------------------------------------------------------
(* Properties *)

\* What entries knows of a file never goes back: a scan that read the file early
\* does not undo what a check found since (reconcile, lines 108-112).
NoRollback ==
  [][stage = "watching" /\ stage' = "watching" => \A f \in Files : known'[f] >= known[f]]_vars

\* A user's text is never replaced or deleted, unless the user wrote it over the
\* generator's own file after its text was last compared (publishFile, lines 18-29),
\* or over the metadata module between the two reads that look for its owner and
\* for its text (publishGeneratedMetadata, lines 36-37;
\* "A hand-written file | Never overwritten or deleted",
\* Documentation/proxy-generation/file-index-tracking.md:25).
UserTextKept ==
  [][/\ \A f \in Files : out[f] \in Hand => out'[f] = out[f] \/ gen.raced
     /\ meta \in Hand => meta' = meta \/ gen.raced]_vars

\* Metadata is published after every proxy it describes: whatever fails or stops a
\* generation, the module never runs ahead of the proxies (lines 39-52).
MetadataLast ==
  [][meta' # meta /\ meta' \notin Hand => \A f \in Files : out[f] \in {meta'[f]} \cup Hand]_vars

\* The output follows the sources: after the last edit, and however notifications,
\* scans, generations and crashes interleave, it shows them or the last generation
\* failed.  Two kinds of edits may have to wait for the next one: an edit between
\* the first generation and the checkpoint and, without polling, a moved directory
\* whose file a check read before the move and left unchanged during the scan
\* (checkPath, line 56; reconcile, line 110).
Published ==
  /\ meta \in Hand \cup {Texts}
  /\ \A f \in Files : out[f] \in Hand \cup {Text(f)}
OutputFollowsSources == <>[](Published \/ failed \/ gap)
=============================================================================
