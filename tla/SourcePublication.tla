------------------------- MODULE SourcePublication -------------------------
(***************************************************************************)
(* Source/Tools/ProxyGenerator: generateFromSource.ts,                     *)
(* preflightSourceFiles.ts, publishSourceFiles.ts and                      *)
(* publishGeneratedMetadata.ts.  A generation reads the sources, refuses   *)
(* output that is not its own, then replaces the proxies that changed one  *)
(* by one, deletes those without a source, and publishes the metadata      *)
(* module last.  Sources and output change under it at every await, a step *)
(* may fail, and what was published stays.                                 *)
(*                                                                         *)
(* Every source makes one proxy; a proxy and the metadata are the texts of *)
(* the sources they were made from.                                        *)
(***************************************************************************)
EXTENDS Integers, FiniteSets

CONSTANTS
  Files,       \* the source files
  Settings,    \* bound: polling or not, the files there are and how often each is edited
  MaxMishaps,  \* bound: failed steps, hand edits of the output, repeated notifications, crashes
  handwritten, \* a user's text without the generator's header
  edited,      \* a user's text under a header that no longer fits
  None

\* There is no file where None is read.
ASSUME TextsAreNotNone == None \notin {handwritten, edited}

VARIABLES
  setting,  \* one of the settings
  file,     \* the sources: number of edits, whether there is one, its stat signature
  out,      \* the proxies: None, the edit they were made from, or a user's text
  meta,     \* the metadata module: None, the texts it describes, or a user's text
  gen,      \* the generation that runs
  failed,   \* whether the last generation failed
  mishaps

publicationVars == <<out, meta, gen, failed>>

polling == setting.polling
sources == DOMAIN setting.edits

Hand == {handwritten, edited}
owned(text) == text \notin Hand \cup {None}

Text(f) == IF file[f].exists THEN file[f].edit ELSE None
Texts == [f \in Files |-> Text(f)]
NoTexts == [f \in Files |-> None]

\* todo: the files the stage still has to go through; at: the file whose text was
\* compared and is replaced next; previous: the metadata as it was read; raced: the
\* user wrote a file where the code would not see it any more.
NoGen == [stage |-> "idle", read |-> NoTexts, existing |-> NoTexts, todo |-> {}, at |-> None,
          previous |-> None, raced |-> FALSE]

Fails == gen' = NoGen /\ failed' = TRUE /\ UNCHANGED <<out, meta>>
Continues(g) == gen' = g /\ UNCHANGED <<out, meta, failed>>

----------------------------------------------------------------------------
(* Analysis and preflight *)

ReadSource(f) ==
  /\ gen.stage = "read" /\ f \in gen.todo
  /\ Continues([gen EXCEPT !.read[f] = Text(f), !.todo = @ \ {f},
                           !.stage = IF gen.todo = {f} THEN "preflightMetadata" ELSE "read"])
preflightGeneratedMetadata ==
  /\ gen.stage = "preflightMetadata"
  /\ IF meta \in Hand THEN Fails ELSE Continues([gen EXCEPT !.stage = "preflight", !.todo = sources])

\* verifyOwnership()
Refused(g) ==
  \E f \in Files : IF g.read[f] # None THEN g.existing[f] \in Hand ELSE g.existing[f] = edited
Changed(g) == {f \in Files : g.read[f] # None /\ g.read[f] # g.existing[f]}
Orphans(g) == {f \in Files : g.read[f] = None /\ owned(g.existing[f])}
AfterPreflightMetadata(g) == "metadata"
\* What follows preflight.
AfterPreflight(g) == IF Changed(g) \cup Orphans(g) = {} THEN "metadata" ELSE "publish"
readExisting(f) ==
  LET g == [gen EXCEPT !.existing[f] = out[f], !.todo = @ \ {f}] IN
  /\ gen.stage = "preflight" /\ f \in gen.todo
  /\ IF g.todo # {} THEN Continues(g)
     ELSE IF Refused(g) THEN Fails
     ELSE Continues([g EXCEPT !.stage = AfterPreflight(g), !.todo = Changed(g) \cup Orphans(g)])

----------------------------------------------------------------------------
(* Publication *)

\* The text on disk must still be the one preflight saw; proxies come before deletions.
compare(f) ==
  /\ gen.stage = "publish" /\ f \in gen.todo
  /\ f \in Changed(gen) \/ gen.todo \cap Changed(gen) = {}
  /\ IF out[f] # gen.existing[f] THEN Fails
     ELSE Continues([gen EXCEPT !.stage = "replace", !.at = f, !.raced = FALSE])
\* A new proxy is linked and never replaces a file, another is renamed over the
\* old one, an orphan is unlinked.
ReplaceRenames(f) ==
  /\ gen.stage = "replace" /\ f = gen.at
  /\ out' = [out EXCEPT ![f] = gen.read[f]]
  /\ gen' = [gen EXCEPT !.todo = @ \ {f}, !.at = None, !.stage = IF gen.todo = {f} THEN "metadata" ELSE "publish"]
  /\ UNCHANGED <<meta, failed>>
replace(f) ==
  /\ gen.stage = "replace" /\ f = gen.at
  /\ IF (gen.existing[f] = None) # (out[f] = None) THEN Fails
     ELSE /\ out' = [out EXCEPT ![f] = gen.read[f]]
          /\ gen' = [gen EXCEPT !.todo = @ \ {f}, !.at = None, !.raced = FALSE,
                                !.stage = IF gen.todo = {f} THEN "metadata" ELSE "publish"]
          /\ UNCHANGED <<meta, failed>>
\* publishGeneratedMetadata(): the module is asked for its owner, read, and read
\* again before it is replaced; unchanged metadata is left alone.
ownsMetadata ==
  /\ gen.stage = "metadata"
  /\ IF meta \in Hand THEN Fails ELSE Continues([gen EXCEPT !.stage = "readMetadata"])
readMetadata ==
  /\ gen.stage = "readMetadata"
  /\ IF meta = gen.read THEN gen' = NoGen /\ failed' = FALSE /\ UNCHANGED <<out, meta>>
     ELSE Continues([gen EXCEPT !.stage = "compareMetadata", !.previous = meta])
compareMetadata ==
  /\ gen.stage = "compareMetadata"
  /\ IF meta # gen.previous THEN Fails
     ELSE Continues([gen EXCEPT !.stage = "replaceMetadata", !.previous = None])
publishGeneratedMetadata ==
  /\ gen.stage = "replaceMetadata"
  /\ meta' = gen.read
  /\ gen' = NoGen /\ failed' = FALSE
  /\ UNCHANGED out

Publishes ==
  \/ \E f \in Files : ReadSource(f) \/ readExisting(f) \/ compare(f) \/ replace(f)
  \/ preflightGeneratedMetadata \/ ownsMetadata \/ readMetadata \/ compareMetadata \/ publishGeneratedMetadata

\* A read, a write or the analysis fails.
StepFails ==
  /\ mishaps < MaxMishaps
  /\ gen.stage # "idle"
  /\ mishaps' = mishaps + 1
  /\ Fails

----------------------------------------------------------------------------
(* The user and the editor *)

\* The user writes a proxy or the metadata.
UserWrites(f) ==
  /\ mishaps < MaxMishaps
  /\ out[f] \notin Hand
  /\ mishaps' = mishaps + 1
  /\ out' = [out EXCEPT ![f] = IF @ = None THEN handwritten ELSE edited]
  /\ gen' = [gen EXCEPT !.raced = @ \/ (gen.stage = "replace" /\ f = gen.at /\ gen.existing[f] # None)]
  /\ UNCHANGED <<meta, failed>>
UserWritesMetadata ==
  /\ mishaps < MaxMishaps
  /\ meta \notin Hand
  /\ mishaps' = mishaps + 1
  /\ meta' = edited
  /\ gen' = [gen EXCEPT !.raced = @ \/ gen.stage \in {"readMetadata", "replaceMetadata"}]
  /\ UNCHANGED <<out, failed>>
=============================================================================
