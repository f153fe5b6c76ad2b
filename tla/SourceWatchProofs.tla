-------------------------- MODULE SourceWatchProofs --------------------------
(* Proofs about SourceWatch and SourcePublication, for any files, settings  *)
(* and numbers of edits, failures, hand edits and crashes.                  *)
EXTENDS SourceWatch, TLAPS

(***************************************************************************)
(* The inductive invariant                                                 *)
(***************************************************************************)

FilesOK ==
  /\ setting \in Settings
  /\ file \in [Files -> [edit : Nat, exists : BOOLEAN, signature : Nat, recent : BOOLEAN]]

\* A text on disk, and one that was read.
AnyText == Nat \cup {None} \cup Hand
AnyMetadata == [Files -> AnyText] \cup {None} \cup Hand
Generations ==
  [stage : {"idle", "read", "preflightMetadata", "preflight", "publish", "replace", "metadata", "readMetadata",
            "compareMetadata", "replaceMetadata"},
   read : [Files -> AnyText], existing : [Files -> AnyText], todo : SUBSET Files, at : Files \cup {None},
   previous : AnyMetadata, raced : BOOLEAN]

\* The generation: what is behind it is what it read, or the user's; what it is
\* about to replace was the generator's own when preflight saw it.
PublicationOK ==
  /\ gen \in Generations /\ out \in [Files -> AnyText] /\ meta \in AnyMetadata /\ gen.todo \subseteq sources
  /\ \A f \in Files \ sources : out[f] = None /\ gen.read[f] = None
  /\ gen.stage \in {"read", "preflightMetadata"} => gen.existing = NoTexts
  /\ gen.stage = "preflight" => \A f \in Files \ gen.todo : out[f] \in {gen.existing[f]} \cup Hand
  /\ gen.stage \in {"publish", "replace"} =>
       /\ \A f \in gen.todo : gen.existing[f] \notin Hand
       /\ \A f \in Files \ gen.todo : out[f] \in {gen.read[f]} \cup Hand
  /\ gen.stage = "replace" =>
       /\ gen.at \in gen.todo
       /\ out[gen.at] = gen.existing[gen.at] \/ gen.existing[gen.at] = None \/ gen.raced
  /\ gen.stage \in {"metadata", "readMetadata", "compareMetadata", "replaceMetadata"} =>
       \A f \in Files : out[f] \in {gen.read[f]} \cup Hand
  /\ gen.stage \in {"readMetadata", "replaceMetadata"} => meta \notin Hand \/ gen.raced
  /\ gen.stage = "compareMetadata" => gen.previous \notin Hand \/ gen.raced

\* The reads: one that has seen the file saw no less than entries knows, or a
\* check that ended during the scan will have it skipped.
Entry == [signature : Nat, hash : Nat \cup {None}]
ReadRecords == [state : {"none", "stat", "hash", "read"}, compareHash : BOOLEAN, entry : Entry \cup {None}, asOf : Nat]
Watched(f) ==
  /\ known[f] <= file[f].edit
  /\ \A who \in Readers :
       /\ reader[f][who].asOf <= file[f].edit
       /\ reader[f][who].state = "hash" => reader[f][who].entry \in Entry
  /\ f \notin sources => known[f] = 0 /\ reader[f]["scan"].asOf = 0 /\ reader[f]["scan"].state = "none"
  /\ reader[f]["check"].state # "none" => stage = "watching"
  /\ reader[f]["check"].state \in {"hash", "read"} => known[f] <= reader[f]["check"].asOf
  /\ stage = "watching" /\ reader[f]["scan"].state # "none" => scan.state = "scanning"
  /\ stage = "watching" /\ reader[f]["scan"].state \in {"hash", "read"} =>
       f \in scan.duringScan \/ known[f] <= reader[f]["scan"].asOf
WatchOK ==
  /\ known \in [Files -> Nat]
  /\ reader \in [Files -> [Readers -> ReadRecords]]
  /\ scan \in [state : {"none", "scanning", "settling"}, duringScan : SUBSET Files]
  /\ \A f \in Files : Watched(f)

SourceInv == FilesOK /\ PublicationOK /\ WatchOK

(***************************************************************************)
(* Publication                                                             *)
(***************************************************************************)

LEMMA FilesAndTexts ==
  ASSUME FilesOK
  PROVE  /\ sources \subseteq Files /\ polling \in BOOLEAN
         /\ \A f \in Files : Text(f) \in AnyText
         /\ NoTexts \in [Files -> AnyText] /\ NoGen \in Generations
         /\ NoGen.stage = "idle" /\ NoGen.todo = {} /\ NoGen.read = NoTexts /\ NoGen.existing = NoTexts
         /\ \A f \in Files : NoTexts[f] = None
<1>1. sources \subseteq Files /\ polling \in BOOLEAN
  BY WatchConstants DEF FilesOK, sources, polling
<1>2. \A f \in Files : Text(f) \in AnyText
  BY DEF FilesOK, Text, AnyText
<1>3. NoTexts \in [Files -> AnyText] /\ \A f \in Files : NoTexts[f] = None
  BY DEF NoTexts, AnyText
<1>4. NoGen \in Generations
  BY <1>3 DEF NoGen, Generations, AnyMetadata
<1>5. NoGen.stage = "idle" /\ NoGen.todo = {} /\ NoGen.read = NoTexts /\ NoGen.existing = NoTexts
  BY DEF NoGen
<1>6. QED
  BY <1>1, <1>2, <1>3, <1>4, <1>5

\* A generation that ends or has not read anything yet promises nothing.
LEMMA NothingRead ==
  ASSUME FilesOK, PublicationOK, setting' = setting, out' = out,
         meta' \in AnyMetadata, gen' \in Generations, gen'.stage \in {"idle", "read"}, gen'.todo \subseteq sources,
         gen'.read = NoTexts, gen'.existing = NoTexts
  PROVE  PublicationOK'
<1>1. \A f \in Files : NoTexts[f] = None
  BY FilesAndTexts
<1>2. sources' = sources
  BY DEF sources
<1>3. QED
  BY <1>1, <1>2 DEF PublicationOK

LEMMA FailsKeeps ==
  ASSUME FilesOK, PublicationOK, setting' = setting, Fails
  PROVE  PublicationOK'
BY FilesAndTexts, NothingRead DEF Fails, PublicationOK

LEMMA GenerationEndsKeeps ==
  ASSUME FilesOK, PublicationOK, setting' = setting, gen' = NoGen, out' = out, meta' \in AnyMetadata
  PROVE  PublicationOK'
BY FilesAndTexts, NothingRead

LEMMA ReadSourceKeeps ==
  ASSUME FilesOK, PublicationOK, setting' = setting, NEW f \in Files, ReadSource(f)
  PROVE  PublicationOK'
<1>1. /\ gen \in Generations /\ gen.todo \subseteq sources /\ gen.stage = "read" /\ f \in gen.todo
      /\ gen.existing = NoTexts /\ out' = out /\ meta' = meta /\ Text(f) \in AnyText /\ sources' = sources
  BY FilesAndTexts DEF PublicationOK, ReadSource, Continues, sources
<1>2. /\ gen' \in Generations /\ gen'.existing = gen.existing /\ gen'.todo = gen.todo \ {f}
      /\ gen'.read = [gen.read EXCEPT ![f] = Text(f)] /\ gen'.stage \in {"read", "preflightMetadata"}
  BY <1>1 DEF ReadSource, Continues, Generations
<1>3. \A h \in Files : h # f => gen'.read[h] = gen.read[h]
  BY <1>1, <1>2 DEF Generations
<1>4. \A h \in Files \ sources : h # f
  BY <1>1
<1>5. QED
  BY <1>1, <1>2, <1>3, <1>4 DEF PublicationOK

LEMMA PreflightMetadataKeeps ==
  ASSUME FilesOK, PublicationOK, setting' = setting, preflightGeneratedMetadata
  PROVE  PublicationOK'
<1>1. CASE Fails
  BY <1>1, FailsKeeps
<1>2. CASE Continues([gen EXCEPT !.stage = "preflight", !.todo = sources])
  <2>1. /\ gen \in Generations /\ gen.stage = "preflightMetadata" /\ gen.existing = NoTexts /\ out' = out
        /\ meta' = meta /\ sources' = sources /\ sources \subseteq Files
    BY <1>2, FilesAndTexts DEF PublicationOK, preflightGeneratedMetadata, Continues, sources
  <2>2. /\ gen' \in Generations /\ gen'.existing = gen.existing /\ gen'.todo = sources
        /\ gen'.read = gen.read /\ gen'.stage = "preflight"
    BY <1>2, <2>1 DEF Continues, Generations
  <2>3. \A f \in Files : NoTexts[f] = None
    BY FilesAndTexts
  <2>4. QED
    BY <2>1, <2>2, <2>3 DEF PublicationOK
<1>3. QED
  BY <1>1, <1>2 DEF preflightGeneratedMetadata

LEMMA ReadExistingKeeps ==
  ASSUME FilesOK, PublicationOK, setting' = setting, NEW f \in Files, readExisting(f)
  PROVE  PublicationOK'
<1> DEFINE g == [gen EXCEPT !.existing[f] = out[f], !.todo = @ \ {f}]
<1>1. /\ gen \in Generations /\ gen.todo \subseteq sources /\ gen.stage = "preflight" /\ f \in gen.todo
      /\ out \in [Files -> AnyText] /\ sources' = sources
  BY DEF PublicationOK, readExisting, sources
<1>2. /\ g \in Generations /\ g.existing = [gen.existing EXCEPT ![f] = out[f]] /\ g.todo = gen.todo \ {f}
      /\ g.read = gen.read /\ g.stage = "preflight"
  BY <1>1 DEF Generations
<1>3. \A h \in Files \ g.todo : out[h] \in {g.existing[h]} \cup Hand
  <2>1. SUFFICES ASSUME NEW h \in Files, h \notin g.todo
                 PROVE  out[h] \in {g.existing[h]} \cup Hand
    OBVIOUS
  <2> HIDE DEF g
  <2>2. CASE h = f
    BY <1>1, <1>2, <2>2 DEF Generations
  <2>3. CASE h # f
    BY <1>1, <1>2, <2>1, <2>3 DEF Generations, PublicationOK
  <2>4. QED
    BY <2>2, <2>3
<1>4. CASE Continues(g) /\ g.todo # {}
  <2> HIDE DEF g
  <2>1. gen' = g /\ out' = out /\ meta' = meta
    BY <1>4 DEF Continues
  <2>2. g.todo \subseteq sources
    BY <1>1, <1>2
  <2>3. QED
    BY <1>1, <1>2, <1>3, <2>1, <2>2 DEF PublicationOK
<1>5. CASE Fails
  BY <1>5, FailsKeeps
<1>6. CASE ~Refused(g) /\ g.todo = {}
           /\ Continues([g EXCEPT !.stage = AfterPreflight(g), !.todo = Changed(g) \cup Orphans(g)])
  <2> HIDE DEF g
  <2>1. out' = out /\ meta' = meta /\ gen' = [g EXCEPT !.stage = AfterPreflight(g), !.todo = Changed(g) \cup Orphans(g)]
    BY <1>6 DEF Continues
  <2>2. Changed(g) \cup Orphans(g) \subseteq Files /\ AfterPreflight(g) \in {"metadata", "publish"}
    BY DEF Changed, Orphans, AfterPreflight
  <2>3. /\ gen' \in Generations /\ gen'.existing = g.existing /\ gen'.read = g.read
        /\ gen'.todo = Changed(g) \cup Orphans(g) /\ gen'.stage = AfterPreflight(g)
    BY <1>2, <2>1, <2>2 DEF Generations
  <2>4. \A h \in Files : out[h] \in {g.existing[h]} \cup Hand
    BY <1>3, <1>6
  <2>5. \A h \in gen'.todo : g.existing[h] \notin Hand
    BY <1>6, <2>2, <2>3 DEF Changed, Orphans, Refused, owned
  <2>6. \A h \in Files \ gen'.todo : out[h] \in {g.read[h]} \cup Hand
    BY <2>3, <2>4 DEF Changed, Orphans, owned
  <2>7. gen'.stage = "metadata" => gen'.todo = {}
    BY <2>3 DEF AfterPreflight
  <2>8. gen'.todo \subseteq sources
    <3>1. SUFFICES ASSUME NEW h \in Files, h \notin sources
                   PROVE  h \notin Changed(g) \cup Orphans(g)
      BY <2>2, <2>3
    <3>2. g.read[h] = None /\ out[h] = None
      BY <1>2, <3>1 DEF PublicationOK
    <3>3. g.existing[h] = None
      BY <1>1, <1>2, <2>4, <3>2, TextsAreNotNone DEF Hand
    <3>4. QED
      BY <3>2, <3>3 DEF Changed, Orphans, owned
  <2>9. gen'.stage \in {"metadata", "publish"}
    BY <2>2, <2>3
  <2>10. \A h \in Files \ sources : out'[h] = None /\ gen'.read[h] = None
    BY <1>2, <2>1, <2>3 DEF PublicationOK
  <2>11. gen'.stage = "metadata" => \A h \in Files : out'[h] \in {gen'.read[h]} \cup Hand
    BY <2>1, <2>3, <2>6, <2>7
  <2>12. /\ \A h \in gen'.todo : gen'.existing[h] \notin Hand
         /\ \A h \in Files \ gen'.todo : out'[h] \in {gen'.read[h]} \cup Hand
    BY <2>1, <2>3, <2>5, <2>6
  <2>13. QED
    BY <1>1, <2>1, <2>3, <2>8, <2>9, <2>10, <2>11, <2>12 DEF PublicationOK
<1>7. QED
  BY <1>4, <1>5, <1>6 DEF readExisting

LEMMA CompareKeeps ==
  ASSUME FilesOK, PublicationOK, setting' = setting, NEW f \in Files, compare(f)
  PROVE  PublicationOK'
<1>1. CASE Fails
  BY <1>1, FailsKeeps
<1>2. CASE out[f] = gen.existing[f] /\ Continues([gen EXCEPT !.stage = "replace", !.at = f, !.raced = FALSE])
  <2>1. /\ gen \in Generations /\ gen.stage = "publish" /\ f \in gen.todo /\ out' = out /\ sources' = sources
        /\ meta' = meta
    BY <1>2 DEF PublicationOK, compare, Continues, sources
  <2>2. /\ gen' \in Generations /\ gen'.existing = gen.existing /\ gen'.todo = gen.todo
        /\ gen'.read = gen.read /\ gen'.stage = "replace" /\ gen'.at = f
    BY <1>2, <2>1 DEF Continues, Generations
  <2>3. QED
    BY <1>2, <2>1, <2>2 DEF PublicationOK
<1>3. QED
  BY <1>1, <1>2 DEF compare

LEMMA ReplaceKeeps ==
  ASSUME FilesOK, PublicationOK, setting' = setting, NEW f \in Files, replace(f)
  PROVE  PublicationOK'
<1>1. CASE Fails
  BY <1>1, FailsKeeps
<1>2. CASE /\ out' = [out EXCEPT ![f] = gen.read[f]]
           /\ gen' = [gen EXCEPT !.todo = @ \ {f}, !.at = None, !.raced = FALSE,
                                 !.stage = IF gen.todo = {f} THEN "metadata" ELSE "publish"]
           /\ meta' = meta
  <2>1. /\ gen \in Generations /\ gen.stage = "replace" /\ f = gen.at /\ f \in gen.todo /\ sources' = sources
        /\ out \in [Files -> AnyText] /\ gen.todo \subseteq sources /\ meta' = meta
    BY <1>2 DEF PublicationOK, replace, sources
  <2>2. /\ gen' \in Generations /\ gen'.existing = gen.existing /\ gen'.todo = gen.todo \ {f}
        /\ gen'.read = gen.read /\ gen'.stage = (IF gen.todo = {f} THEN "metadata" ELSE "publish")
    BY <1>2, <2>1 DEF Generations
  <2>3. out' \in [Files -> AnyText] /\ out'[f] = gen.read[f] /\ \A h \in Files : h # f => out'[h] = out[h]
    BY <1>2, <2>1 DEF Generations
  <2>4. \A h \in Files \ gen'.todo : out'[h] \in {gen.read[h]} \cup Hand
    BY <2>1, <2>2, <2>3 DEF PublicationOK
  <2>5. gen'.stage \in {"metadata", "publish"} /\ (gen'.stage = "metadata" => gen'.todo = {})
    BY <2>2
  <2>6. QED
    BY <2>1, <2>2, <2>3, <2>4, <2>5 DEF PublicationOK
<1>3. QED
  BY <1>1, <1>2 DEF replace

\* The metadata stages: what is read and compared is what is replaced, and it is
\* the generator's own unless the user wrote it between two looks at it.
LEMMA OwnsMetadataKeeps ==
  ASSUME FilesOK, PublicationOK, setting' = setting, ownsMetadata
  PROVE  PublicationOK'
<1>1. CASE Fails
  BY <1>1, FailsKeeps
<1>2. CASE meta \notin Hand /\ Continues([gen EXCEPT !.stage = "readMetadata"])
  <2>1. /\ gen \in Generations /\ gen.stage = "metadata" /\ out' = out /\ meta' = meta
        /\ sources' = sources
    BY <1>2 DEF PublicationOK, ownsMetadata, Continues, sources
  <2>2. /\ gen' \in Generations /\ gen'.existing = gen.existing /\ gen'.todo = gen.todo
        /\ gen'.read = gen.read /\ gen'.stage = "readMetadata"
    BY <1>2, <2>1 DEF Continues, Generations
  <2>3. QED
    BY <1>2, <2>1, <2>2 DEF PublicationOK, Hand
<1>3. QED
  BY <1>1, <1>2 DEF ownsMetadata

LEMMA ReadMetadataKeeps ==
  ASSUME FilesOK, PublicationOK, setting' = setting, readMetadata
  PROVE  PublicationOK'
<1>1. CASE gen' = NoGen /\ out' = out /\ meta' = meta
  BY <1>1, GenerationEndsKeeps DEF PublicationOK
<1>2. CASE Continues([gen EXCEPT !.stage = "compareMetadata", !.previous = meta])
  <2>1. /\ gen \in Generations /\ gen.stage = "readMetadata" /\ out' = out /\ meta' = meta
        /\ sources' = sources /\ meta \in AnyMetadata
    BY <1>2 DEF PublicationOK, readMetadata, Continues, sources
  <2>2. /\ gen' \in Generations /\ gen'.existing = gen.existing /\ gen'.todo = gen.todo
        /\ gen'.read = gen.read /\ gen'.stage = "compareMetadata" /\ gen'.previous = meta
        /\ gen'.raced = gen.raced
    BY <1>2, <2>1 DEF Continues, Generations
  <2>3. QED
    BY <2>1, <2>2 DEF PublicationOK, Hand
<1>3. QED
  BY <1>1, <1>2 DEF readMetadata

LEMMA CompareMetadataKeeps ==
  ASSUME FilesOK, PublicationOK, setting' = setting, compareMetadata
  PROVE  PublicationOK'
<1>1. CASE Fails
  BY <1>1, FailsKeeps
<1>2. CASE meta = gen.previous /\ Continues([gen EXCEPT !.stage = "replaceMetadata", !.previous = None])
  <2>1. /\ gen \in Generations /\ gen.stage = "compareMetadata" /\ out' = out /\ meta' = meta
        /\ sources' = sources /\ None \in AnyMetadata
    BY <1>2 DEF PublicationOK, compareMetadata, Continues, sources, AnyMetadata
  <2>2. /\ gen' \in Generations /\ gen'.existing = gen.existing /\ gen'.todo = gen.todo
        /\ gen'.read = gen.read /\ gen'.stage = "replaceMetadata" /\ gen'.raced = gen.raced
    BY <1>2, <2>1 DEF Continues, Generations
  <2>3. QED
    BY <1>2, <2>1, <2>2 DEF PublicationOK, Hand
<1>3. QED
  BY <1>1, <1>2 DEF compareMetadata

LEMMA MetadataReplacedKeeps ==
  ASSUME FilesOK, PublicationOK, setting' = setting, publishGeneratedMetadata
  PROVE  PublicationOK'
<1>1. meta' \in AnyMetadata
  BY DEF PublicationOK, Generations, publishGeneratedMetadata, AnyMetadata
<1>2. QED
  BY <1>1, GenerationEndsKeeps DEF publishGeneratedMetadata

LEMMA UserWritesKeeps ==
  ASSUME FilesOK, PublicationOK, setting' = setting, NEW f \in sources, UserWrites(f)
  PROVE  PublicationOK'
<1>1. /\ gen \in Generations /\ f \in Files /\ out \in [Files -> AnyText] /\ sources' = sources
  BY FilesAndTexts DEF PublicationOK, sources
<1>2. /\ gen' \in Generations /\ gen'.existing = gen.existing /\ gen'.todo = gen.todo /\ gen'.at = gen.at
      /\ gen'.read = gen.read /\ gen'.stage = gen.stage
      /\ gen'.raced <=> gen.raced \/ (gen.stage = "replace" /\ f = gen.at /\ gen.existing[f] # None)
      /\ gen'.previous = gen.previous
  BY <1>1 DEF UserWrites, Generations
<1>3. /\ out' \in [Files -> AnyText] /\ out'[f] \in Hand /\ \A h \in Files : h # f => out'[h] = out[h]
      /\ meta' = meta
  BY <1>1 DEF UserWrites, Hand, AnyText
<1>4. \A h \in Files : out'[h] = out[h] \/ out'[h] \in Hand
  BY <1>3
<1>5. gen.stage = "replace" => out'[gen.at] = gen.existing[gen.at] \/ gen.existing[gen.at] = None \/ gen'.raced
  <2>1. gen.stage = "replace" => gen.at \in Files
    BY <1>1 DEF Generations, PublicationOK
  <2>2. QED
    BY <1>2, <1>3, <2>1 DEF PublicationOK
<1>6. QED
  BY <1>1, <1>2, <1>3, <1>4, <1>5 DEF PublicationOK

LEMMA UserWritesMetadataKeeps ==
  ASSUME FilesOK, PublicationOK, setting' = setting, UserWritesMetadata
  PROVE  PublicationOK'
<1>1. gen \in Generations /\ out' = out /\ sources' = sources
  BY DEF PublicationOK, UserWritesMetadata, sources
<1>2. /\ gen' \in Generations /\ gen'.existing = gen.existing /\ gen'.todo = gen.todo /\ gen'.at = gen.at
      /\ gen'.read = gen.read /\ gen'.stage = gen.stage
      /\ gen'.raced <=> gen.raced \/ gen.stage \in {"readMetadata", "replaceMetadata"}
      /\ gen'.previous = gen.previous
  BY <1>1 DEF UserWritesMetadata, Generations
<1>3. meta' \in AnyMetadata
  BY DEF UserWritesMetadata, AnyMetadata, Hand
<1>4. QED
  BY <1>1, <1>2, <1>3 DEF PublicationOK

LEMMA PublishesKeeps ==
  ASSUME FilesOK, PublicationOK, setting' = setting, Publishes
  PROVE  PublicationOK'
BY ReadSourceKeeps, PreflightMetadataKeeps, ReadExistingKeeps, CompareKeeps, ReplaceKeeps, OwnsMetadataKeeps,
   ReadMetadataKeeps, CompareMetadataKeeps, MetadataReplacedKeeps DEF Publishes

(***************************************************************************)
(* The watcher                                                             *)
(***************************************************************************)

LEMMA NewReads ==
  /\ NoRead \in ReadRecords /\ NoRead.state = "none" /\ NoRead.asOf = 0
  /\ \A b \in BOOLEAN :
       /\ [NoRead EXCEPT !.state = "stat", !.compareHash = b] \in ReadRecords
       /\ [NoRead EXCEPT !.state = "stat", !.compareHash = b].state = "stat"
       /\ [NoRead EXCEPT !.state = "stat", !.compareHash = b].asOf = 0
  /\ \A f : Reads(f) \in ReadRecords /\ Reads(f).state = "stat" /\ Reads(f).asOf = 0
BY DEF NoRead, ReadRecords, Reads

LEMMA NewScans ==
  /\ NoScan.duringScan = {} /\ NoScan.state = "none"
  /\ \A x \in {"none", "scanning", "settling"} :
       /\ [NoScan EXCEPT !.state = x] \in [state : {"none", "scanning", "settling"}, duringScan : SUBSET Files]
       /\ [NoScan EXCEPT !.state = x].state = x
       /\ [NoScan EXCEPT !.state = x].duringScan = {}
BY DEF NoScan

\* What does not touch the watcher, edits of the sources included.
LEMMA WatchStays ==
  ASSUME FilesOK, WatchOK, UNCHANGED <<setting, stage, known, reader, scan>>,
         \A f \in Files : file'[f].edit \in Nat /\ file[f].edit <= file'[f].edit
  PROVE  WatchOK'
<1>1. \A f \in Files : Watched(f)'
  <2>1. SUFFICES ASSUME NEW f \in Files
                 PROVE  Watched(f)'
    OBVIOUS
  <2>2. /\ known[f] \in Nat /\ file[f].edit \in Nat /\ file'[f].edit \in Nat /\ file[f].edit <= file'[f].edit
        /\ \A who \in Readers : reader[f][who].asOf \in Nat
    BY DEF FilesOK, WatchOK, ReadRecords
  <2>3. sources' = sources
    BY DEF sources
  <2>4. Watched(f)
    BY DEF WatchOK
  <2>5. QED
    BY <2>2, <2>3, <2>4 DEF Watched
<1>2. QED
  BY <1>1 DEF WatchOK

\* One read, of one file by one reader, is replaced.
LEMMA ReaderChanges ==
  ASSUME FilesOK, WatchOK, UNCHANGED <<setting, file, stage, known, scan>>,
         NEW f \in Files, NEW who \in Readers, NEW r \in ReadRecords,
         reader' = [reader EXCEPT ![f][who] = r], who = "scan" => f \in sources,
         r.asOf <= file[f].edit, r.state = "hash" => r.entry \in Entry,
         who = "check" => stage = "watching" /\ (r.state \in {"hash", "read"} => known[f] <= r.asOf),
         who = "scan" /\ stage = "watching" =>
           scan.state = "scanning" /\ (r.state \in {"hash", "read"} => f \in scan.duringScan \/ known[f] <= r.asOf)
  PROVE  WatchOK'
<1>1. /\ reader' \in [Files -> [Readers -> ReadRecords]] /\ reader'[f][who] = r
      /\ \A h \in Files, w \in Readers : h # f \/ w # who => reader'[h][w] = reader[h][w]
  BY DEF WatchOK
<1>2. sources' = sources /\ "check" \in Readers /\ "scan" \in Readers
  BY DEF sources, Readers
<1>3. \A h \in Files : Watched(h)'
  <2>1. SUFFICES ASSUME NEW h \in Files
                 PROVE  Watched(h)'
    OBVIOUS
  <2>2. Watched(h)
    BY DEF WatchOK
  <2>3. QED
    BY <1>1, <1>2, <2>2 DEF Watched
<1>4. QED
  BY <1>1, <1>3 DEF WatchOK

LEMMA ReadStepKeeps ==
  ASSUME FilesOK, WatchOK, NEW f \in sources, NEW who \in Readers, ReadStep(f, who)
  PROVE  WatchOK'
<1> DEFINE r == reader[f][who]
           s == IF r.state = "stat" THEN StatResult(f, r) ELSE HashResult(f, r)
<1>1. /\ f \in Files /\ r \in ReadRecords /\ r.state \in {"stat", "hash"} /\ Watched(f)
      /\ (r.state = "hash" => r.entry \in Entry) /\ r.asOf <= file[f].edit
      /\ file[f].edit \in Nat /\ file[f].signature \in Nat /\ known[f] \in Nat
  BY FilesAndTexts DEF FilesOK, WatchOK, Watched, ReadStep
<1>2. /\ reader' = [reader EXCEPT ![f][who] = s] /\ UNCHANGED <<setting, file, stage, known, scan>>
  BY DEF ReadStep
<1>3. /\ s \in ReadRecords /\ s.asOf \in {r.asOf, file[f].edit} /\ (s.state = "hash" => s.entry \in Entry)
      /\ (r.state = "stat" => s.asOf = file[f].edit)
  <2>1. CASE r.state = "stat"
    <3>1. s = StatResult(f, r)
      BY <2>1
    <3> HIDE DEF r, s
    <3>2. [signature |-> file[f].signature, hash |-> None] \in Entry
      BY <1>1 DEF Entry
    <3>3. QED
      BY <1>1, <2>1, <3>1, <3>2 DEF StatResult, ReadRecords
  <2>2. CASE r.state = "hash"
    <3>1. s = HashResult(f, r)
      BY <2>2
    <3> HIDE DEF r, s
    <3>2. [r.entry EXCEPT !.hash = file[f].edit] \in Entry
      BY <1>1, <2>2 DEF Entry
    <3>3. [r EXCEPT !.state = "read", !.entry.hash = file[f].edit]
            = [r EXCEPT !.state = "read", !.entry = [r.entry EXCEPT !.hash = file[f].edit]]
      BY <1>1 DEF ReadRecords
    <3>4. QED
      BY <1>1, <2>2, <3>1, <3>2, <3>3 DEF HashResult, ReadRecords
  <2>3. QED
    BY <1>1, <2>1, <2>2
<1>4. who = "check" => stage = "watching" /\ (r.state = "hash" => known[f] <= r.asOf)
  BY <1>1 DEF Watched
<1>5. who = "scan" /\ stage = "watching" =>
        scan.state = "scanning" /\ (r.state = "hash" => f \in scan.duringScan \/ known[f] <= r.asOf)
  BY <1>1 DEF Watched
<1>6. known[f] <= file[f].edit
  BY <1>1 DEF Watched
<1> HIDE DEF r, s
<1>7. /\ who = "check" => stage = "watching" /\ known[f] <= s.asOf
      /\ who = "scan" /\ stage = "watching" =>
           scan.state = "scanning" /\ (f \in scan.duringScan \/ known[f] <= s.asOf)
      /\ s.asOf <= file[f].edit
  BY <1>1, <1>3, <1>4, <1>5, <1>6
<1>8. QED
  BY <1>1, <1>2, <1>3, <1>7, ReaderChanges

LEMMA ScanStartsResult ==
  ASSUME FilesOK, WatchOK
  PROVE  /\ ScanStarts(reader) \in [Files -> [Readers -> ReadRecords]]
         /\ \A f \in Files : ScanStarts(reader)[f]["check"] = reader[f]["check"]
         /\ \A f \in sources : ScanStarts(reader)[f]["scan"].state = "stat" /\ ScanStarts(reader)[f]["scan"].asOf = 0
         /\ \A f \in Files \ sources : ScanStarts(reader)[f]["scan"] = reader[f]["scan"]
<1>1. reader \in [Files -> [Readers -> ReadRecords]] /\ sources \subseteq Files
  BY FilesAndTexts DEF WatchOK
<1>2. \A f \in Files : [reader[f] EXCEPT !["scan"] = Reads(f)] \in [Readers -> ReadRecords]
  BY <1>1, NewReads DEF Readers
<1>3. QED
  BY <1>1, <1>2, NewReads DEF ScanStarts, Readers

\* A scan starts: every source is read anew.
LEMMA ScanBegins ==
  ASSUME FilesOK, WatchOK, UNCHANGED <<setting, file, known>>, reader' = ScanStarts(reader),
         stage' = "watching" => stage = "watching",
         \A f \in Files : reader[f]["check"].state # "none" => stage' = "watching",
         scan' \in [state : {"none", "scanning", "settling"}, duringScan : SUBSET Files],
         stage' = "watching" => scan'.state = "scanning"
  PROVE  WatchOK'
<1>1. /\ reader' \in [Files -> [Readers -> ReadRecords]]
      /\ \A f \in Files : reader'[f]["check"] = reader[f]["check"]
      /\ \A f \in sources : reader'[f]["scan"].state = "stat" /\ reader'[f]["scan"].asOf = 0
      /\ \A f \in Files \ sources : reader'[f]["scan"] = reader[f]["scan"]
  BY ScanStartsResult
<1>2. sources' = sources
  BY DEF sources
<1>3. \A f \in Files : Watched(f)'
  <2>1. SUFFICES ASSUME NEW f \in Files
                 PROVE  Watched(f)'
    OBVIOUS
  <2>2. Watched(f) /\ file[f].edit \in Nat
    BY DEF WatchOK, FilesOK
  <2>3. QED
    BY <1>1, <1>2, <2>2 DEF Watched, Readers
<1>4. QED
  BY <1>1, <1>3 DEF WatchOK

LEMMA RequestReconcileKeeps ==
  ASSUME FilesOK, WatchOK, UNCHANGED <<setting, file, stage, known>>, stage = "watching", requestReconcile
  PROVE  WatchOK'
<1>1. CASE scan.state = "none"
  BY <1>1, NewScans, ScanBegins DEF requestReconcile
<1>2. CASE scan.state # "none"
  BY <1>2, WatchStays DEF requestReconcile, FilesOK
<1>3. QED
  BY <1>1, <1>2

LEMMA ScanSettlesKeeps ==
  ASSUME FilesOK, WatchOK, ScanSettles
  PROVE  WatchOK'
<1>1. UNCHANGED <<setting, file, stage, known>> /\ scan.state = "settling"
  BY DEF ScanSettles
<1>2. CASE requested
  <2>1. \A f \in Files : reader[f]["check"].state # "none" => stage' = "watching"
    BY <1>1 DEF WatchOK, Watched
  <2>2. QED
    BY <1>1, <1>2, <2>1, NewScans, ScanBegins DEF ScanSettles
<1>3. CASE ~requested
  <2>1. reader' = reader /\ scan' \in [state : {"none", "scanning", "settling"}, duringScan : SUBSET Files]
    BY <1>3, NewScans DEF ScanSettles, NoScan
  <2>2. \A f \in Files : stage = "watching" => reader[f]["scan"].state = "none"
    BY <1>1 DEF WatchOK, Watched
  <2>3. \A f \in Files : Watched(f)'
    BY <1>1, <2>1, <2>2 DEF WatchOK, Watched, sources
  <2>4. QED
    BY <1>1, <2>1, <2>3 DEF WatchOK
<1>4. QED
  BY <1>2, <1>3

LEMMA ScanEndsKeeps ==
  ASSUME FilesOK, WatchOK, ScanEnds
  PROVE  WatchOK' /\ \A f \in Files : known'[f] >= known[f]
<1>1. /\ stage = "watching" /\ scan.state = "scanning" /\ UNCHANGED <<setting, file, stage>>
      /\ \A f \in sources : reader[f]["scan"].state = "read"
      /\ known' = [f \in Files |-> IF f \in Files \ Skipped THEN reader[f]["scan"].asOf ELSE known[f]]
  BY DEF ScanEnds, Update, Reading
<1>2. scan' \in [state : {"none", "scanning", "settling"}, duringScan : SUBSET Files]
      /\ (requested => scan'.state = "scanning")
  BY NewScans DEF ScanEnds
<1>3. /\ reader' \in [Files -> [Readers -> ReadRecords]]
      /\ \A f \in Files : reader'[f]["check"] = reader[f]["check"]
      /\ \A f \in Files : reader'[f]["scan"].state \in {"none", "stat"} /\ reader'[f]["scan"].asOf = 0
      /\ \A f \in Files : reader'[f]["scan"].state # "none" => requested /\ f \in sources
  <2> DEFINE next(f) == IF requested /\ f \in sources
                        THEN [NoRead EXCEPT !.state = "stat", !.compareHash = entries'[f] # None /\ entries'[f].hash # None]
                        ELSE NoRead
  <2>1. reader' = [f \in Files |-> [reader[f] EXCEPT !["scan"] = next(f)]]
    BY DEF ScanEnds
  <2>2. \A f \in Files : /\ next(f) \in ReadRecords /\ next(f).state \in {"none", "stat"} /\ next(f).asOf = 0
                         /\ next(f).state # "none" => requested /\ f \in sources
    BY NewReads
  <2> HIDE DEF next
  <2>3. reader \in [Files -> [Readers -> ReadRecords]]
    BY DEF WatchOK
  <2>4. QED
    BY <2>1, <2>2, <2>3 DEF Readers
<1>4. \A f \in Files : /\ known[f] \in Nat /\ file[f].edit \in Nat /\ Watched(f)
                       /\ reader[f]["scan"].asOf \in Nat
  BY DEF WatchOK, FilesOK, ReadRecords, Readers
<1>5. \A f \in Files : known'[f] \in Nat /\ known[f] <= known'[f] /\ known'[f] <= file[f].edit
                       /\ (f \in Skipped => known'[f] = known[f]) /\ (f \notin sources => known'[f] = 0)
  <2>1. SUFFICES ASSUME NEW f \in Files
                 PROVE  known'[f] \in Nat /\ known[f] <= known'[f] /\ known'[f] <= file[f].edit
                        /\ (f \in Skipped => known'[f] = known[f]) /\ (f \notin sources => known'[f] = 0)
    OBVIOUS
  <2>2. CASE f \in Skipped
    BY <1>1, <1>4, <2>2 DEF Watched
  <2>3. CASE f \notin Skipped
    <3>1. known'[f] = reader[f]["scan"].asOf
      BY <1>1, <2>3
    <3>2. f \notin scan.duringScan
      BY <2>3 DEF Skipped
    <3>3. f \in sources => known[f] <= reader[f]["scan"].asOf
      BY <1>1, <1>4, <3>2 DEF Watched
    <3>4. f \notin sources => known[f] = 0 /\ reader[f]["scan"].asOf = 0
      BY <1>4 DEF Watched
    <3>5. reader[f]["scan"].asOf <= file[f].edit
      BY <1>4 DEF Watched, Readers
    <3>6. QED
      BY <1>4, <2>3, <3>1, <3>3, <3>4, <3>5
  <2>4. QED
    BY <2>2, <2>3
<1>6. \A f \in Files : Watched(f)'
  <2>1. SUFFICES ASSUME NEW f \in Files
                 PROVE  Watched(f)'
    OBVIOUS
  <2>2. reader[f]["check"].state # "none" => f \in Skipped
    BY DEF Skipped, Pending
  <2>3. sources' = sources
    BY <1>1 DEF sources
  <2>4. \A who \in Readers : /\ reader'[f][who].asOf <= file[f].edit
                             /\ reader'[f][who].state = "hash" => reader'[f][who].entry \in Entry
    BY <1>3, <1>4 DEF Watched, Readers
  <2>5. reader'[f]["check"].state \in {"hash", "read"} => known'[f] <= reader'[f]["check"].asOf
    BY <1>3, <1>4, <1>5, <2>2 DEF Watched
  <2>6. QED
    BY <1>1, <1>2, <1>3, <1>4, <1>5, <2>3, <2>4, <2>5 DEF Watched
<1>7. known' \in [Files -> Nat]
  BY <1>1, <1>5
<1>8. QED
  BY <1>2, <1>3, <1>4, <1>5, <1>6, <1>7 DEF WatchOK

LEMMA NotifyFileKeeps ==
  ASSUME FilesOK, WatchOK, NEW f \in sources, NotifyFile(f)
  PROVE  WatchOK'
<1>1. f \in Files /\ stage = "watching" /\ UNCHANGED <<setting, file, stage, known, scan>> /\ file[f].edit \in Nat
  BY FilesAndTexts DEF NotifyFile, FilesOK
<1>2. CASE reader' = reader
  BY <1>1, <1>2, WatchStays DEF FilesOK
<1>3. CASE reader' = [reader EXCEPT ![f]["check"] = Reads(f)]
  <2>1. "check" \in Readers
    BY DEF Readers
  <2>3. Reads(f).asOf = 0
    BY <1>1, NewReads
  <2>4. Reads(f).asOf <= file[f].edit
    BY <1>1, <2>3
  <2>2. QED
    BY <1>1, <1>3, <2>1, <2>4, NewReads, ReaderChanges
<1>4. QED
  BY <1>2, <1>3 DEF NotifyFile

LEMMA CheckEndsKeeps ==
  ASSUME FilesOK, WatchOK, NEW f \in sources, CheckEnds(f)
  PROVE  WatchOK' /\ \A h \in Files : known'[h] >= known[h]
<1>1. /\ f \in Files /\ stage = "watching" /\ UNCHANGED <<setting, file, stage>> /\ sources' = sources
      /\ reader[f]["check"].state = "read"
      /\ known' = [h \in Files |-> IF h \in {f} THEN reader[h]["check"].asOf ELSE known[h]]
  BY FilesAndTexts DEF CheckEnds, Update, Reading, sources
<1>2. /\ reader' \in [Files -> [Readers -> ReadRecords]]
      /\ \A h \in Files : reader'[h]["scan"] = reader[h]["scan"]
      /\ \A h \in Files \ {f} : reader'[h]["check"] = reader[h]["check"]
      /\ reader'[f]["check"].state \in {"none", "stat"} /\ reader'[f]["check"].asOf = 0
  <2> DEFINE next == IF f \notin dirty THEN NoRead
                     ELSE [NoRead EXCEPT !.state = "stat", !.compareHash = entries'[f] # None /\ entries'[f].hash # None]
  <2>1. reader' = [reader EXCEPT ![f]["check"] = next]
    BY DEF CheckEnds
  <2>2. next \in ReadRecords /\ next.state \in {"none", "stat"} /\ next.asOf = 0
    BY NewReads
  <2> HIDE DEF next
  <2>3. reader \in [Files -> [Readers -> ReadRecords]]
    BY DEF WatchOK
  <2>4. QED
    BY <1>1, <2>1, <2>2, <2>3 DEF Readers
<1>3. /\ scan' \in [state : {"none", "scanning", "settling"}, duringScan : SUBSET Files]
      /\ scan'.state = scan.state /\ scan.duringScan \subseteq scan'.duringScan
      /\ (scan.state = "scanning" => f \in scan'.duringScan)
  BY <1>1 DEF CheckEnds, WatchOK
<1>4. \A h \in Files : /\ known[h] \in Nat /\ file[h].edit \in Nat /\ Watched(h)
                       /\ reader[h]["check"].asOf \in Nat
  BY DEF WatchOK, FilesOK, ReadRecords, Readers
<1>5. /\ known'[f] = reader[f]["check"].asOf /\ known[f] <= known'[f] /\ known'[f] <= file[f].edit
      /\ \A h \in Files \ {f} : known'[h] = known[h]
  BY <1>1, <1>4 DEF Watched, Readers
<1>6. \A h \in Files : Watched(h)'
  <2>1. SUFFICES ASSUME NEW h \in Files
                 PROVE  Watched(h)'
    OBVIOUS
  <2>2. \A who \in Readers : /\ reader'[h][who].asOf <= file[h].edit
                             /\ reader'[h][who].state = "hash" => reader'[h][who].entry \in Entry
    BY <1>2, <1>4 DEF Watched, Readers
  <2>3. CASE h = f
    <3>1. reader[f]["scan"].state # "none" => scan.state = "scanning"
      BY <1>1, <1>4 DEF Watched
    <3>2. QED
      BY <1>1, <1>2, <1>3, <1>5, <2>2, <2>3, <3>1 DEF Watched
  <2>4. CASE h # f
    <3>1. Watched(h) /\ known'[h] = known[h] /\ h \in Files \ {f}
      BY <1>4, <1>5, <2>4
    <3>2. QED
      BY <1>1, <1>2, <1>3, <2>2, <3>1 DEF Watched
  <2>5. QED
    BY <2>3, <2>4
<1>7. known' \in [Files -> Nat]
  BY <1>1, <1>4, <1>5
<1>8. \A h \in Files : known'[h] >= known[h]
  BY <1>4, <1>5, <1>7
<1>9. QED
  BY <1>2, <1>3, <1>6, <1>7, <1>8 DEF WatchOK

LEMMA FirstGenerationEndsKeeps ==
  ASSUME FilesOK, WatchOK, FirstGenerationEnds
  PROVE  WatchOK'
<1>1. /\ stage = "generate" /\ stage' \in {"exited", "checkpoint"} /\ UNCHANGED <<setting, file, known, scan>>
      /\ scan' \in [state : {"none", "scanning", "settling"}, duringScan : SUBSET Files]
  BY DEF FirstGenerationEnds, WatchOK
<1>2. \A f \in Files : reader[f]["check"].state = "none"
  BY <1>1 DEF WatchOK, Watched
<1>3. CASE reader' = ScanStarts(reader)
  BY <1>1, <1>2, <1>3, ScanBegins
<1>4. CASE reader' = reader
  <2>1. \A f \in Files : Watched(f)'
    BY <1>1, <1>2, <1>4 DEF WatchOK, Watched, sources
  <2>2. QED
    BY <1>1, <1>4, <2>1 DEF WatchOK
<1>5. QED
  BY <1>3, <1>4 DEF FirstGenerationEnds

LEMMA NoReaders ==
  /\ [f \in Files |-> [who \in Readers |-> NoRead]] \in [Files -> [Readers -> ReadRecords]]
  /\ \A f \in Files, who \in Readers : [h \in Files |-> [w \in Readers |-> NoRead]][f][who] = NoRead
BY NewReads

LEMMA CheckpointEndsKeeps ==
  ASSUME FilesOK, WatchOK, CheckpointEnds
  PROVE  WatchOK'
<1>1. /\ UNCHANGED <<setting, file, scan>> /\ sources' = sources
      /\ scan' \in [state : {"none", "scanning", "settling"}, duringScan : SUBSET Files]
      /\ known' = [f \in Files |-> reader[f]["scan"].asOf]
      /\ reader' = [f \in Files |-> [who \in Readers |-> NoRead]]
  BY DEF CheckpointEnds, WatchOK, sources
<1>2. \A f \in Files : /\ known'[f] \in Nat /\ file[f].edit \in Nat /\ known'[f] <= file[f].edit
                       /\ (f \notin sources => known'[f] = 0)
  BY <1>1 DEF WatchOK, FilesOK, ReadRecords, Readers, Watched
<1>3. \A f \in Files, who \in Readers :
        /\ reader'[f][who] \in ReadRecords /\ reader'[f][who].state = "none" /\ reader'[f][who].asOf = 0
  BY <1>1, NewReads, NoReaders
<1>4. \A f \in Files : Watched(f)'
  BY <1>1, <1>2, <1>3 DEF Watched, Readers
<1>5. reader' \in [Files -> [Readers -> ReadRecords]]
  BY <1>1, NoReaders
<1>6. known' \in [Files -> Nat]
  BY <1>1, <1>2
<1>7. QED
  BY <1>1, <1>4, <1>5, <1>6 DEF WatchOK

\* The state of the watcher in a process that has just been started.
LEMMA BootedWatcher ==
  ASSUME \A f \in Files : file[f].edit \in Nat,
         known = [f \in Files |-> 0], reader = [f \in Files |-> [who \in Readers |-> NoRead]],
         scan = NoScan
  PROVE  WatchOK
<1>1. \A f \in Files, who \in Readers :
        /\ reader[f][who] \in ReadRecords /\ reader[f][who].state = "none" /\ reader[f][who].asOf = 0
  BY NewReads, NoReaders
<1>2. \A f \in Files : Watched(f)
  BY <1>1 DEF Watched, Readers
<1>3. reader \in [Files -> [Readers -> ReadRecords]]
  BY NoReaders
<1>4. scan \in [state : {"none", "scanning", "settling"}, duringScan : SUBSET Files]
  BY DEF NoScan
<1>5. QED
  BY <1>2, <1>3, <1>4 DEF WatchOK

LEMMA CrashKeeps ==
  ASSUME FilesOK, WatchOK, PublicationOK, Crash
  PROVE  WatchOK' /\ PublicationOK'
<1>1. /\ UNCHANGED <<setting, file, out, meta>> /\ gen' = NoGen
      /\ known' = [f \in Files |-> 0] /\ reader' = [f \in Files |-> [who \in Readers |-> NoRead]] /\ scan' = NoScan
  BY DEF Crash, Booted
<1>2. \A f \in Files, who \in Readers :
        /\ reader'[f][who] \in ReadRecords /\ reader'[f][who].state = "none" /\ reader'[f][who].asOf = 0
  BY <1>1, NewReads, NoReaders
<1>3. \A f \in Files : file[f].edit \in Nat
  BY DEF FilesOK
<1>4. \A f \in Files : Watched(f)'
  BY <1>1, <1>2, <1>3 DEF Watched, Readers
<1>5. reader' \in [Files -> [Readers -> ReadRecords]]
  BY <1>1, NoReaders
<1>6. scan' \in [state : {"none", "scanning", "settling"}, duringScan : SUBSET Files]
  BY <1>1 DEF NoScan
<1>7. WatchOK'
  BY <1>1, <1>4, <1>5, <1>6 DEF WatchOK
<1>8. QED
  BY <1>1, <1>7, GenerationEndsKeeps DEF PublicationOK

(***************************************************************************)
(* The theorems                                                            *)
(***************************************************************************)

LEMMA PublicationStays ==
  ASSUME PublicationOK, UNCHANGED <<setting, publicationVars>>
  PROVE  PublicationOK'
BY DEF PublicationOK, publicationVars, sources

\* The sources change under the process: their number of edits only grows.
LEMMA EditKeeps ==
  ASSUME SourceInv, NEW f \in sources, NEW new \in [edit : Nat, exists : BOOLEAN, signature : Nat, recent : BOOLEAN],
         file' = [file EXCEPT ![f] = new], file[f].edit <= new.edit,
         UNCHANGED <<setting, publicationVars, stage, known, reader, scan>>
  PROVE  SourceInv'
<1>1. FilesOK /\ WatchOK /\ PublicationOK /\ f \in Files
  BY FilesAndTexts DEF SourceInv
<1>2. /\ file' \in [Files -> [edit : Nat, exists : BOOLEAN, signature : Nat, recent : BOOLEAN]]
      /\ \A h \in Files : file'[h] = IF h = f THEN new ELSE file[h]
  BY <1>1 DEF FilesOK
<1>3. \A h \in Files : file'[h].edit \in Nat /\ file[h].edit <= file'[h].edit
  BY <1>1, <1>2 DEF FilesOK
<1>4. WatchOK'
  BY <1>1, <1>3, WatchStays
<1>5. PublicationOK'
  BY <1>1, PublicationStays
<1>6. QED
  BY <1>1, <1>2, <1>4, <1>5 DEF SourceInv, FilesOK

LEMMA SourcesChangeKeeps ==
  ASSUME SourceInv, NEW f \in sources, Save(f) \/ CoarseSave(f) \/ Delete(f) \/ MoveDirectory(f) \/ Ages(f)
  PROVE  SourceInv'
<1> DEFINE Record == [edit : Nat, exists : BOOLEAN, signature : Nat, recent : BOOLEAN]
<1>1. f \in Files /\ file[f] \in Record
  BY FilesAndTexts DEF SourceInv, FilesOK
<1>2. file[f].edit \in Nat /\ file[f].edit + 1 \in Nat /\ file[f].edit <= file[f].edit + 1
  BY <1>1
<1>3. UNCHANGED <<setting, publicationVars, stage, known, reader, scan>>
  BY DEF Save, CoarseSave, Delete, MoveDirectory, Ages, Edit, watchVars
<1>4. PICK new : file' = [file EXCEPT ![f] = new] /\ new \in Record /\ file[f].edit <= new.edit
  <2>1. CASE Save(f)
    <3> DEFINE new == [edit |-> file[f].edit + 1, exists |-> TRUE, signature |-> file[f].edit + 1, recent |-> TRUE]
    <3>1. file' = [file EXCEPT ![f] = new]
      BY <2>1 DEF Save, Edit
    <3>2. new \in Record /\ file[f].edit <= new.edit
      BY <1>1, <1>2
    <3> HIDE DEF new
    <3>3. QED
      BY <3>1, <3>2
  <2>2. CASE CoarseSave(f)
    <3> DEFINE new == [file[f] EXCEPT !.edit = @ + 1]
    <3>1. file' = [file EXCEPT ![f] = new]
      BY <2>2 DEF CoarseSave, Edit
    <3>2. new \in Record /\ file[f].edit <= new.edit
      <4>1. new.edit = file[f].edit + 1
        BY <1>1
      <4>2. new \in Record
        BY <1>1, <1>2
      <4>3. QED
        BY <1>2, <4>1, <4>2
    <3> HIDE DEF new
    <3>3. QED
      BY <3>1, <3>2
  <2>3. CASE Delete(f)
    <3> DEFINE new == [file[f] EXCEPT !.edit = @ + 1, !.exists = FALSE]
    <3>1. file' = [file EXCEPT ![f] = new]
      BY <2>3 DEF Delete, Edit
    <3>2. new \in Record /\ file[f].edit <= new.edit
      <4>1. new.edit = file[f].edit + 1
        BY <1>1
      <4>2. new \in Record
        BY <1>1, <1>2
      <4>3. QED
        BY <1>2, <4>1, <4>2
    <3> HIDE DEF new
    <3>3. QED
      BY <3>1, <3>2
  <2>4. CASE MoveDirectory(f)
    <3> DEFINE new == [file[f] EXCEPT !.edit = @ + 1, !.exists = ~@, !.signature = file[f].edit + 1]
    <3>1. file' = [file EXCEPT ![f] = new]
      BY <2>4 DEF MoveDirectory, Edit
    <3>2. new \in Record /\ file[f].edit <= new.edit
      <4>1. new.edit = file[f].edit + 1
        BY <1>1
      <4>2. new \in Record
        BY <1>1, <1>2
      <4>3. QED
        BY <1>2, <4>1, <4>2
    <3> HIDE DEF new
    <3>3. QED
      BY <3>1, <3>2
  <2>5. CASE Ages(f)
    <3> DEFINE new == [file[f] EXCEPT !.recent = FALSE]
    <3>1. file' = [file EXCEPT ![f] = new]
      BY <2>5 DEF Ages
    <3>2. new \in Record /\ file[f].edit <= new.edit
      <4>1. new.edit = file[f].edit
        BY <1>1
      <4>2. new \in Record
        BY <1>1
      <4>3. QED
        BY <1>2, <4>1, <4>2
    <3> HIDE DEF new
    <3>3. QED
      BY <3>1, <3>2
  <2>6. QED
    BY <2>1, <2>2, <2>3, <2>4, <2>5
<1>5. QED
  BY <1>3, <1>4, EditKeeps

\* What the watcher does leaves the files and the output alone.
LEMMA WatcherKeeps ==
  ASSUME SourceInv, UNCHANGED <<setting, file, publicationVars>>, WatchOK'
  PROVE  SourceInv'
BY PublicationStays DEF SourceInv, FilesOK

\* What the generation does leaves the files and the watcher alone.
LEMMA GenerationKeeps ==
  ASSUME SourceInv, UNCHANGED <<setting, file, stage, watchVars>>, PublicationOK'
  PROVE  SourceInv'
BY WatchStays DEF SourceInv, FilesOK, watchVars

LEMMA InitEstablishes == Init => SourceInv
<1>1. SUFFICES ASSUME Init
               PROVE  SourceInv
  OBVIOUS
<1>2. FilesOK
  BY <1>1 DEF Init, FilesOK
<1>3. PublicationOK
  <2>1. gen = NoGen /\ out = NoTexts /\ meta \in AnyMetadata
    BY <1>1 DEF Init, AnyMetadata
  <2>2. QED
    BY <1>2, <2>1, FilesAndTexts DEF PublicationOK
<1>4. WatchOK
  BY <1>1, <1>2, BootedWatcher DEF Init, FilesOK
<1>5. QED
  BY <1>2, <1>3, <1>4 DEF SourceInv

LEMMA NextKeeps == SourceInv /\ [Next]_vars => SourceInv'
<1>1. SUFFICES ASSUME SourceInv, [Next]_vars
               PROVE  SourceInv'
  OBVIOUS
<1>2. FilesOK /\ PublicationOK /\ WatchOK
  BY <1>1 DEF SourceInv
<1>3. ASSUME NEW f \in sources, Save(f) \/ CoarseSave(f) \/ Delete(f) \/ MoveDirectory(f) \/ Ages(f)
      PROVE  SourceInv'
  BY <1>1, <1>3, SourcesChangeKeeps
<1>4. ASSUME NEW f \in sources, Repeated(f)
      PROVE  SourceInv'
  <2>1. UNCHANGED <<setting, file, publicationVars, stage, known, reader, scan>>
    BY <1>4 DEF Repeated
  <2>2. WatchOK'
    BY <1>2, <2>1, WatchStays DEF FilesOK
  <2>3. QED
    BY <1>1, <2>1, <2>2, WatcherKeeps
<1>5. ASSUME NEW f \in sources, NotifyFile(f) \/ CheckEnds(f) \/ \E who \in Readers : ReadStep(f, who)
      PROVE  SourceInv'
  <2>1. UNCHANGED <<setting, file, publicationVars>>
    BY <1>5 DEF NotifyFile, CheckEnds, ReadStep
  <2>2. WatchOK'
    BY <1>2, <1>5, NotifyFileKeeps, CheckEndsKeeps, ReadStepKeeps
  <2>3. QED
    BY <1>1, <2>1, <2>2, WatcherKeeps
<1>6. ASSUME Scans
      PROVE  SourceInv'
  <2>1. UNCHANGED <<setting, file, publicationVars>>
    BY <1>6 DEF Scans, PollFires, ScanEnds, ScanSettles
  <2>2. WatchOK'
    <3>1. CASE PollFires
      BY <1>2, <3>1, RequestReconcileKeeps DEF PollFires
    <3>2. QED
      BY <1>2, <1>6, <3>1, ScanEndsKeeps, ScanSettlesKeeps DEF Scans
  <2>3. QED
    BY <1>1, <2>1, <2>2, WatcherKeeps
<1>7. ASSUME NotifyDirectory \/ DirectoryChecked \/ DirectoryDone
      PROVE  SourceInv'
  <2>1. UNCHANGED <<setting, file, publicationVars, stage, known>>
    BY <1>7 DEF NotifyDirectory, DirectoryChecked, DirectoryDone
  <2>2. WatchOK'
    <3>1. CASE stage = "watching" /\ requestReconcile
      BY <1>2, <2>1, <3>1, RequestReconcileKeeps
    <3>2. CASE UNCHANGED <<reader, scan>>
      BY <1>2, <2>1, <3>2, WatchStays DEF FilesOK
    <3>3. QED
      BY <1>7, <3>1, <3>2 DEF NotifyDirectory, DirectoryChecked, DirectoryDone
  <2>3. QED
    BY <1>1, <2>1, <2>2, WatcherKeeps
<1>8. ASSUME DebounceFires \/ FirstGenerationEnds \/ CheckpointEnds
      PROVE  SourceInv'
  <2>1. UNCHANGED <<setting, file, publicationVars>>
    BY <1>8 DEF DebounceFires, FirstGenerationEnds, CheckpointEnds
  <2>2. CASE DebounceFires
    <3>1. WatchOK'
      BY <1>2, <2>2, WatchStays DEF FilesOK, DebounceFires
    <3>2. QED
      BY <1>1, <2>1, <3>1, WatcherKeeps
  <2>3. CASE FirstGenerationEnds \/ CheckpointEnds
    <3>1. WatchOK'
      BY <1>2, <2>3, FirstGenerationEndsKeeps, CheckpointEndsKeeps
    <3>2. QED
      BY <1>1, <2>1, <3>1, WatcherKeeps
  <2>4. QED
    BY <1>8, <2>2, <2>3
<1>9. ASSUME GenerationStarts
      PROVE  SourceInv'
  <2>1. /\ gen' = [NoGen EXCEPT !.stage = "read", !.todo = sources] /\ out' = out /\ meta' = meta
        /\ UNCHANGED <<setting, file, stage, known, reader, scan>>
    BY <1>9 DEF GenerationStarts, StartsGeneration
  <2>2. /\ gen' \in Generations /\ gen'.stage = "read" /\ gen'.todo = sources
        /\ gen'.read = NoTexts /\ gen'.existing = NoTexts
    <3>1. NoGen \in Generations /\ NoGen.read = NoTexts /\ NoGen.existing = NoTexts /\ sources \subseteq Files
      BY <1>2, FilesAndTexts
    <3>2. QED
      BY <2>1, <3>1 DEF Generations
  <2>3. PublicationOK'
    BY <1>2, <2>1, <2>2, NothingRead DEF PublicationOK
  <2>4. WatchOK'
    BY <1>2, <2>1, WatchStays DEF FilesOK
  <2>5. QED
    BY <1>2, <2>1, <2>3, <2>4 DEF SourceInv, FilesOK
<1>10. ASSUME Generates \/ GenerationFails \/ UserWritesOutput
       PROVE  SourceInv'
  <2>1. UNCHANGED <<setting, file, stage, watchVars>>
    BY <1>10 DEF Generates, GenerationFails, UserWritesOutput
  <2>2. CASE Generates
    BY <1>1, <1>2, <2>1, <2>2, PublishesKeeps, GenerationKeeps DEF Generates
  <2>3. CASE GenerationFails
    BY <1>1, <1>2, <2>1, <2>3, FailsKeeps, GenerationKeeps DEF GenerationFails, StepFails
  <2>4. CASE UserWritesOutput
    BY <1>1, <1>2, <2>1, <2>4, UserWritesKeeps, UserWritesMetadataKeeps, GenerationKeeps DEF UserWritesOutput
  <2>5. QED
    BY <1>10, <2>2, <2>3, <2>4
<1>11. ASSUME Crash
       PROVE  SourceInv'
  BY <1>2, <1>11, CrashKeeps DEF SourceInv, FilesOK, Crash
<1>12. CASE UNCHANGED vars
  <2>1. UNCHANGED <<setting, file, publicationVars, stage, known, reader, scan>>
    BY <1>12 DEF vars, watchVars
  <2>2. WatchOK'
    BY <1>2, <2>1, WatchStays DEF FilesOK
  <2>3. QED
    BY <1>1, <2>1, <2>2, WatcherKeeps
<1>13. QED
  BY <1>1, <1>3, <1>4, <1>5, <1>6, <1>7, <1>8, <1>9, <1>10, <1>11, <1>12 DEF Next, Process

\* The inductive invariant of the watcher and of the generation it starts: what
\* is published is what was read or the user's, and what was read of a file is
\* never older than what the checkpoint knows, unless the scan will skip it.
THEOREM SourceInvariant == Spec => []SourceInv
<1>1. Init => SourceInv
  BY InitEstablishes
<1>2. SourceInv /\ [Next]_vars => SourceInv'
  BY NextKeeps
<1>3. QED
  BY <1>1, <1>2, PTL DEF Spec

\* What entries knows of a file never goes back (SourceWatchMonitor reconcile and
\* checkPath).
THEOREM NeverRolledBack == Spec => NoRollback
<1>1. SourceInv /\ [Next]_vars =>
        [stage = "watching" /\ stage' = "watching" => \A f \in Files : known'[f] >= known[f]]_vars
  <2>1. SUFFICES ASSUME SourceInv, Next, stage = "watching", stage' = "watching"
                 PROVE  \A f \in Files : known'[f] >= known[f]
    OBVIOUS
  <2>2. FilesOK /\ WatchOK /\ \A f \in Files : known[f] \in Nat
    BY <2>1 DEF SourceInv, WatchOK
  <2>3. ASSUME ScanEnds \/ \E f \in sources : CheckEnds(f)
        PROVE  \A f \in Files : known'[f] >= known[f]
    BY <2>2, <2>3, ScanEndsKeeps, CheckEndsKeeps
  <2>4. ASSUME known' = known
        PROVE  \A f \in Files : known'[f] >= known[f]
    BY <2>2, <2>4
  <2>5. ASSUME CheckpointEnds \/ Crash
        PROVE  FALSE
    BY <2>1, <2>5 DEF CheckpointEnds, Crash, Booted
  <2>6. ASSUME NEW f \in sources,
               \/ Save(f) \/ CoarseSave(f) \/ Delete(f) \/ MoveDirectory(f) \/ Repeated(f) \/ Ages(f)
               \/ NotifyFile(f) \/ \E who \in Readers : ReadStep(f, who)
        PROVE  known' = known
    BY <2>6 DEF Save, CoarseSave, Delete, MoveDirectory, Edit, Repeated, Ages, NotifyFile, ReadStep, watchVars
  <2>7. ASSUME \/ PollFires \/ ScanSettles \/ NotifyDirectory \/ DirectoryChecked \/ DirectoryDone
               \/ DebounceFires \/ FirstGenerationEnds \/ GenerationStarts
               \/ Generates \/ GenerationFails \/ UserWritesOutput
        PROVE  known' = known
    BY <2>7 DEF PollFires, ScanSettles, NotifyDirectory, DirectoryChecked, DirectoryDone, DebounceFires,
       FirstGenerationEnds, GenerationStarts, Generates, GenerationFails, UserWritesOutput, watchVars
  <2>8. QED
    BY <2>1, <2>3, <2>4, <2>5, <2>6, <2>7 DEF Next, Scans, Process
<1>2. QED
  BY <1>1, SourceInvariant, PTL DEF Spec, NoRollback

\* A replacement is of a text that was the generator's own when preflight saw it
\* and still there when it was compared, unless the user wrote over it since.
LEMMA ReplacesItsOwn ==
  ASSUME SourceInv, NEW f \in Files, replace(f)
  PROVE  /\ \A h \in Files : out[h] \in Hand => out'[h] = out[h] \/ gen.raced
         /\ meta' = meta
<1>1. CASE Fails
  BY <1>1 DEF Fails
<1>2. CASE /\ (gen.existing[f] = None) <=> (out[f] = None)
           /\ out' = [out EXCEPT ![f] = gen.read[f]] /\ meta' = meta
  <2>1. gen.stage = "replace" /\ f = gen.at /\ out \in [Files -> AnyText]
    BY DEF replace, SourceInv, PublicationOK
  <2>2. /\ f \in gen.todo /\ \A h \in gen.todo : gen.existing[h] \notin Hand
        /\ out[f] = gen.existing[f] \/ gen.existing[f] = None \/ gen.raced
    BY <2>1 DEF SourceInv, PublicationOK
  <2>3. out[f] \in Hand => gen.raced
    BY <1>2, <2>2, TextsAreNotNone DEF Hand
  <2>4. \A h \in Files : h # f => out'[h] = out[h]
    BY <1>2, <2>1
  <2>5. QED
    BY <1>2, <2>3, <2>4
<1>3. QED
  BY <1>1, <1>2 DEF replace

\* The steps that leave the output alone.
LEMMA OthersLeaveOutput ==
  ASSUME Next
  PROVE  \/ UNCHANGED <<out, meta>>
         \/ \E f \in Files : replace(f)
         \/ publishGeneratedMetadata
         \/ UserWritesMetadata
         \/ \E f \in sources : UserWrites(f)
<1>1. ASSUME NEW f \in sources,
             \/ Save(f) \/ CoarseSave(f) \/ Delete(f) \/ MoveDirectory(f) \/ Repeated(f) \/ Ages(f)
             \/ NotifyFile(f) \/ CheckEnds(f) \/ \E who \in Readers : ReadStep(f, who)
      PROVE  UNCHANGED <<out, meta>>
  BY <1>1 DEF Save, CoarseSave, Delete, MoveDirectory, Edit, Repeated, Ages, NotifyFile, CheckEnds, ReadStep,
     publicationVars
<1>2. ASSUME \/ Scans \/ NotifyDirectory \/ DirectoryChecked \/ DirectoryDone
             \/ DebounceFires \/ Process \/ GenerationFails \/ Crash
      PROVE  UNCHANGED <<out, meta>>
  BY <1>2 DEF Scans, PollFires, ScanEnds, ScanSettles, NotifyDirectory, DirectoryChecked, DirectoryDone,
     DebounceFires, Process, FirstGenerationEnds, CheckpointEnds, GenerationStarts, GenerationFails, StepFails,
     Fails, Crash, publicationVars
<1>3. ASSUME NEW f \in Files, ReadSource(f) \/ readExisting(f) \/ compare(f)
      PROVE  UNCHANGED <<out, meta>>
  BY <1>3 DEF ReadSource, readExisting, compare, Continues, Fails
<1>4. ASSUME preflightGeneratedMetadata \/ ownsMetadata \/ readMetadata \/ compareMetadata
      PROVE  UNCHANGED <<out, meta>>
  BY <1>4 DEF preflightGeneratedMetadata, ownsMetadata, readMetadata, compareMetadata, Continues, Fails
<1>5. CASE Generates
  BY <1>3, <1>4, <1>5 DEF Generates, Publishes
<1>6. CASE UserWritesOutput
  BY <1>6 DEF UserWritesOutput
<1>7. QED
  BY <1>1, <1>2, <1>5, <1>6 DEF Next

\* A user's text is never replaced or deleted, unless the user wrote it over the
\* generator's own file after its text was last compared, or over the metadata
\* module between the reads for its owner and for its text (preflightSourceFiles,
\* publishFile and publishGeneratedMetadata).
THEOREM UserTextAlwaysKept == Spec => UserTextKept
<1>1. SourceInv /\ [Next]_vars =>
        [/\ \A f \in Files : out[f] \in Hand => out'[f] = out[f] \/ gen.raced
         /\ meta \in Hand => meta' = meta \/ gen.raced]_vars
  <2>1. SUFFICES ASSUME SourceInv, Next
                 PROVE  /\ \A f \in Files : out[f] \in Hand => out'[f] = out[f] \/ gen.raced
                        /\ meta \in Hand => meta' = meta \/ gen.raced
    OBVIOUS
  <2>2. CASE UNCHANGED <<out, meta>>
    BY <2>2
  <2>3. ASSUME NEW f \in Files, replace(f)
        PROVE  /\ \A h \in Files : out[h] \in Hand => out'[h] = out[h] \/ gen.raced
               /\ meta' = meta
    BY <2>1, <2>3, ReplacesItsOwn
  <2>4. CASE publishGeneratedMetadata
    BY <2>1, <2>4 DEF publishGeneratedMetadata, SourceInv, PublicationOK
  <2>5. CASE UserWritesMetadata
    BY <2>5 DEF UserWritesMetadata
  <2>6. ASSUME NEW f \in sources, UserWrites(f)
        PROVE  /\ \A h \in Files : out[h] \in Hand => out'[h] = out[h]
               /\ meta' = meta
    <3>1. out \in [Files -> AnyText] /\ out[f] \notin Hand /\ meta' = meta
      BY <2>1, <2>6 DEF SourceInv, PublicationOK, UserWrites
    <3>2. \A h \in Files : h # f => out'[h] = out[h]
      BY <2>6, <3>1 DEF UserWrites
    <3>3. QED
      BY <3>1, <3>2
  <2>7. QED
    BY <2>1, <2>2, <2>3, <2>4, <2>5, <2>6, OthersLeaveOutput
<1>2. QED
  BY <1>1, SourceInvariant, PTL DEF Spec, UserTextKept

\* Metadata is published after every proxy it describes (publishSourceFiles runs
\* publishGeneratedMetadata last): a proxy beside it is the one it names, or the
\* user's.
THEOREM MetadataAlwaysLast == Spec => MetadataLast
<1>1. SourceInv /\ [Next]_vars =>
        [meta' # meta /\ meta' \notin Hand => \A f \in Files : out[f] \in {meta'[f]} \cup Hand]_vars
  <2>1. SUFFICES ASSUME SourceInv, Next, meta' # meta, meta' \notin Hand
                 PROVE  \A f \in Files : out[f] \in {meta'[f]} \cup Hand
    OBVIOUS
  <2>2. ASSUME NEW f \in Files, replace(f)
        PROVE  FALSE
    BY <2>1, <2>2, ReplacesItsOwn
  <2>3. ~UserWritesMetadata
    BY <2>1 DEF UserWritesMetadata, Hand
  <2>4. ASSUME NEW f \in sources, UserWrites(f)
        PROVE  FALSE
    BY <2>1, <2>4 DEF UserWrites
  <2>5. publishGeneratedMetadata
    BY <2>1, <2>2, <2>3, <2>4, OthersLeaveOutput
  <2>6. QED
    BY <2>1, <2>5 DEF publishGeneratedMetadata, SourceInv, PublicationOK
<1>2. QED
  BY <1>1, SourceInvariant, PTL DEF Spec, MetadataLast
=============================================================================
