----------------------------- MODULE CaseStore -----------------------------
(***************************************************************************)
(* The record of one case and the copy of it kept in Redis.  MySQL holds   *)
(* the case row and a row per document; Redis holds the status and the     *)
(* number of documents (the meta key), the list of files, and the pipeline *)
(* lock.  Endpoints gate on the cached copy first and write both, the      *)
(* record before the cache; the pipeline writes them from its workers.     *)
(* Uploaded files lie on disk under their own names.                       *)
(*                                                                         *)
(* One web process serves the requests: a handler runs alone up to the     *)
(* point where it waits for its files, the pipeline's tasks run between.   *)
(* What a chain of stages does to its document is the subject of           *)
(* DocPipeline: here it ends in any of the final statuses, but its last    *)
(* stage reads the document's paths and writes all of them back.           *)
(***************************************************************************)
EXTENDS Integers, Sequences, FiniteSets, FiniteSetsExt

CONSTANTS
    Names,        \* names of uploaded files
    MaxDocs,      \* bound: documents of the case
    MaxSaves,     \* bound: files stored
    MaxLost,      \* bound: cache writes that fail
    MaxRejected,  \* bound: uploads refused after their gate
    MaxEvictions  \* bound: times the case's keys vanish from Redis

Ids == 1 .. MaxDocs

ASSUME NamesAssumption == Names # {} /\ 0 \notin Names
ASSUME BoundsAssumption ==
    /\ MaxDocs \in Nat \ {0} /\ MaxSaves \in Nat
    /\ MaxLost \in Nat /\ MaxRejected \in Nat /\ MaxEvictions \in Nat

VARIABLES
    phase,    \* life of the case: "new", "open" or "deleted"
    row,      \* MySQL: the case row
    docs,     \* MySQL: the document rows
    disk,     \* which stored file each path holds
    meta,     \* Redis: status and total_docs
    files,    \* Redis: the list of files
    lock,     \* Redis: the pipeline lock is held
    saving,   \* the upload that passed its gate and waits for its files
    replacing,  \* the replacement that passed its gate and waits for its file
    chord,    \* the documents whose chain of stages runs
    held,     \* the paths a chain's last stage has read and will write back
    fin,      \* where the end of the pipeline stands
    outcome,  \* the status the finalizer computed
    reverted, \* history: the documents such a write gave an earlier path again
    saves, lost, rejected, evicted

recordVars == <<row, docs>>
cacheVars == <<meta, files>>
chainVars == <<chord, held>>
taskVars == <<chainVars, fin, outcome>>
requestVars == <<saving, replacing>>
counters == <<saves, lost, rejected, evicted>>
vars == <<phase, recordVars, disk, cacheVars, lock, requestVars, taskVars, reverted, counters>>

----------------------------------------------------------------------------
\* Values

\* An upload is saved under its name, a replacement under the number of its document
\* and its name.  No uploaded file's own name begins with such a number.
Raw(n) == <<0, n>>
NoPath == <<0, 0>>
Paths == {NoPath} \cup (0 .. MaxDocs) \X Names

CaseStatuses == {"uploaded", "processing", "complete", "partial", "failed"}

\* "uploaded" also stands for a document inside its chain of stages.
DocStatuses == {"uploaded", "pending_retry", "failed", "cfailed", "structured", "skipped"}
Failed == {"failed", "pending_retry"}
Resolved == {"structured", "skipped"}

NoRow == [status |-> "absent", total |-> 0, completed |-> 0, failed |-> 0]
NoDoc == [status |-> "absent", path |-> NoPath, content |-> 0]
NoMeta == [status |-> "absent", total |-> 0]
NoFiles == <<[id |-> 0, path |-> NoPath]>>
NoSave == [start |-> 0, names |-> <<>>]
NoReplace == [path |-> NoPath, content |-> 0]

Entries == [id : Ids, path : Paths]

TypeOK ==
    /\ phase \in {"new", "open", "deleted"}
    /\ row \in [status : CaseStatuses \cup {"absent"}, total : 0 .. MaxDocs,
                completed : 0 .. MaxDocs, failed : 0 .. MaxDocs]
    /\ docs \in [Ids -> [status : DocStatuses \cup {"absent"}, path : Paths, content : 0 .. MaxSaves]]
    /\ disk \in [Paths -> 0 .. MaxSaves]
    /\ meta \in [status : CaseStatuses \cup {"absent"}, total : 0 .. 2 * MaxDocs]
    /\ files \in Seq(Entries) \cup {NoFiles}
    /\ lock \in BOOLEAN
    /\ saving \in [start : 0 .. MaxDocs, names : Seq(Names)]
    /\ replacing \in [path : {NoPath} \cup Ids \X Names, content : 0 .. MaxSaves]
    /\ chord \subseteq Ids
    /\ held \subseteq Entries
    /\ reverted \subseteq Ids
    /\ fin \in {"none", "chord", "write", "cache", "release"}
    /\ outcome \in CaseStatuses
    /\ saves \in 0 .. MaxSaves /\ lost \in 0 .. MaxLost
    /\ rejected \in 0 .. MaxRejected /\ evicted \in 0 .. MaxEvictions

Init ==
    /\ phase = "new"
    /\ row = NoRow
    /\ docs = [i \in Ids |-> NoDoc]
    /\ disk = [p \in Paths |-> 0]
    /\ meta = NoMeta /\ files = NoFiles
    /\ lock = FALSE
    /\ saving = NoSave /\ replacing = NoReplace
    /\ chord = {} /\ held = {} /\ fin = "none" /\ outcome = "processing"
    /\ reverted = {}
    /\ saves = 0 /\ lost = 0 /\ rejected = 0 /\ evicted = 0

Stored(ds) == {i \in Ids : ds[i] # NoDoc}
Count(ds, statuses) == Cardinality({i \in Ids : ds[i].status \in statuses})
Listed(fs) == {fs[k].id : k \in DOMAIN fs}

----------------------------------------------------------------------------
\* Reading the case: Redis first, MySQL on a miss, which fills the cache

\* get_case_meta, and case_exists where it finds no key.
Meta(r) == IF meta = NoMeta THEN [status |-> r.status, total |-> r.total] ELSE meta

\* In the order of their numbers: the k-th document has k up to it.
FilesOf(ds) ==
    LET nth(k) == CHOOSE i \in Stored(ds) : Cardinality({j \in Stored(ds) : j <= i}) = k
    IN  [k \in 1 .. Cardinality(Stored(ds)) |-> [id |-> nth(k), path |-> ds[nth(k)].path]]

\* Variant: without the cached list there are no files.
Files_CacheOnly(ds) == IF files = NoFiles THEN <<>> ELSE files

\* get_case_files: an empty record is not cached.
Files(ds) == IF files = NoFiles THEN FilesOf(ds) ELSE files

\* What the status page shows, read from MySQL.
Payload ==
    [status |-> row.status,
     files |-> Stored(docs),
     results |-> {i \in Ids : docs[i].status = "structured"},
     errors |-> {i \in Ids : docs[i].status \in {"failed", "cfailed"}},
     needsAction |-> {i \in Ids : docs[i].status = "cfailed"},
     progress |-> CASE row.total = 0 -> 0
                    [] row.total > 0 /\ row.status = "processing" ->
                          Min({100, ((row.completed + row.failed) * 90) \div row.total})
                    [] OTHER -> 100]

\* update_case_status: the counts and the status the documents add up to.
Recomputed(ds) ==
    LET failed == Count(ds, {"failed", "cfailed"})
        completed == Count(ds, Resolved)
    IN  [row EXCEPT !.completed = completed, !.failed = failed,
                    !.status = IF failed > 0 THEN "partial"
                               ELSE IF completed = row.total THEN "complete" ELSE "processing"]

\* Updates of the case row do nothing when the row is gone.
SetRow(r) == row' = IF row = NoRow THEN NoRow ELSE r

Marked(m, status) == [m EXCEPT !.status = status]

\* get_failed_documents: those a retry is for.
FailedDocs(ds) == {i \in Ids : ds[i].status \in Failed}

\* The file a document's page shows: whatever lies at the path of its row.
Served(doc) == disk[doc.path]

Lose == lost < MaxLost /\ lost' = lost + 1

\* set_case_status: the row, then the cached status, whose failure is swallowed.
SetStatus(m, status) ==
    /\ SetRow([row EXCEPT !.status = status])
    /\ \/ meta' = Marked(m, status) /\ UNCHANGED lost
       \/ meta' = m /\ Lose

----------------------------------------------------------------------------
\* Storing files

\* The files reach the disk one after the other, each under its own name.
Written(names) ==
    [p \in Paths |-> IF \E k \in DOMAIN names : Raw(names[k]) = p
                     THEN saves + Max({k \in DOMAIN names : Raw(names[k]) = p})
                     ELSE disk[p]]

\* init_document for each: an existing row keeps its status and takes the file.
Inserted(names, start) ==
    [i \in Ids |->
        LET k == i - start
        IN  IF k \in DOMAIN names
            THEN [status |-> IF docs[i] = NoDoc THEN "uploaded" ELSE docs[i].status,
                  path |-> Raw(names[k]), content |-> saves + k]
            ELSE docs[i]]

\* Variant: the numbers start at zero.
NewEntries_Zero(names, start) ==
    [k \in DOMAIN names |-> [id |-> start + k - 1, path |-> Raw(names[k])]]

NewEntries(names, start) == [k \in DOMAIN names |-> [id |-> start + k, path |-> Raw(names[k])]]

\* The row of a new case, and of one that takes more documents.
NewCase(total) == [status |-> "uploaded", total |-> total, completed |-> 0, failed |-> 0]
Reset(r, total) == [r EXCEPT !.total = total, !.status = "uploaded"]

\* add_files_to_case, on the copies it has just read or filled.
Extended(m, n) == [status |-> "uploaded", total |-> m.total + n]
Appended(fs, names, start) == fs \o NewEntries(names, start)

\* replace_document and update_file_in_case; skip_document.
ReplacedDoc(d) ==
    IF docs[d] = NoDoc THEN docs
    ELSE [docs EXCEPT ![d] = [status |-> "failed", path |-> replacing.path, content |-> replacing.content]]
Relisted(fs, d) ==
    [k \in DOMAIN fs |-> IF fs[k].id = d THEN [fs[k] EXCEPT !.path = replacing.path] ELSE fs[k]]
SkippedDoc(d) == [docs EXCEPT ![d].status = "skipped"]

\* POST /upload: the cache is warmed before the rows are written.
Upload(names) ==
    LET n == Len(names)
    IN  /\ phase = "new" /\ n <= MaxDocs /\ saves + n <= MaxSaves
        /\ phase' = "open"
        /\ disk' = Written(names)
        /\ saves' = saves + n
        /\ row' = NewCase(n)
        /\ docs' = Inserted(names, 0)
        /\ \/ /\ meta' = [status |-> "uploaded", total |-> n]
              /\ files' = NewEntries(names, 0)
              /\ UNCHANGED lost
           \/ Lose /\ UNCHANGED cacheVars
        /\ UNCHANGED <<lock, requestVars, taskVars, reverted, rejected, evicted>>

----------------------------------------------------------------------------
\* Starting the pipeline

\* start_case_pipeline: a chain for every listed document that is not resolved,
\* then the finalizer; the finalizer alone when there is none.
Launch(fs, ds) ==
    /\ chord' = {i \in Listed(fs) : ds[i].status \notin Resolved}
    /\ fin' = "chord"
    /\ UNCHANGED <<held, outcome>>

\* The broker refuses the tasks: the request takes everything back.
StartFails(m, ds) ==
    /\ SetRow([row EXCEPT !.status = "failed"])
    /\ \/ meta' = Marked(m, "failed") /\ UNCHANGED lost
       \/ Lose /\ meta' \in {Marked(m, "failed"), Marked(m, "processing")}
    /\ docs' = ds
    /\ lock' = FALSE
    /\ UNCHANGED taskVars

\* A pipeline may start: the lock is free and the status, read from the cache
\* first, is not "processing".
Gate == phase = "open" /\ ~lock /\ Meta(row).status # "processing"

\* POST /process.
Process ==
    /\ Gate
    /\ files' = Files(docs)
    /\ \/ /\ SetStatus(Meta(row), "processing")
          /\ lock' = TRUE
          /\ Launch(Files(docs), docs)
          /\ UNCHANGED docs
       \/ StartFails(Meta(row), docs)
    /\ UNCHANGED <<phase, disk, requestVars, reverted, saves, rejected, evicted>>

\* POST /retry: not held up by a status that says "processing" when no document
\* is in a stage.  Every failed document has to be in the list of files.
Retry ==
    LET failed == FailedDocs(docs)
        retried == [i \in Ids |-> IF i \in failed
                                  THEN [docs[i] EXCEPT !.status = "pending_retry"] ELSE docs[i]]
    IN  /\ phase = "open" /\ ~lock /\ failed # {}
        /\ files' = Files(docs)
        /\ \/ /\ failed \subseteq Listed(Files(docs))
              /\ SetStatus(Meta(row), "processing")
              /\ docs' = retried
              /\ lock' = TRUE
              /\ chord' = failed /\ fin' = "chord"
              /\ UNCHANGED <<held, outcome>>
           \/ StartFails(Meta(row), retried)
        /\ UNCHANGED <<phase, disk, requestVars, reverted, saves, rejected, evicted>>

\* A refused request, or one that links the case to an account, still fills the
\* cache.
Warm ==
    /\ phase = "open"
    /\ meta' = Meta(row) /\ files' = Files(docs)
    /\ UNCHANGED <<phase, recordVars, disk, lock, requestVars, taskVars, reverted, counters>>

----------------------------------------------------------------------------
\* Uploading to an open case

\* The gate: the lock is taken and the next number is read off the listed files.
UploadAccepted(names) ==
    LET start == Max({0} \cup Listed(Files(docs)))
    IN  /\ Gate
        /\ start + Len(names) <= MaxDocs /\ saves + Len(names) <= MaxSaves
        /\ meta' = Meta(row) /\ files' = Files(docs)
        /\ lock' = TRUE
        /\ saving' = [start |-> start, names |-> names]
        /\ UNCHANGED <<phase, recordVars, disk, replacing, taskVars, reverted, counters>>

\* The files are stored: the row is reset, the documents inserted and listed, and
\* the pipeline started.  kept, marked: the two cache writes that may be lost.
UploadStored(kept, marked) ==
    LET names == saving.names
        n == Len(names)
        reset == IF row = NoRow THEN NoRow ELSE Reset(row, saving.start + n)
        ds == Inserted(names, saving.start)
        known == kept /\ Meta(reset) # NoMeta
        m == IF known THEN Extended(Meta(reset), n) ELSE meta
        fs == IF known THEN Appended(Files(ds), names, saving.start) ELSE Files(ds)
        losses == (IF kept THEN 0 ELSE 1) + (IF marked THEN 0 ELSE 1)
    IN  /\ saving # NoSave
        /\ saving' = NoSave
        /\ disk' = Written(names)
        /\ saves' = saves + n
        /\ lost + losses <= MaxLost
        /\ lost' = lost + losses
        /\ docs' = ds
        /\ files' = fs
        /\ reverted' = reverted \ Listed(NewEntries(names, saving.start))
        /\ \/ /\ row' = IF row = NoRow THEN NoRow ELSE [reset EXCEPT !.status = "processing"]
              /\ meta' = IF marked THEN Marked(m, "processing") ELSE m
              /\ Launch(fs, ds)
              /\ UNCHANGED lock
           \/ /\ row' = IF row = NoRow THEN NoRow ELSE [reset EXCEPT !.status = "failed"]
              /\ meta' = Marked(m, IF marked THEN "failed" ELSE "processing")
              /\ lock' = FALSE
              /\ UNCHANGED taskVars
        /\ UNCHANGED <<phase, replacing, rejected, evicted>>

\* A file that turns out too large after the first ones were written: the request
\* ends with an error and its lock, which its timer refreshes, stays.
UploadRejected ==
    /\ saving # NoSave /\ rejected < MaxRejected
    /\ rejected' = rejected + 1
    /\ saving' = NoSave
    /\ \E k \in 0 .. Len(saving.names) - 1 :
          /\ disk' = Written(SubSeq(saving.names, 1, k))
          /\ saves' = saves + k
    /\ UNCHANGED <<phase, recordVars, cacheVars, lock, replacing, taskVars, reverted, lost, evicted>>

\* POST .../replace, in any status of the document: the gate.  One that is then refused
\* is one whose file never comes.
ReplaceAccepted(d, n) ==
    /\ phase = "open" /\ docs[d] # NoDoc /\ replacing = NoReplace
    /\ replacing' = [path |-> <<d, n>>, content |-> 0]
    /\ meta' = Meta(row)
    /\ files' = IF meta = NoMeta THEN Files(docs) ELSE files
    /\ UNCHANGED <<phase, recordVars, disk, lock, saving, taskVars, reverted, counters>>

\* The file is saved, unless its directory is gone with the case.
ReplaceSaved ==
    /\ phase = "open" /\ saves + Len(saving.names) < MaxSaves
    /\ replacing # NoReplace /\ replacing.content = 0
    /\ saves' = saves + 1
    /\ disk' = [disk EXCEPT ![replacing.path] = saves + 1]
    /\ replacing' = [replacing EXCEPT !.content = saves + 1]
    /\ UNCHANGED <<phase, recordVars, cacheVars, lock, saving, taskVars, reverted, lost, rejected, evicted>>

\* Variant: the list keeps the old file.
ReplaceStored_ListKept ==
    LET d == replacing.path[1]
    IN  /\ replacing.content # 0
        /\ replacing' = NoReplace
        /\ docs' = ReplacedDoc(d)
        /\ reverted' = reverted \ {d}
        /\ UNCHANGED <<phase, row, disk, cacheVars, lock, saving, taskVars, counters>>

\* Then the row takes it and, read once more and filled from the new row when it is
\* not there, the list.
ReplaceStored ==
    LET d == replacing.path[1]
        fs == Files(ReplacedDoc(d))
    IN  /\ replacing.content # 0
        /\ replacing' = NoReplace
        /\ docs' = ReplacedDoc(d)
        /\ reverted' = reverted \ {d}
        /\ \/ files' = Relisted(fs, d) /\ UNCHANGED lost
           \/ files' \in {files, fs} /\ Lose
        /\ UNCHANGED <<phase, row, disk, meta, lock, saving, taskVars, saves, rejected, evicted>>

\* POST .../skip, in any status: the rows only, not the cached status.
Skip(d) ==
    /\ phase = "open" /\ docs[d] # NoDoc
    /\ docs' = SkippedDoc(d)
    /\ row' = Recomputed(SkippedDoc(d))
    /\ UNCHANGED <<phase, disk, cacheVars, lock, requestVars, taskVars, reverted, counters>>

----------------------------------------------------------------------------
\* The pipeline's tasks

\* Of the paths in a document's row, those its last stage has in its hands.
HeldFor(d) == {e \in held : e.id = d}

\* The last stage reads all paths of the row, that of the upload among them ...
PersistReads(d) ==
    /\ d \in chord /\ docs[d] # NoDoc
    /\ held' = (held \ HeldFor(d)) \cup {[id |-> d, path |-> docs[d].path]}
    /\ UNCHANGED <<phase, recordVars, disk, cacheVars, lock, requestVars, chord, fin, outcome, reverted, counters>>

\* ... and writes them back with the status, whatever the row holds by then.
PersistWrites(d) ==
    \E e \in HeldFor(d) :
        /\ d \in chord
        /\ held' = held \ HeldFor(d)
        /\ chord' = chord \ {d}
        /\ \/ /\ docs[d] # NoDoc
              /\ docs' = [docs EXCEPT ![d].status = "structured", ![d].path = e.path]
              /\ reverted' = IF docs[d].path = e.path THEN reverted ELSE reverted \cup {d}
           \/ docs[d] = NoDoc /\ UNCHANGED <<docs, reverted>>
        /\ UNCHANGED <<phase, row, disk, cacheVars, lock, requestVars, fin, outcome, counters>>

\* A chain ends elsewhere: in a failure, or for a case or document that is gone or no
\* longer wanted without a write.
ChainEnds(d) ==
    /\ d \in chord
    /\ chord' = chord \ {d} /\ held' = held \ HeldFor(d)
    /\ \/ /\ docs[d] # NoDoc
          /\ \E status \in {"failed", "cfailed"} :
                docs' = [docs EXCEPT ![d].status = status]
       \/ UNCHANGED docs
    /\ UNCHANGED <<phase, row, disk, cacheVars, lock, requestVars, fin, outcome, reverted, counters>>

\* finalize_case_task: recompute the row and read the documents once more.
FinalizeCount ==
    LET failed == Count(docs, {"failed", "cfailed"})
    IN  /\ fin = "chord" /\ chord = {}
        /\ fin' = "write"
        /\ SetRow(Recomputed(docs))
        /\ outcome' = IF failed = 0 THEN "complete"
                      ELSE IF Count(docs, {"structured"}) = 0 THEN "failed" ELSE "partial"
        /\ UNCHANGED <<phase, docs, disk, cacheVars, lock, requestVars, chainVars, reverted, counters>>

FinalizeWrite ==
    /\ fin = "write"
    /\ fin' = "cache"
    /\ SetRow([row EXCEPT !.status = outcome])
    /\ UNCHANGED <<phase, docs, disk, cacheVars, lock, requestVars, chainVars, outcome, reverted, counters>>

\* Variant: the cached status is left to the next read.
FinalizeCache_Skips ==
    /\ fin = "cache"
    /\ fin' = "release"
    /\ UNCHANGED <<phase, recordVars, disk, cacheVars, lock, requestVars, chainVars, outcome, reverted, counters>>

\* The worker's write of the cached status, on whatever the key holds.
FinalizeCache ==
    /\ fin = "cache"
    /\ fin' = "release"
    /\ \/ meta' = Marked(meta, outcome) /\ UNCHANGED lost
       \/ Lose /\ UNCHANGED meta
    /\ UNCHANGED <<phase, recordVars, disk, files, lock, requestVars, chainVars, outcome, reverted, saves, rejected, evicted>>

FinalizeRelease ==
    /\ fin = "release"
    /\ fin' = "none"
    /\ lock' = FALSE
    /\ UNCHANGED <<phase, recordVars, disk, cacheVars, requestVars, chainVars, outcome, reverted, counters>>

----------------------------------------------------------------------------
\* Deleting, and keys that vanish

\* DELETE: the tasks found active are revoked, and with one of them the end of
\* its pipeline; then the keys, the lock's among them, the rows and the files.
Delete ==
    /\ phase = "open"
    /\ phase' = "deleted"
    /\ \E left \in SUBSET chord :
          /\ chord' = left /\ held' = {e \in held : e.id \in left}
          /\ fin' \in IF left = chord THEN {fin, IF chord = {} THEN "none" ELSE fin} ELSE {"none"}
    /\ meta' = NoMeta /\ files' = NoFiles /\ lock' = FALSE
    /\ row' = NoRow /\ docs' = [i \in Ids |-> NoDoc]
    /\ disk' = [p \in Paths |-> 0]
    /\ reverted' = {}
    /\ UNCHANGED <<requestVars, outcome, counters>>

Evict ==
    /\ phase = "open" /\ evicted < MaxEvictions
    /\ evicted' = evicted + 1
    /\ meta' = NoMeta /\ files' = NoFiles
    /\ UNCHANGED <<phase, recordVars, disk, lock, requestVars, taskVars, reverted, saves, lost, rejected>>

----------------------------------------------------------------------------

Batches == {<<a>> : a \in Names} \cup {<<a, b>> : a \in Names, b \in Names}

Next ==
    \/ \E names \in Batches : Upload(names) \/ UploadAccepted(names)
    \/ Process \/ Retry \/ Warm
    \/ \E kept \in BOOLEAN, marked \in BOOLEAN : UploadStored(kept, marked)
    \/ UploadRejected
    \/ \E d \in Ids, n \in Names : ReplaceAccepted(d, n)
    \/ ReplaceSaved \/ ReplaceStored
    \/ \E d \in Ids : Skip(d) \/ PersistReads(d) \/ PersistWrites(d) \/ ChainEnds(d)
    \/ FinalizeCount \/ FinalizeWrite \/ FinalizeCache \/ FinalizeRelease
    \/ Delete \/ Evict

Spec == Init /\ [][Next]_vars

----------------------------------------------------------------------------
\* Properties

AtRest == chord = {} /\ fin = "none" /\ saving = NoSave

\* A further upload adds documents and leaves the stored ones alone: as long as no
\* cache write was lost, whatever keys vanished from Redis, before the gate or while
\* the files are awaited, its numbers are new ones ("gaps from removed documents must
\* never collide with surviving doc_ids" in upload_more_documents).
UploadAddsOnly ==
    [][saving # NoSave /\ saving' = NoSave /\ lost = 0
          => \A i \in Stored(docs) : docs'[i] = docs[i]]_vars

\* A document of an open case is never served with a file older than its own, or with
\* none, and a replaced one with nothing but its replacement, until the next one's file is
\* there; a later file of the same name, even a refused one, does take the place of an
\* uploaded one (save_upload, replace_document_endpoint, get_doc_pdf).  This leaves out the
\* documents a chain's last stage gave an earlier path again, after they were replaced
\* between its read and its write (PersistStage).
OriginalIsServed ==
    phase = "open" =>
        \A i \in Stored(docs) \ reverted :
            /\ Served(docs[i]) >= docs[i].content
            /\ docs[i].path[1] = i /\ replacing.path[1] # i => Served(docs[i]) = docs[i].content

\* The case row's total, which completion is measured against, is the number of
\* document rows whenever the case is open, as long as no cache write was lost
\* (upload_docs_reset takes it from the cached list of files).
TotalCountsDocuments ==
    phase = "open" /\ lost = 0 => row.total = Cardinality(Stored(docs))

\* The cached list of files never disagrees with the record about which documents
\* there are and, but for those a chain gave an earlier path again, which file each has,
\* as long as no cache write was lost: every other writer of a row's path also writes the
\* list (init_case, add_files_to_case, update_file_in_case, and get_case_files on a miss).
CachedFilesAgree ==
    phase = "open" /\ lost = 0 /\ files # NoFiles =>
        /\ Listed(files) = Stored(docs)
        /\ \A k \in DOMAIN files :
              files[k].id \in reverted \/ files[k].path = docs[files[k].id].path

\* A case whose pipeline is over can be worked on: the lock is free and the next
\* request does not find it "processing", unless a cache write was lost or keys
\* vanished (every exit of process, retry, upload and the finalizer).
CaseStaysOpen ==
    phase = "open" /\ AtRest /\ lost = 0 /\ rejected = 0 /\ evicted = 0 => Gate

\* The status page does not contradict itself: once its pipeline is over it
\* never calls a case complete that has an unsupported document to act on, and as long
\* as no cache write was lost the progress of a case that is processing never passes
\* ninety percent (the counts of update_case_status and the finalizer against the total
\* of upload_docs_reset).
PageIsConsistent ==
    /\ Payload.status = "complete" /\ AtRest => Payload.needsAction = {}
    /\ Payload.status = "processing" /\ lost = 0 => Payload.progress <= 90

\* The record is consistent with itself, its cache, its files and what is shown of it,
\* whatever requests, pipelines, lost writes and evictions come together: the conditions
\* are those of the four parts.
RecordAgrees ==
    /\ OriginalIsServed
    /\ TotalCountsDocuments
    /\ CachedFilesAgree
    /\ PageIsConsistent

=============================================================================
