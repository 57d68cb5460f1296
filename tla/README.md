# ClearTitle verification

TLA+ models of the ClearTitle backend (`src/backend`), the TLC configurations that
check them on small instances, and TLAPS proofs of what holds for every instance.
`PROJECT.json` lists the components, the runs, the source lines of every definition,
the hazards of the code and the theorems.

ClearTitle takes the scanned deeds of a property, reads them by OCR, classifies and
structures each document, builds the chain of title from the encumbrance certificate,
and has a language model verify every transfer of the chain with tools, one link after
the other. The parts run as a FastAPI process and Celery workers, which share a MySQL
database, a Redis cache, Redis locks and the Celery broker.

## The system

| Component (source) | State | Operations | Interacts with |
| --- | --- | --- | --- |
| User endpoints (`routers/cases.py`, `routers/results.py`) | none of their own | upload, process, retry, replace, skip, delete documents and cases; analyze; skip a transaction; generate the report | take the pipeline lock, write record and cache, queue tasks, write the retry marker into the agent's checkpoint |
| Document pipeline (`workers/`, `services/orchestrator.py`, `domain/state_machine.py`, `document_repo.py`) | `documents` rows, files on disk, retries of each task | six stage tasks per document, each inside `idempotent_stage`; the finalizer as chord callback | started under the pipeline lock; the finalizer writes the case status, deletes the lock and queues the agent |
| Case record and live status (`case_repo.py`, `state_store.py`, `file_utils.py`) | the case row, a row per document, files on disk; in Redis the status, the count and the list of files | create, reset, recompute, fill on a miss, delete | endpoints gate on Redis first; endpoints and the finalizer write both |
| Verification agent (`services/cleartitle_agent.py`, `agent_repo.py`, `title_chain_tasks.py`) | chain, results per link, checkpoint (`case_memory`), `agent_status`, verdict | analysis, resume, retry, skip | one agent lock per case; every link is a verification session |
| Verification session (`agent_runtime.py`, `agent_tools.py`, `agent_schemas.py`) | calls made and granted, ranges read, documents selected, requirements | the tool loop, the tools, the checks on a submitted result | writes the result of one link, reports it or a pending request to the agent |
| Redis lock (`integrations/redis/lock.py`) | key with token and expiry; per object a flag and a timer thread | acquire, refresh, release, forced release | agent, pipeline, final report |
| Final report (`services/final_report.py`) | the recorded report with the hash of its results, the PDF on disk | readiness, generate, show | reads what the agent writes, under a lock of its own |
| OCR (`integrations/ocr/`, `services/extract.py`, stages OCR and merge) and ledger (`shared/ec_ledger.py`) | results of the chunks, merged text | cut, send with retries, judge, merge, recombine | stages of the pipeline |
| Schema upgrade (`database/migrations.py`, `main.py`) | stores of earlier versions beside the present ones | copy, then drop, at every start of the web process | writes rows the workers write as well |
| LLM client, rate limiter, extraction, accounts, frontend | none the others depend on | see "Not modelled" | |

What is hard here, and what the properties are about:

* Two locks, taken in one process and given back in another or by expiry, with tasks
  that are delivered again when a worker dies. A redelivered task can meet the dead
  worker's lock, or repeat what was already done.
* The agent's checkpoint and the results are JSON documents which several actors read,
  keep a copy of, and write back whole: the run, the upload endpoint, a refresh around a
  model call.
* A run walks a chain with four kinds of scope (analysis, resume, retry, skip), and what a
  scoped run may leave alone, and must not, differs from a full run.
* A language model decides which tool is called next, in any order, with any arguments;
  the gates in the tools have to hold against every sequence, not the expected one.
* A stage task writes the document's status in up to three places (entry, body, wrapper's
  end) with a retry in between; users replace and skip documents meanwhile.
* The record is in MySQL and a copy of it in Redis, written one after the other by handlers
  that swallow a failing write, filled on a miss, and read first.
* A lock object is shared by two threads which talk to Redis outside of its mutex, while
  time passes and either may be late.
* OCR chunks overlap by a page and come back with page objects, with labels, or with neither;
  tables and ledger rows are split by page breaks.
* The upgrade runs at every start, may die between any two of its steps, and is repeated.

What makes each component correct, in a line: a clear verdict, a pause and a skip mean what
they say whatever was interrupted (agent); nothing is concluded or cited that was not read,
within a bounded number of calls (session); one pipeline at a time, documents decided when
it ends, data made from the file the user gave last (pipeline); record, cache and files agree,
and a case at rest can be worked on (record); one holder at a time, and never a stuck key
(lock); a report that is complete and is offered as current only when it is (final report);
every page once and nothing left in halves (OCR, ledger); no result lost or grown old (upgrade).

## Modules

| Module | What it models |
| --- | --- |
| `CaseAgent` | the agent of one case: workers, broker, agent lock, checkpoint, results, the user's requests, the end of a pipeline |
| `CaseAgent_proofs` | its type correctness, and its safety while the lock excludes |
| `VerifySession` | the sessions on one transaction, one after the other |
| `VerifySession_proofs` | types, the full-text gate, citations, budget, reports |
| `DocPipeline` | the pipelines of one case: endpoints, stage tasks, finalizer |
| `DocPipeline_proofs` | its type correctness, the pipeline lock; documents, files and case status |
| `CaseStore` | the record of one case, its cached copy, its files, and everything that writes them |
| `CaseStore_proofs` | its types, that record, cache and files agree, that a case stays open, that uploads only add |
| `Lease` | what the application expects of a lock: the abstract specification |
| `RedisLock` | one key, its lock objects with two threads each, and time; implements `Lease` |
| `RedisLock_proofs` | its type correctness, `HoldersAgree`, and that it implements `Lease` |
| `FinalReport` | the generation of the report beside the agent, built on `Lease` |
| `FinalReport_proofs` | its type correctness, completeness and currency of the report |
| `OcrChunks` | the OCR of one document, from its chunks to the rows of its ledger |
| `OcrChunks_proofs` | its types, each page once, tables joined in pairs and registrations whole |
| `SchemaUpgrade` | the starts of the web process on a database of an earlier version |
| `SchemaUpgrade_proofs` | its type correctness, that repetitions agree, results and pauses kept, that it ends |
| `MCCaseAgent`, `MCDocPipeline`, `MCCaseStore`, `MCOcrChunks` | symmetry and constants for TLC |

How they compose. `RedisLock` is shown to implement `Lease`; `FinalReport` EXTENDS `Lease` and takes
its actions into its own, so that what holds of the report holds over the real lock. `CaseAgent`
and `DocPipeline` hold their locks as one variable with the same grant, release and expiry.
`VerifySession` is the inside of `CaseAgent`'s `Verify`: any outcome it ends with is one `Verify` takes.
`DocPipeline` is the inside of what `CaseStore` calls a chain, whose document ends in any final
status; `OcrChunks` is the inside of two of its stages, which succeed or fail.

The operators named `X_Y` beside an operator `X`, marked "Variant", are `X` as a plausible
mistake would have it. They are part of no specification. Put in the place of `X` they break the property
`PROJECT.json` names, which shows that the property depends on that piece of code.

### CaseAgent

One action per database write of the agent; the checkpoint and the agent status are two. `Start` is the delivery of a task and
`_run_with_lock`'s attempt at the agent lock (got, busy, or Redis refuses and the run goes on
`Unlocked`). `Begin` is the dispatch on the kind of the task, up to the checkpoint it decides on; `Mark` saves
that one where it changed, `Enter` is the beginning of `_run`, which reads it again, `Survey` and `PhaseA` build a
chain where there is none, `Loop` is the save before the first link. `owed` is the status a worker
is about to write: `WriteStatus` comes before its next step, and a crash may come before that. `SelectLink`, `Verify`, `Pause`, `Advance` are one round of the loop, `RunFails` its exception
exits, `Finish` and `SyncVerdict` the end. `RefreshRead` and `RefreshWrite` are apart because
`_refresh_downstream_results` makes a model call between them. `UploadAccepted` is the evidence endpoint up to the wait for its files;
behind it `UploadStored` adds the documents and reads the checkpoint, and `UploadMarked` writes it back whole, as it
was read but for the marker (`copy`). `FinalizeRelease` and `FinalizeQueue` are the two halves of the finalizer.
Faults: a worker dies (`Crash`: its tasks go back to the broker, its lock stays in Redis
until `OrphanExpires`), Redis refuses the lock call, the lock lapses under a live run
(`Lapse`), the verdict cannot be written, a refresh fails.

Abstractions:

* A link's result keeps status, whether a bounded stop saved it, the document manifest an
  inconclusive result was reached with, and the upstream links recorded as unverified.
  "OPEN" is `PENDING` and `IN_PROGRESS`. What a session decides is any outcome it can end
  with; `VerifySession` is about how it gets there.
* The checkpoint keeps the paused link (the saved `paused_transaction`, which already folds
  in the current link and stage), the retry marker and the skipped links.
* The manifest is a version number that is odd while a pipeline runs. `FinalizeQueue` may
  queue or not when nothing waits, which includes every outcome `_should_start_agent` has.
* The broker is a bag without order. A task that finds the lock taken is acknowledged.
* `verdict` is `verification_status` and `verdict` of the case as one value.
* An upload that fails before its documents are added keeps the lock: nothing makes an accepted one
  go on. What the endpoint does when the pipeline then cannot be queued (`cases.py:473-488`, the marker taken
  out again) and a death of the web process between the documents and the marker are left out.
* `UploadStored` takes the reset of the verdict, the documents and the reading of the checkpoint together. That a
  run finds no documents at all is left out.
* `overtaken` is history: an upload wrote back a copy that was out of date. `PauseIsActionable` and `SkipIsHonoured`
  are stated for as long as it did not, since such a write does lose a pause and does put back a
  skip (see "Divergences"). The model has these writes; all other properties are checked with them.

### VerifySession

`Ask` is a model call, with any number of tool calls in the reply (`Answer` counts them off),
`GiveUp` a provider error, `RunOut` and `RunOutUnsaved` the bounded stop. Each tool is an
action with the arguments that matter: `List`, `Select`, `Read` (any start, also behind the
end, and any size), `Record`, `Extend`, `SaveResult` (which is also the request for missing
evidence), `RefuseUnread`, and `NoEffect` for every refused or failed call. `StartSession`
begins a session on the documents, the earlier links' requests and the fresh flag of its moment.

Abstractions: citations are by document, not by page; a document without text counts as not
ready; a field the model leaves out is inherited from the earlier result and so one of the
values enumerated; a tool whose own write fails has no effect; the wording checks of a report
and the refusal of malformed identifiers are in `NoEffect`; the cache of repeated calls is
left out, since it only differs in which requirements are recorded; earlier links' requests do not change during a
session, because the agent lock is held. Between sessions documents may become ready or be
replaced. A replaced document keeps its id and counts as shown. The Phase A session, which
builds the chain, uses the same loop with other tools and is not modelled.

### DocPipeline

Data is modelled by the version of the file it was made from: `file`, `prep`, `chunks`, `text`,
`type`, `structured` of a row are the version behind the raw PDF, the preprocessed one, the
OCR output on disk, the merged text, the classification and the extraction, 0 for none.
Status numbers are those of the enumeration `Stage`, so that "past a stage" is the code's
comparison. `pending_retry`, which the code maps to stage 0, is a negative number: it is past
nothing either.

A stage task is `Check` (the wrapper's read of the status), `Enter` (the entry status is written
and the stage reads its row), then one of `Succeed`, `FailHandled` (the stage's own handler
writes failed), `Raise` (any other error), `Unsupported`, `OutOfCredits`, and the wrapper's
own write: `CompleteStage`, `RejectType`, `GiveUpOcr`, `Exhausted`, or `RetryStage`. Between any
two of these, other chains, the user's `ReplaceDocument` and `SkipDocument`, and `CrashStage`
may come. The finalizer is `FinalCount`, `FinalWrite`, `FinalRelease`, `FinalQueue`, and
`CrashFinal` between them.

Abstractions:

* An endpoint is one action from its attempt at the lock to the queueing of the chord (no
  await in between, or uploads only). That the queueing fails is the fault "broker".
* Chunks survive a replacement, as the file on disk does.
* The user replaces and skips documents of unsupported type (`ActsOn`), which is what the
  status payload offers (`cases.py:264-280`). The endpoints accept any status; for a failed
  document that waits for its own retry `StructuredMatchesFile` does not hold, because the
  merge stage finds the OCR output of the old file.
* Errors of the database outside the wrapper's `try` (the chord then never calls the finalizer),
  outages of the status cache, expiry of the pipeline lock and a partly queued chord are left out.

### CaseStore

A case from its creation to its deletion. `Upload`, `Process`, `Retry`, `Replace`, `Skip`, `Delete` are the
endpoints; adding files is `UploadAccepted` up to the wait for the files and `UploadStored` or
`UploadRejected` behind it, with anything in between. A replacement is `ReplaceAccepted`, the file on disk
(`ReplaceSaved`), then row and list (`ReplaceStored`). A chain ends in `ChainEnds`, or in its last stage, which reads all paths of
the row (`PersistReads`) and writes them back with the status (`PersistWrites`), whatever was replaced in between. `Meta` and `Files` are the reads that try Redis
first and fill it on a miss; every endpoint that gates on the status does so through them.
`FinalizeCount`, `FinalizeWrite`, `FinalizeCache`, `FinalizeRelease` are the steps of the finalizer, in a worker.
`Lose` is a cache write that fails and is swallowed, `Evict` the keys gone.

Abstractions: file contents are the number of the save; a path is the plain name of an upload or,
for a replacement, the number of its document and its name; what a chain does to its document is any of its
final statuses; one web process, whose handlers are atomic between awaits and which does not die. The files of an upload come to lie
on disk in the action that writes their rows. One replacement waits at a time, of a document that is there; no uploaded file has a
name that begins with the number of a document. `reverted` is history: the documents a chain gave an earlier path again. For
those, and until they are replaced once more, `OriginalIsServed` and `CachedFilesAgree` say nothing.

### Lease and RedisLock

`Lease` has `Grant`, `Enter`, `Leave`, `Free` and `Break`: who holds the key, who works, and that the key never
comes free under one who works, until Redis refuses a call or the key is deleted by force. In
`RedisLock` an object's thread does `Acquire` (the call), `Hold` (back in the object: flag and timer),
`BeginRelease`, `EndRelease`; its timer thread `Fire`, `Renew`, `Rearm`, which are `refresh` before, at and after the
call; and `Tick` passes time and expires the key. `Promise` is the refinement mapping: owner is the
key, users are the objects with `_is_held`.

Time passes in units of the refresh interval's scale; a thread that is due acts within `Lag`, and
`Period + 2 * Lag < Ttl` is assumed (the code has a third of the time to live as period). Without such
an assumption nothing holds of a lock that expires: a process that is suspended for the whole
time to live loses it.

### FinalReport

`Acquire`, `Start`, `ReadResults`, `Check`, `Write`, `Fill`, `Persist`, `Release` are one generation: `Write` empties the PDF
in place, `Fill` ends it, and `torn` says that a part is missing. The agent saves
results and rebuilds the chain at any time between them. `Raise` is an exception, which releases the lock, `Die` the end
of the process, which does not. The hash of the results is the results. A handler does not yield while it
generates; two processes stand for a restart in which the old one is still at work. Which bytes two writers of one file leave, when
Redis failed and both are at it, is left out: the last one to end counts.

### OcrChunks

`ChunkIds`, `FirstPage`, `ChunkPages` are the ranges; each chunk is answered with page objects or text with any
labels (`Answers`), fails, or lacks credits; `Judge` is `OcrStage`'s acceptance, `MergeStage` the merge, with `ExtractPages`,
`SplitAtLabels`, `DeduplicatePages`, `JoinTables` as in `ocr_merger.py`. A page is its number and how a table crosses its edges.
The properties state what the merge should give without following it: the pages read in
ascending order, each once; the registration to which a page belongs. Of a table over more than two pages
`TablesAreJoined` says what the code does give, pairs.

### SchemaUpgrade

`ConvertMemory` and `DropColumn` (its statement commits what was converted), `ReadResults`, `Consolidate` up to its
commit, and a `Retire` per old store. `Raise` and `KeepOld` are
failing statements, `Die` a crash, `Start` the next start. A result is its version; the findings, the reports, several
of them, and `agent_result` may all have one for a link, and `Consolidated` is the code's choice: the finding, else what is saved,
else the first report, else `agent_result`. A checkpoint is the form it is written in and whether it says paused;
`Amended` puts lines behind it, `NewRow` is the row that is made for a checkpoint in `cases.agent_memory`.

`quiet` is an assumption on the operation, true or false in the initial state: the workers save only while the web
process serves, whatever is left to upgrade. It is what an operator gets who stops the workers for a start;
`docker-compose.yml` does not order the two. Where it is not enough, the properties say so: `NewestIsKept` excludes a
start that failed to copy and a drop of the findings that was passed over, `PauseIsReadable` the same of the to-do
entries; `RepeatsAgree` needs neither. That the findings are the newest of the old stores is an assumption on the earlier
version (`Finding`); of saved results, reports and `agent_result` none is assumed of the order in which the code prefers them.

The chain, which is split off in the same transaction, the creation of tables, and `verification_results` and
`agent_verification_plans`, which are dropped without being read (`migrations.py:305`, `:311`), are left out.

## Runs

All passing runs exhaust their state space. `CHECK_DEADLOCK FALSE` stands in every
configuration because the system may stop: once no pipeline or session runs and the user's
bounded requests are spent, nothing is left to happen.

| Run | Instance | Question and answer |
| --- | --- | --- |
| `restarts` | 2 workers, 2 links, 1 upload, 1 request, 1 fault of crash, sync, refresh | Do conclusions and scopes survive interruptions, and pauses and skips as long as no upload writes an outdated checkpoint back? Does a clear title agree with the results, and does a scoped run update the later ones, as long as nothing failed? They do. |
| `drain` | the same without upload, 1 fault of any kind | Is anything left behind: a task, a worker, a lock? No. Without a fault every run ends in an outcome. |
| `clear_title` | no fault | Does CLEAR_TITLE cover the chain? No: a resume verifies the paused link only and then declares the case done. |
| `session` | 2 sessions, 2 documents and a certificate, text of 2, 2 calls and 1 more, 2 tool calls a reply | Can any order of tool calls conclude over unread text, exceed the budget or go on forever? No. Is what a second session takes over from the first still read, and reported as it is? Yes. |
| `pipeline` | 2 documents, 2 pipelines, 1 retry per stage, 1 replacement each, 1 fault of crash, broker | One pipeline at a time, decided documents, data of the current file, a truthful "complete"? Yes. |
| `pipeline_ends` | the same without replacement, 1 fault of crash, final | Does a case leave processing? Yes. |
| `record` | 2 documents, 2 names, 3 saved files, 1 lost cache write, 1 refused upload, 1 eviction | Do uploads only add? Do totals, list, files and status page agree with the rows? Can a case at rest be worked on? Yes, within the conditions each property states. |
| `lock` | 3 objects, time to live 6, period 2, lag 1, 1 refused call, 1 forced release | Does the lock implement `Lease`? Do object, timer and key agree? Does the key of one who has ended come free? Yes. |
| `report` | 2 processes, 2 links, 3 saved results, 2 generations, 1 fault | Is what is offered as current current, and what is recorded complete? Is a part of a file left behind without a failure? Yes, yes and no. |
| `ocr` | 4 documents of 2 to 5 pages, chunks of 3 that share 1, 2 calls a chunk, 1 rerun | Is every page in the text once and in order? Are a table over two pages and a registration over any number whole again, and longer tables joined in pairs? Yes, where the service's numbers are right and no page is missing. |
| `ocr_dropped` | the same | Is the text of every complete chunk in the merged text? No: that of a later chunk without page objects or labels is dropped as a repetition. |
| `upgrade` | 2 links, 1 save, 1 further start, 2 faults | Does a start that is cut short or fails and is repeated give a link another result, or none? Does a result give way to an older one, is a pause misread, the upgrade never done? No, if workers keep out of starts and under the conditions each property states. |

The two runs that end in a counterexample quote, in `PROJECT.json`, the sentence of the
repository that the code departs from. Further ones are described under "Divergences".

Why the bounds suffice for these questions. Two workers give every pair of runs that can
overlap; with the lock, a third would only wait. Two links give a link and its upstream, a
paused link and one behind it. One upload and one or two requests give a user's action during
a run, in a pause and after the end. One fault is the failure the code is written against;
two independent ones are not covered by the runs. A text of two characters has a gap, an overlap, an end and a
beginning, and the theorem about the gate holds for every length. In the session, two calls
and an extension reach the limit in both ways an extension is granted. Two documents give a
case that is partly decided, one added later and one replaced beside the other, also while its chain or an upload is at work; that an upload of
several only adds is proved for every number. Three lock objects give an owner that lost its key, its
successor and one that waits. Documents of five pages give three chunks, a table over three
pages, and a last chunk without a page of its own. Two faults of the upgrade give a start
that failed and a repetition that died; one further start follows a drop that was passed over and a save
behind it. One retry of a
stage (the code has five) separates the first attempt, a retry and the last failure.
Safety of `CaseAgent` is checked up to permutation of the workers, of `CaseStore` up to that of the
names, which the specifications treat alike; liveness without symmetry.

Fairness. `CaseAgent`: the broker hands out a task when a worker is free, each worker that is
inside a task goes on (Celery runs it to the end or dies, which is a fault), Redis expires keys,
a started pipeline is finalised. `VerifySession`: a started session goes on, since a provider
call ends in a reply, an error or a timeout. `DocPipeline`: as long as a pipeline has a task,
some worker carries one on; one weak fairness condition on the disjunction of all task steps is
enough, because retries are bounded. `RedisLock`: time goes on, a timer thread and the calls of `acquire` and
`release` end; nobody has to release. `SchemaUpgrade`: a statement ends and the container is
restarted (`docker-compose.yml`). `CaseStore`, `FinalReport` and `OcrChunks` state safety only. No fairness is assumed of the user, of faults or of the
model's choices.

## Proofs

TLAPS checks these for every value of the constants, from the named assumptions in the
modules (positive bounds; the hard cap at least the budget; a refresh period well within the time to live).

* `CaseAgent_proofs`: `TypeCorrect`. The invariant adds to `TypeOK` that the loop variable of a
  run is at least 1 in the loop and a link wherever a link is used (without it `results[run.pos]`
  has no type), that no status is owed before a run is entered, and that an accepted upload waits while no pipeline runs.
  The rest of the module is every safety property of the agent, in two stages. `SkipHonoured` and `ScopeKept` hold if Redis neither refuses the lock call nor
  lets a held lock expire (`Exclusive`). `SafetyInv` says: a worker inside a task holds the lock
  (`Mutex`); as long as no upload wrote back an outdated checkpoint,
  a run's copy of the skips is the durable one (`CopyOK`), which besides takes mutual exclusion; the link under verification is in scope and not skipped (`TargetOK`); a
  skipped link waits for evidence, so no refresh selects it (`SkippedWait`); a refresh that will
  write back holds what is saved (`HoldingOK`). None of them is inductive alone.
  `ClearBacked`, `PauseActionable`, `RefreshReaches` and `ConclusionStands` need more, under the same condition:
  `RunInv` follows the run at work, place by place. `StatusOK`: the agent status, or the one that is owed, says running in the
  loop, and a verdict still to be mirrored is backed. `LinkOK`: the link at hand is in the chain,
  not skipped and due, and a fresh run is for a link with issues. `OnceOK`: a scoped run verifies once.
  `RefreshOK` is the loop invariant of the refresh: results up to its position record the upstream
  state as it is. `CkptOK`, `PausedOK` and `ClearOK` say of the case what the run establishes.
* `VerifySession_proofs`: `CompletedRead` rests on `FullyReadCovers`: ranges sorted by start without a gap
  that reach the end contain every character. Its proof takes a character no range contains and
  the smallest start behind it, by well-foundedness of `<`. `CitationsRead`, `BudgetKept` and `ReportsAgree`
  follow from `SessionInv`: calls within the allowance, the allowance within what was
  granted, full coverage only of what was shown, citations only of what was shown.
* `DocPipeline_proofs`: `TypeCorrect`, and `LockHeld`: if no finalizer is delivered again, a pipeline
  that may still write the case holds the pipeline lock. This is inductive given the types: a
  pipeline starts when the lock is free, when by the invariant no other is active, and gives
  the lock back on its way out.
  `StructuredMatches`, `FinalizedDecided` and `CompleteMeansComplete` hold if the user acts on
  unsupported documents only and no finalizer is delivered again (`Offered`). The first is what the
  interface offers; for a failed document that is replaced the property does not hold, because its OCR
  chunks stay on disk. `Sound` says what a task at each step of each stage may find: `TaskSound`
  relates the task to its document's row, `RowSound` the parts of a row to the files it had,
  `EndsDecided` and `NoneStranded` a chain that ended and one that goes on to the status left behind.
  That no other pipeline interferes is `LockHeld`. The third theorem adds what the finalizer carries
  from its count to its write (`Shown`).
* `CaseStore_proofs`: `TypeCorrect`, `RecordStaysConsistent`, `StaysOpen`, `UploadsAdd`. `StoreInv` has a part for each piece of
  state. Whatever fails: a path holds no file that was not stored, and a document, or what its last
  stage holds of it, lies under a name or its own number (`DocsOK`), a replacement that waits finds its file (`ReplacingOK`), no file is listed without its document (`ListOK`), what
  an upload passed its gate with still holds when its files are there (`SavingOK`), the cached total runs ahead of the
  documents by no more than what an upload may have counted twice (`TotalOK`), and the lock is held by an upload, a pipeline or for a
  refused upload, so that no two of them write the status (`LockOK`, with `PhaseOK` for a case that is deleted meanwhile). As long as no
  cache write was lost: the documents are numbered through, listed as they are, but for `reverted`, and counted once, and an upload that waits goes on
  after the last of them (`AgreeOK`), which is why it only adds although its files are stored after the check. `CompleteOK` follows the
  finalizer's outcome from its count to the status, and `CacheOK` says that the cached status is "processing" only while a
  pipeline is to write another. Lemmas show that the list made from the record, by rank, changes with the record as the
  code changes the cached list.
* `OcrChunks_proofs`: `TypeCorrect`, `EachPage`, `Splits`. `MergeInv` adds to the types that the text is what `MergeStage` makes of the chunks,
  so the rest is about functions of a state. Where the answers number the pages as the document does, the pages kept of all
  chunks are those read, each from the first chunk that has it (`FaithfulSet`); the list is in order (`FaithfulList`); joining moves a page to
  the one before it and never moves it twice (`JoinedBy`), so the text, built page by page, is always the pages up to the last one
  done (`TextInOrder`). `ChunksCover` finds the chunk of a page: the last one that starts at or before it. For the
  ledger `Whole` is the loop invariant: after the rows of `i` pages each entry is one registration so far, the last one that of page `i`.
  A second pass changes nothing, since all entries are dated (`DatedKept`).
  The functions defined by recursion (`Joined`, `Text`, `MergeSplitLedger`) are reasoned about through `Recursion`, which shows that such a
  function exists, and `Upwards`, which is induction for a set of numbers instead of an operator.
* `RedisLock_proofs`: `TypeCorrect`, `HoldersDoAgree`, and `LeaseImplemented`, the refinement. `Remaining` is the
  invariant: as long as Redis answers, an object in use owns the key, and the key's time left is at least
  what is left until its timer thread is overdue, plus a margin; each of `Hold`, `Renew` and `Rearm` restores it,
  and `Tick` cannot pass a thread that is late by `Lag`. So the key does not expire under a user, which is
  the guard of `Lease`'s `Free`. The remaining steps map by their definitions.
* `FinalReport_proofs`: `TypeCorrect`; `RecordSound`, from what each process has found out so far (`Progress`), with
  or without the lock, with `LeftWhole`, that a part of a file is left by a failure only; and `ServedCurrent`, which needs the lock: at most one process is inside (`LockInv`),
  and readings are ordered by age, row, PDF, results (`AgeInv`), also while the PDF is written. A row equal to the results then
  forces the PDF in between to be equal too.
* `SchemaUpgrade_proofs`: `TypeCorrect`; `RepeatsGiveTheSame` from `Settled`: what a start read is still there when it
  writes, and from its commit on every link has the result it comes by, so no drop takes anything; `NewestKept`, which adds
  that no finding is left where workers save (`FindingsFirst`, `Numbered`); `PauseReadable` from `CheckpointOK`, that no to-do
  entry is left where there is a checkpoint of this version.

Every invariant and every action property of a passing run is a theorem. Liveness under fairness
(`RunsEnd`, `WorkDrains`, `SessionEnds`, `PipelineEnds`, `KeyIsFreed`, `StartsEnd`) is only model-checked: it needs `ENABLED`,
which is beyond the prover. What four of them rest on is proved, that the work there is runs out, by a number that every step of it lowers:

* `CaseAgent_proofs!RunShortens`: a run takes at most `6 * MaxLinks + 23` steps. Its place and the links ahead of it (`Rest`)
  give the number, twice over, since each may leave a status to write. Other runs, uploads, skips and faults change the results and the chain from which the loop (`Due`) and the
  refresh (`Stale`) select, but both only go forward, so none of them lengthens a run. It needs only the types, not the lock.
* `VerifySession_proofs!SessionShortens`: the calls left under the hard cap, each with as many tool calls as a reply may have,
  and the answers still due to the reply at hand.
* `DocPipeline_proofs!PipelineShortens`: for each chain the stages, retries and steps left, for each finalizer its steps
  left. Nothing but a fault raises either; in particular a start leaves the pipelines at work alone, since it uses one that is idle
  (`PlacesOK`). It assumes nothing of the user or of redelivery.
* `SchemaUpgrade_proofs!StartsShorten` for the start of the web process with its faults and repetitions, and `ServingIsUpgraded`: when it
  serves and no statement failed, nothing is left to upgrade. `Behind` says what has been dropped by the place a start has come to.

What these leave to TLC is that the next step can always be taken and, by fairness, is.

The counterexamples of the two runs that end in a violation are TLC's alone. No module uses RECURSIVE operators; what is
recursive in the code is a recursive function.

## Divergences

Where the code does something its documents, comments or tests do not say, or that a reader would not
expect. The first two are runs; the others were found with the same models, by stating the
stronger property, and are why the properties have the conditions they have.

* A resume verifies the paused link only and then declares the case done (run `clear_title`).
* The text of a later OCR chunk without page objects or labels is dropped (run `ocr_dropped`).
* `ARCHITECTURE.md:1048` "A worker crash loses nothing but resumes exactly at the checkpoint": the task is delivered again while the
  dead worker's lock is still in Redis, is acknowledged as busy (`cleartitle_agent.py:403-405`), and
  `agent_status` stays "running" until the user asks again.
* `routers/cases.py:459` "Carry an explicit user-selected skipped transaction through document processing": a run that is under way
  saves its older copy of the whole checkpoint over the marker (`cleartitle_agent.py:816-820`), and the
  finalizer queues an ordinary analysis. In the other direction the upload, with or without a link, reads the whole checkpoint
  (`cases.py:463`, `:468`) and writes it back (`:465`, `:470`): a pause the run saves in between is lost while
  `agent_status` says "paused", and resume and skip then refuse what the user does; a skip that a retry or an analysis took out in between is
  back, and a link that counts as skipped is verified. `PauseIsActionable` and `SkipIsHonoured` exclude what follows such a write.
* `cleartitle_agent.py:735` "Statements, citations, statuses, and verified_at are untouched": a second run that goes on without the lock
  (`cleartitle_agent.py:406-408`) can conclude a link between the refresh's read and its write,
  which puts the older result back whole (`:758-786`).
* `ARCHITECTURE.md:297-300` on `/skip`: the status of an unsupported document is written by the stage (`stages.py:267`) and, after its
  exception, once more by the wrapper (`idempotency.py:84-89`), over a skip made in between.
* `CURRENT_SYSTEM_ARCHITECTURE_AUDIT.md:100,133`, the lock "guards concurrent processing" and the finalizer is "idempotent": delivered
  again it deletes the lock of a pipeline started since (`finalize.py:66`), and a third pipeline can run beside the second.
* `state_store.py:7-8` "a Redis outage never blocks the pipeline": one lost write of the final status leaves "processing" in the
  cache, which the endpoints read first, and process and upload answer 409 from then on (`cases.py:217-222`, `:407-411`).
* `document_repo.py:81` "atomic file_paths merge (no read-modify-write race)": the last stage of a chain reads all paths and writes all of
  them back (`stages.py:357-372`), "raw" too. A document replaced in between gets its earlier path again: it is served, and
  processed, from the old file, and row and cached list disagree until it is replaced once more (`reverted`).
* `ocr_merger.py:141-143`, `ARCHITECTURE.md:544-547` and `CURRENT_SYSTEM_ARCHITECTURE_AUDIT.md:126` on tables that a page break
  splits: of a table over three pages the second page is joined to the first and emptied (`ocr_merger.py:149-151`), so the third no longer follows an
  open table and stays apart. `TablesAreJoined` says pairs for that reason.
* `cases.py:549` "Serve the original uploaded PDF": two uploads of one name have one path (`file_utils.py:29-32`); the first
  document is served, and processed, with the second one's bytes.
* `final_report.py:258-259`, readiness "is re-checked inside the per-case lock": the agent does not take that lock, and the
  synthesis reads the chain again (`:414`) after the check (`:282`): a report can list a link without a result.
* `final_report.py:306` "success only after persist": the PDF before it is emptied and written in place (`:305`). While a report is made
  again from the same results, and after a death in the middle, the earlier row offers a part of a file as current.
* `migrations.py:147-148` "Every transaction result is copied": of several reports of a case the first has precedence for a link, not the
  last, and `agent_result` counts only for links that are in none (`:267-291`); the others are dropped with their stores.
  `verification_results` and `agent_verification_plans` are dropped without being read (`:305`, `:311`).
* `migrations.py:244-299`: the results are read without a lock and written back whole at every start of the web
  process, also when nothing is left to upgrade. A result a worker saves in between is lost. That is the case `quiet` excludes.
* `migrations.py:304` "only after the copy above succeeds": a drop that fails is passed over (`:305-316`). The web process serves, workers
  save, and the next start puts a finding that was left over the newer result (`:264-265`), or appends the to-do lines to
  a checkpoint this version writes as JSON (`:225-242`); that is then read as lines (`agent_repo.py:137-183`), and a pause in it is not seen.
* `migrations.py:208-223` carries over the progress and the next action of a checkpoint in `cases.agent_memory` and drops the
  rest with the column: a case that was paused there is not paused any more. `:182-206`, for the column of `case_memory`, keeps the pause, but not the
  marker of an evidence retry.
* `README.md:138` "Outstanding evidence requests (only while paused)": a field the model leaves out is inherited in any status (`agent_tools.py:866-868`).
* `README.md:139` calls `reviewed_document_ids` documents whose full text was reviewed: it collects every selected one (`agent_tools.py:854`).

## Not modelled

* `llm/agent_llm.py`: conversion of messages and a retry loop without state. A reply or an error is an input of `VerifySession`.
* `llm/rate_limiter.py`: one atomic script of arithmetic on real time. Its callers ignore its answer (`agent_llm.py:147`), so
  nothing else depends on it.
* `document_processor.py`, `services/schemas/`, prompts: functions of one document and of a model's answer, without state.
* `services/auth.py`, `routers/auth.py`, linking a case to an account: no other component's state depends on the owner.
* Views, PDF layout, the activity log, image processing, the frontend, the demonstration data, connection pools, creation of tables.
* In `agent_tools.py` the Phase A session, which builds the chain with other tools in the same loop; its outcome, a chain, is an input.
* Faults left out: errors of MySQL other than those named as faults, a death of the web process inside a request in `CaseAgent` and `CaseStore`, a partly queued chord, the pipeline lock expiring under
  a running pipeline in `DocPipeline`, suspended processes beyond `Lag`.
