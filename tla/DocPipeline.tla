----------------------------- MODULE DocPipeline -----------------------------
(***************************************************************************)
(* The document pipeline of one case: the endpoints that start it under    *)
(* the pipeline lock, the chain of six stage tasks of every document, each *)
(* wrapped by idempotent_stage, and the finalizer that runs when all       *)
(* chains have ended.  Beside them the user replaces or skips documents,   *)
(* and workers die and their tasks are delivered again.                    *)
(*                                                                         *)
(* A document's data is modelled by the file it was made from: the first   *)
(* upload is version 1, every replacement one more.                        *)
(***************************************************************************)
EXTENDS Integers

CONSTANTS
    Docs,             \* documents a case may come to hold
    Initial,          \* the documents of the first upload
    ActsOn,           \* statuses in which the user replaces or skips a document
    MaxRetries,       \* retries of a stage task (max_retries)
    MaxPipelines,     \* bound: pipelines started
    MaxReplacements,  \* bound: replacements of a document
    MaxFaults,        \* bound: faults of the environment
    FaultKinds        \* the faults that may happen, a subset of AllFaults

\* The statuses of a document, as in the enumeration Stage: stage k is entered
\* with 2k - 1 and completed with 2k; the others are negative.
Stages == 1 .. 6
UPLOADED == 0
STRUCTURED == 12
FAILED == -1
CLASSIFICATION_FAILED == -2
SKIPPED == -3
PENDING_RETRY == -4
ABSENT == -5
Statuses == ABSENT .. STRUCTURED

Entry(k) == 2 * k - 1
Complete(k) == 2 * k

\* crash: a worker dies in a stage task; final: a worker dies in the finalizer;
\* broker: the tasks of a pipeline cannot be queued.
AllFaults == {"crash", "final", "broker"}

ASSUME DocsAssumption == Initial \subseteq Docs
ASSUME EnvironmentAssumption ==
    /\ ActsOn \subseteq Statuses \ {ABSENT}
    /\ FaultKinds \subseteq AllFaults
ASSUME BoundsAssumption ==
    /\ MaxRetries \in Nat /\ MaxPipelines \in Nat
    /\ MaxReplacements \in Nat /\ MaxFaults \in Nat

VARIABLES
    docs,       \* the rows of the documents table
    caseStatus, \* cases.status
    cached,     \* the same status in Redis, which the endpoints look at
    lock,       \* the pipeline lock: the pipeline that holds it, 0 when free
    started,    \* pipelines started
    jobs,       \* the chain of every document in every pipeline
    phase,      \* where every pipeline stands
    final,      \* the case status a finalizer has computed
    replaced,   \* replacements of every document
    faults      \* faults of the environment so far

vars == <<docs, caseStatus, cached, lock, started, jobs, phase, final, replaced, faults>>

Pipelines == 1 .. MaxPipelines
Versions == 0 .. MaxReplacements + 1
CaseStatuses == {"uploaded", "processing", "complete", "partial", "failed"}

\* file: the raw PDF; prep: the preprocessed one; chunks: the OCR output on disk;
\* text: merged_ocr_text; type: document_type; structured: structured_data.
Rows == [status: Statuses, file: Versions, prep: Versions, chunks: Versions,
         text: Versions, type: Versions, structured: Versions]
NoRow == [status |-> ABSENT, file |-> 0, prep |-> 0, chunks |-> 0,
          text |-> 0, type |-> 0, structured |-> 0]
NewRow == [NoRow EXCEPT !.status = UPLOADED, !.file = 1]

\* stage: the task of the chain that is next, 7 when the chain has ended, 0 when
\* the document is not in the pipeline; step: how far the task is; input: the row
\* as the stage read it.
Steps == {"check", "enter", "body", "complete", "retry", "reject", "give_up"}
Jobs == [stage: 0 .. 7, step: Steps, retries: 0 .. MaxRetries, input: Rows]
Job(stage) == [stage |-> stage, step |-> "check", retries |-> 0, input |-> NoRow]
NoJobs == [d \in Docs |-> Job(0)]

TypeOK ==
    /\ docs \in [Docs -> Rows]
    /\ caseStatus \in CaseStatuses /\ cached \in CaseStatuses
    /\ lock \in 0 .. MaxPipelines
    /\ started \in 0 .. MaxPipelines
    /\ jobs \in [Pipelines -> [Docs -> Jobs]]
    /\ phase \in [Pipelines -> {"idle", "chains", "status", "release", "queue"}]
    /\ final \in [Pipelines -> CaseStatuses]
    /\ replaced \in [Docs -> 0 .. MaxReplacements]
    /\ faults \in 0 .. MaxFaults

\* A case whose first documents were uploaded.
Init ==
    /\ docs = [d \in Docs |-> IF d \in Initial THEN NewRow ELSE NoRow]
    /\ caseStatus = "uploaded" /\ cached = "uploaded"
    /\ lock = 0
    /\ started = 0
    /\ jobs = [p \in Pipelines |-> NoJobs]
    /\ phase = [p \in Pipelines |-> "idle"]
    /\ final = [p \in Pipelines |-> "processing"]
    /\ replaced = [d \in Docs |-> 0]
    /\ faults = 0

Fault(kind) == kind \in FaultKinds /\ faults < MaxFaults /\ faults' = faults + 1

Count(rows, statuses) == \E d \in Docs : rows[d].status \in statuses

----------------------------------------------------------------------------
\* Starting a pipeline

\* A chain from stage first[d] on for every document, 0 for none, and the case
\* in processing; or the tasks cannot be queued, the lock is given back and the
\* case has failed.
Launch(first) ==
    \/ /\ started < MaxPipelines
       /\ started' = started + 1
       /\ lock' = started'
       /\ phase' = [phase EXCEPT ![started'] = "chains"]
       /\ jobs' = [jobs EXCEPT ![started'] = [d \in Docs |-> Job(first[d])]]
       /\ caseStatus' = "processing" /\ cached' = "processing"
       /\ UNCHANGED faults
    \/ /\ Fault("broker")
       /\ caseStatus' = "failed" /\ cached' = "failed"
       /\ UNCHANGED <<started, lock, phase, jobs>>

\* The whole chain for every document that is not structured or skipped.
FullChains(rows) ==
    [d \in Docs |-> IF rows[d].status \in {ABSENT, STRUCTURED, SKIPPED} THEN 0 ELSE 1]

\* Variant: the lock is not asked for.
Admitted_Unlocked == cached # "processing"

\* process and upload need the lock and a case that is not in processing.
Admitted == lock = 0 /\ cached # "processing"

ProcessCase ==
    /\ Admitted
    /\ Launch(FullChains(docs))
    /\ UNCHANGED <<docs, final, replaced>>

UploadMore(d) ==
    /\ docs[d].status = ABSENT
    /\ Admitted
    /\ docs' = [docs EXCEPT ![d] = NewRow]
    /\ Launch(FullChains(docs'))
    /\ UNCHANGED <<final, replaced>>

\* The stage a retry starts from, by what is in the row.
ResumeStage(row) ==
    CASE row.structured # 0 /\ row.type # 0 -> 6
      [] row.structured = 0 /\ row.type # 0 /\ row.text # 0 -> 5
      [] row.type = 0 /\ row.text # 0 -> 4
      [] OTHER -> 1

\* retry needs the lock and a document that has failed; a case in processing is
\* refused only when a document is preprocessed or structured at the moment.
RetryFailed ==
    LET failed == {d \in Docs : docs[d].status \in {FAILED, PENDING_RETRY}}
    IN  /\ lock = 0 /\ failed # {}
        /\ cached = "processing" => ~Count(docs, {Entry(1), Entry(5)})
        /\ docs' = [d \in Docs |-> IF d \in failed THEN [docs[d] EXCEPT !.status = PENDING_RETRY]
                                   ELSE docs[d]]
        /\ Launch([d \in Docs |-> IF d \in failed THEN ResumeStage(docs[d]) ELSE 0])
        /\ UNCHANGED <<final, replaced>>

----------------------------------------------------------------------------
\* What the user does to a document

\* Variant: the text of the old file is kept.
Cleared_KeepsText(row) ==
    [row EXCEPT !.status = FAILED, !.prep = 0, !.type = 0, !.structured = 0]

\* The row without what was made from the old file; the chunks are on disk.
Cleared(row) ==
    [row EXCEPT !.status = FAILED, !.prep = 0, !.text = 0, !.type = 0, !.structured = 0]

ReplaceDocument(d) ==
    /\ docs[d].status \in ActsOn
    /\ replaced[d] < MaxReplacements
    /\ replaced' = [replaced EXCEPT ![d] = @ + 1]
    /\ docs' = [docs EXCEPT ![d] = [Cleared(@) EXCEPT !.file = replaced'[d] + 1]]
    /\ UNCHANGED <<caseStatus, cached, lock, started, jobs, phase, final, faults>>

\* update_case_status, in the database only.
UpdatedStatus(rows) ==
    IF Count(rows, {FAILED, CLASSIFICATION_FAILED}) THEN "partial"
    ELSE IF \A d \in Docs : rows[d].status \in {ABSENT, STRUCTURED, SKIPPED} THEN "complete"
    ELSE "processing"

SkipDocument(d) ==
    /\ docs[d].status \in ActsOn
    /\ docs' = [docs EXCEPT ![d].status = SKIPPED]
    /\ caseStatus' = UpdatedStatus(docs')
    /\ UNCHANGED <<cached, lock, started, jobs, phase, final, replaced, faults>>

----------------------------------------------------------------------------
\* A stage task: idempotent_stage around the stage's body

Step(p, d, job) == jobs' = [jobs EXCEPT ![p][d] = job]
SetRow(d, row) == docs' = [docs EXCEPT ![d] = row]

At(p, d, step) == jobs[p][d].stage \in Stages /\ jobs[p][d].step = step

\* The chain goes on with its next task.
Ended(p, d) == Step(p, d, Job(jobs[p][d].stage + 1))

caseVars == <<caseStatus, cached, lock, started, phase, final, replaced>>

\* The task has nothing to do: the document failed, was skipped, or is past the stage.
Passed(status, job) ==
    \/ status = CLASSIFICATION_FAILED
    \/ status = FAILED /\ job.retries = 0
    \/ status = SKIPPED \/ status >= Complete(job.stage)

Check(p, d) ==
    /\ At(p, d, "check")
    /\ IF Passed(docs[d].status, jobs[p][d])
       THEN Ended(p, d)
       ELSE Step(p, d, [jobs[p][d] EXCEPT !.step = "enter"])
    /\ UNCHANGED <<docs, caseVars, faults>>

\* The entry status is written, whatever the row says by now, and the stage reads the row.
Enter(p, d) ==
    LET row == [docs[d] EXCEPT !.status = Entry(jobs[p][d].stage)]
    IN  /\ At(p, d, "enter")
        /\ SetRow(d, row)
        /\ Step(p, d, [jobs[p][d] EXCEPT !.step = "body", !.input = row])
        /\ UNCHANGED <<caseVars, faults>>

\* A stage finds what it works on.
Ready(stage, row) ==
    CASE stage \in {1, 2} -> TRUE
      [] stage = 3 -> row.chunks # 0
      [] stage = 4 -> row.text # 0
      [] stage = 5 -> row.type # 0 /\ row.text # 0
      [] stage = 6 -> row.type # 0 /\ row.structured # 0

\* What a stage that succeeds writes: the last one writes back what it read.
Output(stage, row, input) ==
    CASE stage = 1 -> [row EXCEPT !.status = Complete(1), !.prep = input.file]
      [] stage = 2 -> [row EXCEPT !.status = Complete(2),
                                  !.chunks = IF input.prep # 0 THEN input.prep ELSE input.file]
      [] stage = 3 -> [row EXCEPT !.status = Complete(3), !.text = input.chunks]
      [] stage = 4 -> [row EXCEPT !.status = Complete(4), !.type = input.text]
      [] stage = 5 -> [row EXCEPT !.status = Entry(5), !.type = input.type,
                                  !.structured = input.text]
      [] stage = 6 -> [row EXCEPT !.status = Complete(6), !.type = input.type,
                                  !.structured = input.structured,
                                  !.file = input.file, !.prep = input.prep]

Body(p, d, row, next) ==
    /\ At(p, d, "body")
    /\ SetRow(d, row)
    /\ Step(p, d, [jobs[p][d] EXCEPT !.step = next])
    /\ UNCHANGED <<caseVars, faults>>

Succeed(p, d) ==
    LET job == jobs[p][d]
    IN  /\ At(p, d, "body") /\ Ready(job.stage, job.input)
        /\ Body(p, d, Output(job.stage, docs[d], job.input), "complete")

\* The stage's own handler records the failure and raises it again.
FailHandled(p, d) ==
    LET job == jobs[p][d]
    IN  /\ job.stage \in 2 .. 5
        /\ job.stage = 3 => job.input.chunks # 0
        /\ job.stage = 5 => job.input.type # 0
        /\ Body(p, d, [docs[d] EXCEPT !.status = FAILED,
                                      !.type = IF job.stage = 5 THEN job.input.type ELSE @], "retry")

\* An error outside the stage's own handler, such as a row that cannot be read.
Raise(p, d) == Body(p, d, docs[d], "retry")

\* The type of the document is not supported: no retry.
Unsupported(p, d) ==
    /\ jobs[p][d].stage = 4 /\ jobs[p][d].input.text # 0
    /\ Body(p, d, [docs[d] EXCEPT !.status = CLASSIFICATION_FAILED, !.type = jobs[p][d].input.text],
            "reject")

\* The OCR provider's credits are used up: no retry.
OutOfCredits(p, d) ==
    /\ jobs[p][d].stage = 2
    /\ Body(p, d, [docs[d] EXCEPT !.status = FAILED], "give_up")

\* The wrapper's own write at the end of the task, whatever the row says by now.
Settled(p, d, step, status) ==
    /\ At(p, d, step)
    /\ SetRow(d, [docs[d] EXCEPT !.status = status])
    /\ Ended(p, d)
    /\ UNCHANGED <<caseVars, faults>>

CompleteStage(p, d) == Settled(p, d, "complete", Complete(jobs[p][d].stage))
RejectType(p, d) == Settled(p, d, "reject", CLASSIFICATION_FAILED)
GiveUpOcr(p, d) == Settled(p, d, "give_up", FAILED)

\* Variant: the last failure is raised like the others and leaves the row alone.
Exhausted_Silent(p, d) ==
    /\ jobs[p][d].retries = MaxRetries
    /\ At(p, d, "retry")
    /\ Ended(p, d)
    /\ UNCHANGED <<docs, caseVars, faults>>

Exhausted(p, d) ==
    /\ jobs[p][d].retries = MaxRetries
    /\ Settled(p, d, "retry", FAILED)

\* Variant: the retry is not counted.
RetryStage_Uncounted(p, d) ==
    /\ At(p, d, "retry") /\ jobs[p][d].retries < MaxRetries
    /\ Step(p, d, [Job(jobs[p][d].stage) EXCEPT !.retries = jobs[p][d].retries])
    /\ UNCHANGED <<docs, caseVars, faults>>

\* Variant: the retries are not limited.
RetryStage_Unlimited(p, d) ==
    /\ At(p, d, "retry")
    /\ Step(p, d, [Job(jobs[p][d].stage) EXCEPT !.retries = jobs[p][d].retries + 1])
    /\ UNCHANGED <<docs, caseVars, faults>>

\* Celery delivers the task again.
RetryStage(p, d) ==
    /\ At(p, d, "retry") /\ jobs[p][d].retries < MaxRetries
    /\ Step(p, d, [Job(jobs[p][d].stage) EXCEPT !.retries = jobs[p][d].retries + 1])
    /\ UNCHANGED <<docs, caseVars, faults>>

\* The worker dies: the task is delivered again with the retries it had.
CrashStage(p, d) ==
    /\ jobs[p][d].stage \in Stages /\ jobs[p][d].step # "check"
    /\ Fault("crash")
    /\ Step(p, d, [Job(jobs[p][d].stage) EXCEPT !.retries = jobs[p][d].retries])
    /\ UNCHANGED <<docs, caseVars>>

----------------------------------------------------------------------------
\* The finalizer

ChainsEnded(p) == \A d \in Docs : jobs[p][d].stage \in {0, 7}

\* Variant: a classification failure is no failure.
FinalStatus_FailedOnly ==
    IF Count(docs, {FAILED}) THEN
        IF Count(docs, {STRUCTURED}) THEN "partial" ELSE "failed"
    ELSE "complete"

FinalStatus ==
    IF Count(docs, {FAILED, CLASSIFICATION_FAILED}) THEN
        IF Count(docs, {STRUCTURED}) THEN "partial" ELSE "failed"
    ELSE "complete"

\* Recompute the counts and compute the status.
FinalCount(p) ==
    /\ phase[p] = "chains" /\ ChainsEnded(p)
    /\ caseStatus' = UpdatedStatus(docs)
    /\ final' = [final EXCEPT ![p] = FinalStatus]
    /\ phase' = [phase EXCEPT ![p] = "status"]
    /\ UNCHANGED <<docs, cached, lock, started, jobs, replaced, faults>>

FinalWrite(p) ==
    /\ phase[p] = "status"
    /\ caseStatus' = final[p] /\ cached' = final[p]
    /\ phase' = [phase EXCEPT ![p] = "release"]
    /\ UNCHANGED <<docs, lock, started, jobs, final, replaced, faults>>

\* The lock is deleted whoever holds it.
FinalRelease(p) ==
    /\ phase[p] = "release"
    /\ lock' = 0
    /\ phase' = [phase EXCEPT ![p] = "queue"]
    /\ UNCHANGED <<docs, caseStatus, cached, started, jobs, final, replaced, faults>>

\* The agent's task is queued (CaseAgent) and the pipeline is over.
FinalQueue(p) ==
    /\ phase[p] = "queue"
    /\ phase' = [phase EXCEPT ![p] = "idle"]
    /\ jobs' = [jobs EXCEPT ![p] = NoJobs]
    /\ final' = [final EXCEPT ![p] = "processing"]
    /\ UNCHANGED <<docs, caseStatus, cached, lock, started, replaced, faults>>

\* The worker dies in the finalizer, which is delivered again from its start.
CrashFinal(p) ==
    /\ phase[p] \in {"status", "release", "queue"}
    /\ Fault("final")
    /\ phase' = [phase EXCEPT ![p] = "chains"]
    /\ UNCHANGED <<docs, caseStatus, cached, lock, started, jobs, final, replaced>>

----------------------------------------------------------------------------

Stage(p, d) ==
    \/ Check(p, d) \/ Enter(p, d) \/ Succeed(p, d) \/ FailHandled(p, d) \/ Raise(p, d)
    \/ Unsupported(p, d) \/ OutOfCredits(p, d) \/ CompleteStage(p, d) \/ RejectType(p, d)
    \/ GiveUpOcr(p, d) \/ Exhausted(p, d) \/ RetryStage(p, d)

Finalize(p) == FinalCount(p) \/ FinalWrite(p) \/ FinalRelease(p) \/ FinalQueue(p)

Next ==
    \/ ProcessCase \/ RetryFailed
    \/ \E d \in Docs : UploadMore(d) \/ ReplaceDocument(d) \/ SkipDocument(d)
    \/ \E p \in Pipelines, d \in Docs : Stage(p, d) \/ CrashStage(p, d)
    \/ \E p \in Pipelines : Finalize(p) \/ CrashFinal(p)

Spec == Init /\ [][Next]_vars

\* As long as a pipeline has a task, some worker carries a task on.
Work == \E p \in Pipelines : Finalize(p) \/ \E d \in Docs : Stage(p, d)

FairSpec == Spec /\ WF_vars(Work)

----------------------------------------------------------------------------
\* Properties

\* A pipeline whose chains or finalizer may still write the case.
Active(p) == phase[p] \in {"chains", "status", "release"}

\* A pipeline at work holds the lock, so there is never a second one.
ActiveHoldsLock == \A p \in Pipelines : Active(p) => lock = p

\* What a structured document shows was made, at every stage, from the file the
\* user gave last, whatever was replaced, retried from a checkpoint or delivered
\* again (replace_document, _resume_stage).
StructuredMatchesFile ==
    \A d \in Docs : docs[d].status = STRUCTURED =>
        /\ docs[d].file = replaced[d] + 1
        /\ docs[d].text = docs[d].file
        /\ docs[d].type = docs[d].file
        /\ docs[d].structured = docs[d].file

\* When a finalizer counts, every document of its pipeline is decided: none is
\* left inside a stage however its tasks failed or were delivered again.
FinalizedIsDecided ==
    \A p \in Pipelines : phase[p] = "status" =>
        \A d \in Docs : jobs[p][d].stage # 0 =>
            docs[d].status \in {STRUCTURED, FAILED, CLASSIFICATION_FAILED, SKIPPED}

\* Once the pipelines are over, a case is shown as complete only when no document
\* waits for the user, whatever was skipped or replaced while they ran.
CompleteIsComplete ==
    caseStatus = "complete" /\ (\A p \in Pipelines : ~Active(p))
        => ~Count(docs, {FAILED, CLASSIFICATION_FAILED})

\* A case does not stay in processing.
PipelineEnds == cached = "processing" ~> cached # "processing"

=============================================================================
