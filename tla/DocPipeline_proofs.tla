-------------------------- MODULE DocPipeline_proofs --------------------------
(***************************************************************************)
(* What holds of DocPipeline for every set of documents and every number   *)
(* of pipelines, retries, replacements and faults.  First its types and    *)
(* its lock; then the safety that rests on both: what a finalizer finds,   *)
(* what a structured document was made from, and what a complete case      *)
(* leaves to the user.                                                     *)
(***************************************************************************)
EXTENDS DocPipeline, TLAPS

LEMMA BoundsFacts ==
    /\ MaxRetries \in Nat /\ MaxPipelines \in Nat
    /\ MaxReplacements \in Nat /\ MaxFaults \in Nat
BY BoundsAssumption

LEMMA StatusFacts ==
    /\ ABSENT \in Statuses /\ UPLOADED \in Statuses /\ STRUCTURED \in Statuses
    /\ FAILED \in Statuses /\ CLASSIFICATION_FAILED \in Statuses
    /\ SKIPPED \in Statuses /\ PENDING_RETRY \in Statuses
    /\ \A k \in Stages : Entry(k) \in Statuses /\ Complete(k) \in Statuses
BY DEF ABSENT, UPLOADED, STRUCTURED, FAILED, CLASSIFICATION_FAILED, SKIPPED, PENDING_RETRY,
       Statuses, Stages, Entry, Complete

LEMMA RecordFacts ==
    /\ NoRow \in Rows /\ NewRow \in Rows
    /\ \A s \in 0 .. 7 : Job(s) \in Jobs
    /\ NoJobs \in [Docs -> Jobs]
<1>1. NoRow \in Rows /\ NewRow \in Rows
  <2>1. 0 \in Versions /\ 1 \in Versions
    BY BoundsFacts DEF Versions
  <2>2. NoRow \in Rows
    BY <2>1, StatusFacts DEF NoRow, Rows
  <2> QED BY <2>1, <2>2, StatusFacts DEF NewRow, Rows
<1>2. \A s \in 0 .. 7 : Job(s) \in Jobs
  BY <1>1, BoundsFacts DEF Job, Jobs, Steps
<1> QED BY <1>1, <1>2 DEF NoJobs

----------------------------------------------------------------------------
\* The values a step writes

\* A task record after a step: moved on, delivered again, or the next in the chain.
LEMMA NextJobs ==
    ASSUME NEW job \in Jobs, job.stage \in Stages
    PROVE  /\ \A s \in Steps : [job EXCEPT !.step = s] \in Jobs
           /\ \A r \in Rows : [job EXCEPT !.step = "body", !.input = r] \in Jobs
           /\ Job(job.stage + 1) \in Jobs
           /\ [Job(job.stage) EXCEPT !.retries = job.retries] \in Jobs
           /\ job.retries < MaxRetries =>
                [Job(job.stage) EXCEPT !.retries = job.retries + 1] \in Jobs
<1>1. job.stage + 1 \in 0 .. 7 /\ job.stage \in 0 .. 7
  BY DEF Stages
<1>2. Job(job.stage + 1) \in Jobs /\ Job(job.stage) \in Jobs
  BY <1>1, RecordFacts
<1>3. job.retries < MaxRetries => job.retries + 1 \in 0 .. MaxRetries
  BY BoundsFacts DEF Jobs
<1> QED BY <1>2, <1>3 DEF Jobs, Steps

LEMMA RowWithStatus ==
    ASSUME NEW row \in Rows, NEW s \in Statuses
    PROVE  [row EXCEPT !.status = s] \in Rows
BY DEF Rows

LEMMA ClearedIsRow ==
    ASSUME NEW row \in Rows
    PROVE  Cleared(row) \in Rows
<1>1. 0 \in Versions
  BY BoundsFacts DEF Versions
<1> QED BY <1>1, StatusFacts DEF Cleared, Rows

LEMMA OutputIsRow ==
    ASSUME NEW k \in Stages, NEW row \in Rows, NEW input \in Rows
    PROVE  Output(k, row, input) \in Rows
<1>1. k \in {1, 2, 3, 4, 5, 6}
  BY DEF Stages
<1>2. \A s \in Stages : Entry(s) \in Statuses /\ Complete(s) \in Statuses
  BY StatusFacts
<1>3. 1 \in Stages /\ 2 \in Stages /\ 3 \in Stages /\ 4 \in Stages /\ 5 \in Stages /\ 6 \in Stages
  BY DEF Stages
<1>4. CASE k = 1
  BY <1>2, <1>3, <1>4 DEF Output, Rows
<1>5. CASE k = 2
  BY <1>2, <1>3, <1>5 DEF Output, Rows
<1>6. CASE k = 3
  BY <1>2, <1>3, <1>6 DEF Output, Rows
<1>7. CASE k = 4
  BY <1>2, <1>3, <1>7 DEF Output, Rows
<1>8. CASE k = 5
  BY <1>2, <1>3, <1>8 DEF Output, Rows
<1>9. CASE k = 6
  BY <1>2, <1>3, <1>9 DEF Output, Rows
<1> QED BY <1>1, <1>4, <1>5, <1>6, <1>7, <1>8, <1>9

----------------------------------------------------------------------------
\* Type correctness

THEOREM TypeInit == Init => TypeOK
<1> SUFFICES ASSUME Init PROVE TypeOK
  OBVIOUS
<1>1. docs \in [Docs -> Rows] /\ jobs \in [Pipelines -> [Docs -> Jobs]]
  BY RecordFacts DEF Init
<1>2. /\ lock \in 0 .. MaxPipelines /\ started \in 0 .. MaxPipelines /\ faults \in 0 .. MaxFaults
      /\ replaced \in [Docs -> 0 .. MaxReplacements]
  BY BoundsFacts DEF Init
<1>3. /\ caseStatus \in CaseStatuses /\ cached \in CaseStatuses
      /\ phase \in [Pipelines -> {"idle", "chains", "status", "release", "queue"}]
      /\ final \in [Pipelines -> CaseStatuses]
  BY DEF Init, CaseStatuses
<1> QED BY <1>1, <1>2, <1>3 DEF TypeOK

\* Starting a pipeline writes what the type invariant allows, in both outcomes.
LEMMA LaunchType ==
    ASSUME TypeOK, NEW first \in [Docs -> 0 .. 7], Launch(first)
    PROVE  /\ started' \in 0 .. MaxPipelines /\ lock' \in 0 .. MaxPipelines
           /\ phase' \in [Pipelines -> {"idle", "chains", "status", "release", "queue"}]
           /\ jobs' \in [Pipelines -> [Docs -> Jobs]]
           /\ caseStatus' \in CaseStatuses /\ cached' \in CaseStatuses
           /\ faults' \in 0 .. MaxFaults
<1>1. CASE started' = started + 1 /\ started < MaxPipelines /\ Launch(first)
  <2>1. [d \in Docs |-> Job(first[d])] \in [Docs -> Jobs]
    BY RecordFacts
  <2> QED BY <1>1, <2>1, BoundsFacts DEF Launch, TypeOK, CaseStatuses, Fault
<1>2. CASE Fault("broker") /\ UNCHANGED <<started, lock, phase, jobs>>
           /\ caseStatus' = "failed" /\ cached' = "failed"
  BY <1>2, BoundsFacts DEF Fault, TypeOK, CaseStatuses
<1> QED BY <1>1, <1>2 DEF Launch

LEMMA FirstStages ==
    /\ \A rows : FullChains(rows) \in [Docs -> 0 .. 7]
    /\ \A row : ResumeStage(row) \in 0 .. 7
BY DEF FullChains, ResumeStage

\* One task of one document moves.
LEMMA StepType ==
    ASSUME TypeOK, NEW p \in Pipelines, NEW d \in Docs, NEW job \in Jobs, Step(p, d, job)
    PROVE  jobs' \in [Pipelines -> [Docs -> Jobs]]
BY DEF TypeOK, Step

LEMMA EndpointsType ==
    ASSUME TypeOK,
           ProcessCase \/ RetryFailed
             \/ \E d \in Docs : UploadMore(d) \/ ReplaceDocument(d) \/ SkipDocument(d)
    PROVE  TypeOK'
<1>1. CASE ProcessCase
  <2>1. Launch(FullChains(docs)) /\ UNCHANGED <<docs, final, replaced>>
    BY <1>1 DEF ProcessCase
  <2> QED BY <2>1, FirstStages, LaunchType DEF TypeOK
<1>2. CASE RetryFailed
  <2> DEFINE failed == {d \in Docs : docs[d].status \in {FAILED, PENDING_RETRY}}
             first == [d \in Docs |-> IF d \in failed THEN ResumeStage(docs[d]) ELSE 0]
  <2>1. /\ Launch(first) /\ UNCHANGED <<final, replaced>>
        /\ docs' = [d \in Docs |-> IF d \in failed THEN [docs[d] EXCEPT !.status = PENDING_RETRY]
                                   ELSE docs[d]]
    BY <1>2 DEF RetryFailed
  <2>2. first \in [Docs -> 0 .. 7]
    BY FirstStages
  <2>3. \A d \in Docs : [docs[d] EXCEPT !.status = PENDING_RETRY] \in Rows
    BY RowWithStatus, StatusFacts DEF TypeOK
  <2>4. docs' \in [Docs -> Rows]
    BY <2>1, <2>3 DEF TypeOK
  <2> HIDE DEF first
  <2> QED BY <2>1, <2>2, <2>4, LaunchType DEF TypeOK
<1>3. ASSUME NEW d \in Docs, UploadMore(d) PROVE TypeOK'
  <2>1. Launch(FullChains(docs')) /\ UNCHANGED <<final, replaced>>
    BY <1>3 DEF UploadMore
  <2>2. docs' \in [Docs -> Rows]
    BY <1>3, RecordFacts DEF UploadMore, TypeOK
  <2> QED BY <2>1, <2>2, FirstStages, LaunchType DEF TypeOK
<1>4. ASSUME NEW d \in Docs, ReplaceDocument(d) PROVE TypeOK'
  <2>1. /\ replaced[d] + 1 \in 0 .. MaxReplacements /\ replaced[d] + 2 \in Versions
        /\ replaced' = [replaced EXCEPT ![d] = @ + 1]
    BY <1>4, BoundsFacts DEF ReplaceDocument, TypeOK, Versions
  <2>2. replaced' \in [Docs -> 0 .. MaxReplacements] /\ replaced'[d] + 1 \in Versions
    BY <2>1, BoundsFacts DEF TypeOK, Versions
  <2>3. [Cleared(docs[d]) EXCEPT !.file = replaced'[d] + 1] \in Rows
    BY <2>2, ClearedIsRow DEF Rows, TypeOK
  <2>4. docs' \in [Docs -> Rows]
    BY <1>4, <2>3 DEF ReplaceDocument, TypeOK
  <2> QED BY <1>4, <2>2, <2>4 DEF ReplaceDocument, TypeOK
<1>5. ASSUME NEW d \in Docs, SkipDocument(d) PROVE TypeOK'
  <2>1. docs' \in [Docs -> Rows]
    BY <1>5, RowWithStatus, StatusFacts DEF SkipDocument, TypeOK
  <2>2. caseStatus' \in CaseStatuses
    BY <1>5 DEF SkipDocument, UpdatedStatus, CaseStatuses
  <2> QED BY <1>5, <2>1, <2>2 DEF SkipDocument, TypeOK
<1> QED BY <1>1, <1>2, <1>3, <1>4, <1>5

\* The wrapper's write that ends a task.
LEMMA SettledType ==
    ASSUME TypeOK, NEW p \in Pipelines, NEW d \in Docs, NEW step \in Steps,
           NEW status \in Statuses, Settled(p, d, step, status)
    PROVE  TypeOK'
<1>1. jobs[p][d] \in Jobs /\ jobs[p][d].stage \in Stages /\ docs[d] \in Rows
  BY DEF Settled, At, TypeOK
<1>2. docs' \in [Docs -> Rows]
  BY <1>1, RowWithStatus DEF Settled, SetRow, TypeOK
<1>3. jobs' \in [Pipelines -> [Docs -> Jobs]]
  BY <1>1, NextJobs, StepType DEF Settled, Ended
<1> QED BY <1>2, <1>3 DEF Settled, caseVars, TypeOK

\* What a stage writes by itself.
LEMMA BodyType ==
    ASSUME TypeOK, NEW p \in Pipelines, NEW d \in Docs, NEW row \in Rows, NEW next \in Steps,
           Body(p, d, row, next)
    PROVE  TypeOK'
<1>1. jobs[p][d] \in Jobs /\ jobs[p][d].stage \in Stages
  BY DEF Body, At, TypeOK
<1>2. docs' \in [Docs -> Rows]
  BY DEF Body, SetRow, TypeOK
<1>3. jobs' \in [Pipelines -> [Docs -> Jobs]]
  BY <1>1, NextJobs, StepType DEF Body
<1> QED BY <1>2, <1>3 DEF Body, caseVars, TypeOK

LEMMA StageType ==
    ASSUME TypeOK, NEW p \in Pipelines, NEW d \in Docs, Stage(p, d) \/ CrashStage(p, d)
    PROVE  TypeOK'
<1> DEFINE job == jobs[p][d]
<1>1. job \in Jobs /\ job.input \in Rows /\ docs[d] \in Rows
  BY DEF TypeOK, Jobs
<1>2. {"check", "enter", "body", "complete", "retry", "reject", "give_up"} \subseteq Steps
  BY DEF Steps
<1>3. CASE Check(p, d)
  <2>1. job.stage \in Stages
    BY <1>3 DEF Check, At
  <2>2. jobs' \in [Pipelines -> [Docs -> Jobs]]
    <3>1. CASE Ended(p, d)
      BY <1>1, <2>1, <3>1, NextJobs, StepType DEF Ended
    <3>2. CASE Step(p, d, [job EXCEPT !.step = "enter"])
      BY <1>1, <1>2, <2>1, <3>2, NextJobs, StepType
    <3> QED BY <1>3, <3>1, <3>2 DEF Check
  <2> QED BY <1>3, <2>2 DEF Check, caseVars, TypeOK
<1>4. CASE Enter(p, d)
  <2> DEFINE row == [docs[d] EXCEPT !.status = Entry(job.stage)]
  <2>1. job.stage \in Stages
    BY <1>4 DEF Enter, At
  <2>2. row \in Rows
    BY <1>1, <2>1, StatusFacts, RowWithStatus
  <2>3. [job EXCEPT !.step = "body", !.input = row] \in Jobs
    BY <1>1, <2>1, <2>2, NextJobs
  <2>4. jobs' \in [Pipelines -> [Docs -> Jobs]]
    BY <1>4, <2>3, StepType DEF Enter
  <2>5. docs' \in [Docs -> Rows]
    BY <1>4, <2>2 DEF Enter, SetRow, TypeOK
  <2> QED BY <1>4, <2>4, <2>5 DEF Enter, caseVars, TypeOK
<1>5. CASE Succeed(p, d)
  <2>1. job.stage \in Stages /\ Body(p, d, Output(job.stage, docs[d], job.input), "complete")
    BY <1>5 DEF Succeed, At
  <2> QED BY <1>1, <1>2, <2>1, OutputIsRow, BodyType
<1>6. CASE FailHandled(p, d)
  <2> DEFINE row == [docs[d] EXCEPT !.status = FAILED,
                                    !.type = IF job.stage = 5 THEN job.input.type ELSE @]
  <2>1. row \in Rows
    BY <1>1, StatusFacts DEF Rows
  <2>2. Body(p, d, row, "retry")
    BY <1>6 DEF FailHandled
  <2> HIDE DEF row
  <2> QED BY <1>2, <2>1, <2>2, BodyType
<1>7. CASE Raise(p, d)
  BY <1>1, <1>2, <1>7, BodyType DEF Raise
<1>8. CASE Unsupported(p, d)
  <2> DEFINE row == [docs[d] EXCEPT !.status = CLASSIFICATION_FAILED, !.type = job.input.text]
  <2>1. row \in Rows
    BY <1>1, StatusFacts DEF Rows
  <2>2. Body(p, d, row, "reject")
    BY <1>8 DEF Unsupported
  <2> HIDE DEF row
  <2> QED BY <1>2, <2>1, <2>2, BodyType
<1>9. CASE OutOfCredits(p, d)
  BY <1>1, <1>2, <1>9, StatusFacts, RowWithStatus, BodyType DEF OutOfCredits
<1>10. CASE CompleteStage(p, d)
  <2>1. job.stage \in Stages /\ Settled(p, d, "complete", Complete(job.stage))
    BY <1>10 DEF CompleteStage, Settled, At
  <2> QED BY <1>2, <2>1, StatusFacts, SettledType
<1>11. CASE RejectType(p, d)
  BY <1>2, <1>11, StatusFacts, SettledType DEF RejectType
<1>12. CASE GiveUpOcr(p, d)
  BY <1>2, <1>12, StatusFacts, SettledType DEF GiveUpOcr
<1>13. CASE Exhausted(p, d)
  BY <1>2, <1>13, StatusFacts, SettledType DEF Exhausted
<1>14. CASE RetryStage(p, d)
  <2>1. job.stage \in Stages /\ job.retries < MaxRetries
    BY <1>14 DEF RetryStage, At
  <2>2. jobs' \in [Pipelines -> [Docs -> Jobs]]
    BY <1>1, <1>14, <2>1, NextJobs, StepType DEF RetryStage
  <2> QED BY <1>14, <2>2 DEF RetryStage, caseVars, TypeOK
<1>15. CASE CrashStage(p, d)
  <2>1. job.stage \in Stages
    BY <1>15 DEF CrashStage
  <2>2. jobs' \in [Pipelines -> [Docs -> Jobs]]
    BY <1>1, <1>15, <2>1, NextJobs, StepType DEF CrashStage
  <2>3. faults' \in 0 .. MaxFaults
    BY <1>15, BoundsFacts DEF CrashStage, Fault, TypeOK
  <2> QED BY <1>15, <2>2, <2>3 DEF CrashStage, caseVars, TypeOK
<1> QED BY <1>3, <1>4, <1>5, <1>6, <1>7, <1>8, <1>9, <1>10, <1>11, <1>12, <1>13, <1>14, <1>15
        DEF Stage

LEMMA FinalizerType ==
    ASSUME TypeOK, NEW p \in Pipelines, Finalize(p) \/ CrashFinal(p)
    PROVE  TypeOK'
<1>1. CASE FinalCount(p)
  BY <1>1 DEF FinalCount, UpdatedStatus, FinalStatus, CaseStatuses, TypeOK
<1>2. CASE FinalWrite(p)
  BY <1>2 DEF FinalWrite, TypeOK
<1>3. CASE FinalRelease(p)
  BY <1>3, BoundsFacts DEF FinalRelease, TypeOK
<1>4. CASE FinalQueue(p)
  BY <1>4, RecordFacts DEF FinalQueue, CaseStatuses, TypeOK
<1>5. CASE CrashFinal(p)
  BY <1>5, BoundsFacts DEF CrashFinal, Fault, TypeOK
<1> QED BY <1>1, <1>2, <1>3, <1>4, <1>5 DEF Finalize

\* Every step keeps the types, whoever takes it.
THEOREM TypeStep == TypeOK /\ [Next]_vars => TypeOK'
<1> SUFFICES ASSUME TypeOK, [Next]_vars PROVE TypeOK'
  OBVIOUS
<1>1. CASE ProcessCase \/ RetryFailed
             \/ \E d \in Docs : UploadMore(d) \/ ReplaceDocument(d) \/ SkipDocument(d)
  BY <1>1, EndpointsType
<1>2. CASE \E p \in Pipelines, d \in Docs : Stage(p, d) \/ CrashStage(p, d)
  BY <1>2, StageType
<1>3. CASE \E p \in Pipelines : Finalize(p) \/ CrashFinal(p)
  BY <1>3, FinalizerType
<1>4. CASE UNCHANGED vars
  BY <1>4 DEF vars, TypeOK
<1> QED BY <1>1, <1>2, <1>3, <1>4 DEF Next

\* Every variable of the pipeline, the endpoints and the finalizer keeps its type
\* (the rows of the documents table, the tasks of every chain, the lock, the statuses).
THEOREM TypeCorrect == Spec => []TypeOK
<1> QED BY TypeInit, TypeStep, PTL DEF Spec

----------------------------------------------------------------------------
\* The pipeline lock

\* Only the endpoints take the lock, and only when it is free; only the finalizer
\* gives it back, on leaving its last step that writes the case.
THEOREM LockStep ==
    ASSUME "final" \notin FaultKinds, TypeOK, ActiveHoldsLock, [Next]_vars
    PROVE  ActiveHoldsLock'
<1> USE DEF ActiveHoldsLock, Active
<1>1. ASSUME NEW first, lock = 0, Launch(first) PROVE ActiveHoldsLock'
  <2>1. \A p \in Pipelines : ~Active(p)
    BY <1>1 DEF Pipelines
  <2>2. CASE lock' = started' /\ phase' = [phase EXCEPT ![started'] = "chains"]
    BY <2>1, <2>2 DEF TypeOK
  <2>3. CASE UNCHANGED <<started, lock, phase, jobs>>
    BY <2>1, <2>3
  <2> QED BY <1>1, <2>2, <2>3 DEF Launch
<1>2. CASE ProcessCase
  BY <1>1, <1>2 DEF ProcessCase, Admitted
<1>3. CASE RetryFailed
  BY <1>1, <1>3 DEF RetryFailed
<1>4. ASSUME NEW d \in Docs, UploadMore(d) PROVE ActiveHoldsLock'
  BY <1>1, <1>4 DEF UploadMore, Admitted
<1>5. ASSUME UNCHANGED <<lock, phase>> PROVE ActiveHoldsLock'
  BY <1>5
<1>6. ASSUME NEW d \in Docs, ReplaceDocument(d) \/ SkipDocument(d) PROVE ActiveHoldsLock'
  BY <1>5, <1>6 DEF ReplaceDocument, SkipDocument
<1>7. ASSUME NEW p \in Pipelines, NEW d \in Docs, Stage(p, d) \/ CrashStage(p, d)
      PROVE  ActiveHoldsLock'
  <2>1. UNCHANGED caseVars
    BY <1>7 DEF Stage, Check, Enter, Succeed, FailHandled, Raise, Unsupported, OutOfCredits,
                CompleteStage, RejectType, GiveUpOcr, Exhausted, RetryStage, CrashStage,
                Body, Settled
  <2> QED BY <1>5, <2>1 DEF caseVars
<1>8. ASSUME NEW p \in Pipelines, Finalize(p) PROVE ActiveHoldsLock'
  <2>1. CASE FinalCount(p) \/ FinalWrite(p)
    BY <2>1 DEF FinalCount, FinalWrite, TypeOK
  <2>2. CASE FinalRelease(p)
    BY <2>2 DEF FinalRelease, TypeOK
  <2>3. CASE FinalQueue(p)
    BY <2>3 DEF FinalQueue, TypeOK
  <2> QED BY <1>8, <2>1, <2>2, <2>3 DEF Finalize
<1>9. ASSUME NEW p \in Pipelines, CrashFinal(p) PROVE ActiveHoldsLock'
  BY <1>9 DEF CrashFinal, Fault
<1>10. CASE UNCHANGED vars
  BY <1>5, <1>10 DEF vars
<1> QED BY <1>2, <1>3, <1>4, <1>6, <1>7, <1>8, <1>9, <1>10 DEF Next

\* As long as no finalizer is delivered a second time, a pipeline that may still
\* write the case holds the pipeline lock, whatever crashes or fails to start
\* beside it; so no two pipelines are ever at work on a case.
THEOREM LockHeld ==
    ASSUME "final" \notin FaultKinds
    PROVE  Spec => []ActiveHoldsLock
<1>1. Init => ActiveHoldsLock
  BY DEF Init, ActiveHoldsLock, Active
<1>2. TypeOK /\ ActiveHoldsLock /\ [Next]_vars => ActiveHoldsLock'
  BY LockStep
<1> QED BY <1>1, <1>2, TypeCorrect, PTL DEF Spec

----------------------------------------------------------------------------
\* The inductive invariant

\* No task leaves a document of its pipeline in any other status.
Decided == {STRUCTURED, FAILED, CLASSIFICATION_FAILED, SKIPPED}

\* The statuses of a document no task is at work on.
AtRest == Decided \cup {ABSENT, UPLOADED, PENDING_RETRY}

\* A row that was replaced n times: nothing in it is from an earlier file, except
\* the chunks, which stay on disk; and every part has what it was made from.
RowSound(row, n) ==
    LET Current(v) == v \in {0, n + 1}
    IN  /\ IF row.status = ABSENT THEN row = NoRow /\ n = 0 ELSE row.file = n + 1
        /\ Current(row.prep) /\ Current(row.text) /\ Current(row.type) /\ Current(row.structured)
        /\ row.structured # 0 => row.text # 0
        /\ row.status = STRUCTURED => row.type # 0 /\ row.structured # 0

Fresh(job) == job.step = "check" /\ job.retries = 0

\* A task and its document: what the stage read is still in the row, an unsupported
\* document has no task that would still write it, and the chunks are the current
\* file's from the moment the merge stage may read them.
TaskSound(job, row, n) ==
    /\ row.status # ABSENT
    /\ job.step = "body" => row = job.input /\ row.status = Entry(job.stage)
    /\ job.step = "complete" =>
         row.status = (IF job.stage = 5 THEN Entry(5) ELSE Complete(job.stage))
    /\ job.step = "reject" => job.stage = 4
    /\ row.status = CLASSIFICATION_FAILED =>
         Fresh(job) \/ (job.stage = 4 /\ job.step \in {"check", "reject"})
    /\ job.stage \in {1, 2} => row.status <= Complete(job.stage)
    /\ job.stage = 2 /\ row.status = Complete(2) => row.chunks = n + 1
    /\ job.stage = 3 => \/ row.chunks = n + 1
                        \/ Fresh(job) /\ row.status \in {CLASSIFICATION_FAILED, FAILED, SKIPPED}

RowsSound == \A d \in Docs : RowSound(docs[d], replaced[d])

\* Tasks belong to pipelines in their chains.
TasksSound ==
    \A p \in Pipelines, d \in Docs : jobs[p][d].stage \in Stages =>
        phase[p] = "chains" /\ TaskSound(jobs[p][d], docs[d], replaced[d])

\* A chain that has ended leaves its document decided.
EndsDecided ==
    \A p \in Pipelines, d \in Docs :
        Active(p) /\ jobs[p][d].stage = 7 => docs[d].status \in Decided

\* A document inside a stage has a task that will take it out.
NoneStranded ==
    \A d \in Docs : \/ docs[d].status \in AtRest
                    \/ \E p \in Pipelines : jobs[p][d].stage \in Stages

ChainsSound == RowsSound /\ TasksSound /\ EndsDecided /\ NoneStranded

\* What is assumed of the environment: the user acts on unsupported documents only,
\* and a finalizer is not delivered a second time.
Offered ==
    /\ ActsOn \subseteq {CLASSIFICATION_FAILED}
    /\ "final" \notin FaultKinds

Sound == TypeOK /\ ActiveHoldsLock /\ ChainsSound

----------------------------------------------------------------------------
\* One task moves

\* At most one pipeline is at work.
LEMMA OneActive ==
    ASSUME ActiveHoldsLock, NEW p \in Pipelines, NEW q \in Pipelines, Active(p), Active(q)
    PROVE  p = q
BY DEF ActiveHoldsLock

\* The invariant of the chains holds again after a step of one task when it holds of
\* the task and the row it leaves.
LEMMA OneTask ==
    ASSUME Sound, NEW p \in Pipelines, NEW d \in Docs, jobs[p][d].stage \in Stages,
           NEW row \in Rows, NEW job \in Jobs, job.stage \in 1 .. 7,
           Step(p, d, job), SetRow(d, row), UNCHANGED <<phase, replaced>>,
           RowSound(row, replaced[d]),
           job.stage \in Stages => TaskSound(job, row, replaced[d]),
           job.stage = 7 => row.status \in Decided
    PROVE  ChainsSound'
<1>1. /\ docs \in [Docs -> Rows] /\ docs' = [docs EXCEPT ![d] = row]
      /\ jobs \in [Pipelines -> [Docs -> Jobs]] /\ jobs' = [jobs EXCEPT ![p][d] = job]
  BY DEF Sound, TypeOK, SetRow, Step
<1>2. docs'[d] = row /\ \A e \in Docs \ {d} : docs'[e] = docs[e]
  BY <1>1
<1>3. /\ jobs'[p][d] = job
      /\ \A q \in Pipelines, e \in Docs : q # p \/ e # d => jobs'[q][e] = jobs[q][e]
  BY <1>1
<1>4. Active(p)
  BY DEF Sound, ChainsSound, TasksSound, Active
<1>5. \A q \in Pipelines : Active(q) => q = p
  BY <1>4, OneActive DEF Sound
<1>6. \A q \in Pipelines : jobs[q][d].stage \in Stages => q = p
  BY <1>5 DEF Sound, ChainsSound, TasksSound, Active
<1>7. RowsSound'
  BY <1>2 DEF Sound, ChainsSound, RowsSound
<1>8. TasksSound'
  <2> SUFFICES ASSUME NEW q \in Pipelines, NEW e \in Docs, jobs'[q][e].stage \in Stages
               PROVE  phase[q] = "chains" /\ TaskSound(jobs'[q][e], docs'[e], replaced[e])
    BY DEF TasksSound
  <2>1. CASE q = p /\ e = d
    BY <2>1, <1>2, <1>3 DEF Sound, ChainsSound, TasksSound
  <2>2. CASE q # p /\ e = d
    BY <2>2, <1>3, <1>6
  <2>3. CASE e # d
    BY <2>3, <1>2, <1>3 DEF Sound, ChainsSound, TasksSound
  <2> QED BY <2>1, <2>2, <2>3
<1>9. EndsDecided'
  <2> SUFFICES ASSUME NEW q \in Pipelines, NEW e \in Docs, Active(q), jobs'[q][e].stage = 7
               PROVE  docs'[e].status \in Decided
    BY DEF EndsDecided, Active
  <2>1. CASE e = d
    BY <2>1, <1>2, <1>3, <1>5
  <2>2. CASE e # d
    BY <2>2, <1>2, <1>3 DEF Sound, ChainsSound, EndsDecided
  <2> QED BY <2>1, <2>2
<1>10. NoneStranded'
  <2> SUFFICES ASSUME NEW e \in Docs
               PROVE  \/ docs'[e].status \in AtRest
                      \/ \E q \in Pipelines : jobs'[q][e].stage \in Stages
    BY DEF NoneStranded
  <2>1. CASE e = d
    <3>1. job.stage = 7 \/ job.stage \in Stages
      BY DEF Stages
    <3> QED BY <2>1, <3>1, <1>2, <1>3 DEF AtRest
  <2>2. CASE e # d
    BY <2>2, <1>2, <1>3 DEF Sound, ChainsSound, NoneStranded
  <2> QED BY <2>1, <2>2
<1> QED BY <1>7, <1>8, <1>9, <1>10 DEF ChainsSound

----------------------------------------------------------------------------
\* What the actions of a stage leave

\* What is known of a task that is in the chain, and of its document.
LEMMA TaskFacts ==
    ASSUME Sound, NEW p \in Pipelines, NEW d \in Docs, jobs[p][d].stage \in Stages
    PROVE  /\ docs[d] \in Rows /\ jobs[p][d] \in Jobs /\ replaced[d] \in Nat
           /\ RowSound(docs[d], replaced[d])
           /\ TaskSound(jobs[p][d], docs[d], replaced[d])
BY BoundsFacts DEF Sound, ChainsSound, RowsSound, TasksSound, TypeOK

\* The numbers behind the statuses.
LEMMA Numbers ==
    /\ UPLOADED = 0 /\ STRUCTURED = 12 /\ FAILED = -1 /\ CLASSIFICATION_FAILED = -2
    /\ SKIPPED = -3 /\ PENDING_RETRY = -4 /\ ABSENT = -5
    /\ \A k : Entry(k) = 2 * k - 1 /\ Complete(k) = 2 * k
    /\ Stages = 1 .. 6 /\ Statuses = -5 .. 12
BY DEF UPLOADED, STRUCTURED, FAILED, CLASSIFICATION_FAILED, SKIPPED, PENDING_RETRY, ABSENT,
       Entry, Complete, Stages, Statuses

\* The next task of the chain finds the row as the last one left it: decided, or
\* past the last one's stage.
LEMMA NextTask ==
    ASSUME NEW k \in Stages, NEW row \in Rows, NEW n \in Nat,
           row.status \in {FAILED, CLASSIFICATION_FAILED, SKIPPED} \/ row.status >= Complete(k),
           k = 1 => row.status <= Complete(1),
           k = 2 => row.status <= Complete(2) /\ (row.status = Complete(2) => row.chunks = n + 1)
    PROVE  /\ Job(k + 1).stage = k + 1 /\ Job(k + 1) \in Jobs
           /\ k + 1 \in Stages => TaskSound(Job(k + 1), row, n)
           /\ k + 1 = 7 => row.status \in Decided
<1>1. Job(k + 1).stage = k + 1 /\ Job(k + 1).step = "check" /\ Job(k + 1).retries = 0
  BY DEF Job
<1>2. Job(k + 1) \in Jobs
  BY RecordFacts, Numbers
<1>3. row.status \in -5 .. 12
  BY Numbers DEF Rows
<1>4. k + 1 = 7 => row.status \in Decided
  BY <1>3, Numbers DEF Decided
<1>5. k + 1 \in Stages => TaskSound(Job(k + 1), row, n)
  BY <1>1, <1>3, Numbers DEF TaskSound, Fresh
<1> QED BY <1>1, <1>2, <1>4, <1>5

LEMMA CheckSound ==
    ASSUME Sound, NEW p \in Pipelines, NEW d \in Docs, Check(p, d)
    PROVE  ChainsSound'
<1> DEFINE job == jobs[p][d]
           row == docs[d]
<1>1. job.stage \in Stages /\ job.step = "check" /\ UNCHANGED <<docs, phase, replaced>>
  BY DEF Check, At, caseVars
<1>2. /\ row \in Rows /\ job \in Jobs /\ replaced[d] \in Nat
      /\ RowSound(row, replaced[d]) /\ TaskSound(job, row, replaced[d])
  BY <1>1, TaskFacts
<1>3. SetRow(d, row)
  BY <1>1 DEF SetRow, Sound, TypeOK
<1>4. CASE Passed(row.status, job) /\ Ended(p, d)
  <2>1. /\ row.status \in {FAILED, CLASSIFICATION_FAILED, SKIPPED}
           \/ row.status >= Complete(job.stage)
        /\ job.stage = 1 => row.status <= Complete(1)
        /\ job.stage = 2 => /\ row.status <= Complete(2)
                            /\ row.status = Complete(2) => row.chunks = replaced[d] + 1
    BY <1>2, <1>4 DEF Passed, TaskSound
  <2> DEFINE new == Job(job.stage + 1)
  <2>2. /\ new \in Jobs /\ new.stage = job.stage + 1
        /\ job.stage + 1 \in Stages => TaskSound(new, row, replaced[d])
        /\ job.stage + 1 = 7 => row.status \in Decided
    <3> HIDE DEF row, job
    <3> QED BY <1>1, <1>2, <2>1, NextTask
  <2>3. Step(p, d, new) /\ new.stage \in 1 .. 7
    BY <1>1, <1>4, <2>2, Numbers DEF Ended
  <2> HIDE DEF new, row
  <2> QED BY <1>1, <1>2, <1>3, <2>2, <2>3, OneTask
<1>5. CASE ~Passed(row.status, job) /\ Step(p, d, [job EXCEPT !.step = "enter"])
  <2> DEFINE new == [job EXCEPT !.step = "enter"]
  <2>1. new \in Jobs /\ new.stage = job.stage /\ new.step = "enter"
    BY <1>1, <1>2, NextJobs DEF Jobs, Steps
  <2>2. TaskSound(new, row, replaced[d])
    BY <1>1, <1>2, <1>5, <2>1 DEF TaskSound, Fresh, Passed
  <2>3. new.stage \in 1 .. 7 /\ new.stage # 7 /\ Step(p, d, new)
    BY <1>1, <1>5, <2>1, Numbers
  <2> HIDE DEF new, row
  <2> QED BY <1>1, <1>2, <1>3, <1>5, <2>1, <2>2, <2>3, OneTask
<1> QED BY <1>4, <1>5 DEF Check

LEMMA EnterSound ==
    ASSUME Sound, NEW p \in Pipelines, NEW d \in Docs, Enter(p, d)
    PROVE  ChainsSound'
<1> DEFINE job == jobs[p][d]
           row == [docs[d] EXCEPT !.status = Entry(job.stage)]
           new == [job EXCEPT !.step = "body", !.input = row]
<1>1. /\ job.stage \in Stages /\ job.step = "enter" /\ UNCHANGED <<phase, replaced>>
      /\ SetRow(d, row) /\ Step(p, d, new)
  BY DEF Enter, At, caseVars
<1>2. /\ docs[d] \in Rows /\ job \in Jobs /\ replaced[d] \in Nat
      /\ RowSound(docs[d], replaced[d]) /\ TaskSound(job, docs[d], replaced[d])
  BY <1>1, TaskFacts
<1>3. Entry(job.stage) \in Statuses /\ row \in Rows
  BY <1>1, <1>2, StatusFacts, RowWithStatus
<1>4. /\ row.status = Entry(job.stage) /\ row.file = docs[d].file /\ row.prep = docs[d].prep
      /\ row.chunks = docs[d].chunks /\ row.text = docs[d].text /\ row.type = docs[d].type
      /\ row.structured = docs[d].structured
  BY <1>2 DEF Rows
<1>5. new \in Jobs /\ new.stage = job.stage /\ new.step = "body" /\ new.input = row
  BY <1>1, <1>2, <1>3, NextJobs DEF Jobs
<1> HIDE DEF row, new
<1>6. RowSound(row, replaced[d])
  BY <1>1, <1>2, <1>4, Numbers DEF RowSound, TaskSound
<1>7. TaskSound(new, row, replaced[d])
  BY <1>1, <1>2, <1>4, <1>5, Numbers DEF TaskSound, Fresh
<1> QED BY <1>1, <1>2, <1>3, <1>5, <1>6, <1>7, OneTask, Numbers

\* What a stage's own code leaves: the task at its next step.
LEMMA BodySound ==
    ASSUME Sound, NEW p \in Pipelines, NEW d \in Docs, NEW row \in Rows, NEW next \in Steps,
           Body(p, d, row, next), RowSound(row, replaced[d]),
           TaskSound([jobs[p][d] EXCEPT !.step = next], row, replaced[d])
    PROVE  ChainsSound'
<1> DEFINE job == jobs[p][d]
           new == [job EXCEPT !.step = next]
<1>1. /\ job.stage \in Stages /\ UNCHANGED <<phase, replaced>>
      /\ SetRow(d, row) /\ Step(p, d, new)
  BY DEF Body, At, caseVars
<1>2. job \in Jobs
  BY <1>1, TaskFacts
<1>3. new \in Jobs /\ new.stage = job.stage
  BY <1>1, <1>2, NextJobs DEF Jobs
<1>4. new.stage \in 1 .. 7 /\ new.stage # 7
  BY <1>1, <1>3, Numbers
<1> HIDE DEF new
<1>5. TaskSound(new, row, replaced[d])
  BY DEF new
<1> QED BY <1>1, <1>2, <1>3, <1>4, <1>5, OneTask

\* A stage that succeeds makes its part of the row from the parts it read, which are
\* the row's own.
LEMMA OutputSound ==
    ASSUME NEW k \in Stages, NEW row \in Rows, NEW n \in Nat, RowSound(row, n),
           row.status = Entry(k), Ready(k, row), k = 3 => row.chunks = n + 1
    PROVE  /\ RowSound(Output(k, row, row), n)
           /\ Output(k, row, row).status = (IF k = 5 THEN Entry(5) ELSE Complete(k))
           /\ k \in {2, 3} => Output(k, row, row).chunks = n + 1
<1> DEFINE out == Output(k, row, row)
<1>1. k \in {1, 2, 3, 4, 5, 6}
  BY DEF Stages
<1>2. /\ out.status = (IF k = 5 THEN Entry(5) ELSE Complete(k))
      /\ out.file = row.file
      /\ out.prep = (IF k = 1 THEN row.file ELSE row.prep)
      /\ out.chunks = (IF k # 2 THEN row.chunks ELSE IF row.prep # 0 THEN row.prep ELSE row.file)
      /\ out.text = (IF k = 3 THEN row.chunks ELSE row.text)
      /\ out.type = (IF k = 4 THEN row.text ELSE row.type)
      /\ out.structured = (IF k = 5 THEN row.text ELSE row.structured)
  <2>1. CASE k = 1
    <3>1. out = [row EXCEPT !.status = Complete(1), !.prep = row.file]
      BY <2>1 DEF Output
    <3> HIDE DEF out
    <3> QED BY <2>1, <3>1 DEF Rows
  <2>2. CASE k = 2
    <3>1. out = [row EXCEPT !.status = Complete(2),
                              !.chunks = IF row.prep # 0 THEN row.prep ELSE row.file]
      BY <2>2 DEF Output
    <3> HIDE DEF out
    <3> QED BY <2>2, <3>1 DEF Rows
  <2>3. CASE k = 3
    <3>1. out = [row EXCEPT !.status = Complete(3), !.text = row.chunks]
      BY <2>3 DEF Output
    <3> HIDE DEF out
    <3> QED BY <2>3, <3>1 DEF Rows
  <2>4. CASE k = 4
    <3>1. out = [row EXCEPT !.status = Complete(4), !.type = row.text]
      BY <2>4 DEF Output
    <3> HIDE DEF out
    <3> QED BY <2>4, <3>1 DEF Rows
  <2>5. CASE k = 5
    <3>1. out = [row EXCEPT !.status = Entry(5), !.type = row.type,
                              !.structured = row.text]
      BY <2>5 DEF Output
    <3> HIDE DEF out
    <3> QED BY <2>5, <3>1 DEF Rows
  <2>6. CASE k = 6
    <3>1. out = [row EXCEPT !.status = Complete(6), !.type = row.type,
                              !.structured = row.structured,
                              !.file = row.file, !.prep = row.prep]
      BY <2>6 DEF Output
    <3> HIDE DEF out
    <3> QED BY <2>6, <3>1 DEF Rows
  <2> QED BY <1>1, <2>1, <2>2, <2>3, <2>4, <2>5, <2>6
<1>3. /\ k = 4 => row.text # 0
      /\ k = 5 => row.text # 0 /\ row.type # 0
      /\ k = 6 => row.type # 0 /\ row.structured # 0
  <2>1. CASE k = 4
    BY <2>1 DEF Ready
  <2>2. CASE k = 5
    BY <2>2 DEF Ready
  <2>3. CASE k = 6
    BY <2>3 DEF Ready
  <2> QED BY <1>1, <2>1, <2>2, <2>3
<1> HIDE DEF out
<1>4. row.status # ABSENT /\ row.file = n + 1
  BY <1>1, Numbers DEF RowSound
<1>5. /\ Entry(5) = 9 /\ Complete(k) = 2 * k /\ STRUCTURED = 12 /\ ABSENT = -5
      /\ Entry(k) = 2 * k - 1
  BY Numbers
<1>7. RowSound(out, n)
  BY <1>1, <1>2, <1>3, <1>4, <1>5 DEF RowSound
<1>6. k \in {2, 3} => out.chunks = n + 1
  BY <1>2, <1>4 DEF RowSound
<1> QED BY <1>2, <1>6, <1>7 DEF out

\* A task in its body, and the row it would leave with another status and type.
LEMMA InBody ==
    ASSUME Sound, NEW p \in Pipelines, NEW d \in Docs, At(p, d, "body")
    PROVE  /\ jobs[p][d].stage \in Stages /\ jobs[p][d].step = "body"
           /\ docs[d] \in Rows /\ jobs[p][d] \in Jobs /\ replaced[d] \in Nat
           /\ jobs[p][d].input = docs[d]
           /\ docs[d].status = Entry(jobs[p][d].stage)
           /\ RowSound(docs[d], replaced[d])
           /\ jobs[p][d].stage = 3 => docs[d].chunks = replaced[d] + 1
BY TaskFacts DEF At, TaskSound, Fresh

LEMMA SucceedSound ==
    ASSUME Sound, NEW p \in Pipelines, NEW d \in Docs, Succeed(p, d)
    PROVE  ChainsSound'
<1> DEFINE job == jobs[p][d]
           row == Output(job.stage, docs[d], docs[d])
           new == [job EXCEPT !.step = "complete"]
<1>1. At(p, d, "body")
  BY DEF Succeed
<1>2. /\ job.stage \in Stages /\ docs[d] \in Rows /\ job \in Jobs /\ replaced[d] \in Nat
      /\ job.input = docs[d] /\ docs[d].status = Entry(job.stage)
      /\ RowSound(docs[d], replaced[d])
      /\ job.stage = 3 => docs[d].chunks = replaced[d] + 1
  BY <1>1, InBody
<1>3. Ready(job.stage, docs[d]) /\ Body(p, d, row, "complete")
  BY <1>2 DEF Succeed
<1>4. /\ RowSound(row, replaced[d])
      /\ row.status = (IF job.stage = 5 THEN Entry(5) ELSE Complete(job.stage))
      /\ job.stage \in {2, 3} => row.chunks = replaced[d] + 1
  BY <1>2, <1>3, OutputSound
<1>5. row \in Rows
  BY <1>2, OutputIsRow
<1>6. new.step = "complete" /\ new.stage = job.stage
  BY <1>2 DEF Jobs
<1> HIDE DEF row, new
<1>7. TaskSound(new, row, replaced[d])
  BY <1>2, <1>4, <1>6, Numbers DEF TaskSound, Fresh
<1> QED BY <1>3, <1>4, <1>5, <1>7, BodySound DEF new, Steps

\* A failed or refused body: the row has a new status, and at most a type made from
\* the current file.
LEMMA FailureSound ==
    ASSUME Sound, NEW p \in Pipelines, NEW d \in Docs, At(p, d, "body"),
           NEW status \in {FAILED, CLASSIFICATION_FAILED, Entry(jobs[p][d].stage)},
           NEW type \in {docs[d].type, docs[d].text},
           NEW next \in {"retry", "reject", "give_up"},
           status = CLASSIFICATION_FAILED \/ next = "reject" =>
               jobs[p][d].stage = 4 /\ next = "reject",
           Body(p, d, [docs[d] EXCEPT !.status = status, !.type = type], next)
    PROVE  ChainsSound'
<1> DEFINE job == jobs[p][d]
           row == [docs[d] EXCEPT !.status = status, !.type = type]
           new == [job EXCEPT !.step = next]
<1>1. /\ job.stage \in Stages /\ docs[d] \in Rows /\ job \in Jobs /\ replaced[d] \in Nat
      /\ docs[d].status = Entry(job.stage) /\ RowSound(docs[d], replaced[d])
      /\ job.stage = 3 => docs[d].chunks = replaced[d] + 1
  BY InBody
<1>2. /\ row \in Rows /\ row.status = status /\ row.type = type
      /\ row.file = docs[d].file /\ row.prep = docs[d].prep /\ row.chunks = docs[d].chunks
      /\ row.text = docs[d].text /\ row.structured = docs[d].structured
  BY <1>1, StatusFacts DEF Rows
<1>3. new.step = next /\ new.stage = job.stage
  BY <1>1 DEF Jobs
<1>4. Body(p, d, row, next) /\ next \in Steps
  BY DEF Steps
<1> HIDE DEF row, new
<1>5. /\ job.stage \in 1 .. 6 /\ Entry(job.stage) = 2 * job.stage - 1
      /\ Complete(job.stage) = 2 * job.stage /\ Complete(2) = 4 /\ STRUCTURED = 12
      /\ FAILED = -1 /\ CLASSIFICATION_FAILED = -2 /\ ABSENT = -5
  BY <1>1, Numbers
<1>6. RowSound(row, replaced[d])
  BY <1>1, <1>2, <1>5 DEF RowSound
<1>7. TaskSound(new, row, replaced[d])
  BY <1>1, <1>2, <1>3, <1>5 DEF TaskSound, Fresh
<1> QED BY <1>2, <1>4, <1>6, <1>7, BodySound DEF new

\* The wrapper's own write at the end of a task.
LEMMA SettledSound ==
    ASSUME Sound, NEW p \in Pipelines, NEW d \in Docs, NEW step \in Steps,
           NEW status \in {FAILED, CLASSIFICATION_FAILED, Complete(jobs[p][d].stage)},
           status = Complete(jobs[p][d].stage) => step = "complete",
           Settled(p, d, step, status)
    PROVE  ChainsSound'
<1> DEFINE job == jobs[p][d]
           row == [docs[d] EXCEPT !.status = status]
           new == Job(job.stage + 1)
<1>1. /\ job.stage \in Stages /\ job.step = step /\ UNCHANGED <<phase, replaced>>
      /\ SetRow(d, row) /\ Step(p, d, new)
  BY DEF Settled, At, Ended, caseVars
<1>2. /\ docs[d] \in Rows /\ job \in Jobs /\ replaced[d] \in Nat
      /\ RowSound(docs[d], replaced[d]) /\ TaskSound(job, docs[d], replaced[d])
  BY <1>1, TaskFacts
<1>3. /\ row \in Rows /\ row.status = status /\ row.type = docs[d].type
      /\ row.file = docs[d].file /\ row.prep = docs[d].prep /\ row.chunks = docs[d].chunks
      /\ row.text = docs[d].text /\ row.structured = docs[d].structured
  BY <1>1, <1>2, StatusFacts DEF Rows
<1>4. /\ job.stage \in 1 .. 6 /\ Complete(job.stage) = 2 * job.stage
      /\ Complete(1) = 2 /\ Complete(2) = 4 /\ STRUCTURED = 12
      /\ FAILED = -1 /\ CLASSIFICATION_FAILED = -2 /\ ABSENT = -5
  BY <1>1, Numbers
<1> HIDE DEF row
<1>5. status = Complete(job.stage) /\ job.stage # 5 => docs[d].status = Complete(job.stage)
  BY <1>1, <1>2 DEF TaskSound
<1>6. RowSound(row, replaced[d])
  BY <1>1, <1>2, <1>3, <1>4, <1>5 DEF RowSound, TaskSound
<1>7. /\ row.status \in {FAILED, CLASSIFICATION_FAILED, SKIPPED}
         \/ row.status >= Complete(job.stage)
      /\ job.stage = 1 => row.status <= Complete(1)
      /\ job.stage = 2 => /\ row.status <= Complete(2)
                          /\ row.status = Complete(2) => row.chunks = replaced[d] + 1
  BY <1>2, <1>3, <1>4, <1>5 DEF TaskSound
<1>8. /\ new \in Jobs /\ new.stage = job.stage + 1
      /\ job.stage + 1 \in Stages => TaskSound(new, row, replaced[d])
      /\ job.stage + 1 = 7 => row.status \in Decided
  <2> HIDE DEF job
  <2> QED BY <1>1, <1>2, <1>3, <1>7, NextTask
<1>9. new.stage \in 1 .. 7
  BY <1>4, <1>8
<1> HIDE DEF new
<1> QED BY <1>1, <1>3, <1>6, <1>8, <1>9, OneTask

\* The task is delivered again, by a retry or after a crash.
LEMMA AgainSound ==
    ASSUME Sound, NEW p \in Pipelines, NEW d \in Docs, RetryStage(p, d) \/ CrashStage(p, d)
    PROVE  ChainsSound'
<1> DEFINE job == jobs[p][d]
<1>1. /\ job.stage \in Stages /\ job.step # "check" /\ UNCHANGED <<docs, phase, replaced>>
      /\ job.step = "reject" => CrashStage(p, d)
  BY DEF RetryStage, CrashStage, At, caseVars
<1>2. /\ docs[d] \in Rows /\ job \in Jobs /\ replaced[d] \in Nat
      /\ RowSound(docs[d], replaced[d]) /\ TaskSound(job, docs[d], replaced[d])
  BY <1>1, TaskFacts
<1>3. SetRow(d, docs[d])
  BY <1>1 DEF SetRow, Sound, TypeOK
<1>4. ASSUME NEW retries \in 0 .. MaxRetries,
             Step(p, d, [Job(job.stage) EXCEPT !.retries = retries])
      PROVE  ChainsSound'
  <2> DEFINE new == [Job(job.stage) EXCEPT !.retries = retries]
  <2>1. /\ new.stage = job.stage /\ new.step = "check"
        /\ new \in Jobs
    BY <1>1, RecordFacts, Numbers DEF Job, Jobs
  <2> HIDE DEF new
  <2>2. TaskSound(new, docs[d], replaced[d])
    BY <1>1, <1>2, <2>1 DEF TaskSound, Fresh
  <2>3. new.stage \in 1 .. 7 /\ new.stage # 7 /\ Step(p, d, new)
    BY <1>1, <1>4, <2>1, Numbers DEF new
  <2> QED BY <1>1, <1>2, <1>3, <2>1, <2>2, <2>3, OneTask
<1>5. CASE RetryStage(p, d)
  <2>1. job.retries + 1 \in 0 .. MaxRetries
    BY <1>2, <1>5, BoundsFacts DEF RetryStage, Jobs
  <2> QED BY <1>4, <1>5, <2>1 DEF RetryStage
<1>6. CASE CrashStage(p, d)
  <2>1. job.retries \in 0 .. MaxRetries
    BY <1>2 DEF Jobs
  <2> QED BY <1>4, <1>6, <2>1 DEF CrashStage
<1> QED BY <1>5, <1>6

\* Whatever a task of a chain does.
LEMMA StageSound ==
    ASSUME Sound, NEW p \in Pipelines, NEW d \in Docs, Stage(p, d) \/ CrashStage(p, d)
    PROVE  ChainsSound'
<1> DEFINE job == jobs[p][d]
<1> USE DEF Steps
<1>1. CASE FailHandled(p, d)
  <2> DEFINE type == IF job.stage = 5 THEN job.input.type ELSE docs[d].type
  <2>1. At(p, d, "body")
    BY <1>1 DEF FailHandled, Body
  <2>2. job.input = docs[d] /\ docs[d] \in Rows
    BY <2>1, InBody
  <2>3. type = docs[d].type
    BY <2>2
  <2>4. Body(p, d, [docs[d] EXCEPT !.status = FAILED, !.type = docs[d].type], "retry")
    BY <1>1, <2>2 DEF FailHandled
  <2>5. FAILED # CLASSIFICATION_FAILED
    BY Numbers
  <2> QED BY <2>1, <2>4, <2>5, FailureSound
<1>2. CASE Raise(p, d)
  <2>1. At(p, d, "body") /\ Body(p, d, docs[d], "retry")
    BY <1>2 DEF Raise, Body
  <2>2. /\ job.stage \in Stages /\ docs[d] \in Rows /\ docs[d].status = Entry(job.stage)
    BY <2>1, InBody
  <2>3. docs[d] = [docs[d] EXCEPT !.status = Entry(job.stage), !.type = docs[d].type]
    BY <2>2 DEF Rows
  <2>4. Entry(job.stage) # CLASSIFICATION_FAILED
    BY <2>2, Numbers
  <2>5. Body(p, d, [docs[d] EXCEPT !.status = Entry(job.stage), !.type = docs[d].type], "retry")
    BY <2>1, <2>3
  <2> QED BY <2>1, <2>4, <2>5, FailureSound
<1>3. CASE Unsupported(p, d)
  <2>1. At(p, d, "body") /\ job.stage = 4
    BY <1>3 DEF Unsupported, Body
  <2>2. Body(p, d, [docs[d] EXCEPT !.status = CLASSIFICATION_FAILED, !.type = docs[d].text],
             "reject")
    BY <1>3, <2>1, InBody DEF Unsupported
  <2> QED BY <2>1, <2>2, FailureSound
<1>4. CASE OutOfCredits(p, d)
  <2>1. At(p, d, "body") /\ Body(p, d, [docs[d] EXCEPT !.status = FAILED], "give_up")
    BY <1>4 DEF OutOfCredits, Body
  <2>2. [docs[d] EXCEPT !.status = FAILED]
          = [docs[d] EXCEPT !.status = FAILED, !.type = docs[d].type]
    BY <2>1, InBody DEF Rows
  <2>3. Body(p, d, [docs[d] EXCEPT !.status = FAILED, !.type = docs[d].type], "give_up")
    BY <2>1, <2>2
  <2>4. FAILED # CLASSIFICATION_FAILED
    BY Numbers
  <2> QED BY <2>1, <2>3, <2>4, FailureSound
<1>5. CASE CompleteStage(p, d)
  BY <1>5, SettledSound DEF CompleteStage
<1>6. CASE RejectType(p, d) \/ GiveUpOcr(p, d) \/ Exhausted(p, d)
  <2>1. job.stage \in Stages
    BY <1>6 DEF RejectType, GiveUpOcr, Exhausted, Settled, At
  <2>2. Complete(job.stage) \notin {FAILED, CLASSIFICATION_FAILED}
    BY <2>1, Numbers
  <2> QED BY <1>6, <2>2, SettledSound DEF RejectType, GiveUpOcr, Exhausted
<1> QED BY <1>1, <1>2, <1>3, <1>4, <1>5, <1>6, CheckSound, EnterSound, SucceedSound, AgainSound
        DEF Stage

----------------------------------------------------------------------------
\* What the endpoints leave

\* No task is inside a stage while the lock is free.
LEMMA FreeLock ==
    ASSUME Sound, lock = 0
    PROVE  /\ \A p \in Pipelines : ~Active(p)
           /\ \A p \in Pipelines, d \in Docs : jobs[p][d].stage \notin Stages
           /\ \A d \in Docs : docs[d].status \in AtRest
<1>1. \A p \in Pipelines : ~Active(p)
  BY DEF Sound, ActiveHoldsLock, Pipelines
<1>2. \A p \in Pipelines, d \in Docs : jobs[p][d].stage \notin Stages
  BY <1>1 DEF Sound, ChainsSound, TasksSound, Active
<1> QED BY <1>1, <1>2 DEF Sound, ChainsSound, NoneStranded

\* A pipeline is started on documents at rest.
LEMMA LaunchSound ==
    ASSUME Sound, lock = 0, NEW first, Launch(first), UNCHANGED replaced,
           \A d \in Docs : /\ RowSound(docs'[d], replaced[d])
                           /\ docs'[d].status \in AtRest
                           /\ first[d] \in {0, 1, 4, 5, 6}
                           /\ first[d] # 0 => docs'[d].status \notin {ABSENT, STRUCTURED}
    PROVE  ChainsSound'
<1>1. RowsSound' /\ NoneStranded'
  BY DEF RowsSound, NoneStranded
<1>2. CASE /\ started < MaxPipelines /\ started' = started + 1
           /\ phase' = [phase EXCEPT ![started'] = "chains"]
           /\ jobs' = [jobs EXCEPT ![started'] = [d \in Docs |-> Job(first[d])]]
  <2>1. started' \in Pipelines
    BY <1>2, BoundsFacts DEF Sound, TypeOK, Pipelines
  <2>2. /\ phase'[started'] = "chains" /\ \A d \in Docs : jobs'[started'][d] = Job(first[d])
        /\ \A p \in Pipelines \ {started'} : phase'[p] = phase[p] /\ jobs'[p] = jobs[p]
    BY <1>2, <2>1 DEF Sound, TypeOK
  <2>3. \A d \in Docs : first[d] # 0 => TaskSound(Job(first[d]), docs'[d], replaced[d])
    <3> SUFFICES ASSUME NEW d \in Docs, first[d] # 0
                 PROVE  TaskSound(Job(first[d]), docs'[d], replaced[d])
      OBVIOUS
    <3>1. Job(first[d]).stage = first[d] /\ Fresh(Job(first[d])) /\ first[d] \in {1, 4, 5, 6}
      BY DEF Job, Fresh
    <3>2. docs'[d].status \in -4 .. 0
      BY Numbers DEF AtRest, Decided
    <3>3. ABSENT = -5 /\ Complete(1) = 2
      BY Numbers
    <3> QED BY <3>1, <3>2, <3>3 DEF TaskSound, Fresh
  <2>4. TasksSound'
    <3> SUFFICES ASSUME NEW p \in Pipelines, NEW d \in Docs, jobs'[p][d].stage \in Stages
                 PROVE  phase'[p] = "chains" /\ TaskSound(jobs'[p][d], docs'[d], replaced[d])
      BY DEF TasksSound
    <3>1. p = started'
      BY <2>2, FreeLock
    <3>2. Job(first[d]).stage = first[d]
      BY DEF Job
    <3> QED BY <2>2, <2>3, <3>1, <3>2, Numbers
  <2>5. EndsDecided'
    <3> SUFFICES ASSUME NEW p \in Pipelines, NEW d \in Docs, Active(p)', jobs'[p][d].stage = 7
                 PROVE  FALSE
      BY DEF EndsDecided
    <3>1. p = started'
      BY <2>2, FreeLock DEF Active
    <3>2. Job(first[d]).stage = first[d] /\ first[d] # 7
      BY DEF Job
    <3> QED BY <2>2, <3>1, <3>2
  <2> QED BY <1>1, <2>4, <2>5 DEF ChainsSound
<1>3. CASE UNCHANGED <<started, lock, phase, jobs>>
  <2>1. TasksSound' /\ EndsDecided'
    BY <1>3, FreeLock DEF TasksSound, EndsDecided, Active
  <2> QED BY <1>1, <2>1 DEF ChainsSound
<1> QED BY <1>2, <1>3 DEF Launch

LEMMA StartSound ==
    ASSUME Sound, ProcessCase \/ RetryFailed \/ \E d \in Docs : UploadMore(d)
    PROVE  ChainsSound'
<1>1. lock = 0
  BY DEF ProcessCase, RetryFailed, UploadMore, Admitted
<1>2. \A d \in Docs : docs[d] \in Rows /\ RowSound(docs[d], replaced[d]) /\ docs[d].status \in AtRest
  BY <1>1, FreeLock DEF Sound, TypeOK, ChainsSound, RowsSound
<1>3. CASE ProcessCase
  <2>1. PICK first : /\ first = FullChains(docs) /\ Launch(first)
                     /\ UNCHANGED <<docs, replaced>>
    BY <1>3 DEF ProcessCase
  <2>2. ASSUME NEW d \in Docs
        PROVE  /\ RowSound(docs'[d], replaced[d]) /\ docs'[d].status \in AtRest
               /\ first[d] \in {0, 1, 4, 5, 6}
               /\ first[d] # 0 => docs'[d].status \notin {ABSENT, STRUCTURED}
    BY <1>2, <2>1 DEF FullChains
  <2>3. Launch(first) /\ UNCHANGED replaced
    BY <2>1
  <2> QED BY <1>1, <2>2, <2>3, LaunchSound
<1>4. ASSUME NEW d \in Docs, UploadMore(d) PROVE ChainsSound'
  <2>1. PICK first : /\ first = FullChains(docs') /\ Launch(first) /\ UNCHANGED replaced
                     /\ docs[d].status = ABSENT /\ docs' = [docs EXCEPT ![d] = NewRow]
    BY <1>4 DEF UploadMore
  <2>2. /\ docs'[d] = NewRow /\ \A e \in Docs \ {d} : docs'[e] = docs[e]
    BY <2>1 DEF Sound, TypeOK
  <2>3. replaced[d] = 0
    BY <1>2, <2>1 DEF RowSound
  <2>4. RowSound(NewRow, 0) /\ NewRow.status \in AtRest
    BY Numbers DEF RowSound, NewRow, NoRow, AtRest
  <2>5. \A e \in Docs : RowSound(docs'[e], replaced[e]) /\ docs'[e].status \in AtRest
    BY <1>2, <2>2, <2>3, <2>4
  <2>6. ASSUME NEW e \in Docs
        PROVE  /\ RowSound(docs'[e], replaced[e]) /\ docs'[e].status \in AtRest
               /\ first[e] \in {0, 1, 4, 5, 6}
               /\ first[e] # 0 => docs'[e].status \notin {ABSENT, STRUCTURED}
    BY <2>1, <2>5 DEF FullChains
  <2>7. Launch(first) /\ UNCHANGED replaced
    BY <2>1
  <2> QED BY <1>1, <2>6, <2>7, LaunchSound
<1>5. CASE RetryFailed
  <2> DEFINE failed == {d \in Docs : docs[d].status \in {FAILED, PENDING_RETRY}}
             first == [d \in Docs |-> IF d \in failed THEN ResumeStage(docs[d]) ELSE 0]
  <2>1. /\ Launch(first) /\ UNCHANGED replaced
        /\ docs' = [d \in Docs |-> IF d \in failed THEN [docs[d] EXCEPT !.status = PENDING_RETRY]
                                   ELSE docs[d]]
    BY <1>5 DEF RetryFailed
  <2>2. ASSUME NEW d \in Docs
        PROVE  /\ RowSound(docs'[d], replaced[d]) /\ docs'[d].status \in AtRest
               /\ first[d] \in {0, 1, 4, 5, 6}
               /\ first[d] # 0 => docs'[d].status \notin {ABSENT, STRUCTURED}
    <3> DEFINE row == [docs[d] EXCEPT !.status = PENDING_RETRY]
    <3>1. CASE d \notin failed
      BY <1>2, <2>1, <3>1
    <3>2. CASE d \in failed
      <4>1. docs'[d] = row /\ first[d] \in {0, 1, 4, 5, 6}
        BY <2>1, <3>2 DEF ResumeStage
      <4>2. /\ row.status = PENDING_RETRY /\ row.type = docs[d].type
            /\ row.file = docs[d].file /\ row.prep = docs[d].prep
            /\ row.text = docs[d].text /\ row.structured = docs[d].structured
        BY <1>2 DEF Rows
      <4>3. /\ PENDING_RETRY \in AtRest /\ PENDING_RETRY \notin {ABSENT, STRUCTURED}
            /\ docs[d].status # ABSENT
        BY <3>2, Numbers DEF AtRest
      <4> HIDE DEF row
      <4>4. RowSound(row, replaced[d])
        BY <1>2, <4>2, <4>3 DEF RowSound
      <4> QED BY <4>1, <4>2, <4>3, <4>4
    <3> QED BY <3>1, <3>2
  <2> HIDE DEF first
  <2> QED BY <1>1, <2>1, <2>2, LaunchSound
<1> QED BY <1>3, <1>4, <1>5

\* The user acts on an unsupported document, whose task, if any, is over or about
\* to mark it so: nothing that the task has read is written after the replacement.
LEMMA UserSound ==
    ASSUME Sound, Offered, NEW d \in Docs, ReplaceDocument(d) \/ SkipDocument(d)
    PROVE  ChainsSound'
<1>1. /\ docs[d].status = CLASSIFICATION_FAILED /\ docs[d] \in Rows /\ replaced[d] \in Nat
      /\ RowSound(docs[d], replaced[d]) /\ UNCHANGED <<jobs, phase>>
  BY BoundsFacts DEF Sound, TypeOK, ChainsSound, RowsSound, Offered, ReplaceDocument, SkipDocument
<1>2. PICK row \in Rows, n \in Nat :
        /\ docs' = [docs EXCEPT ![d] = row] /\ replaced' = [replaced EXCEPT ![d] = n]
        /\ row.status \in {FAILED, SKIPPED} /\ RowSound(row, n)
  <2>1. CASE ReplaceDocument(d)
    <3> DEFINE n == replaced[d] + 1
               row == [Cleared(docs[d]) EXCEPT !.file = n + 1]
    <3>1. replaced' = [replaced EXCEPT ![d] = n] /\ n \in 0 .. MaxReplacements
      BY <1>1, <2>1, BoundsFacts DEF ReplaceDocument
    <3>2. replaced'[d] = n /\ n \in Nat /\ n + 1 \in Versions
      BY <3>1, BoundsFacts DEF Versions, Sound, TypeOK
    <3>3. docs' = [docs EXCEPT ![d] = row]
      BY <2>1, <3>2 DEF ReplaceDocument
    <3>4. row \in Rows
      BY <1>1, <3>2, ClearedIsRow DEF Rows
    <3>5. /\ row.status = FAILED /\ row.file = n + 1 /\ row.prep = 0 /\ row.text = 0
          /\ row.type = 0 /\ row.structured = 0
      BY <1>1 DEF Cleared, Rows
    <3> HIDE DEF row, n
    <3>6. RowSound(row, n)
      BY <3>5, Numbers DEF RowSound
    <3> QED BY <3>1, <3>2, <3>3, <3>4, <3>5, <3>6
  <2>2. CASE SkipDocument(d)
    <3> DEFINE row == [docs[d] EXCEPT !.status = SKIPPED]
    <3>1. docs' = [docs EXCEPT ![d] = row] /\ replaced' = [replaced EXCEPT ![d] = replaced[d]]
      BY <2>2 DEF SkipDocument, Sound, TypeOK
    <3>2. /\ row.status = SKIPPED /\ row.file = docs[d].file /\ row.prep = docs[d].prep
          /\ row.text = docs[d].text /\ row.type = docs[d].type
          /\ row.structured = docs[d].structured /\ row \in Rows
      BY <1>1, StatusFacts DEF Rows
    <3> HIDE DEF row
    <3>3. RowSound(row, replaced[d])
      BY <1>1, <3>2, Numbers DEF RowSound
    <3> QED BY <1>1, <3>1, <3>2, <3>3
  <2> QED BY <2>1, <2>2
<1>3. /\ docs'[d] = row /\ replaced'[d] = n
      /\ \A e \in Docs \ {d} : docs'[e] = docs[e] /\ replaced'[e] = replaced[e]
  BY <1>2 DEF Sound, TypeOK
<1>4. row.status \in Decided /\ row.status \in AtRest
  BY <1>2 DEF Decided, AtRest
<1>5. RowsSound'
  BY <1>2, <1>3 DEF Sound, ChainsSound, RowsSound
<1>6. TasksSound'
  <2> SUFFICES ASSUME NEW p \in Pipelines, NEW e \in Docs, jobs[p][e].stage \in Stages
               PROVE  phase[p] = "chains" /\ TaskSound(jobs[p][e], docs'[e], replaced'[e])
    BY <1>1 DEF TasksSound
  <2>1. phase[p] = "chains" /\ TaskSound(jobs[p][e], docs[e], replaced[e])
    BY DEF Sound, ChainsSound, TasksSound
  <2>2. CASE e = d
    <3>1. TaskSound(jobs[p][d], row, n)
      BY <1>1, <1>2, <2>1, <2>2, Numbers DEF TaskSound, Fresh
    <3> QED BY <1>3, <2>1, <2>2, <3>1
  <2>3. CASE e # d
    BY <1>3, <2>1, <2>3
  <2> QED BY <2>2, <2>3
<1>7. EndsDecided' /\ NoneStranded'
  BY <1>1, <1>3, <1>4 DEF Sound, ChainsSound, EndsDecided, NoneStranded, Active
<1> QED BY <1>5, <1>6, <1>7 DEF ChainsSound

\* The finalizer works when the chains have ended.
LEMMA FinalizerSound ==
    ASSUME Sound, NEW p \in Pipelines, Finalize(p)
    PROVE  ChainsSound'
<1>1. UNCHANGED <<docs, replaced>>
  BY DEF Finalize, FinalCount, FinalWrite, FinalRelease, FinalQueue
<1>2. \A d \in Docs : jobs[p][d].stage \notin Stages
  <2>1. CASE FinalCount(p)
    BY <2>1 DEF FinalCount, ChainsEnded, Stages
  <2>2. CASE phase[p] # "chains"
    BY <2>2 DEF Sound, ChainsSound, TasksSound
  <2> QED BY <2>1, <2>2 DEF Finalize, FinalWrite, FinalRelease, FinalQueue
<1>3. /\ \A q \in Pipelines \ {p} : phase'[q] = phase[q] /\ jobs'[q] = jobs[q]
      /\ Active(p)' => Active(p) /\ jobs'[p] = jobs[p]
      /\ \A d \in Docs : jobs'[p][d].stage \notin Stages
  <2>1. CASE FinalCount(p) \/ FinalWrite(p) \/ FinalRelease(p)
    BY <1>2, <2>1 DEF FinalCount, FinalWrite, FinalRelease, Active, Sound, TypeOK
  <2>2. CASE FinalQueue(p)
    <3>1. /\ phase' = [phase EXCEPT ![p] = "idle"] /\ jobs' = [jobs EXCEPT ![p] = NoJobs]
          /\ \A d \in Docs : NoJobs[d].stage = 0
      BY <2>2 DEF FinalQueue, NoJobs, Job
    <3>2. phase'[p] = "idle" /\ jobs'[p] = NoJobs /\ 0 \notin Stages
      BY <3>1, Numbers DEF Sound, TypeOK
    <3> QED BY <3>1, <3>2 DEF Active, Sound, TypeOK
  <2> QED BY <2>1, <2>2 DEF Finalize
<1>4. RowsSound' /\ NoneStranded'
  BY <1>1, <1>2, <1>3 DEF Sound, ChainsSound, RowsSound, NoneStranded
<1>5. TasksSound'
  <2> SUFFICES ASSUME NEW q \in Pipelines, NEW d \in Docs, jobs'[q][d].stage \in Stages
               PROVE  phase'[q] = "chains" /\ TaskSound(jobs'[q][d], docs'[d], replaced'[d])
    BY DEF TasksSound
  <2>1. q # p
    BY <1>3
  <2> QED BY <1>1, <1>3, <2>1 DEF Sound, ChainsSound, TasksSound
<1>6. EndsDecided'
  <2> SUFFICES ASSUME NEW q \in Pipelines, NEW d \in Docs, Active(q)', jobs'[q][d].stage = 7
               PROVE  docs'[d].status \in Decided
    BY DEF EndsDecided
  <2>1. Active(q) /\ jobs[q][d].stage = 7
    BY <1>3 DEF Active
  <2> QED BY <1>1, <2>1 DEF Sound, ChainsSound, EndsDecided
<1> QED BY <1>4, <1>5, <1>6 DEF ChainsSound

----------------------------------------------------------------------------
\* The theorems

LEMMA SoundInit == Init => ChainsSound
<1> SUFFICES ASSUME Init PROVE ChainsSound
  OBVIOUS
<1>1. \A p \in Pipelines, d \in Docs : jobs[p][d].stage = 0
  BY DEF Init, NoJobs, Job
<1>2. \A d \in Docs : docs[d] \in {NewRow, NoRow} /\ replaced[d] = 0
  BY DEF Init
<1>3. NewRow.status = UPLOADED /\ NoRow.status = ABSENT
  BY DEF NewRow, NoRow
<1>4. RowSound(NewRow, 0) /\ RowSound(NoRow, 0)
  BY Numbers DEF RowSound, NewRow, NoRow
<1>5. RowsSound /\ NoneStranded
  BY <1>2, <1>3, <1>4 DEF RowsSound, NoneStranded, AtRest
<1>6. TasksSound /\ EndsDecided
  BY <1>1, Numbers DEF TasksSound, EndsDecided
<1> QED BY <1>5, <1>6 DEF ChainsSound

\* Every step keeps the invariant of the chains, whoever takes it.
THEOREM SoundStep ==
    ASSUME Offered, Sound, [Next]_vars
    PROVE  Sound'
<1>1. TypeOK' /\ ActiveHoldsLock'
  BY TypeStep, LockStep DEF Sound, Offered
<1> SUFFICES ChainsSound'
  BY <1>1 DEF Sound
<1>2. CASE ProcessCase \/ RetryFailed \/ \E d \in Docs : UploadMore(d)
  BY <1>2, StartSound
<1>3. CASE \E d \in Docs : ReplaceDocument(d) \/ SkipDocument(d)
  BY <1>3, UserSound
<1>4. CASE \E p \in Pipelines, d \in Docs : Stage(p, d) \/ CrashStage(p, d)
  BY <1>4, StageSound
<1>5. CASE \E p \in Pipelines : Finalize(p)
  BY <1>5, FinalizerSound
<1>6. ASSUME NEW p \in Pipelines, CrashFinal(p) PROVE FALSE
  BY <1>6 DEF CrashFinal, Fault, Offered
<1>7. CASE UNCHANGED vars
  BY <1>7 DEF vars, Sound, ChainsSound, RowsSound, TasksSound, EndsDecided, NoneStranded, Active
<1> QED BY <1>2, <1>3, <1>4, <1>5, <1>6, <1>7 DEF Next

\* The invariant of the chains holds of every behaviour in which the user acts on
\* unsupported documents only and no finalizer is delivered twice.
THEOREM SoundAlways == ASSUME Offered PROVE Spec => []Sound
<1>1. Init => Sound
  BY TypeInit, SoundInit DEF Sound, Init, ActiveHoldsLock, Active
<1>2. Sound /\ [Next]_vars => Sound'
  BY SoundStep
<1> QED BY <1>1, <1>2, PTL DEF Spec

\* What a structured document shows was made, stage by stage, from the file the user
\* gave last: however its tasks failed, were retried from a checkpoint or delivered
\* again, and although the chunks of a replaced file stay on disk (replace_document).
THEOREM StructuredMatches == ASSUME Offered PROVE Spec => []StructuredMatchesFile
<1>1. Sound => StructuredMatchesFile
  <2> SUFFICES ASSUME Sound, NEW d \in Docs, docs[d].status = STRUCTURED
               PROVE  /\ docs[d].file = replaced[d] + 1 /\ docs[d].text = docs[d].file
                      /\ docs[d].type = docs[d].file /\ docs[d].structured = docs[d].file
    BY DEF StructuredMatchesFile
  <2>1. RowSound(docs[d], replaced[d]) /\ STRUCTURED # ABSENT
    BY Numbers DEF Sound, ChainsSound, RowsSound
  <2> QED BY <2>1 DEF RowSound
<1> QED BY <1>1, SoundAlways, PTL

\* When a finalizer has counted, every document of its pipeline is structured, failed,
\* refused or skipped: no crash, retry or replacement leaves one inside a stage.
THEOREM FinalizedDecided == ASSUME Offered PROVE Spec => []FinalizedIsDecided
<1>1. Sound => FinalizedIsDecided
  <2> SUFFICES ASSUME Sound, NEW p \in Pipelines, phase[p] = "status", NEW d \in Docs,
                      jobs[p][d].stage # 0
               PROVE  docs[d].status \in Decided
    BY DEF FinalizedIsDecided, Decided
  <2>1. jobs[p][d].stage \in 0 .. 7 /\ jobs[p][d].stage \notin Stages
    BY DEF Sound, TypeOK, Jobs, ChainsSound, TasksSound
  <2>2. jobs[p][d].stage = 7
    BY <2>1, Numbers
  <2> QED BY <2>2 DEF Sound, ChainsSound, EndsDecided, Active
<1> QED BY <1>1, SoundAlways, PTL

----------------------------------------------------------------------------
\* A case shown as complete

Waits == Count(docs, {FAILED, CLASSIFICATION_FAILED})

\* The two invariants in one: while a document waits for the user, neither the case
\* nor a finalizer on its way to it says complete.
Shown ==
    Waits => /\ \A p \in Pipelines : /\ phase[p] = "status" => final[p] # "complete"
                                     /\ phase[p] = "release" => caseStatus # "complete"
             /\ caseStatus = "complete" => \E p \in Pipelines : Active(p)

LEMMA StartShown ==
    ASSUME Sound, Shown, ProcessCase \/ RetryFailed \/ \E d \in Docs : UploadMore(d)
    PROVE  Shown'
<1>1. PICK first : Launch(first) /\ UNCHANGED final /\ lock = 0
  BY DEF ProcessCase, RetryFailed, UploadMore, Admitted
<1>2. \A p \in Pipelines : ~Active(p)
  BY <1>1, FreeLock
<1>3. CASE /\ started < MaxPipelines /\ started' = started + 1 /\ caseStatus' = "processing"
           /\ phase' = [phase EXCEPT ![started'] = "chains"]
  <2>1. phase \in [Pipelines -> {"idle", "chains", "status", "release", "queue"}]
    BY DEF Sound, TypeOK
  <2> QED BY <1>2, <1>3, <2>1 DEF Shown, Active
<1>4. CASE caseStatus' = "failed" /\ UNCHANGED phase
  BY <1>2, <1>4 DEF Shown, Active
<1> QED BY <1>1, <1>3, <1>4 DEF Launch

LEMMA UserShown ==
    ASSUME Sound, Offered, Shown, NEW d \in Docs, ReplaceDocument(d) \/ SkipDocument(d)
    PROVE  Shown'
<1>1. Waits /\ UNCHANGED <<phase, final>>
  BY DEF Offered, ReplaceDocument, SkipDocument, Waits, Count
<1>2. CASE ReplaceDocument(d)
  BY <1>1, <1>2 DEF ReplaceDocument, Shown, Active
<1>3. CASE SkipDocument(d)
  <2>1. Waits' => caseStatus' # "complete"
    BY <1>3 DEF SkipDocument, UpdatedStatus, Waits
  <2> QED BY <1>1, <2>1 DEF Shown
<1> QED BY <1>2, <1>3

\* While a task is in the chain, its pipeline is the only one at work.
LEMMA StageShown ==
    ASSUME Sound, Shown, NEW p \in Pipelines, NEW d \in Docs, Stage(p, d) \/ CrashStage(p, d)
    PROVE  Shown'
<1>1. UNCHANGED caseVars
  BY DEF Stage, Check, Enter, Succeed, FailHandled, Raise, Unsupported, OutOfCredits,
         CompleteStage, RejectType, GiveUpOcr, Exhausted, RetryStage, CrashStage, Body, Settled
<1>2. jobs[p][d].stage \in Stages
  BY DEF Stage, Check, Enter, Succeed, FailHandled, Raise, Unsupported, OutOfCredits,
         CompleteStage, RejectType, GiveUpOcr, Exhausted, RetryStage, CrashStage, Body, Settled, At
<1>3. phase[p] = "chains" /\ Active(p)
  BY <1>2 DEF Sound, ChainsSound, TasksSound, Active
<1>4. \A q \in Pipelines : phase[q] \notin {"status", "release"}
  BY <1>3, OneActive DEF Sound, Active
<1> QED BY <1>1, <1>3, <1>4 DEF Shown, Active, caseVars

LEMMA FinalizerShown ==
    ASSUME Sound, Shown, NEW p \in Pipelines, Finalize(p)
    PROVE  Shown'
<1>1. /\ phase \in [Pipelines -> {"idle", "chains", "status", "release", "queue"}]
      /\ final \in [Pipelines -> CaseStatuses]
  BY DEF Sound, TypeOK
<1>2. CASE FinalCount(p)
  <2>1. Waits => FinalStatus # "complete" /\ UpdatedStatus(docs) # "complete"
    BY DEF Waits, FinalStatus, UpdatedStatus
  <2> QED BY <1>1, <1>2, <2>1 DEF FinalCount, Shown, Waits, Count
<1>3. CASE FinalWrite(p)
  <2>1. /\ phase[p] = "status" /\ phase' = [phase EXCEPT ![p] = "release"]
        /\ caseStatus' = final[p] /\ final' = final /\ (Waits' => Waits)
    BY <1>3 DEF FinalWrite, Waits, Count
  <2>2. Waits => caseStatus' # "complete"
    BY <2>1 DEF Shown
  <2> QED BY <1>1, <2>1, <2>2 DEF Shown
<1>4. CASE FinalRelease(p)
  <2>1. /\ phase[p] = "release" /\ phase' = [phase EXCEPT ![p] = "queue"]
        /\ UNCHANGED <<caseStatus, final>> /\ (Waits' => Waits)
    BY <1>4 DEF FinalRelease, Waits, Count
  <2>2. Waits => caseStatus # "complete"
    BY <2>1 DEF Shown
  <2> QED BY <1>1, <2>1, <2>2 DEF Shown
<1>5. CASE FinalQueue(p)
  BY <1>1, <1>5 DEF FinalQueue, Shown, Waits, Count, Active
<1> QED BY <1>2, <1>3, <1>4, <1>5 DEF Finalize

LEMMA ShownStep ==
    ASSUME Offered, Sound, Shown, [Next]_vars
    PROVE  Shown'
<1>1. CASE ProcessCase \/ RetryFailed \/ \E d \in Docs : UploadMore(d)
  BY <1>1, StartShown
<1>2. CASE \E d \in Docs : ReplaceDocument(d) \/ SkipDocument(d)
  BY <1>2, UserShown
<1>3. CASE \E p \in Pipelines, d \in Docs : Stage(p, d) \/ CrashStage(p, d)
  BY <1>3, StageShown
<1>4. CASE \E p \in Pipelines : Finalize(p)
  BY <1>4, FinalizerShown
<1>5. ASSUME NEW p \in Pipelines, CrashFinal(p) PROVE FALSE
  BY <1>5 DEF CrashFinal, Fault, Offered
<1>6. CASE UNCHANGED vars
  BY <1>6 DEF vars, Shown, Waits, Count, Active
<1> QED BY <1>1, <1>2, <1>3, <1>4, <1>5, <1>6 DEF Next

\* Once the pipelines are over, a case is complete only when no document waits for
\* the user, whatever was skipped or replaced between the count and the write.
THEOREM CompleteMeansComplete == ASSUME Offered PROVE Spec => []CompleteIsComplete
<1>1. Init => Shown
  BY DEF Init, Shown
<1>2. Offered /\ Sound /\ Shown /\ [Next]_vars => Shown'
  BY ShownStep
<1>3. Shown => CompleteIsComplete
  BY DEF Shown, CompleteIsComplete, Waits
<1> QED BY <1>1, <1>2, <1>3, SoundAlways, PTL DEF Spec

----------------------------------------------------------------------------
\* Why a pipeline ends.

\* The steps a task can still take before it is tried again or its chain goes on.
StepsLeft ==
    [check |-> 4, enter |-> 3, body |-> 2, complete |-> 1, retry |-> 1, reject |-> 1, give_up |-> 1]

\* The steps of a task with all its retries, and what is left of a chain.
TaskSteps == 5 * (MaxRetries + 1)
ChainLeft(job) ==
    IF job.stage \in Stages
    THEN TaskSteps * (6 - job.stage) + 5 * (MaxRetries - job.retries) + StepsLeft[job.step]
    ELSE 0

FinalLeft == [chains |-> 4, status |-> 3, release |-> 2, queue |-> 1, idle |-> 0]

LEMMA ChainNumbers ==
    ASSUME NEW job \in Jobs
    PROVE  /\ ChainLeft(job) \in Nat
           /\ StepsLeft[job.step] \in 1 .. 4
           /\ job.stage \in Stages =>
                /\ ChainLeft(Job(job.stage + 1)) < ChainLeft(job)
                /\ \A next \in Jobs :
                     /\ next.stage = job.stage
                     /\ \/ next.retries = job.retries /\ StepsLeft[next.step] < StepsLeft[job.step]
                        \/ next.retries = job.retries + 1
                     => ChainLeft(next) < ChainLeft(job)
<1>1. /\ job.stage \in 0 .. 7 /\ job.retries \in 0 .. MaxRetries /\ job.step \in Steps
      /\ MaxRetries \in Nat
  BY BoundsAssumption DEF Jobs
<1>2. \A s \in Steps : StepsLeft[s] \in 1 .. 4
  BY DEF Steps, StepsLeft
<1> DEFINE t == TaskSteps
           a == StepsLeft[job.step]
           r == MaxRetries - job.retries
<1>3. t \in Nat /\ t = 5 * (MaxRetries + 1) /\ r \in Nat /\ r <= MaxRetries /\ a \in 1 .. 4
  BY <1>1, <1>2 DEF TaskSteps
<1>4. job.stage \in Stages => ChainLeft(job) = t * (6 - job.stage) + 5 * r + a
  BY DEF ChainLeft
<1>5. \A k \in Stages : t * (6 - k) \in Nat /\ (k < 6 => t * (6 - k) = t * (6 - (k + 1)) + t)
  <2> HIDE DEF t
  <2>1. SUFFICES ASSUME NEW k \in Stages
        PROVE  t * (6 - k) \in Nat /\ (k < 6 => t * (6 - k) = t * (6 - (k + 1)) + t)
    OBVIOUS
  <2>2. k = 1 \/ k = 2 \/ k = 3 \/ k = 4 \/ k = 5 \/ k = 6
    BY DEF Stages
  <2> QED BY <1>3, <2>2
<1>6. ChainLeft(job) \in Nat
  <2>1. CASE job.stage \in Stages
    <3> DEFINE m == t * (6 - job.stage)
    <3>1. m \in Nat
      BY <1>5, <2>1
    <3> HIDE DEF m, t, a, r
    <3>2. ChainLeft(job) = m + 5 * r + a
      BY <1>4, <2>1 DEF m
    <3> QED BY <1>3, <3>1, <3>2
  <2>2. CASE job.stage \notin Stages
    BY <2>2 DEF ChainLeft
  <2> QED BY <2>1, <2>2
<1>7. ASSUME job.stage \in Stages PROVE ChainLeft(Job(job.stage + 1)) < ChainLeft(job)
  <2> DEFINE m == t * (6 - job.stage)
  <2>1. m \in Nat /\ ChainLeft(job) = m + 5 * r + a
    BY <1>4, <1>5, <1>7
  <2>2. CASE job.stage = 6
    <3>1. ChainLeft(Job(job.stage + 1)) = 0
      BY <2>2 DEF ChainLeft, Job, Stages
    <3> HIDE DEF m, t, a, r
    <3> QED BY <1>3, <2>1, <3>1
  <2>3. CASE job.stage < 6
    <3> DEFINE n == t * (6 - (job.stage + 1))
    <3>1. job.stage + 1 \in Stages /\ n \in Nat /\ m = n + t
      BY <1>1, <1>5, <1>7, <2>3 DEF Stages
    <3>2. ChainLeft(Job(job.stage + 1)) = n + 5 * (MaxRetries - 0) + 4
      BY <3>1 DEF ChainLeft, Job, StepsLeft
    <3> HIDE DEF m, n, t, a, r
    <3> QED BY <1>1, <1>3, <2>1, <3>1, <3>2
  <2> QED BY <1>1, <1>7, <2>2, <2>3 DEF Stages
<1>8. ASSUME job.stage \in Stages, NEW next \in Jobs, next.stage = job.stage,
             \/ next.retries = job.retries /\ StepsLeft[next.step] < StepsLeft[job.step]
             \/ next.retries = job.retries + 1
      PROVE  ChainLeft(next) < ChainLeft(job)
  <2> DEFINE m == t * (6 - job.stage)
             b == StepsLeft[next.step]
             q == MaxRetries - next.retries
  <2>1. m \in Nat /\ ChainLeft(job) = m + 5 * r + a
    BY <1>4, <1>5, <1>8
  <2>2. ChainLeft(next) = m + 5 * q + b
    BY <1>8 DEF ChainLeft
  <2>3. b \in 1 .. 4 /\ q \in Nat
    BY <1>2, BoundsAssumption DEF Jobs
  <2>4. (q = r /\ b < a) \/ q = r - 1
    BY <1>1, <1>8
  <2> HIDE DEF m, b, q, t, a, r
  <2> QED BY <1>3, <2>1, <2>2, <2>3, <2>4
<1> QED BY <1>2, <1>1, <1>6, <1>7, <1>8

\* A step of a stage task: what becomes of the task, and that nothing else of the pipelines moves.
LEMMA StageMoves ==
    ASSUME TypeOK, TypeOK', NEW p \in Pipelines, NEW d \in Docs, Stage(p, d)
    PROVE  /\ jobs[p][d].stage \in Stages
           /\ ChainLeft(jobs'[p][d]) < ChainLeft(jobs[p][d])
           /\ phase' = phase
           /\ \A q \in Pipelines, e \in Docs : <<q, e>> # <<p, d>> => jobs'[q][e] = jobs[q][e]
<1> DEFINE job == jobs[p][d]
           next == jobs'[p][d]
<1>1. job \in Jobs /\ next \in Jobs
  BY DEF TypeOK
<1>2. ASSUME NEW j, Step(p, d, j)
      PROVE  /\ next = j
             /\ \A q \in Pipelines, e \in Docs : <<q, e>> # <<p, d>> => jobs'[q][e] = jobs[q][e]
  BY <1>2 DEF Step, TypeOK
<1>3. job.stage \in Stages
  BY DEF Stage, Check, Enter, Succeed, FailHandled, Raise, Unsupported, OutOfCredits, Body,
         CompleteStage, RejectType, GiveUpOcr, Exhausted, Settled, RetryStage, At
<1>4. ASSUME Ended(p, d) PROVE ChainLeft(next) < ChainLeft(job)
  <2>1. next = Job(job.stage + 1)
    BY <1>2, <1>4 DEF Ended
  <2> QED BY <1>1, <1>3, <2>1, ChainNumbers
<1>5. ASSUME next.stage = job.stage,
             \/ next.retries = job.retries /\ StepsLeft[next.step] < StepsLeft[job.step]
             \/ next.retries = job.retries + 1
      PROVE  ChainLeft(next) < ChainLeft(job)
  BY <1>1, <1>3, <1>5, ChainNumbers
<1> DEFINE Good == /\ ChainLeft(next) < ChainLeft(job) /\ phase' = phase
                   /\ \A q \in Pipelines, e \in Docs :
                        <<q, e>> # <<p, d>> => jobs'[q][e] = jobs[q][e]
<1>6. ASSUME Ended(p, d), phase' = phase PROVE Good
  BY <1>2, <1>4, <1>6 DEF Ended
<1>7. CASE Check(p, d)
  <2>1. CASE Ended(p, d)
    BY <1>3, <1>6, <1>7, <2>1 DEF Check, caseVars
  <2>2. CASE Step(p, d, [job EXCEPT !.step = "enter"])
    <3>1. next = [job EXCEPT !.step = "enter"] /\ job.step = "check"
      BY <1>2, <1>7, <2>2 DEF Check, At
    <3>2. next.stage = job.stage /\ next.retries = job.retries /\ next.step = "enter"
      BY <1>1, <3>1 DEF Jobs
    <3> QED BY <1>2, <1>3, <1>5, <1>7, <2>2, <3>1, <3>2 DEF Check, caseVars, StepsLeft
  <2> QED BY <1>7, <2>1, <2>2 DEF Check
<1>8. CASE Enter(p, d)
  <2>1. PICK row : Step(p, d, [job EXCEPT !.step = "body", !.input = row])
    BY <1>8 DEF Enter
  <2>2. next = [job EXCEPT !.step = "body", !.input = row] /\ job.step = "enter"
    BY <1>2, <1>8, <2>1 DEF Enter, At
  <2>3. next.stage = job.stage /\ next.retries = job.retries /\ next.step = "body"
    BY <1>1, <2>2 DEF Jobs
  <2> QED BY <1>2, <1>3, <1>5, <1>8, <2>1, <2>2, <2>3 DEF Enter, caseVars, StepsLeft
<1>9. ASSUME NEW row, NEW step \in {"complete", "retry", "reject", "give_up"}, Body(p, d, row, step)
      PROVE  Good
  <2>1. Step(p, d, [job EXCEPT !.step = step]) /\ job.step = "body" /\ phase' = phase
    BY <1>9 DEF Body, At, caseVars
  <2>2. next = [job EXCEPT !.step = step]
    BY <1>2, <2>1
  <2>3. next.stage = job.stage /\ next.retries = job.retries /\ next.step = step
    BY <1>1, <2>2 DEF Jobs
  <2>4. StepsLeft[next.step] < StepsLeft[job.step]
    BY <2>1, <2>3 DEF StepsLeft
  <2> QED BY <1>2, <1>5, <2>1, <2>3, <2>4
<1>10. CASE \/ Succeed(p, d) \/ FailHandled(p, d) \/ Raise(p, d) \/ Unsupported(p, d)
            \/ OutOfCredits(p, d)
  BY <1>3, <1>9, <1>10 DEF Succeed, FailHandled, Raise, Unsupported, OutOfCredits
<1>11. CASE \/ CompleteStage(p, d) \/ RejectType(p, d) \/ GiveUpOcr(p, d) \/ Exhausted(p, d)
  BY <1>3, <1>6, <1>11 DEF CompleteStage, RejectType, GiveUpOcr, Exhausted, Settled, caseVars
<1>12. CASE RetryStage(p, d)
  <2>1. Step(p, d, [Job(job.stage) EXCEPT !.retries = job.retries + 1]) /\ phase' = phase
    BY <1>12 DEF RetryStage, caseVars
  <2>2. next.stage = job.stage /\ next.retries = job.retries + 1
    BY <1>2, <2>1 DEF Job
  <2> QED BY <1>2, <1>3, <1>5, <2>1, <2>2
<1> QED BY <1>3, <1>7, <1>8, <1>10, <1>11, <1>12 DEF Stage

\* The finalizer has a bounded way to go, and touches no other pipeline.
LEMMA FinalMoves ==
    ASSUME TypeOK, NEW p \in Pipelines, Finalize(p)
    PROVE  /\ FinalLeft[phase'[p]] < FinalLeft[phase[p]]
           /\ \A q \in Pipelines \ {p} : phase'[q] = phase[q] /\ jobs'[q] = jobs[q]
<1>1. CASE FinalCount(p)
  BY <1>1 DEF FinalCount, FinalLeft, TypeOK
<1>2. CASE FinalWrite(p)
  BY <1>2 DEF FinalWrite, FinalLeft, TypeOK
<1>3. CASE FinalRelease(p)
  BY <1>3 DEF FinalRelease, FinalLeft, TypeOK
<1>4. CASE FinalQueue(p)
  BY <1>4 DEF FinalQueue, FinalLeft, TypeOK
<1> QED BY <1>1, <1>2, <1>3, <1>4 DEF Finalize

\* A pipeline that was not started is idle, and tasks belong to pipelines in their chains.
PlacesOK ==
    \A p \in Pipelines :
        /\ p > started => phase[p] = "idle"
        /\ phase[p] # "chains" => ChainsEnded(p)

\* Starting a pipeline, or failing to, leaves those at work alone.
LEMMA LaunchLeaves ==
    ASSUME TypeOK, PlacesOK, NEW first, Launch(first)
    PROVE  /\ PlacesOK'
           /\ \A p \in Pipelines : phase[p] # "idle" => phase'[p] = phase[p] /\ jobs'[p] = jobs[p]
<1>1. CASE UNCHANGED <<started, lock, phase, jobs>>
  BY <1>1 DEF PlacesOK, ChainsEnded
<1>2. CASE /\ started < MaxPipelines /\ started' = started + 1
           /\ phase' = [phase EXCEPT ![started'] = "chains"]
           /\ jobs' = [jobs EXCEPT ![started'] = [d \in Docs |-> Job(first[d])]]
  <2>1. started \in Nat /\ started' = started + 1 /\ Pipelines \subseteq Nat
    BY <1>2 DEF TypeOK, Pipelines
  <2>2. phase'[started + 1] = "chains" \/ started + 1 \notin Pipelines
    BY <1>2 DEF TypeOK
  <2>3. \A p \in Pipelines : p # started + 1 => phase'[p] = phase[p] /\ jobs'[p] = jobs[p]
    BY <1>2 DEF TypeOK
  <2>4. \A p \in Pipelines : p > started + 1 => p > started
    BY <2>1
  <2>5. started + 1 \in Pipelines => phase[started + 1] = "idle"
    BY <2>1 DEF PlacesOK
  <2>6. PlacesOK'
    <3> SUFFICES ASSUME NEW p \in Pipelines
                 PROVE  /\ p > started + 1 => phase'[p] = "idle"
                        /\ phase'[p] # "chains" => \A d \in Docs : jobs'[p][d].stage \in {0, 7}
      BY <2>1 DEF PlacesOK, ChainsEnded
    <3>1. CASE p = started + 1
      BY <2>1, <2>2, <3>1
    <3>2. CASE p # started + 1
      BY <2>3, <2>4, <3>2 DEF PlacesOK, ChainsEnded
    <3> QED BY <3>1, <3>2
  <2> QED BY <2>3, <2>5, <2>6
<1> QED BY <1>1, <1>2 DEF Launch

\* What is left of every chain and every finalizer.
ChainsBounded == \A p \in Pipelines, d \in Docs : ChainLeft(jobs[p][d]) \in Nat

Shortens(p) ==
    /\ FinalLeft[phase'[p]] <= FinalLeft[phase[p]]
    /\ Finalize(p) => FinalLeft[phase'[p]] < FinalLeft[phase[p]]
    /\ \A d \in Docs :
         /\ ChainLeft(jobs'[p][d]) <= ChainLeft(jobs[p][d])
         /\ Stage(p, d) => ChainLeft(jobs'[p][d]) < ChainLeft(jobs[p][d])

LEMMA StepShortens ==
    ASSUME TypeOK, TypeOK', PlacesOK, ChainsBounded, ChainsBounded', [Next]_vars
    PROVE  /\ PlacesOK'
           /\ \A p \in Pipelines : phase[p] # "idle" /\ faults' = faults => Shortens(p)
<1>1. \A p \in Pipelines : FinalLeft[phase[p]] \in 0 .. 4 /\ FinalLeft[phase'[p]] \in 0 .. 4
  BY DEF FinalLeft, TypeOK
<1>2. \A p \in Pipelines, d \in Docs :
        ChainLeft(jobs[p][d]) \in Nat /\ ChainLeft(jobs'[p][d]) \in Nat
  BY DEF ChainsBounded
<1>3. ASSUME NEW p \in Pipelines, phase'[p] = phase[p], jobs'[p] = jobs[p] PROVE Shortens(p)
  <2>1. ~Finalize(p)
    <3>1. ASSUME Finalize(p) PROVE FALSE
      BY <1>1, <1>3, <3>1, FinalMoves
    <3> QED BY <3>1
  <2>2. ASSUME NEW d \in Docs, Stage(p, d) PROVE FALSE
    BY <1>2, <1>3, <2>2, StageMoves
  <2> QED BY <1>1, <1>2, <1>3, <2>1, <2>2 DEF Shortens
<1> DEFINE Goal == /\ PlacesOK'
                   /\ \A p \in Pipelines : phase[p] # "idle" /\ faults' = faults => Shortens(p)
<1>4. ASSUME NEW first, Launch(first) PROVE Goal
  BY <1>3, <1>4, LaunchLeaves
<1>5. ASSUME UNCHANGED <<started, jobs, phase>> PROVE Goal
  BY <1>3, <1>5 DEF PlacesOK, ChainsEnded
<1>6. CASE ProcessCase \/ RetryFailed \/ \E d \in Docs : UploadMore(d)
  BY <1>4, <1>6 DEF ProcessCase, RetryFailed, UploadMore
<1>7. CASE (\E d \in Docs : ReplaceDocument(d) \/ SkipDocument(d)) \/ UNCHANGED vars
  BY <1>5, <1>7 DEF ReplaceDocument, SkipDocument, vars
<1>8. ASSUME NEW p \in Pipelines, NEW d \in Docs, Stage(p, d) PROVE Goal
  <2>1. /\ jobs[p][d].stage \in Stages
        /\ ChainLeft(jobs'[p][d]) < ChainLeft(jobs[p][d])
        /\ phase' = phase
        /\ \A q \in Pipelines, e \in Docs : <<q, e>> # <<p, d>> => jobs'[q][e] = jobs[q][e]
    BY <1>8, StageMoves
  <2>2. started' = started
    BY <1>8 DEF Stage, Check, Enter, Succeed, FailHandled, Raise, Unsupported, OutOfCredits, Body,
                CompleteStage, RejectType, GiveUpOcr, Exhausted, Settled, RetryStage, caseVars
  <2>3. phase[p] = "chains"
    BY <2>1 DEF PlacesOK, ChainsEnded, Stages
  <2>4. PlacesOK'
    BY <2>1, <2>2, <2>3 DEF PlacesOK, ChainsEnded
  <2>5. ASSUME NEW q \in Pipelines, Finalize(q) PROVE FALSE
    BY <1>1, <2>1, <2>5, FinalMoves
  <2>6. ASSUME NEW q \in Pipelines, NEW e \in Docs
        PROVE  /\ ChainLeft(jobs'[q][e]) <= ChainLeft(jobs[q][e])
               /\ Stage(q, e) => ChainLeft(jobs'[q][e]) < ChainLeft(jobs[q][e])
    <3>1. CASE q = p /\ e = d
      BY <1>2, <2>1, <3>1
    <3>2. CASE ~(q = p /\ e = d)
      <4>1. jobs'[q][e] = jobs[q][e]
        BY <2>1, <3>2
      <4> QED BY <1>2, <4>1, StageMoves
    <3> QED BY <3>1, <3>2
  <2>7. \A q \in Pipelines : Shortens(q)
    BY <1>1, <2>1, <2>5, <2>6 DEF Shortens
  <2> QED BY <2>4, <2>7
<1>9. ASSUME NEW p \in Pipelines, Finalize(p) PROVE Goal
  <2>1. /\ FinalLeft[phase'[p]] < FinalLeft[phase[p]]
        /\ \A q \in Pipelines \ {p} : phase'[q] = phase[q] /\ jobs'[q] = jobs[q]
    BY <1>9, FinalMoves
  <2>2. \A d \in Docs : jobs[p][d].stage \in {0, 7} /\ jobs'[p][d].stage \in {0, 7}
    <3>1. CASE FinalCount(p)
      BY <3>1 DEF FinalCount, ChainsEnded
    <3>2. CASE FinalWrite(p) \/ FinalRelease(p)
      BY <3>2 DEF FinalWrite, FinalRelease, PlacesOK, ChainsEnded
    <3>3. CASE FinalQueue(p)
      BY <3>3 DEF FinalQueue, NoJobs, Job, PlacesOK, ChainsEnded, TypeOK
    <3> QED BY <1>9, <3>1, <3>2, <3>3 DEF Finalize
  <2>3. \A d \in Docs : ChainLeft(jobs[p][d]) = 0 /\ ChainLeft(jobs'[p][d]) = 0
    BY <2>2 DEF ChainLeft, Stages
  <2>4. ASSUME NEW d \in Docs, Stage(p, d) PROVE FALSE
    BY <2>2, <2>4, StageMoves DEF Stages
  <2>5. Shortens(p)
    BY <1>1, <2>1, <2>3, <2>4 DEF Shortens
  <2>6. started' = started /\ \A q \in Pipelines : q > started => q # p
    <3>1. started' = started /\ phase[p] # "idle"
      BY <1>9 DEF Finalize, FinalCount, FinalWrite, FinalRelease, FinalQueue
    <3> QED BY <3>1 DEF PlacesOK
  <2>7. PlacesOK'
    BY <2>1, <2>2, <2>6 DEF PlacesOK, ChainsEnded
  <2> QED BY <1>3, <2>1, <2>5, <2>7
<1>10. ASSUME NEW p \in Pipelines, CrashFinal(p) \/ \E d \in Docs : CrashStage(p, d) PROVE Goal
  <2>1. faults' # faults
    <3>1. faults' = faults + 1
      BY <1>10 DEF CrashFinal, CrashStage, Fault
    <3>2. faults \in Int
      BY BoundsFacts DEF TypeOK
    <3> QED BY <3>1, <3>2
  <2>2. CASE CrashFinal(p)
    <3>1. /\ phase[p] # "idle" /\ started' = started /\ jobs' = jobs
          /\ phase' = [phase EXCEPT ![p] = "chains"]
      BY <2>2 DEF CrashFinal
    <3> QED BY <2>1, <3>1 DEF PlacesOK, ChainsEnded, TypeOK
  <2>3. ASSUME NEW d \in Docs, CrashStage(p, d) PROVE Goal
    <3>1. /\ jobs[p][d].stage \in Stages /\ started' = started /\ phase' = phase
          /\ \A q \in Pipelines \ {p} : jobs'[q] = jobs[q]
      BY <2>3 DEF CrashStage, Step, caseVars, TypeOK
    <3>2. phase[p] = "chains"
      BY <3>1 DEF PlacesOK, ChainsEnded, Stages
    <3> QED BY <2>1, <3>1, <3>2 DEF PlacesOK, ChainsEnded
  <2> QED BY <1>10, <2>2, <2>3
<1> QED BY <1>6, <1>7, <1>8, <1>9, <1>10 DEF Next

LEMMA ChainsAreBounded == TypeOK => ChainsBounded
BY ChainNumbers DEF ChainsBounded, TypeOK

\* The chains and the finalizer of a pipeline that was started take a bounded number of steps: each
\* lowers what is left of its chain or of the finalizer, and but for a fault nothing raises it,
\* whatever is replaced, skipped, uploaded or started meanwhile (max_retries of every stage).
THEOREM PipelineShortens ==
    Spec => /\ []ChainsBounded
            /\ [][\A p \in Pipelines : phase[p] # "idle" /\ faults' = faults => Shortens(p)]_vars
<1>1. Init => PlacesOK
  BY DEF Init, PlacesOK, ChainsEnded, NoJobs, Job
<1>2. /\ TypeOK /\ TypeOK' /\ PlacesOK /\ ChainsBounded /\ ChainsBounded' /\ [Next]_vars
      => /\ PlacesOK'
         /\ [\A p \in Pipelines : phase[p] # "idle" /\ faults' = faults => Shortens(p)]_vars
  BY StepShortens
<1> QED BY <1>1, <1>2, ChainsAreBounded, TypeCorrect, PTL DEF Spec

==============================================================================
