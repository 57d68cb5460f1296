----------------------------- MODULE CaseAgent -----------------------------
(***************************************************************************)
(* The verification agent of one case: Celery workers that take analysis,  *)
(* resume, retry and skip tasks from the broker, serialise on the case's   *)
(* agent lock, and walk the title chain link by link, saving a result for  *)
(* each link, pausing for missing evidence and refreshing the results that *)
(* depend on a changed link.  Beside them run the user's requests          *)
(* (analyze, skip, upload) and the end of the document pipeline, which     *)
(* reads the checkpoint and queues the next task.                          *)
(*                                                                         *)
(* One action per database write the agent makes: the checkpoint and the   *)
(* agent status are two writes, and an upload reads the checkpoint and     *)
(* writes it back whole later.  What a verification pass decides about a   *)
(* link is any outcome the tool loop can end with: how the loop gets there *)
(* is the subject of VerifySession.                                        *)
(***************************************************************************)
EXTENDS Integers

CONSTANTS
    Workers,      \* Celery worker processes
    Free,         \* the agent lock has no holder
    Orphan,       \* the agent lock is held in Redis by a process that died
    MaxLinks,     \* bound: links of the title chain
    MaxUploads,   \* bound: uploads of further documents
    MaxRequests,  \* bound: analyze and skip requests of the user
    MaxFaults,    \* bound: faults of the environment
    FaultKinds    \* the faults that may happen, a subset of AllFaults

\* crash: a worker process dies; outage: Redis refuses the lock call;
\* lapse: the lock expires under its live holder; sync, refresh: a database
\* or model error in a step whose exception the code swallows.
AllFaults == {"crash", "outage", "lapse", "sync", "refresh"}

ASSUME WorkersAssumption == Free \notin Workers /\ Orphan \notin Workers /\ Free # Orphan
ASSUME BoundsAssumption ==
    /\ MaxLinks \in Nat \ {0}
    /\ MaxUploads \in Nat /\ MaxRequests \in Nat /\ MaxFaults \in Nat
ASSUME FaultsAssumption == FaultKinds \subseteq AllFaults

VARIABLES
    chain,       \* length of the saved title chain, 0 before Phase A saved one
    results,     \* case_results: the saved result of every link
    memory,      \* case_memory: the durable checkpoint
    agentStatus, \* cases.agent_status
    verdict,     \* cases.verification_status and cases.verdict, as one value
    docs,        \* document manifest: its version, odd while the pipeline runs
    accepted,    \* the link of an upload that was accepted and is at work
    copy,        \* the checkpoint as that upload read it: one, or none yet
    overtaken,   \* history: an upload wrote back a copy that was out of date
    finalizing,  \* finalizers that released the pipeline lock and have not queued
    queue,       \* broker: copies of each task waiting for a worker
    lock,        \* the Redis agent lock: a worker, Free or Orphan
    pc,          \* where each worker stands
    task,        \* the task each worker executes
    owed,        \* the agent status each worker is about to write, or "none"
    mem,         \* each worker's in-memory copy of the checkpoint
    run,         \* each worker's run-local variables
    requests,    \* requests of the user so far
    faults       \* faults of the environment so far

caseVars == <<chain, results, memory, agentStatus, verdict>>
docVars == <<docs, accepted, copy, overtaken, finalizing>>
workerVars == <<pc, task, owed, mem, run>>
vars == <<caseVars, docVars, queue, lock, workerVars, requests, faults>>

----------------------------------------------------------------------------
\* Values

Links == 1 .. MaxLinks

\* "OPEN" stands for the statuses PENDING and IN_PROGRESS, "PENDING" for
\* PENDING_NOT_VERIFIED, "NONE" for a link without a saved result.
Statuses == {"NONE", "OPEN", "PENDING", "VERIFIED", "ISSUES", "INCONCLUSIVE"}
Conclusive == {"VERIFIED", "ISSUES", "INCONCLUSIVE"}
Versions == 0 .. 2 * MaxUploads + 2

\* ckpt: saved by a bounded stop; manifest: the document manifest an
\* INCONCLUSIVE result was reached with (0 for the others, whose manifest
\* nothing reads); ctx: chain_context, the earlier links unverified at the time.
Results == [status: Statuses, ckpt: BOOLEAN, manifest: Versions, ctx: SUBSET Links]
NoResult == [status |-> "NONE", ckpt |-> FALSE, manifest |-> 0, ctx |-> {}]

\* paused and retry are links, 0 for none.
Memories == [paused: 0 .. MaxLinks, retry: 0 .. MaxLinks, skipped: SUBSET Links]
NoMemory == [paused |-> 0, retry |-> 0, skipped |-> {}]

Tasks == [kind: {"run", "resume"}, link: {0}] \cup [kind: {"retry", "skip"}, link: Links]
Task(kind, link) == [kind |-> kind, link |-> link]
NoTask == Task("run", 0)

\* An upload is for a link, or for the case (0).
NoUpload == MaxLinks + 1

Verdicts == {"none", "paused", "error", "clear", "attention"}
AgentStatuses == {"none", "running", "paused", "done", "error"}

\* only: the single link of a scoped run, 0 for a run over the chain; fresh:
\* ignore saved results; skips: the links to leave out; docs: manifest read at
\* the start; pos: next link of the loop; verified: the loop verified a link;
\* verdict: what is left to mirror to the case; buf: the result a refresh read
\* and will write back.
Runs == [only: 0 .. MaxLinks, fresh: BOOLEAN, skips: SUBSET Links, docs: Versions,
         pos: 0 .. MaxLinks + 1, verified: BOOLEAN, verdict: Verdicts, buf: Results]
NoRun == [only |-> 0, fresh |-> FALSE, skips |-> {}, docs |-> 0, pos |-> 0,
          verified |-> FALSE, verdict |-> "none", buf |-> NoResult]

Places == {"idle", "begin", "mark", "enter", "survey", "phase_a", "loop", "select",
           "verify", "settle", "refresh", "rewrite", "finish", "sync", "release"}

TypeOK ==
    /\ chain \in 0 .. MaxLinks
    /\ results \in [Links -> Results]
    /\ memory \in Memories
    /\ agentStatus \in AgentStatuses
    /\ verdict \in Verdicts
    /\ docs \in Versions
    /\ accepted \in 0 .. NoUpload
    /\ copy \in SUBSET Memories
    /\ overtaken \in BOOLEAN
    /\ finalizing \in Nat
    /\ queue \in [Tasks -> Nat]
    /\ lock \in Workers \cup {Free, Orphan}
    /\ pc \in [Workers -> Places]
    /\ task \in [Workers -> Tasks]
    /\ owed \in [Workers -> AgentStatuses]
    /\ mem \in [Workers -> Memories]
    /\ run \in [Workers -> Runs]
    /\ requests \in 0 .. MaxRequests
    /\ faults \in 0 .. MaxFaults

\* A case whose files were uploaded and whose first pipeline was started.
Init ==
    /\ chain = 0
    /\ results = [l \in Links |-> NoResult]
    /\ memory = NoMemory
    /\ agentStatus = "none"
    /\ verdict = "none"
    /\ docs = 1
    /\ accepted = NoUpload
    /\ copy = {}
    /\ overtaken = FALSE
    /\ finalizing = 0
    /\ queue = [t \in Tasks |-> 0]
    /\ lock = Free
    /\ pc = [w \in Workers |-> "idle"]
    /\ task = [w \in Workers |-> NoTask]
    /\ owed = [w \in Workers |-> "none"]
    /\ mem = [w \in Workers |-> NoMemory]
    /\ run = [w \in Workers |-> NoRun]
    /\ requests = 0
    /\ faults = 0

----------------------------------------------------------------------------
\* What the code reads off a saved result

\* A result that a later run does not verify again, given the manifest it sees.
Terminal(r, version) ==
    /\ r.status \in Conclusive
    /\ ~r.ckpt
    /\ r.status = "INCONCLUSIVE" => r.manifest = version

\* The earlier links a result of link l still depends on.
Unverified(l) ==
    {u \in 1 .. l - 1 : results[u].status \notin Conclusive \/ results[u].ckpt}

\* Variant: one verified link is enough.
OverallVerdict_AnyVerified ==
    IF \E l \in Links : results[l].status = "VERIFIED" THEN "clear" ELSE "attention"

\* The case verdict over the saved results only: links without one are not counted.
OverallVerdict ==
    LET saved == {results[l].status : l \in Links} \ {"NONE"}
    IN  IF saved = {"VERIFIED"} THEN "clear" ELSE "attention"

SavedResult(w, l, status) ==
    [status |-> status, ckpt |-> FALSE,
     manifest |-> IF status = "INCONCLUSIVE" THEN run[w].docs ELSE 0,
     ctx |-> Unverified(l)]

BoundedStop == [status |-> "INCONCLUSIVE", ckpt |-> TRUE, manifest |-> 0, ctx |-> {}]

Fault(kind) == kind \in FaultKinds /\ faults < MaxFaults /\ faults' = faults + 1

Enqueue(t) == queue' = [queue EXCEPT ![t] = @ + 1]

Goto(w, place) == pc' = [pc EXCEPT ![w] = place]
SetRun(w, r) == run' = [run EXCEPT ![w] = r]

\* _save_state: the checkpoint first; the agent status is a write of its own.
Save(w, m, status) ==
    /\ mem' = [mem EXCEPT ![w] = m]
    /\ memory' = m
    /\ owed' = [owed EXCEPT ![w] = status]
    /\ UNCHANGED agentStatus

WriteStatus(w) ==
    /\ owed[w] # "none"
    /\ agentStatus' = owed[w]
    /\ owed' = [owed EXCEPT ![w] = "none"]
    /\ UNCHANGED <<chain, results, memory, verdict, docVars, queue, lock, pc, task, mem, run,
                   requests, faults>>

----------------------------------------------------------------------------
\* Taking a task and the agent lock

\* The worker takes the task and the lock.
Acquire(w, t) ==
    /\ lock = Free
    /\ lock' = w
    /\ Goto(w, "begin")
    /\ task' = [task EXCEPT ![w] = t]
    /\ UNCHANGED faults

\* Another run holds the lock: the task ends as "busy" and is acknowledged.
Busy ==
    /\ lock # Free
    /\ UNCHANGED <<lock, pc, task, faults>>

\* Redis is unreachable for the lock call: the run goes on without a lock.
Unlocked(w, t) ==
    /\ Fault("outage")
    /\ Goto(w, "begin")
    /\ task' = [task EXCEPT ![w] = t]
    /\ UNCHANGED lock

Start(w, t) ==
    /\ pc[w] = "idle"
    /\ queue[t] > 0
    /\ queue' = [queue EXCEPT ![t] = @ - 1]
    /\ Acquire(w, t) \/ Busy \/ Unlocked(w, t)
    /\ UNCHANGED <<caseVars, docVars, owed, mem, run, requests>>

----------------------------------------------------------------------------
\* What each kind of task does under the lock

\* The checkpoint is read and the run decided on; place says whether a changed
\* checkpoint is saved before the run is entered.
Decide(w, m, only, fresh, place) ==
    /\ SetRun(w, [NoRun EXCEPT !.only = only, !.fresh = fresh, !.skips = m.skipped, !.pos = 1])
    /\ mem' = [mem EXCEPT ![w] = m]
    /\ Goto(w, place)

\* A run over the whole chain forgets the user's skips.
Analysis(w) ==
    /\ task[w].kind = "run"
    /\ Decide(w, [memory EXCEPT !.skipped = {}], 0, FALSE,
              IF memory.skipped = {} THEN "enter" ELSE "mark")

\* A resume verifies the paused link only.
Resume(w) ==
    /\ task[w].kind = "resume"
    /\ memory.paused \in 1 .. chain
    /\ Decide(w, [memory EXCEPT !.skipped = @ \ {memory.paused}], memory.paused, FALSE, "enter")

\* A retry verifies one link for which evidence was uploaded: a skipped
\* pending link, or afresh a link with issues.
Retry(w) ==
    LET l == task[w].link
        pending == results[l].status = "PENDING" /\ l \in memory.skipped
        issues == results[l].status = "ISSUES"
        kept == IF pending THEN memory.skipped \ {l} ELSE memory.skipped
    IN  /\ task[w].kind = "retry"
        /\ l <= chain
        /\ pending \/ issues
        /\ Decide(w, [memory EXCEPT !.skipped = kept, !.retry = 0], l, issues, "mark")

\* Variant: the skip takes the pause out of the checkpoint before the case is marked running.
Skip_ForgetsPause(w) ==
    LET l == task[w].link
    IN  /\ task[w].kind = "skip"
        /\ l <= chain
        /\ memory.paused = l
        /\ results[l].status \in {"NONE", "PENDING"}
        /\ Decide(w, [memory EXCEPT !.skipped = @ \cup {l}, !.paused = 0], 0, FALSE, "mark")

\* A skip of the paused link goes on with the others.
Skip(w) ==
    LET l == task[w].link
    IN  /\ task[w].kind = "skip"
        /\ l <= chain
        /\ memory.paused = l
        /\ results[l].status \in {"NONE", "PENDING"}
        /\ Decide(w, [memory EXCEPT !.skipped = @ \cup {l}], 0, FALSE, "mark")

\* The task's conditions do not hold: it ends with an error nobody records.
Refusable(w) ==
    LET l == task[w].link
    IN  CASE task[w].kind = "run" -> FALSE
          [] task[w].kind = "resume" -> memory.paused \notin 1 .. chain
          [] task[w].kind = "retry" ->
                \/ l > chain
                \/ /\ results[l].status # "ISSUES"
                   /\ ~(results[l].status = "PENDING" /\ l \in memory.skipped)
          [] task[w].kind = "skip" ->
                \/ l > chain \/ memory.paused # l
                \/ results[l].status \notin {"NONE", "PENDING"}

Refuse(w) ==
    /\ Refusable(w)
    /\ Goto(w, "release")
    /\ UNCHANGED <<mem, run>>

Begin(w) ==
    /\ pc[w] = "begin"
    /\ Analysis(w) \/ Resume(w) \/ Retry(w) \/ Skip(w) \/ Refuse(w)
    /\ UNCHANGED <<caseVars, docVars, queue, lock, task, owed, requests, faults>>

\* Save what a retry, a skip or an analysis changed in the checkpoint.
Mark(w) ==
    /\ pc[w] = "mark"
    /\ memory' = mem[w]
    /\ Goto(w, "enter")
    /\ UNCHANGED <<chain, results, agentStatus, verdict, docVars, queue, lock, task, owed, mem, run,
                   requests, faults>>

\* _run reads the documents and the checkpoint, again, and marks the case running.
Enter(w) ==
    /\ pc[w] = "enter"
    /\ SetRun(w, [run[w] EXCEPT !.docs = docs])
    /\ mem' = [mem EXCEPT ![w] = memory]
    /\ owed' = [owed EXCEPT ![w] = "running"]
    /\ Goto(w, IF chain = 0 THEN "survey" ELSE "loop")
    /\ UNCHANGED <<caseVars, docVars, queue, lock, task, requests, faults>>

----------------------------------------------------------------------------
\* The run loop

\* No chain was saved: the checkpoint tells that Phase A is at work.
Survey(w) ==
    /\ pc[w] = "survey"
    /\ Save(w, mem[w], "running")
    /\ Goto(w, "phase_a")
    /\ UNCHANGED <<chain, results, verdict, docVars, queue, lock, task, run, requests, faults>>

\* Phase A saves a chain of some length.
PhaseA(w) ==
    /\ pc[w] = "phase_a"
    /\ chain' \in Links
    /\ Goto(w, "loop")
    /\ UNCHANGED <<results, memory, agentStatus, verdict, docVars, queue, lock, task, owed, mem, run,
                   requests, faults>>

\* Verification starts with the skips of the run in the checkpoint.
Loop(w) ==
    /\ pc[w] = "loop"
    /\ Save(w, [mem[w] EXCEPT !.skipped = run[w].skips], "running")
    /\ Goto(w, "select")
    /\ UNCHANGED <<chain, results, verdict, docVars, queue, lock, task, run, requests, faults>>

\* Variants: the loop ignores terminal results, the user's skips, the scope of
\* the run, or the links it has been through.
Due_Again(w) ==
    {l \in run[w].pos .. chain : run[w].only \in {0, l} /\ l \notin run[w].skips}
Due_Skipped(w) ==
    {l \in run[w].pos .. chain :
        run[w].only \in {0, l} /\ (run[w].fresh \/ ~Terminal(results[l], run[w].docs))}
Due_Unscoped(w) ==
    {l \in run[w].pos .. chain :
        l \notin run[w].skips /\ (run[w].fresh \/ ~Terminal(results[l], run[w].docs))}
Due_FromStart(w) ==
    {l \in 1 .. chain :
        /\ run[w].only \in {0, l}
        /\ l \notin run[w].skips
        /\ run[w].fresh \/ ~Terminal(results[l], run[w].docs)}

\* The links the loop has still to verify.
Due(w) ==
    {l \in run[w].pos .. chain :
        /\ run[w].only \in {0, l}
        /\ l \notin run[w].skips
        /\ run[w].fresh \/ ~Terminal(results[l], run[w].docs)}

SelectLink(w) ==
    /\ pc[w] = "select"
    /\ \E l \in Due(w) :
          /\ \A k \in Due(w) : l <= k
          /\ SetRun(w, [run[w] EXCEPT !.pos = l])
    /\ Save(w, mem[w], "running")
    /\ Goto(w, "verify")
    /\ UNCHANGED <<chain, results, verdict, docVars, queue, lock, task, requests, faults>>

SelectNone(w) ==
    /\ pc[w] = "select"
    /\ Due(w) = {}
    /\ Goto(w, IF run[w].only # 0 /\ run[w].verified THEN "refresh" ELSE "finish")
    /\ UNCHANGED <<caseVars, docVars, queue, lock, task, owed, mem, run, requests, faults>>

\* The pass over the link at run.pos saves the model's conclusion or request,
\* or stops at its budget: then an earlier result of the link stands, unless
\* the run is fresh, and otherwise the link is recorded as inconclusive.
Verify(w) ==
    LET l == run[w].pos
    IN  /\ pc[w] = "verify"
        /\ \/ \E status \in Statuses \ {"NONE"} :
                 results' = [results EXCEPT ![l] = SavedResult(w, l, status)]
           \/ /\ ~run[w].fresh /\ results[l] # NoResult
              /\ UNCHANGED results
           \/ /\ run[w].fresh \/ results[l] = NoResult
              /\ results' = [results EXCEPT ![l] = BoundedStop]
        /\ SetRun(w, [run[w] EXCEPT !.verified = TRUE])
        /\ Goto(w, "settle")
        /\ UNCHANGED <<chain, memory, agentStatus, verdict, docVars, queue, lock,
                       task, owed, mem, requests, faults>>

\* The saved result asks for evidence: the run pauses at the link.
Pause(w) ==
    LET l == run[w].pos
    IN  /\ pc[w] = "settle"
        /\ results[l].status = "PENDING"
        /\ Save(w, [mem[w] EXCEPT !.paused = l], "paused")
        /\ SetRun(w, [run[w] EXCEPT !.verdict = "paused", !.pos = l + 1])
        /\ Goto(w, "sync")
        /\ UNCHANGED <<chain, results, verdict, docVars, queue, lock, task, requests, faults>>

\* Variant: the loop counter is advanced twice.
Advance_Twice(w) ==
    /\ pc[w] = "settle"
    /\ results[run[w].pos].status # "PENDING"
    /\ Save(w, mem[w], "running")
    /\ SetRun(w, [run[w] EXCEPT !.pos = @ + 2])
    /\ Goto(w, "select")
    /\ UNCHANGED <<chain, results, verdict, docVars, queue, lock, task, requests, faults>>

Advance(w) ==
    /\ pc[w] = "settle"
    /\ results[run[w].pos].status # "PENDING"
    /\ Save(w, mem[w], "running")
    /\ SetRun(w, [run[w] EXCEPT !.pos = @ + 1])
    /\ Goto(w, "select")
    /\ UNCHANGED <<chain, results, verdict, docVars, queue, lock, task, requests, faults>>

\* An exception in the run: recorded in the checkpoint and the statuses.
RunFails(w) ==
    /\ pc[w] \in {"phase_a", "verify"}
    /\ Save(w, mem[w], "error")
    /\ SetRun(w, [run[w] EXCEPT !.verdict = "error"])
    /\ Goto(w, "sync")
    /\ UNCHANGED <<chain, results, verdict, docVars, queue, lock, task, requests, faults>>

\* The end of the loop: the pause is over whatever link it was for.
Finish(w) ==
    /\ pc[w] = "finish"
    /\ Save(w, [mem[w] EXCEPT !.paused = 0], "done")
    /\ SetRun(w, [run[w] EXCEPT !.verdict = OverallVerdict])
    /\ Goto(w, "sync")
    /\ UNCHANGED <<chain, results, verdict, docVars, queue, lock, task, requests, faults>>

\* Mirror the outcome to the case; a failure of the write is swallowed.
SyncVerdict(w) ==
    /\ pc[w] = "sync"
    /\ \/ verdict' = run[w].verdict /\ UNCHANGED faults
       \/ Fault("sync") /\ UNCHANGED verdict
    /\ Goto(w, IF run[w].verdict = "paused" /\ run[w].only # 0 THEN "refresh" ELSE "release")
    /\ UNCHANGED <<chain, results, memory, agentStatus, docVars, queue, lock,
                   task, owed, mem, run, requests>>

----------------------------------------------------------------------------
\* Refreshing the results that depend on the verified link of a scoped run

\* Variant: the link right after the verified one is left out.
Stale_OffByOne(w) ==
    {l \in run[w].pos .. chain :
        /\ l > run[w].only + 1
        /\ results[l].status \notin {"NONE", "PENDING"}
        /\ ~results[l].ckpt
        /\ results[l].ctx # Unverified(l)}

\* Results after the link whose recorded context is out of date.
Stale(w) ==
    {l \in run[w].pos .. chain :
        /\ l > run[w].only
        /\ results[l].status \notin {"NONE", "PENDING"}
        /\ ~results[l].ckpt
        /\ results[l].ctx # Unverified(l)}

\* Read a result whole; a model call rewrites its section meanwhile.
RefreshRead(w) ==
    /\ pc[w] = "refresh"
    /\ \E l \in Stale(w) :
          /\ \A k \in Stale(w) : l <= k
          /\ SetRun(w, [run[w] EXCEPT !.pos = l,
                                     !.buf = [results[l] EXCEPT !.ctx = Unverified(l)]])
    /\ Goto(w, "rewrite")
    /\ UNCHANGED <<caseVars, docVars, queue, lock, task, owed, mem, requests, faults>>

\* Write it back whole; an error skips this result and goes on.
RefreshWrite(w) ==
    /\ pc[w] = "rewrite"
    /\ \/ results' = [results EXCEPT ![run[w].pos] = run[w].buf] /\ UNCHANGED faults
       \/ Fault("refresh") /\ UNCHANGED results
    /\ SetRun(w, [run[w] EXCEPT !.pos = @ + 1, !.buf = NoResult])
    /\ Goto(w, "refresh")
    /\ UNCHANGED <<chain, memory, agentStatus, verdict, docVars, queue, lock, task, owed, mem,
                   requests>>

RefreshDone(w) ==
    /\ pc[w] = "refresh"
    /\ Stale(w) = {}
    /\ Goto(w, IF run[w].verdict = "paused" THEN "release" ELSE "finish")
    /\ UNCHANGED <<caseVars, docVars, queue, lock, task, owed, mem, run, requests, faults>>

----------------------------------------------------------------------------
\* The end of a run, and faults

Leave(w) ==
    /\ pc' = [pc EXCEPT ![w] = "idle"]
    /\ task' = [task EXCEPT ![w] = NoTask]
    /\ owed' = [owed EXCEPT ![w] = "none"]
    /\ mem' = [mem EXCEPT ![w] = NoMemory]
    /\ run' = [run EXCEPT ![w] = NoRun]

\* Variant: a run that ends keeps the lock until it expires.
Release_Keeps(w) ==
    /\ pc[w] = "release"
    /\ UNCHANGED lock
    /\ Leave(w)
    /\ UNCHANGED <<caseVars, docVars, queue, requests, faults>>

\* Only the holder's token deletes the key.
Release(w) ==
    /\ pc[w] = "release"
    /\ lock' = IF lock = w THEN Free ELSE lock
    /\ Leave(w)
    /\ UNCHANGED <<caseVars, docVars, queue, requests, faults>>

\* The worker dies: its task is acknowledged late, so it is delivered again,
\* and its lock stays in Redis until the time to live ends.
Crash(w) ==
    /\ pc[w] # "idle"
    /\ Fault("crash")
    /\ Enqueue(task[w])
    /\ lock' = IF lock = w THEN Orphan ELSE lock
    /\ Leave(w)
    /\ UNCHANGED <<caseVars, docVars, requests>>

OrphanExpires ==
    /\ lock = Orphan
    /\ lock' = Free
    /\ UNCHANGED <<caseVars, docVars, queue, workerVars, requests, faults>>

\* One failed refresh stops the refresh timer: the lock expires while held.
Lapse(w) ==
    /\ lock = w
    /\ Fault("lapse")
    /\ lock' = Free
    /\ UNCHANGED <<caseVars, docVars, queue, workerVars, requests>>

----------------------------------------------------------------------------
\* The user and the document pipeline

RequestAnalysis ==
    /\ requests < MaxRequests
    /\ requests' = requests + 1
    /\ Enqueue(Task("run", 0))
    /\ UNCHANGED <<caseVars, docVars, lock, workerVars, faults>>

\* The endpoint queues a skip of any link; the worker checks it.
RequestSkip(l) ==
    /\ requests < MaxRequests
    /\ requests' = requests + 1
    /\ Enqueue(Task("skip", l))
    /\ UNCHANGED <<caseVars, docVars, lock, workerVars, faults>>

\* Evidence may be uploaded for a skipped pending link or a link with issues.
RetryAllowed(l) ==
    /\ l <= chain
    /\ \/ results[l].status = "PENDING" /\ l \in memory.skipped
       \/ results[l].status = "ISSUES"

\* An upload, for link l or (l = 0) for the case, is accepted when no pipeline
\* runs and no other upload does; then the request waits for its files.
UploadAccepted(l) ==
    /\ docs % 2 = 0 /\ docs < 2 * MaxUploads + 1
    /\ accepted = NoUpload
    /\ l # 0 => RetryAllowed(l)
    /\ accepted' = l
    /\ UNCHANGED <<caseVars, docs, copy, overtaken, finalizing, queue, lock, workerVars,
                   requests, faults>>

\* The files are stored: the verdict is reset, the documents are added and the
\* checkpoint is read, whatever became of the link.
UploadStored ==
    /\ accepted # NoUpload /\ copy = {}
    /\ docs' = docs + 1
    /\ verdict' = "none"
    /\ copy' = {memory}
    /\ UNCHANGED <<chain, results, memory, agentStatus, accepted, overtaken, finalizing, queue, lock,
                   workerVars, requests, faults>>

\* The checkpoint is written back whole with the marker of the link, or without
\* one if it had one, and the pipeline is started.
UploadMarked ==
    \E m \in copy :
        /\ IF m.retry = 0 /\ accepted = 0
              THEN UNCHANGED <<memory, overtaken>>
              ELSE /\ memory' = [m EXCEPT !.retry = accepted]
                   /\ overtaken' = (overtaken \/ m # memory)
        /\ accepted' = NoUpload
        /\ copy' = {}
        /\ UNCHANGED <<chain, results, agentStatus, verdict, docs, finalizing, queue, lock, workerVars,
                       requests, faults>>

\* finalize_case_task, first half: the documents are settled, the pipeline
\* lock is released and the next upload may start.
FinalizeRelease ==
    /\ docs % 2 = 1 /\ accepted = NoUpload
    /\ docs' = docs + 1
    /\ finalizing' = finalizing + 1
    /\ UNCHANGED <<caseVars, accepted, copy, overtaken, queue, lock, workerVars, requests, faults>>

\* The task the finalizer queues, by the checkpoint it reads.
NextTask ==
    CASE memory.retry # 0 -> Task("retry", memory.retry)
      [] memory.retry = 0 /\ memory.paused # 0 -> Task("resume", 0)
      [] OTHER -> Task("run", 0)

\* Second half: queue an analysis if a document was structured or a
\* verification waits for evidence.
FinalizeQueue ==
    /\ finalizing > 0
    /\ finalizing' = finalizing - 1
    /\ \/ Enqueue(NextTask)
       \/ /\ memory.retry = 0 /\ memory.paused = 0
          /\ UNCHANGED queue
    /\ UNCHANGED <<caseVars, docs, accepted, copy, overtaken, lock, workerVars, requests, faults>>

----------------------------------------------------------------------------

\* A step of the worker's task; a status that is owed is written first.
Work(w) ==
    \/ WriteStatus(w)
    \/ /\ owed[w] = "none"
       /\ \/ Begin(w) \/ Mark(w) \/ Enter(w) \/ Survey(w) \/ PhaseA(w) \/ Loop(w)
          \/ SelectLink(w) \/ SelectNone(w) \/ Verify(w) \/ Pause(w) \/ Advance(w) \/ RunFails(w)
          \/ Finish(w) \/ SyncVerdict(w) \/ RefreshRead(w) \/ RefreshWrite(w) \/ RefreshDone(w)
          \/ Release(w)

Next ==
    \/ \E w \in Workers :
          \/ \E t \in Tasks : Start(w, t)
          \/ Work(w)
          \/ Crash(w)
          \/ Lapse(w)
    \/ OrphanExpires
    \/ RequestAnalysis
    \/ \E l \in Links : RequestSkip(l)
    \/ \E l \in 0 .. MaxLinks : UploadAccepted(l)
    \/ UploadStored
    \/ UploadMarked
    \/ FinalizeRelease
    \/ FinalizeQueue

Spec == Init /\ [][Next]_vars

\* The broker hands out its tasks, a started task runs on, Redis expires keys
\* and a started pipeline is finalised.  Nothing makes the user act.
Fairness ==
    /\ WF_vars(\E w \in Workers, t \in Tasks : Start(w, t))
    /\ \A w \in Workers : WF_vars(Work(w))
    /\ WF_vars(OrphanExpires)
    /\ WF_vars(UploadMarked)
    /\ WF_vars(FinalizeRelease)
    /\ WF_vars(FinalizeQueue)

FairSpec == Spec /\ Fairness

----------------------------------------------------------------------------
\* Properties

Idle == \A w \in Workers : pc[w] = "idle"

\* Without a fault, a CLEAR_TITLE shown for a finished agent is backed by the saved
\* results: none of them is open, inconclusive or has issues
\* (_overall_transaction_status and the order of _save_state and _sync_case_verdict).
ClearVerdictIsBacked ==
    faults = 0 /\ agentStatus = "done" /\ verdict = "clear" /\ (\A w \in Workers : pc[w] # "sync")
        => \A l \in Links : results[l].status \in {"NONE", "VERIFIED"}

\* Unless an upload wrote back an outdated checkpoint: whenever the case rests at
\* "paused", the checkpoint names a link of the chain whose saved result asks for
\* evidence, so that resume and skip accept what the user does, although checkpoint
\* and status are two writes and a run may die between them (_save_state, and the
\* saves of skip and retry before _run).
PauseIsActionable ==
    agentStatus = "paused" /\ Idle /\ ~overtaken
        => /\ memory.paused \in 1 .. chain
           /\ results[memory.paused].status = "PENDING"

\* A conclusion stands: the status of a verified link never changes, the status
\* of a link with issues only in a fresh retry of that link, and only a bounded
\* stop or a changed document set reopens an inconclusive one
\* (_is_terminal_transaction_result and the fresh branch of the retry).
ConclusionsStand ==
    [][\A l \in Links :
          results'[l].status # results[l].status =>
             /\ results[l].status # "VERIFIED"
             /\ results[l].status = "ISSUES" =>
                   \E w \in Workers : pc[w] = "verify" /\ run[w].fresh /\ run[w].only = l
             /\ results[l].status = "INCONCLUSIVE" =>
                   results[l].ckpt \/ results[l].manifest # docs
                     \/ \E w \in Workers : run[w].docs # results[l].manifest]_vars

\* Unless an upload wrote back an outdated checkpoint: while a link is skipped no run
\* touches its saved result ("Skipping is workflow state only"; the loop goes by the
\* skips it was started with, skip_tx_ids, and the checkpoint has to agree with them).
SkipIsHonoured ==
    [][~overtaken => \A l \in memory.skipped : results'[l] = results[l]]_vars

\* A resume or retry verifies its own link only: every other result keeps
\* everything but its record of the upstream state.
ScopedRunsStayInScope ==
    [][\A w \in Workers : \A l \in Links \ {run[w].only} :
          run[w].only # 0 =>
             results'[l] = [results[l] EXCEPT !.ctx = results'[l].ctx]]_vars

\* Without a fault, when a scoped run that verified its link is over, every later
\* conclusive result records the upstream state as it now is
\* (_refresh_downstream_results).
RefreshReachesDownstream ==
    \A w \in Workers :
        faults = 0 /\ pc[w] = "release" /\ run[w].only # 0 /\ run[w].verified =>
            \A l \in run[w].only + 1 .. chain :
                results[l].status \in Conclusive /\ ~results[l].ckpt
                    => results[l].ctx = Unverified(l)

\* As long as nothing fails, a run that was started ends in an outcome: the status
\* does not stay "running" (the three exits of _run).
RunsEnd == agentStatus = "running" ~> agentStatus # "running" \/ faults > 0

\* Whatever fails, the work drains: no task is left in the broker, no worker is
\* inside a run, no pipeline is unfinished and the agent lock is free again
\* (the finally of _run_with_lock, late acknowledgement and the lock's expiry).
Drained ==
    /\ Idle /\ lock = Free /\ docs % 2 = 0 /\ finalizing = 0
    /\ \A t \in Tasks : queue[t] = 0
WorkDrains == <>[]Drained

\* What the repository's documents say, and the code does not do.

\* "resume_paused: [paused..end] run, continues" and "No misleading completion":
\* a clear title is declared only for a chain every link of which was verified.
ClearCoversChain ==
    agentStatus = "done" /\ verdict = "clear" /\ (\A w \in Workers : pc[w] # "sync")
        => \A l \in 1 .. chain : results[l].status = "VERIFIED"

=============================================================================
