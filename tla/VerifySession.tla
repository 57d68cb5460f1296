--------------------------- MODULE VerifySession ---------------------------
(***************************************************************************)
(* The verification of one transaction: sessions of the model's tool loop, *)
(* one after the other, on the same saved result.  In a session the model  *)
(* is asked for tool calls within a budget of model calls; the handlers    *)
(* enforce the order requirements, listing, selection, reading, and decide *)
(* whether what the model submits may be saved.  What the model asks for   *)
(* is any call; what a report says is left out, and a report the checks    *)
(* refuse for its wording is a call without effect.                        *)
(***************************************************************************)
EXTENDS Integers

CONSTANTS
    Docs,         \* documents a case may come to hold
    ChainOnly,    \* encumbrance certificates: not evidence of a transaction
    Needs,        \* documents the model may find it needs
    TextLen,      \* length of the OCR text of a document
    Budget,       \* model calls of a session
    Extension,    \* further model calls granted once
    HardCap,      \* model calls no session exceeds
    MaxBatch,     \* bound: tool calls in one reply of the model
    MaxSessions   \* bound: sessions

ASSUME DocsAssumption == ChainOnly \subseteq Docs
ASSUME LimitsAssumption ==
    /\ TextLen \in Nat \ {0} /\ Budget \in Nat \ {0} /\ Extension \in Nat
    /\ HardCap \in Nat /\ HardCap >= Budget
    /\ MaxBatch \in Nat \ {0} /\ MaxSessions \in Nat

VARIABLES
    result,       \* the saved result of the transaction
    docs,         \* the documents of the case, as the session sees them
    earlier,      \* documents the earlier links of the chain have requested
    place,        \* where the session stands
    outcome,      \* what the last session reports to the run
    calls,        \* model calls made
    maxCalls,     \* model calls allowed
    extended,     \* the extension was granted
    batch,        \* tool calls left of the model's reply
    fresh,        \* the session ignores the saved result
    requirements, \* evidence requirements recorded, {} for none
    listed,       \* the summaries were listed
    selected,     \* documents selected
    ranges,       \* ranges of text read, per document
    shown,        \* history: documents the model was shown in full, ever
    sessions      \* sessions so far

budgetVars == <<calls, maxCalls, extended>>
evidenceVars == <<requirements, listed, selected, ranges, shown>>
inputVars == <<docs, earlier, fresh, sessions>>
vars == <<result, place, outcome, batch, budgetVars, evidenceVars, inputVars>>

----------------------------------------------------------------------------
\* Values

\* "OPEN" stands for PENDING and IN_PROGRESS, "PENDING" for PENDING_NOT_VERIFIED.
Completed == {"VERIFIED", "ISSUES", "INCONCLUSIVE"}
Statuses == Completed \cup {"OPEN", "PENDING"}

\* cited: cited_documents; reviewed: reviewed_document_ids; required:
\* required_documents; ckpt: recorded by a session that ran out of its budget.
Results == [status: Statuses \cup {"NONE"}, cited: SUBSET Docs, reviewed: SUBSET Docs,
            required: SUBSET Needs, ckpt: BOOLEAN]
NoResult == [status |-> "NONE", cited |-> {}, reviewed |-> {}, required |-> {}, ckpt |-> FALSE]

\* "unready": still processed, failed, or without OCR text.
DocStates == {"absent", "unready", "ready"}

\* A range read: from its start up to, and not including, its end.  A read that
\* starts behind the end of the text leaves a range that ends before it starts.
Ranges == [start: 0 .. TextLen + 1, end: 0 .. TextLen]

Listed == {d \in Docs : docs[d] # "absent"} \ ChainOnly

\* The result this session builds on.
Prior == IF fresh THEN NoResult ELSE result

TypeOK ==
    /\ result \in Results
    /\ docs \in [Docs -> DocStates]
    /\ earlier \subseteq Needs
    /\ place \in {"idle", "model", "tools"}
    /\ outcome \in {"none", "result", "pending", "failed"}
    /\ calls \in 0 .. HardCap /\ maxCalls \in 0 .. HardCap /\ extended \in BOOLEAN
    /\ batch \in 0 .. MaxBatch
    /\ fresh \in BOOLEAN
    /\ requirements \subseteq Needs
    /\ listed \in BOOLEAN
    /\ selected \subseteq Docs
    /\ ranges \in [Docs -> SUBSET Ranges]
    /\ shown \subseteq Docs
    /\ sessions \in 0 .. MaxSessions

Init ==
    /\ result = NoResult
    /\ docs = [d \in Docs |-> "absent"]
    /\ earlier = {}
    /\ place = "idle" /\ outcome = "none"
    /\ calls = 0 /\ maxCalls = 0 /\ extended = FALSE
    /\ batch = 0
    /\ fresh = FALSE
    /\ requirements = {} /\ listed = FALSE /\ selected = {}
    /\ ranges = [d \in Docs |-> {}]
    /\ shown = {}
    /\ sessions = 0

----------------------------------------------------------------------------
\* What counts as read

\* Every character of the text was shown.
Covered(read) == \A i \in 0 .. TextLen - 1 : \E r \in read : r.start <= i /\ i < r.end

\* Variant: only the end of the text is looked at.
FullyRead_EndOnly(read) == \E r \in read : r.end >= TextLen

\* _has_read_full_text: in the order of their starts, no range starts behind the
\* end of all earlier ones, and the text is reached to its end.
FullyRead(read) ==
    /\ \A r \in read : r.start = 0 \/ \E q \in read : q.start < r.start /\ r.start <= q.end
    /\ \E r \in read : r.end >= TextLen

----------------------------------------------------------------------------
\* The tool loop

\* A session starts: documents have been added, processed, skipped or replaced,
\* earlier links may have changed their requests.
StartSession(now, requests, again) ==
    /\ place = "idle" /\ sessions < MaxSessions
    /\ \A d \in Docs : docs[d] # "absent" => now[d] # "absent"
    /\ docs' = now /\ earlier' = requests /\ fresh' = again
    /\ sessions' = sessions + 1
    /\ place' = "model" /\ outcome' = "none"
    /\ calls' = 0 /\ maxCalls' = Budget /\ extended' = FALSE
    /\ batch' = 0
    /\ requirements' = {} /\ listed' = FALSE /\ selected' = {}
    /\ ranges' = [d \in Docs |-> {}]
    /\ UNCHANGED <<result, shown>>

\* Variant: the reply is not counted.
Ask_Uncounted(n) ==
    /\ place = "model" /\ calls < maxCalls
    /\ UNCHANGED calls
    /\ batch' = n
    /\ place' = "tools"
    /\ UNCHANGED <<result, outcome, maxCalls, extended, evidenceVars, inputVars>>

\* The model replies with n tool calls.
Ask(n) ==
    /\ place = "model" /\ calls < maxCalls
    /\ calls' = calls + 1
    /\ batch' = n
    /\ place' = "tools"
    /\ UNCHANGED <<result, outcome, maxCalls, extended, evidenceVars, inputVars>>

\* The model replies without a tool call, or the provider fails for good: the
\* session has no result and the run fails.
GiveUp ==
    /\ place = "model" /\ calls < maxCalls
    /\ calls' = calls + 1
    /\ place' = "idle" /\ outcome' = "failed"
    /\ UNCHANGED <<result, batch, maxCalls, extended, evidenceVars, inputVars>>

\* Variant: an earlier result counts as a pending request.
RunOut_Pauses ==
    /\ place = "model" /\ calls >= maxCalls
    /\ place' = "idle"
    /\ IF Prior # NoResult
       THEN /\ UNCHANGED result
            /\ outcome' = "pending"
       ELSE /\ result' = [NoResult EXCEPT !.status = "INCONCLUSIVE", !.ckpt = TRUE]
            /\ outcome' = "result"
    /\ UNCHANGED <<batch, budgetVars, evidenceVars, inputVars>>

\* The budget is used up: an earlier result stands, without one the transaction
\* is recorded as inconclusive.
RunOut ==
    /\ place = "model" /\ calls >= maxCalls
    /\ place' = "idle"
    /\ IF Prior # NoResult
       THEN /\ UNCHANGED result
            /\ outcome' = IF result.status = "PENDING" THEN "pending" ELSE "result"
       ELSE /\ result' = [NoResult EXCEPT !.status = "INCONCLUSIVE", !.ckpt = TRUE]
            /\ outcome' = "result"
    /\ UNCHANGED <<batch, budgetVars, evidenceVars, inputVars>>

\* The inconclusive result could not be stored: the run fails.
RunOutUnsaved ==
    /\ place = "model" /\ calls >= maxCalls /\ Prior = NoResult
    /\ place' = "idle" /\ outcome' = "failed"
    /\ UNCHANGED <<result, batch, budgetVars, evidenceVars, inputVars>>

\* A tool call was answered: the next of the reply, or the model again.
Answer ==
    /\ place = "tools"
    /\ batch' = batch - 1
    /\ place' = IF batch = 1 THEN "model" ELSE "tools"
    /\ UNCHANGED <<outcome, inputVars>>

\* Variant: every request is granted.
Grant_Again ==
    /\ extended' = TRUE
    /\ maxCalls' = IF maxCalls + Extension <= HardCap THEN maxCalls + Extension ELSE HardCap
    /\ UNCHANGED calls

\* One extension of the budget per session.
Grant ==
    /\ extended' = TRUE
    /\ maxCalls' = IF extended THEN maxCalls
                   ELSE IF maxCalls + Extension <= HardCap THEN maxCalls + Extension ELSE HardCap
    /\ UNCHANGED calls

\* request_additional_verification_calls
Extend ==
    /\ Answer
    /\ Grant
    /\ UNCHANGED <<result, evidenceVars>>

\* record_evidence_requirements: locked once the summaries were listed.
Record(needs) ==
    /\ Answer
    /\ listed => needs = requirements
    /\ requirements' = needs
    /\ UNCHANGED <<result, budgetVars, listed, selected, ranges, shown>>

\* list_documents
List ==
    /\ Answer
    /\ requirements # {}
    /\ listed' = TRUE
    /\ UNCHANGED <<result, budgetVars, requirements, selected, ranges, shown>>

\* select_documents: a selection is never taken back.
Select(chosen) ==
    /\ Answer
    /\ requirements # {} /\ listed /\ chosen \subseteq Listed
    /\ selected' = selected \cup chosen
    /\ UNCHANGED <<result, budgetVars, requirements, listed, ranges, shown>>

\* Variant: a range is recorded as it was asked for, past the end of the text.
Read_AsAsked(d, start, size) ==
    /\ Answer
    /\ d \in selected /\ docs[d] = "ready"
    /\ ranges' = [ranges EXCEPT ![d] = @ \cup {[start |-> start, end |-> start + size]}]
    /\ shown' = IF Covered(ranges'[d]) THEN shown \cup {d} ELSE shown
    /\ UNCHANGED <<result, budgetVars, requirements, listed, selected>>

\* get_document_text: size characters from start, where nothing was read yet.
Read(d, start, size) ==
    LET end == IF start + size <= TextLen THEN start + size ELSE TextLen
    IN  /\ Answer
        /\ d \in selected /\ docs[d] = "ready"
        /\ \A r \in ranges[d] : ~(start < r.end /\ r.start < end)
        /\ ranges' = [ranges EXCEPT ![d] = @ \cup {[start |-> start, end |-> end]}]
        /\ shown' = IF Covered(ranges'[d]) THEN shown \cup {d} ELSE shown
        /\ UNCHANGED <<result, budgetVars, requirements, listed, selected>>

\* A call that changes nothing: the summaries, metadata or the transaction are
\* shown, finish is refused without a result, a repeated call is answered from
\* the cache, or the arguments or the wording of a report are refused.
NoEffect ==
    /\ Answer
    /\ UNCHANGED <<result, budgetVars, evidenceVars>>

----------------------------------------------------------------------------
\* Saving a result

ReadInFull(d) == d \in selected /\ FullyRead(ranges[d])

\* A completed result needs a selection, all of it read in full.
Gate(status) ==
    status \in Completed => selected # {} /\ \A d \in selected : FullyRead(ranges[d])

\* Variant: any document an earlier session selected may be cited.
Citable_Reviewed(d) ==
    /\ docs[d] # "absent" /\ d \notin ChainOnly
    /\ d \in Prior.reviewed \/ ReadInFull(d)

\* A document of the case that was read in this session, or cited before.
Citable(d) ==
    /\ docs[d] # "absent" /\ d \notin ChainOnly
    /\ d \in Prior.cited \/ ReadInFull(d)

\* No request repeats one of an earlier link.
OwnRequests(required) == required \cap earlier = {}

\* What the checks let through.  A field the model leaves out is taken over from
\* the earlier result, which is one of the values it may have here.
Acceptable(status, cited, required) ==
    /\ Gate(status)
    /\ OwnRequests(required)
    /\ \A d \in cited : Citable(d)
    /\ status = "ISSUES" => cited # {}
    /\ status = "PENDING" => required # {} \/ earlier # {}
    /\ required # {} => requirements # {} /\ listed

\* save_transaction_result, or request_missing_documents for a pending result
\* with a request: the session ends with it.
SaveResult(status, cited, required) ==
    /\ place = "tools"
    /\ Acceptable(status, cited, required)
    /\ result' = [status |-> status, cited |-> cited,
                  reviewed |-> (Prior.reviewed \cup selected) \ ChainOnly,
                  required |-> required, ckpt |-> FALSE]
    /\ place' = "idle" /\ batch' = 0
    /\ outcome' = IF status = "PENDING" /\ required # {} THEN "pending" ELSE "result"
    /\ UNCHANGED <<budgetVars, evidenceVars, inputVars>>

\* A result refused because text was not read in full grants the extension.
RefuseUnread(status, cited, required) ==
    /\ Answer
    /\ \/ ~Gate(status)
       \/ /\ OwnRequests(required)
          /\ \E d \in cited : /\ docs[d] # "absent" /\ d \notin ChainOnly \cup Prior.cited
                              /\ ~ReadInFull(d)
    /\ Grant
    /\ UNCHANGED <<result, evidenceVars>>

----------------------------------------------------------------------------

Tool ==
    \/ Extend \/ List \/ NoEffect
    \/ \E needs \in (SUBSET Needs) \ {{}} : Record(needs)
    \/ \E chosen \in SUBSET Docs : Select(chosen)
    \/ \E d \in Docs, start \in 0 .. TextLen + 1, size \in 1 .. TextLen : Read(d, start, size)
    \/ \E status \in Statuses, cited \in SUBSET Docs, required \in SUBSET Needs :
          \/ SaveResult(status, cited, required)
          \/ RefuseUnread(status, cited, required)

Session ==
    \/ \E n \in 1 .. MaxBatch : Ask(n)
    \/ GiveUp
    \/ RunOut \/ RunOutUnsaved
    \/ Tool

Next ==
    \/ \E now \in [Docs -> DocStates], requests \in SUBSET Needs, again \in BOOLEAN :
          StartSession(now, requests, again)
    \/ Session

Spec == Init /\ [][Next]_vars

\* A started session is carried on: every provider call ends in a reply or an error.
FairSpec == Spec /\ WF_vars(Session)

----------------------------------------------------------------------------
\* Properties

\* The full-text gate: a completed result is saved only when every character of
\* every selected document was shown in this session (_has_read_full_text).
CompletedWasRead ==
    [][result' # result /\ result'.status \in Completed /\ ~result'.ckpt
          => selected # {} /\ \A d \in selected : Covered(ranges[d])]_vars

\* Whatever the sessions, every citation of the saved result is to a document the
\* model was shown in full in some session (the citation checks and their exemption
\* for retained citations).
CitationsWereRead == result.cited \subseteq shown

\* However requests for more calls and recoveries from refused results combine, a
\* session makes no more model calls than its budget and one extension.
BudgetIsBounded == calls <= Budget + Extension /\ calls <= HardCap

\* What the session reports to the run agrees with what is saved: a reported result
\* exists, and the run pauses for evidence only on a pending result.
ReportAgrees ==
    place = "idle" =>
        /\ outcome \in {"result", "pending"} => result # NoResult
        /\ outcome = "pending" => result.status = "PENDING"

\* A session ends, whatever the model asks for.
SessionEnds == place # "idle" ~> place = "idle"
=============================================================================
