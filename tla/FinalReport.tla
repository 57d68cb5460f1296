---------------------------- MODULE FinalReport ----------------------------
(***************************************************************************)
(* services/final_report.py: the audit report of a case, generated on      *)
(* request from the saved results, rendered to a PDF on disk and recorded  *)
(* in the case's row.  Generation holds a lock of its own (a Lease), while *)
(* the agent, under another lock, goes on saving results and may rebuild   *)
(* the chain.  A request reads both piece by piece, and the chain twice.   *)
(*                                                                         *)
(* A handler of the web process is not interrupted while it generates: two *)
(* processes stand for one that is started while the old one ends.         *)
(***************************************************************************)
EXTENDS Integers, FiniteSets, Lease

CONSTANTS
    MaxLinks,   \* bound: links of the chain
    MaxSaves,   \* bound: results the agent saves
    MaxRuns,    \* bound: reports begun
    MaxFaults   \* bound: reads, writes and processes that fail

Positions == 1 .. MaxLinks

ASSUME MaxLinksAssumption == MaxLinks \in Nat \ {0}
ASSUME BoundsAssumption == MaxSaves \in Nat /\ MaxRuns \in Nat /\ MaxFaults \in Nat

VARIABLES
    results,  \* MySQL: the saved result of each link
    chain,    \* MySQL: the links of the title chain, those up to this position
    row,      \* MySQL: the report document of the case
    pdf,      \* the document the PDF on disk was rendered from
    torn,     \* part of that PDF is not on disk
    pc,       \* where each process is
    doc,      \* the document each process makes
    saves, runs, faults

caseVars == <<results, chain>>
vars == <<leaseVars, caseVars, row, pdf, torn, pc, doc, saves, runs, faults>>

----------------------------------------------------------------------------
\* Values

Procs == Owners

\* "waiting": PENDING, IN_PROGRESS or PENDING_NOT_VERIFIED; "lacking": concluded, with
\* documents still required.
Statuses == {"none", "waiting", "lacking", "concluded"}

\* A result; version tells one text of a report from another.
Results == [status : Statuses, version : 0 .. MaxSaves]
NoResult == [status |-> "none", version |-> 0]

\* A document: the results it was made from, which stand for their hash too, the chain
\* it was checked against and the chain of its ownership history.  Chain 0: none is read.
Documents == [results : [Positions -> Results], checked : 0 .. MaxLinks, listed : 0 .. MaxLinks]
NoDocument == [results |-> [l \in Positions |-> NoResult], checked |-> 0, listed |-> 0]

TypeOK ==
    /\ LeaseTypeOK
    /\ results \in [Positions -> Results]
    /\ chain \in 0 .. MaxLinks
    /\ row \in Documents /\ pdf \in Documents
    /\ pc \in [Procs -> {"idle", "granted", "reading", "checking", "writing", "filling", "saving", "leaving"}]
    /\ torn \in BOOLEAN
    /\ doc \in [Procs -> Documents]
    /\ saves \in 0 .. MaxSaves /\ runs \in 0 .. MaxRuns /\ faults \in 0 .. MaxFaults

Init ==
    /\ LeaseInit
    /\ results = [l \in Positions |-> NoResult]
    /\ chain = 0
    /\ row = NoDocument /\ pdf = NoDocument /\ torn = FALSE
    /\ pc = [p \in Procs |-> "idle"]
    /\ doc = [p \in Procs |-> NoDocument]
    /\ saves = 0 /\ runs = 0 /\ faults = 0

Fault == faults < MaxFaults /\ faults' = faults + 1

To(p, place) == pc' = [pc EXCEPT ![p] = place]

----------------------------------------------------------------------------
\* Readiness

\* _readiness_from: of each link of the chain, or of each result where no chain is read,
\* that is not concluded or lacks documents.
Blockers(rs, links) ==
    {l \in Positions : IF links = 0 THEN rs[l].status \in {"waiting", "lacking"}
                       ELSE l <= links /\ rs[l].status # "concluded"}

\* get_agent_state, whose failure leaves the chain out.
ReadChain(links) ==
    \/ links = chain /\ UNCHANGED faults
    \/ links = 0 /\ Fault

----------------------------------------------------------------------------
\* Generation

\* generate_final_report: the key is set; a request that does not get it is busy.
Acquire(p) ==
    /\ pc[p] = "idle" /\ runs < MaxRuns
    /\ runs' = runs + 1
    /\ Grant(p)
    /\ To(p, "granted")
    /\ UNCHANGED <<caseVars, row, pdf, torn, doc, saves, faults>>

Start(p) ==
    /\ pc[p] = "granted"
    /\ Enter(p)
    /\ To(p, "reading")
    /\ UNCHANGED <<caseVars, row, pdf, torn, doc, saves, runs, faults>>

\* Without any result there is nothing to report on.
ReadResults(p) ==
    /\ pc[p] = "reading"
    /\ doc' = [doc EXCEPT ![p].results = results]
    /\ To(p, IF \A l \in Positions : results[l] = NoResult THEN "leaving" ELSE "checking")
    /\ UNCHANGED <<leaseVars, caseVars, row, pdf, torn, saves, runs, faults>>

\* The rest of _generate_locked up to the model's answer: blocked, or synthesized with
\* the chain read once more.  Another step may come in between.
Check(p) ==
    /\ pc[p] = "checking"
    /\ \E links \in 0 .. MaxLinks :
          /\ ReadChain(links)
          /\ doc' = [doc EXCEPT ![p].checked = links]
          /\ To(p, IF Blockers(doc[p].results, links) = {} THEN "writing" ELSE "leaving")
    /\ UNCHANGED <<leaseVars, caseVars, row, pdf, torn, saves, runs>>

\* Variant: the row is written first, the PDF after it.
Write_RowFirst(p) ==
    /\ pc[p] = "writing"
    /\ \E links \in 0 .. MaxLinks :
          /\ ReadChain(links)
          /\ doc' = [doc EXCEPT ![p].listed = links]
    /\ row' = doc'[p]
    /\ To(p, "saving")
    /\ UNCHANGED <<leaseVars, caseVars, pdf, torn, saves, runs>>

\* _synthesize_report_document, the answer of the model, the PDF: write_bytes empties the
\* file in place and writes it from the start.
Write(p) ==
    /\ pc[p] = "writing"
    /\ \E links \in 0 .. MaxLinks :
          /\ ReadChain(links)
          /\ doc' = [doc EXCEPT ![p].listed = links]
    /\ pdf' = doc'[p] /\ torn' = TRUE
    /\ To(p, "filling")
    /\ UNCHANGED <<leaseVars, caseVars, row, saves, runs>>

\* The last of its bytes is written, and another process is not at it.
Fill(p) ==
    /\ pc[p] = "filling"
    /\ pdf' = doc[p] /\ torn' = (\E q \in Procs \ {p} : pc[q] = "filling")
    /\ To(p, "saving")
    /\ UNCHANGED <<leaseVars, caseVars, row, doc, saves, runs, faults>>

Persist(p) ==
    /\ pc[p] = "saving"
    /\ row' = doc[p]
    /\ To(p, "leaving")
    /\ UNCHANGED <<leaseVars, caseVars, pdf, torn, doc, saves, runs, faults>>

\* Any step may raise: the lock is released all the same.
Raise(p) ==
    /\ pc[p] \in {"reading", "checking", "writing", "filling", "saving"}
    /\ Fault
    /\ To(p, "leaving")
    /\ UNCHANGED <<leaseVars, caseVars, row, pdf, torn, doc, saves, runs>>

\* Variant: the lock is given back before the report is written.
Release_Early(p) ==
    /\ pc[p] \in {"writing", "leaving"}
    /\ Leave(p)
    /\ To(p, IF pc[p] = "leaving" THEN "idle" ELSE pc[p])
    /\ UNCHANGED <<caseVars, row, pdf, torn, doc, saves, runs, faults>>

\* lock.release, up to the deletion of the key, which is Free.
Release(p) ==
    /\ pc[p] = "leaving"
    /\ Leave(p)
    /\ To(p, "idle")
    /\ doc' = [doc EXCEPT ![p] = NoDocument]
    /\ UNCHANGED <<caseVars, row, pdf, torn, saves, runs, faults>>

\* The process dies: its key stays until it expires.
Die(p) ==
    /\ pc[p] # "idle"
    /\ Fault
    /\ Leave(p)
    /\ To(p, "idle")
    /\ doc' = [doc EXCEPT ![p] = NoDocument]
    /\ UNCHANGED <<caseVars, row, pdf, torn, saves, runs>>

----------------------------------------------------------------------------
\* The agent, in a worker

\* save_transaction_result, for a link of the chain.
SaveResult(l, status) ==
    /\ l <= chain /\ saves < MaxSaves
    /\ saves' = saves + 1
    /\ results' = [results EXCEPT ![l] = [status |-> status, version |-> saves + 1]]
    /\ UNCHANGED <<leaseVars, chain, row, pdf, torn, pc, doc, runs, faults>>

\* Variant: a chain may be longer than the links there are.
SaveChain_Longer(links) ==
    /\ links # chain
    /\ chain' = links + 1
    /\ UNCHANGED <<leaseVars, results, row, pdf, torn, pc, doc, saves, runs, faults>>

\* save_phase_a_result: the saved results stay.
SaveChain(links) ==
    /\ links # chain
    /\ chain' = links
    /\ UNCHANGED <<leaseVars, results, row, pdf, torn, pc, doc, saves, runs, faults>>

\* The key: expiry and deletion, and Redis failing.
KeyGone == Free /\ UNCHANGED <<caseVars, row, pdf, torn, pc, doc, saves, runs, faults>>
KeyLost == ~broken /\ Break /\ Fault /\ UNCHANGED <<caseVars, row, pdf, torn, pc, doc, saves, runs>>

----------------------------------------------------------------------------

Generate(p) ==
    Start(p) \/ ReadResults(p) \/ Check(p) \/ Write(p) \/ Fill(p) \/ Persist(p) \/ Release(p)

Next ==
    \/ \E p \in Procs : Acquire(p) \/ Generate(p) \/ Raise(p) \/ Die(p)
    \/ \E l \in Positions :
          \/ \E status \in Statuses \ {"none"} : SaveResult(l, status)
          \/ SaveChain(l)
    \/ KeyGone \/ KeyLost

Spec == Init /\ [][Next]_vars

----------------------------------------------------------------------------
\* Properties

\* What get_report_state says of the recorded report.
Shown == [ready |-> Blockers(results, chain) = {}, stale |-> row.results # results,
          pdfAvailable |-> pdf # NoDocument]

\* A PDF that is offered as not stale was made from the results as they are, though the
\* row with its hash is written after the file, results change at any time, and a process
\* may die or fail in between: only without the lock two generations could mix.
ServedIsCurrent ==
    row # NoDocument /\ ~Shown.stale /\ ~broken => pdf.results = results

\* A row never promises a report that has no file, whatever fails ("success only after
\* persist" in _generate_locked, stored_pdf_path).
RowHasPdf == row # NoDocument => Shown.pdfAvailable

\* A report whose history lists the chain it was checked against has a concluded result
\* with nothing outstanding for each link it lists, however results and chain changed
\* while it was made and whatever failed.
ReportIsComplete ==
    \A d \in {row, pdf} : d.checked # 0 /\ d.listed = d.checked
        => \A l \in 1 .. d.listed : d.results[l].status = "concluded"

\* The PDF is cut short only while it is being written, or after a failure: no generation
\* that ended well leaves a part of one, whoever wrote at the same time.
LeftWhole == torn => faults > 0 \/ \E p \in Procs : pc[p] = "filling"

\* What is recorded can be relied on.  That a PDF is whole while it is offered is not
\* promised: the file of a report that is made again is emptied in place, under its old row.
RecordedIsSound == RowHasPdf /\ ReportIsComplete /\ LeftWhole

=============================================================================
