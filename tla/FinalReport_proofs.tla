------------------------- MODULE FinalReport_proofs -------------------------
(***************************************************************************)
(* Proofs about FinalReport, for any number of processes, links, results,  *)
(* reports and faults.  A report is complete because its own copies were   *)
(* checked; that it is offered as current only when it is follows from the *)
(* lease and from results that only grow newer: the row is never newer     *)
(* than the PDF, nor the PDF than the results.                             *)
(***************************************************************************)
EXTENDS FinalReport, TLAPS

LEMMA NoDocumentType == NoResult \in Results /\ NoDocument \in Documents
  BY BoundsAssumption, MaxLinksAssumption DEF NoResult, Results, Statuses, NoDocument, Documents

\* Type correctness of the lease, the results, the report and its makers, for every number of
\* processes, links, results and faults.
THEOREM TypeCorrect == Spec => []TypeOK
<1> USE OwnersAssumption, MaxLinksAssumption, BoundsAssumption, NoDocumentType
<1>1. Init => TypeOK
  <2> SUFFICES ASSUME Init PROVE TypeOK
    OBVIOUS
  <2>1. LeaseTypeOK
    BY DEF Init, LeaseInit, LeaseTypeOK
  <2>2. results \in [Positions -> Results] /\ row \in Documents /\ pdf \in Documents
    BY DEF Init
  <2>3. chain \in 0 .. MaxLinks /\ saves \in 0 .. MaxSaves /\ runs \in 0 .. MaxRuns /\ faults \in 0 .. MaxFaults
    BY DEF Init
  <2>4. doc \in [Procs -> Documents]
    BY DEF Init
  <2> QED
    BY <2>1, <2>2, <2>3, <2>4 DEF Init, TypeOK
<1>2. TypeOK /\ [Next]_vars => TypeOK'
  <2> SUFFICES ASSUME TypeOK, [Next]_vars PROVE TypeOK'
    OBVIOUS
  <2> USE DEF TypeOK, LeaseTypeOK, Procs, To, Fault, leaseVars, caseVars
  <2>1. ASSUME NEW p \in Procs, Acquire(p) PROVE TypeOK'
    BY <2>1 DEF Acquire, Grant
  <2>2. ASSUME NEW p \in Procs, Start(p) PROVE TypeOK'
    BY <2>2 DEF Start, Enter
  <2>3. ASSUME NEW p \in Procs, ReadResults(p) PROVE TypeOK'
    <3>1. doc' \in [Procs -> Documents]
      BY <2>3 DEF ReadResults, Documents
    <3> QED
      BY <2>3, <3>1 DEF ReadResults
  <2>4. ASSUME NEW p \in Procs, Check(p) PROVE TypeOK'
    <3>1. doc' \in [Procs -> Documents] /\ faults' \in 0 .. MaxFaults
      BY <2>4 DEF Check, ReadChain, Documents
    <3> QED
      BY <2>4, <3>1 DEF Check
  <2>5. ASSUME NEW p \in Procs, Write(p) PROVE TypeOK'
    <3>1. PICK links \in 0 .. MaxLinks : ReadChain(links) /\ doc' = [doc EXCEPT ![p].listed = links]
      BY <2>5 DEF Write
    <3>2. faults' \in 0 .. MaxFaults
      BY <3>1 DEF ReadChain
    <3>3. [doc[p] EXCEPT !.listed = links] \in Documents
      BY DEF Documents
    <3>4. doc' \in [Procs -> Documents]
      BY <3>1, <3>3
    <3> QED
      BY <2>5, <3>2, <3>4 DEF Write
  <2>6. ASSUME NEW p \in Procs, Persist(p) PROVE TypeOK'
    BY <2>6 DEF Persist
  <2>7. ASSUME NEW p \in Procs, Release(p) \/ Die(p) PROVE TypeOK'
    BY <2>7 DEF Release, Die, Leave
  <2>8. ASSUME NEW p \in Procs, Raise(p) PROVE TypeOK'
    BY <2>8 DEF Raise
  <2>9. ASSUME NEW l \in Positions, NEW status \in Statuses \ {"none"}, SaveResult(l, status) PROVE TypeOK'
    <3>1. [status |-> status, version |-> saves + 1] \in Results
      BY <2>9 DEF SaveResult, Results
    <3> QED
      BY <2>9, <3>1 DEF SaveResult
  <2>10. ASSUME NEW l \in Positions, SaveChain(l) PROVE TypeOK'
    BY <2>10 DEF SaveChain, Positions
  <2>11. CASE KeyGone
    BY <2>11 DEF KeyGone, Free
  <2>12. CASE KeyLost
    BY <2>12 DEF KeyLost, Break
  <2>13. CASE UNCHANGED vars
    BY <2>13 DEF vars
  <2>14. ASSUME NEW p \in Procs, Fill(p) PROVE TypeOK'
    <3>1. torn' \in BOOLEAN
      <4>1. torn' = (\E q \in Procs \ {p} : pc[q] = "filling")
        BY <2>14 DEF Fill
      <4> QED
        BY ONLY <4>1, Zenon
    <3>2. pdf' \in Documents /\ pc' \in [Procs -> {"idle", "granted", "reading", "checking",
                                                 "writing", "filling", "saving", "leaving"}]
      BY <2>14 DEF Fill
    <3>3. UNCHANGED <<leaseVars, caseVars, row, doc, saves, runs, faults>>
      BY <2>14 DEF Fill
    <3> QED
      BY <3>1, <3>2, <3>3
  <2> QED
    BY <2>1, <2>2, <2>3, <2>4, <2>5, <2>6, <2>7, <2>8, <2>9, <2>10, <2>11, <2>12, <2>13, <2>14
       DEF Next, Generate
<1> QED
  BY <1>1, <1>2, PTL DEF Spec

-----------------------------------------------------------------------------
\* What is recorded

Concluded(d) == d.checked = 0 \/ Blockers(d.results, d.checked) = {}
Empty(rs) == \A l \in Positions : rs[l] = NoResult

\* What a process has found out so far.
Progress(p) ==
    /\ pc[p] \in {"checking", "writing", "filling", "saving"} => ~Empty(doc[p].results)
    /\ pc[p] \in {"writing", "filling", "saving"} => Concluded(doc[p])
    /\ pc[p] = "saving" => pdf # NoDocument

RecordInv ==
    /\ \A p \in Procs : Progress(p)
    /\ row # NoDocument => pdf # NoDocument
    /\ Concluded(row) /\ Concluded(pdf)

LEMMA StepRecord == TypeOK /\ RecordInv /\ [Next]_vars => RecordInv'
<1> SUFFICES ASSUME TypeOK, RecordInv, [Next]_vars PROVE RecordInv'
  OBVIOUS
<1> USE DEF TypeOK, To, caseVars
<1>1. ASSUME NEW p \in Procs, Write(p) PROVE RecordInv'
  <2>1. PICK links \in 0 .. MaxLinks : doc' = [doc EXCEPT ![p].listed = links]
    BY <1>1 DEF Write
  <2>2. /\ doc'[p].results = doc[p].results /\ doc'[p].checked = doc[p].checked
        /\ \A q \in Procs \ {p} : doc'[q] = doc[q]
    BY <2>1 DEF Documents
  <2>3. pc[p] = "writing" /\ pc' = [pc EXCEPT ![p] = "filling"] /\ pdf' = doc'[p] /\ row' = row
    BY <1>1 DEF Write
  <2>4. ~Empty(doc[p].results) /\ Concluded(doc[p])
    BY <2>3 DEF RecordInv, Progress
  <2>5. Concluded(doc'[p]) /\ ~Empty(doc'[p].results)
    BY <2>2, <2>4 DEF Concluded, Blockers, Empty
  <2>6. pdf' # NoDocument
    BY <2>3, <2>5 DEF Empty, NoDocument
  <2>7. ASSUME NEW q \in Procs PROVE Progress(q)'
    BY <2>2, <2>3, <2>5, <2>6, <2>7 DEF RecordInv, Progress, Empty, Concluded, Blockers
  <2>8. Concluded(row)' /\ Concluded(pdf)'
    BY <2>3, <2>5 DEF RecordInv, Concluded, Blockers
  <2> QED
    BY <2>6, <2>7, <2>8 DEF RecordInv
<1>2. ASSUME NEW p \in Procs, Check(p) PROVE RecordInv'
  <2>1. PICK links \in 0 .. MaxLinks :
           /\ doc' = [doc EXCEPT ![p].checked = links]
           /\ pc' = [pc EXCEPT ![p] = IF Blockers(doc[p].results, links) = {} THEN "writing" ELSE "leaving"]
    BY <1>2 DEF Check
  <2>2. /\ doc'[p].results = doc[p].results /\ doc'[p].checked = links
        /\ \A q \in Procs \ {p} : doc'[q] = doc[q]
    BY <2>1 DEF Documents
  <2>3. pc[p] = "checking" /\ row' = row /\ pdf' = pdf
    BY <1>2 DEF Check
  <2>4. Blockers(doc[p].results, links) = {} => Concluded(doc'[p])
    BY <2>2 DEF Concluded, Blockers
  <2>5. ASSUME NEW q \in Procs PROVE Progress(q)'
    BY <2>1, <2>2, <2>3, <2>4, <2>5 DEF RecordInv, Progress, Empty, Concluded, Blockers
  <2> QED
    BY <2>3, <2>5 DEF RecordInv, Concluded, Blockers
<1>3. ASSUME NEW p \in Procs, ReadResults(p) PROVE RecordInv'
  <2>1. doc'[p].results = results /\ \A q \in Procs \ {p} : doc'[q] = doc[q]
    BY <1>3 DEF ReadResults, Documents
  <2>2. /\ pc' = [pc EXCEPT ![p] = IF Empty(results) THEN "leaving" ELSE "checking"]
        /\ row' = row /\ pdf' = pdf
    BY <1>3 DEF ReadResults, Empty
  <2>3. ASSUME NEW q \in Procs PROVE Progress(q)'
    BY <2>1, <2>2, <2>3 DEF RecordInv, Progress, Empty, Concluded, Blockers
  <2> QED
    BY <2>2, <2>3 DEF RecordInv, Concluded, Blockers
<1>4. ASSUME NEW p \in Procs, Persist(p) PROVE RecordInv'
  BY <1>4 DEF Persist, RecordInv, Progress, Concluded, Blockers, Empty
<1>5. ASSUME NEW p \in Procs, Acquire(p) \/ Start(p) \/ Release(p) \/ Die(p) \/ Raise(p) PROVE RecordInv'
  <2>1. row' = row /\ pdf' = pdf
    BY <1>5 DEF Acquire, Start, Release, Die, Raise
  <2>2. ASSUME NEW q \in Procs PROVE Progress(q)'
    BY <1>5, <2>1, <2>2 DEF Acquire, Start, Release, Die, Raise, RecordInv, Progress, Empty, Concluded, Blockers
  <2> QED
    BY <2>1, <2>2 DEF RecordInv, Concluded, Blockers
<1>6. CASE UNCHANGED <<row, pdf, pc, doc>>
  BY <1>6 DEF RecordInv, Progress, Concluded, Blockers, Empty
<1>7. ASSUME NEW p \in Procs, Fill(p) PROVE RecordInv'
  <2>1. pc[p] = "filling" /\ pc' = [pc EXCEPT ![p] = "saving"] /\ pdf' = doc[p] /\ UNCHANGED <<row, doc>>
    BY <1>7 DEF Fill
  <2>2. Concluded(doc[p]) /\ ~Empty(doc[p].results)
    BY <2>1 DEF RecordInv, Progress
  <2>3. pdf' # NoDocument
    BY <2>1, <2>2 DEF Empty, NoDocument
  <2>4. ASSUME NEW q \in Procs PROVE Progress(q)'
    BY <2>1, <2>2, <2>3, <2>4 DEF RecordInv, Progress, Empty, Concluded, Blockers
  <2> QED
    BY <2>1, <2>2, <2>3, <2>4 DEF RecordInv, Concluded, Blockers
<1> QED
  BY <1>1, <1>2, <1>3, <1>4, <1>5, <1>6, <1>7
     DEF Next, Generate, SaveResult, SaveChain, KeyGone, KeyLost, vars

\* A step that leaves "filling" ends the file or is a failure.
LEMMA StepWhole == TypeOK /\ LeftWhole /\ [Next]_vars => LeftWhole'
<1> SUFFICES ASSUME TypeOK, LeftWhole, [Next]_vars PROVE LeftWhole'
  OBVIOUS
<1> USE DEF LeftWhole, To
<1>0. pc \in [Procs -> {"idle", "granted", "reading", "checking", "writing", "filling", "saving", "leaving"}]
  BY DEF TypeOK
<1>1. ASSUME NEW p \in Procs, Write(p) PROVE LeftWhole'
  BY <1>0, <1>1 DEF Write
<1>2. ASSUME NEW p \in Procs, Fill(p) PROVE LeftWhole'
  <2>1. pc' = [pc EXCEPT ![p] = "saving"] /\ torn' = (\E q \in Procs \ {p} : pc[q] = "filling")
    BY <1>2 DEF Fill
  <2> QED
    BY <1>0, <2>1
<1>3. CASE Fault
  <2>1. faults \in Nat /\ faults' = faults + 1
    BY <1>3, BoundsAssumption DEF Fault, TypeOK
  <2>2. faults' > 0
    BY <2>1
  <2> QED
    BY <2>2
<1>4. ASSUME torn' = torn, faults' = faults, \A q \in Procs : pc[q] = "filling" => pc'[q] = "filling"
      PROVE  LeftWhole'
  BY <1>4
<1>5. ASSUME NEW p \in Procs, Acquire(p) \/ Start(p) \/ ReadResults(p) \/ Persist(p) \/ Release(p)
      PROVE  LeftWhole'
  <2>1. torn' = torn /\ faults' = faults /\ \A q \in Procs \ {p} : pc'[q] = pc[q]
    BY <1>0, <1>5 DEF Acquire, Start, ReadResults, Persist, Release
  <2>2. pc[p] # "filling"
    BY <1>5 DEF Acquire, Start, ReadResults, Persist, Release
  <2> QED
    BY <1>4, <2>1, <2>2
<1>6. ASSUME NEW p \in Procs, Check(p) PROVE LeftWhole'
  <2>1. torn' = torn /\ pc[p] = "checking" /\ \A q \in Procs \ {p} : pc'[q] = pc[q]
    BY <1>0, <1>6 DEF Check
  <2>2. faults' = faults \/ Fault
    BY <1>6 DEF Check, ReadChain
  <2> QED
    BY <1>3, <1>4, <2>1, <2>2
<1>7. CASE UNCHANGED <<torn, pc, faults>>
  BY <1>7
<1>8. ASSUME NEW p \in Procs, Raise(p) \/ Die(p) PROVE LeftWhole'
  BY <1>3, <1>8 DEF Raise, Die
<1>9. CASE KeyLost
  BY <1>3, <1>9 DEF KeyLost
<1> QED
  BY <1>1, <1>2, <1>5, <1>6, <1>7, <1>8, <1>9 DEF Next, Generate, SaveResult, SaveChain, KeyGone, vars

\* A recorded report has its file, and a concluded result for each link it was checked for and
\* lists, and without a failure no part of a file is left, for every number of processes, links
\* and faults, with and without the lock.
THEOREM RecordSound == Spec => []RecordedIsSound
<1>1. Init => RecordInv /\ LeftWhole
  <2> SUFFICES ASSUME Init PROVE RecordInv /\ LeftWhole
    OBVIOUS
  <2>1. \A p \in Procs : pc[p] = "idle"
    BY DEF Init
  <2> QED
    BY <2>1 DEF Init, RecordInv, Progress, Concluded, NoDocument, LeftWhole
<1>2. TypeOK /\ RecordInv /\ LeftWhole /\ [Next]_vars => (RecordInv /\ LeftWhole)'
  BY StepRecord, StepWhole
<1>3. TypeOK /\ RecordInv /\ LeftWhole => RecordedIsSound
  <2> SUFFICES ASSUME TypeOK, RecordInv, LeftWhole PROVE RecordedIsSound
    OBVIOUS
  <2>1. RowHasPdf
    BY DEF RecordInv, RowHasPdf, Shown
  <2>2. ASSUME NEW d \in {row, pdf}, d.checked # 0, d.listed = d.checked, NEW l \in 1 .. d.listed
        PROVE  d.results[l].status = "concluded"
    <3>1. d \in Documents /\ Blockers(d.results, d.checked) = {}
      BY <2>2 DEF TypeOK, RecordInv, Concluded
    <3>2. l \in Positions /\ l <= d.checked
      BY <2>2, <3>1, MaxLinksAssumption DEF Documents, Positions
    <3> QED
      BY <2>2, <3>1, <3>2 DEF Blockers
  <2> QED
    BY <2>1, <2>2 DEF RecordedIsSound, ReportIsComplete
<1> QED
  BY <1>1, <1>2, <1>3, TypeCorrect, PTL DEF Spec

-----------------------------------------------------------------------------
\* One generation at a time

\* Where a process is once it has entered.
Inside == {"reading", "checking", "writing", "filling", "saving", "leaving"}

LockInv ==
    /\ \A p \in Procs : pc[p] \in Inside <=> p \in users
    /\ UsersOwn

LEMMA StepLock == TypeOK /\ LockInv /\ [Next]_vars => LockInv'
<1> SUFFICES ASSUME TypeOK, LockInv, [Next]_vars PROVE LockInv'
  OBVIOUS
<1> USE OwnersAssumption DEF TypeOK, LeaseTypeOK, LockInv, Inside, UsersOwn, To, leaseVars, Procs
<1>1. ASSUME NEW p \in Procs, Acquire(p) PROVE LockInv'
  BY <1>1 DEF Acquire, Grant
<1>2. ASSUME NEW p \in Procs, Start(p) PROVE LockInv'
  BY <1>2 DEF Start, Enter
<1>3. ASSUME NEW p \in Procs, ReadResults(p) \/ Check(p) \/ Write(p) \/ Fill(p) \/ Persist(p) \/ Raise(p) PROVE LockInv'
  BY <1>3 DEF ReadResults, Check, Write, Fill, Persist, Raise
<1>4. ASSUME NEW p \in Procs, Release(p) \/ Die(p) PROVE LockInv'
  BY <1>4 DEF Release, Die, Leave
<1>5. CASE KeyGone
  BY <1>5 DEF KeyGone, Free
<1>6. CASE KeyLost
  BY <1>6 DEF KeyLost, Break
<1>7. CASE UNCHANGED <<leaseVars, pc>>
  BY <1>7
<1> QED
  BY <1>1, <1>2, <1>3, <1>4, <1>5, <1>6, <1>7 DEF Next, Generate, SaveResult, SaveChain, vars

\* Without a fault of Redis there is never more than one process inside.
LEMMA OneInside ==
    ASSUME LockInv, ~broken, NEW p \in Procs, NEW q \in Procs, pc[p] \in Inside, pc[q] \in Inside
    PROVE  p = q
  BY DEF LockInv, UsersOwn

-----------------------------------------------------------------------------
\* Nothing is older than what it was made from

\* f was read before g, or together with it: no result of f is newer, and one of the same
\* version is the same.
Older(f, g) ==
    \A l \in Positions : f[l].version <= g[l].version /\ (f[l].version = g[l].version => f[l] = g[l])

AgeInv ==
    /\ \A l \in Positions : results[l].version <= saves
    /\ Older(row.results, results) /\ Older(pdf.results, results)
    /\ \A p \in Procs : pc[p] \in {"checking", "writing", "filling", "saving"} => Older(doc[p].results, results)
    /\ ~broken =>
          /\ Older(row.results, pdf.results)
          /\ \A p \in Procs : pc[p] \in {"checking", "writing"} => Older(row.results, doc[p].results)
          /\ \A p \in Procs : pc[p] \in {"filling", "saving"} => pdf = doc[p]

LEMMA OlderSelf == ASSUME NEW f \in [Positions -> Results] PROVE Older(f, f)
  BY BoundsAssumption DEF Older, Results

\* Two readings of which each is older than the other are the same.
LEMMA OlderBoth ==
    ASSUME NEW f \in [Positions -> Results], NEW g \in [Positions -> Results], Older(f, g), Older(g, f)
    PROVE  f = g
<1>1. \A l \in Positions : f[l].version \in Nat /\ g[l].version \in Nat
  BY BoundsAssumption DEF Results
<1>2. \A l \in Positions : f[l].version = g[l].version
  BY <1>1 DEF Older
<1>3. \A l \in Positions : f[l] = g[l]
  BY <1>2 DEF Older
<1> QED
  BY <1>3

\* Saving a result leaves every reading older than the results.
LEMMA SaveKeepsOlder ==
    ASSUME TypeOK, AgeInv, NEW k \in Positions, NEW status, SaveResult(k, status),
           NEW f \in [Positions -> Results], Older(f, results)
    PROVE  Older(f, results')
<1>1. saves \in Nat /\ \A l \in Positions : f[l].version \in Nat /\ results[l].version \in Nat
  BY BoundsAssumption DEF TypeOK, Results
<1>2. \A l \in Positions : results'[l] = IF l = k THEN [status |-> status, version |-> saves + 1] ELSE results[l]
  BY DEF SaveResult, TypeOK
<1>3. f[k].version <= saves
  BY <1>1 DEF AgeInv, Older
<1> QED
  BY <1>1, <1>2, <1>3 DEF Older

LEMMA StepAge == TypeOK /\ LockInv /\ AgeInv /\ [Next]_vars => AgeInv'
<1> SUFFICES ASSUME TypeOK, LockInv, AgeInv, [Next]_vars PROVE AgeInv'
  OBVIOUS
<1>0. /\ row.results \in [Positions -> Results] /\ pdf.results \in [Positions -> Results]
      /\ \A p \in Procs : doc[p].results \in [Positions -> Results]
  BY DEF TypeOK, Documents
<1>1. ASSUME NEW p \in Procs, Acquire(p) \/ Start(p) PROVE AgeInv'
  <2>1. UNCHANGED <<row, pdf, doc, results, saves, broken>>
    BY <1>1 DEF Acquire, Start, Grant, Enter, caseVars
  <2>2. \A q \in Procs : pc'[q] \in {"checking", "writing", "filling", "saving"} => pc'[q] = pc[q]
    BY <1>1 DEF Acquire, Start, To, TypeOK
  <2> QED
    BY <2>1, <2>2 DEF AgeInv, Older
<1>2. ASSUME NEW p \in Procs, ReadResults(p) PROVE AgeInv'
  <2>1. UNCHANGED <<row, pdf, results, saves, broken>>
    BY <1>2 DEF ReadResults, caseVars, leaseVars
  <2>2. doc'[p].results = results /\ \A q \in Procs \ {p} : doc'[q] = doc[q] /\ pc'[q] = pc[q]
    BY <1>2 DEF ReadResults, To, TypeOK, Documents
  <2>3. Older(results, results)
    BY OlderSelf DEF TypeOK
  <2>4. pc'[p] \in {"leaving", "checking"}
    BY <1>2 DEF ReadResults, To, TypeOK
  <2> QED
    BY <2>1, <2>2, <2>3, <2>4 DEF AgeInv, Older
<1>3. ASSUME NEW p \in Procs, Check(p) PROVE AgeInv'
  <2>1. UNCHANGED <<row, pdf, results, saves, broken>> /\ pc[p] = "checking"
    BY <1>3 DEF Check, caseVars, leaseVars
  <2>2. doc'[p].results = doc[p].results /\ \A q \in Procs \ {p} : doc'[q] = doc[q] /\ pc'[q] = pc[q]
    BY <1>3 DEF Check, To, TypeOK, Documents
  <2>3. pc'[p] \in {"leaving", "writing"}
    BY <1>3 DEF Check, To, TypeOK
  <2> QED
    BY <2>1, <2>2, <2>3 DEF AgeInv, Older
<1>4. ASSUME NEW p \in Procs, Write(p) PROVE AgeInv'
  <2>1. UNCHANGED <<row, results, saves, broken>> /\ pc[p] = "writing" /\ pdf' = doc'[p]
    BY <1>4 DEF Write, caseVars, leaseVars
  <2>2. /\ doc'[p].results = doc[p].results
        /\ \A q \in Procs \ {p} : doc'[q] = doc[q] /\ pc'[q] = pc[q]
        /\ pc'[p] = "filling"
    BY <1>4 DEF Write, To, TypeOK, Documents
  <2>3. ~broken => \A q \in Procs \ {p} : pc[q] \notin {"filling", "saving"}
    BY <2>1, OneInside DEF Inside
  <2> QED
    BY <2>1, <2>2, <2>3 DEF AgeInv, Older
<1>5. ASSUME NEW p \in Procs, Persist(p) PROVE AgeInv'
  <2>1. UNCHANGED <<pdf, doc, results, saves, broken>> /\ pc[p] = "saving" /\ row' = doc[p]
    BY <1>5 DEF Persist, caseVars, leaseVars
  <2>2. pc'[p] = "leaving" /\ \A q \in Procs \ {p} : pc'[q] = pc[q]
    BY <1>5 DEF Persist, To, TypeOK
  <2>3. ~broken => \A q \in Procs : pc'[q] \notin {"checking", "writing", "filling", "saving"}
    BY <2>1, <2>2, OneInside DEF Inside
  <2>4. ~broken => Older(row'.results, pdf.results)
    BY <1>0, <2>1, OlderSelf DEF AgeInv
  <2> QED
    BY <2>1, <2>2, <2>3, <2>4 DEF AgeInv, Older
<1>6. ASSUME NEW p \in Procs, Release(p) \/ Die(p) \/ Raise(p) PROVE AgeInv'
  <2>1. UNCHANGED <<row, pdf, results, saves, broken>>
    BY <1>6 DEF Release, Die, Raise, Leave, caseVars, leaseVars
  <2>2. pc'[p] \in {"idle", "leaving"} /\ \A q \in Procs \ {p} : doc'[q] = doc[q] /\ pc'[q] = pc[q]
    BY <1>6 DEF Release, Die, Raise, To, TypeOK
  <2> QED
    BY <2>1, <2>2 DEF AgeInv, Older
<1>7. ASSUME NEW k \in Positions, NEW status \in Statuses \ {"none"}, SaveResult(k, status) PROVE AgeInv'
  <2>1. UNCHANGED <<row, pdf, doc, pc, broken>> /\ saves' = saves + 1
    BY <1>7 DEF SaveResult, leaseVars
  <2>2. \A l \in Positions : results'[l].version <= saves'
    BY <1>7, BoundsAssumption DEF SaveResult, TypeOK, AgeInv, Results
  <2>3. Older(row.results, results') /\ Older(pdf.results, results')
    BY <1>0, <1>7, SaveKeepsOlder DEF AgeInv
  <2>4. \A p \in Procs : Older(doc[p].results, results) => Older(doc[p].results, results')
    BY <1>0, <1>7, SaveKeepsOlder
  <2> QED
    BY <2>1, <2>2, <2>3, <2>4 DEF AgeInv, Older
<1>8. CASE UNCHANGED <<row, pdf, pc, doc, results, saves>> /\ (broken => broken')
  BY <1>8 DEF AgeInv, Older
<1>9. ASSUME NEW p \in Procs, Fill(p) PROVE AgeInv'
  <2>1. UNCHANGED <<row, doc, results, saves, broken>> /\ pc[p] = "filling" /\ pdf' = doc[p]
    BY <1>9 DEF Fill, caseVars, leaseVars
  <2>2. pc'[p] = "saving" /\ \A q \in Procs \ {p} : pc'[q] = pc[q]
    BY <1>9 DEF Fill, To, TypeOK
  <2>3. ~broken => pdf' = pdf
    BY <2>1 DEF AgeInv
  <2>4. Older(doc[p].results, results)
    BY <2>1 DEF AgeInv
  <2>5. ASSUME ~broken PROVE AgeInv'
    BY <2>1, <2>2, <2>3, <2>5 DEF AgeInv, Older
  <2>6. ASSUME broken PROVE AgeInv'
    BY <2>1, <2>2, <2>4, <2>6 DEF AgeInv, Older
  <2> QED
    BY <2>5, <2>6
<1> QED
  BY <1>1, <1>2, <1>3, <1>4, <1>5, <1>6, <1>7, <1>8, <1>9
     DEF Next, Generate, SaveChain, KeyGone, KeyLost, Free, Break, vars, caseVars, leaseVars

\* As long as Redis answers, a PDF offered as current was made from the results as they are:
\* for every number of processes, links, results and failures, two generations do not mix.
THEOREM ServedCurrent == Spec => []ServedIsCurrent
<1>1. Init => LockInv /\ AgeInv
  <2> SUFFICES ASSUME Init PROVE LockInv /\ AgeInv
    OBVIOUS
  <2>1. \A p \in Procs : pc[p] = "idle"
    BY DEF Init
  <2>2. LockInv
    BY <2>1 DEF Init, LockInv, LeaseInit, UsersOwn, Inside
  <2>3. row.results = results /\ pdf.results = results /\ \A l \in Positions : results[l].version = 0
    BY DEF Init, NoDocument, NoResult
  <2> QED
    BY <2>1, <2>2, <2>3 DEF Init, AgeInv, Older
<1>2. TypeOK /\ LockInv /\ AgeInv /\ [Next]_vars => (LockInv /\ AgeInv)'
  BY StepLock, StepAge
<1>3. TypeOK /\ AgeInv => ServedIsCurrent
  <2> SUFFICES ASSUME TypeOK, AgeInv, row.results = results, ~broken PROVE pdf.results = results
    BY DEF ServedIsCurrent, Shown
  <2>1. Older(results, pdf.results) /\ Older(pdf.results, results)
    BY DEF AgeInv
  <2>2. pdf.results \in [Positions -> Results] /\ results \in [Positions -> Results]
    BY DEF TypeOK, Documents
  <2> QED
    BY <2>1, <2>2, OlderBoth
<1> QED
  BY <1>1, <1>2, <1>3, TypeCorrect, PTL DEF Spec

=============================================================================
