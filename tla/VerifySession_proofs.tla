------------------------ MODULE VerifySession_proofs ------------------------
(***************************************************************************)
(* What holds of VerifySession for every set of documents and needs, every *)
(* length of text, every budget and every number of sessions.              *)
(***************************************************************************)
EXTENDS VerifySession, TLAPS, WellFoundedInduction

LEMMA Limits ==
    /\ TextLen \in Nat /\ TextLen >= 1 /\ Budget \in Nat /\ Budget >= 1
    /\ Extension \in Nat /\ HardCap \in Nat /\ HardCap >= Budget
    /\ MaxBatch \in Nat /\ MaxBatch >= 1 /\ MaxSessions \in Nat
BY LimitsAssumption

----------------------------------------------------------------------------
\* What the full-text check establishes

\* The heart of the full-text gate: ranges that leave no gap in the order of their
\* starts, and that reach the end of the text, contain every character of it.
\* Take a character no range contains; the range with the smallest start among those
\* that end behind it would have to start behind it too, after a range that ends
\* behind the character and starts earlier still.
LEMMA FullyReadCovers ==
    ASSUME NEW read \in SUBSET Ranges, FullyRead(read)
    PROVE  Covered(read)
<1> SUFFICES ASSUME NEW i \in 0 .. TextLen - 1,
                    \A r \in read : ~(r.start <= i /\ i < r.end)
             PROVE  FALSE
  BY DEF Covered
<1> DEFINE beyond == {r \in read : r.end > i}
           starts == {r.start : r \in beyond}
<1>1. starts # {}
  BY Limits DEF FullyRead, Ranges
<1>2. starts \subseteq Nat
  BY Limits DEF Ranges
<1>3. PICK s \in starts : \A t \in starts : ~(<<t, s>> \in OpToRel(<, Nat))
  BY <1>1, <1>2, NatLessThanWellFounded, WFMin
<1>4. \A t \in starts : ~(t < s)
  BY <1>2, <1>3 DEF OpToRel
<1>5. PICK r \in beyond : r.start = s
  OBVIOUS
<1>6. r.start > i
  BY Limits DEF Ranges
<1>7. PICK q \in read : q.start < r.start /\ r.start <= q.end
  BY <1>6, Limits DEF FullyRead, Ranges
<1>8. q \in beyond
  BY <1>6, <1>7, Limits DEF Ranges
<1> QED BY <1>4, <1>5, <1>7, <1>8

\* Nothing is covered where nothing was read: the text is never empty.
LEMMA NothingCovered == ~Covered({})
BY Limits DEF Covered

----------------------------------------------------------------------------
\* The inductive invariant

\* Calls are counted within the allowance, the allowance within what was granted,
\* and a reply that is being answered has calls left.
CountsOK ==
    /\ calls <= maxCalls
    /\ maxCalls <= Budget + (IF extended THEN Extension ELSE 0)
    /\ place = "tools" => batch >= 1

\* What this session read in full was shown, and nothing else is cited.
EvidenceOK ==
    /\ \A d \in Docs : Covered(ranges[d]) => d \in shown
    /\ result.cited \subseteq shown

SessionInv == TypeOK /\ CountsOK /\ EvidenceOK /\ ReportAgrees

LEMMA InitEstablishes == Init => SessionInv
<1> SUFFICES ASSUME Init PROVE SessionInv
  OBVIOUS
<1>1. NoResult \in Results
  BY DEF NoResult, Results, Statuses
<1>2. TypeOK
  <2>1. /\ calls \in 0 .. HardCap /\ maxCalls \in 0 .. HardCap /\ batch \in 0 .. MaxBatch
        /\ sessions \in 0 .. MaxSessions
    BY Limits DEF Init
  <2>2. docs \in [Docs -> DocStates] /\ ranges \in [Docs -> SUBSET Ranges]
    BY DEF Init, DocStates
  <2> QED BY <1>1, <2>1, <2>2 DEF Init, TypeOK
<1>3. CountsOK
  BY Limits DEF Init, CountsOK
<1>4. EvidenceOK
  BY NothingCovered DEF Init, EvidenceOK, NoResult
<1>5. ReportAgrees
  BY DEF Init, ReportAgrees
<1> QED BY <1>2, <1>3, <1>4, <1>5 DEF SessionInv

LEMMA StartSessionKeeps ==
    ASSUME SessionInv, NEW now \in [Docs -> DocStates], NEW requests \in SUBSET Needs,
           NEW again \in BOOLEAN, StartSession(now, requests, again)
    PROVE  SessionInv'
<1>1. TypeOK'
  <2>1. /\ calls' \in 0 .. HardCap /\ maxCalls' \in 0 .. HardCap /\ batch' \in 0 .. MaxBatch
        /\ sessions' \in 0 .. MaxSessions
    BY Limits DEF SessionInv, TypeOK, StartSession
  <2>2. ranges' \in [Docs -> SUBSET Ranges]
    BY DEF StartSession
  <2> QED BY <2>1, <2>2 DEF SessionInv, TypeOK, StartSession
<1>2. CountsOK'
  BY Limits DEF CountsOK, StartSession
<1>3. EvidenceOK'
  BY NothingCovered DEF SessionInv, EvidenceOK, Covered, StartSession
<1>4. ReportAgrees'
  BY DEF ReportAgrees, StartSession
<1> QED BY <1>1, <1>2, <1>3, <1>4 DEF SessionInv

LEMMA AskKeeps ==
    ASSUME SessionInv, NEW n \in 1 .. MaxBatch, Ask(n)
    PROVE  SessionInv'
<1> USE DEF Ask, SessionInv, evidenceVars, inputVars
<1>1. TypeOK'
  BY Limits DEF TypeOK
<1>2. CountsOK'
  BY Limits DEF CountsOK, TypeOK
<1>3. EvidenceOK'
  BY DEF EvidenceOK, Covered
<1>4. ReportAgrees'
  BY DEF ReportAgrees
<1> QED BY <1>1, <1>2, <1>3, <1>4

LEMMA GiveUpKeeps ==
    ASSUME SessionInv, GiveUp
    PROVE  SessionInv'
<1> USE DEF GiveUp, SessionInv, evidenceVars, inputVars
<1>1. TypeOK'
  BY Limits DEF TypeOK
<1>2. CountsOK'
  BY Limits DEF CountsOK, TypeOK
<1>3. EvidenceOK'
  BY DEF EvidenceOK, Covered
<1>4. ReportAgrees'
  BY DEF ReportAgrees
<1> QED BY <1>1, <1>2, <1>3, <1>4

\* The stopped session keeps the earlier result, or records one that cites nothing.
LEMMA RunOutKeeps ==
    ASSUME SessionInv, RunOut \/ RunOutUnsaved
    PROVE  SessionInv'
<1> USE DEF RunOut, RunOutUnsaved, SessionInv, budgetVars, evidenceVars, inputVars
<1> DEFINE stopped == [NoResult EXCEPT !.status = "INCONCLUSIVE", !.ckpt = TRUE]
<1>1. /\ stopped \in Results /\ stopped.cited = {} /\ stopped.status = "INCONCLUSIVE"
      /\ stopped # NoResult
  BY DEF NoResult, Results, Statuses, Completed
<1>2. result' \in {result, stopped}
  OBVIOUS
<1>3. TypeOK'
  BY <1>1, <1>2, Limits DEF TypeOK
<1>4. CountsOK'
  BY DEF CountsOK
<1>5. EvidenceOK'
  BY <1>1, <1>2 DEF EvidenceOK, Covered
<1>6. ReportAgrees'
  BY <1>1 DEF ReportAgrees, Prior
<1> QED BY <1>3, <1>4, <1>5, <1>6

----------------------------------------------------------------------------
\* Answered tool calls

\* What every answer has in common.
LEMMA AnswerFacts ==
    ASSUME SessionInv, Answer
    PROVE  /\ batch' \in 0 .. MaxBatch
           /\ place' \in {"model", "tools"}
           /\ place' = "tools" => batch' >= 1
           /\ ReportAgrees'
<1>1. batch \in 1 .. MaxBatch
  BY Limits DEF SessionInv, TypeOK, CountsOK, Answer
<1>2. batch' \in 0 .. MaxBatch /\ place' \in {"model", "tools"} /\ (place' = "tools" => batch' >= 1)
  BY <1>1, Limits DEF Answer
<1> QED BY <1>2 DEF ReportAgrees

\* What a granted or refused extension leaves of the budget.
LEMMA GrantFacts ==
    ASSUME SessionInv, Grant
    PROVE  /\ calls' \in 0 .. HardCap /\ maxCalls' \in 0 .. HardCap /\ extended' \in BOOLEAN
           /\ calls' <= maxCalls'
           /\ maxCalls' <= Budget + (IF extended' THEN Extension ELSE 0)
<1> USE Limits DEF SessionInv, TypeOK, CountsOK, Grant
<1>1. CASE extended
  BY <1>1
<1>2. CASE ~extended
  BY <1>2
<1> QED BY <1>1, <1>2

\* Extend, and a refusal over unread text.
LEMMA GrantingKeeps ==
    ASSUME SessionInv, Answer, Grant, UNCHANGED <<result, evidenceVars>>
    PROVE  SessionInv'
<1>1. TypeOK'
  BY AnswerFacts, GrantFacts DEF SessionInv, TypeOK, Answer, evidenceVars, inputVars
<1>2. CountsOK'
  BY AnswerFacts, GrantFacts DEF CountsOK
<1>3. EvidenceOK'
  BY DEF SessionInv, EvidenceOK, Covered, evidenceVars
<1> QED BY <1>1, <1>2, <1>3, AnswerFacts DEF SessionInv

\* Record, List, Select and NoEffect: neither the budget nor what was read changes.
LEMMA PreparingKeeps ==
    ASSUME SessionInv, Answer, UNCHANGED <<result, budgetVars, ranges, shown>>,
           requirements' \subseteq Needs, listed' \in BOOLEAN, selected' \subseteq Docs
    PROVE  SessionInv'
<1>1. TypeOK'
  BY AnswerFacts DEF SessionInv, TypeOK, Answer, budgetVars, inputVars
<1>2. CountsOK'
  BY AnswerFacts DEF SessionInv, CountsOK, budgetVars
<1>3. EvidenceOK'
  BY DEF SessionInv, EvidenceOK, Covered
<1> QED BY <1>1, <1>2, <1>3, AnswerFacts DEF SessionInv

LEMMA ReadKeeps ==
    ASSUME SessionInv, NEW d \in Docs, NEW start \in 0 .. TextLen + 1, NEW size \in 1 .. TextLen,
           Read(d, start, size)
    PROVE  SessionInv'
<1> DEFINE end == IF start + size <= TextLen THEN start + size ELSE TextLen
           r == [start |-> start, end |-> end]
<1>1. r \in Ranges
  BY Limits DEF Ranges
<1>2. /\ Answer /\ UNCHANGED <<result, budgetVars, requirements, listed, selected>>
      /\ ranges' = [ranges EXCEPT ![d] = @ \cup {r}]
      /\ shown' = IF Covered(ranges'[d]) THEN shown \cup {d} ELSE shown
  BY DEF Read
<1>3. TypeOK'
  BY <1>1, <1>2, AnswerFacts DEF SessionInv, TypeOK, Answer, budgetVars, inputVars
<1>4. CountsOK'
  BY <1>2, AnswerFacts DEF SessionInv, CountsOK, budgetVars
<1>5. EvidenceOK'
  <2>1. \A e \in Docs : Covered(ranges'[e]) => e \in shown'
    <3> SUFFICES ASSUME NEW e \in Docs, Covered(ranges'[e]) PROVE e \in shown'
      OBVIOUS
    <3>1. CASE e = d
      BY <1>2, <3>1
    <3>2. CASE e # d
      <4>1. ranges'[e] = ranges[e]
        BY <1>2, <3>2 DEF SessionInv, TypeOK
      <4> QED BY <1>2, <4>1 DEF SessionInv, EvidenceOK
    <3> QED BY <3>1, <3>2
  <2>2. result'.cited \subseteq shown'
    BY <1>2 DEF SessionInv, EvidenceOK
  <2> QED BY <2>1, <2>2 DEF EvidenceOK, Covered
<1> QED BY <1>2, <1>3, <1>4, <1>5, AnswerFacts DEF SessionInv

----------------------------------------------------------------------------
\* Saved results

\* Whatever may be cited was shown: it was cited before, or read in full now.
LEMMA CitableWasShown ==
    ASSUME SessionInv, NEW d \in Docs, Citable(d)
    PROVE  d \in shown
<1>1. CASE d \in Prior.cited
  BY <1>1 DEF Prior, NoResult, SessionInv, EvidenceOK
<1>2. CASE ReadInFull(d)
  <2>1. Covered(ranges[d])
    BY <1>2, FullyReadCovers DEF ReadInFull, SessionInv, TypeOK
  <2> QED BY <2>1 DEF SessionInv, EvidenceOK
<1> QED BY <1>1, <1>2 DEF Citable

LEMMA SaveResultKeeps ==
    ASSUME SessionInv, NEW status \in Statuses, NEW cited \in SUBSET Docs,
           NEW required \in SUBSET Needs, SaveResult(status, cited, required)
    PROVE  SessionInv'
<1> USE DEF SaveResult, SessionInv, budgetVars, evidenceVars, inputVars
<1>1. Prior.reviewed \subseteq Docs
  BY DEF Prior, NoResult, TypeOK, Results
<1>2. result' \in Results /\ result'.status = status /\ result'.cited = cited
  BY <1>1 DEF TypeOK, Results
<1>3. TypeOK'
  BY <1>2, Limits DEF TypeOK
<1>4. CountsOK'
  BY DEF CountsOK
<1>5. EvidenceOK'
  BY <1>2, CitableWasShown DEF EvidenceOK, Covered, Acceptable
<1>6. ReportAgrees'
  BY <1>2 DEF ReportAgrees, Statuses, Completed, NoResult
<1> QED BY <1>3, <1>4, <1>5, <1>6

----------------------------------------------------------------------------
\* The step

LEMMA ToolKeeps ==
    ASSUME SessionInv, Tool
    PROVE  SessionInv'
<1>1. CASE Extend
  BY <1>1, GrantingKeeps DEF Extend
<1>2. CASE List
  BY <1>2, PreparingKeeps DEF List, SessionInv, TypeOK
<1>3. CASE NoEffect
  BY <1>3, PreparingKeeps DEF NoEffect, SessionInv, TypeOK, evidenceVars
<1>4. ASSUME NEW needs \in SUBSET Needs, Record(needs) PROVE SessionInv'
  BY <1>4, PreparingKeeps DEF Record, SessionInv, TypeOK
<1>5. ASSUME NEW chosen \in SUBSET Docs, Select(chosen) PROVE SessionInv'
  BY <1>5, PreparingKeeps DEF Select, SessionInv, TypeOK
<1>6. ASSUME NEW status \in Statuses, NEW cited \in SUBSET Docs, NEW required \in SUBSET Needs,
             RefuseUnread(status, cited, required)
      PROVE  SessionInv'
  BY <1>6, GrantingKeeps DEF RefuseUnread
<1> QED BY <1>1, <1>2, <1>3, <1>4, <1>5, <1>6, ReadKeeps, SaveResultKeeps DEF Tool

LEMMA StepKeeps ==
    ASSUME SessionInv, [Next]_vars
    PROVE  SessionInv'
<1>1. CASE UNCHANGED vars
  BY <1>1 DEF vars, budgetVars, evidenceVars, inputVars, SessionInv, TypeOK, CountsOK,
              EvidenceOK, Covered, ReportAgrees
<1>2. CASE Next
  BY <1>2, StartSessionKeeps, AskKeeps, GiveUpKeeps, RunOutKeeps, ToolKeeps DEF Next, Session
<1> QED BY <1>1, <1>2

LEMMA SessionInvariant == Spec => []SessionInv
<1>1. Init => SessionInv
  BY InitEstablishes
<1>2. SessionInv /\ [Next]_vars => SessionInv'
  BY StepKeeps
<1> QED BY <1>1, <1>2, PTL DEF Spec

----------------------------------------------------------------------------
\* Results

\* Type correctness of the session, its evidence and the saved result.
THEOREM TypeCorrect == Spec => []TypeOK
<1>1. SessionInv => TypeOK
  BY DEF SessionInv
<1> QED BY <1>1, SessionInvariant, PTL

\* Every citation of a saved result, however many sessions it was carried through, is
\* to a document the model was shown in full.
THEOREM CitationsRead == Spec => []CitationsWereRead
<1>1. SessionInv => CitationsWereRead
  BY DEF SessionInv, EvidenceOK, CitationsWereRead
<1> QED BY <1>1, SessionInvariant, PTL

\* The model calls of a session stay within the budget, one extension and the hard cap.
THEOREM BudgetKept == Spec => []BudgetIsBounded
<1>1. SessionInv => BudgetIsBounded
  BY Limits DEF SessionInv, TypeOK, CountsOK, BudgetIsBounded
<1> QED BY <1>1, SessionInvariant, PTL

\* What a session reports to the run agrees with what is saved.
THEOREM ReportsAgree == Spec => []ReportAgrees
<1>1. SessionInv => ReportAgrees
  BY DEF SessionInv
<1> QED BY <1>1, SessionInvariant, PTL

\* The saved result changes only when a session saves one or runs out of budget.
LEMMA ResultChanges ==
    ASSUME [Next]_vars, result' # result
    PROVE  \/ RunOut
           \/ \E status \in Statuses, cited \in SUBSET Docs, required \in SUBSET Needs :
                 SaveResult(status, cited, required)
BY DEF Next, Session, Tool, StartSession, Ask, GiveUp, RunOutUnsaved, Extend, Record, List, Select,
       Read, NoEffect, RefuseUnread, vars

\* A completed result is saved only over a selection whose every character was shown in
\* this session, in whatever order and pieces the model read it.
THEOREM CompletedRead == Spec => CompletedWasRead
<1>1. SessionInv /\ [Next]_vars =>
        (result' # result /\ result'.status \in Completed /\ ~result'.ckpt
           => selected # {} /\ \A d \in selected : Covered(ranges[d]))
  <2> SUFFICES ASSUME SessionInv, [Next]_vars, result' # result, result'.status \in Completed,
                      ~result'.ckpt
               PROVE  selected # {} /\ \A d \in selected : Covered(ranges[d])
    OBVIOUS
  <2>1. CASE RunOut
    BY <2>1 DEF RunOut, NoResult
  <2>2. ASSUME NEW status \in Statuses, NEW cited \in SUBSET Docs, NEW required \in SUBSET Needs,
               SaveResult(status, cited, required)
        PROVE  selected # {} /\ \A d \in selected : Covered(ranges[d])
    <3>1. selected # {} /\ \A d \in selected : FullyRead(ranges[d])
      BY <2>2 DEF SaveResult, Acceptable, Gate
    <3>2. \A d \in selected : ranges[d] \in SUBSET Ranges
      BY DEF SessionInv, TypeOK
    <3> QED BY <3>1, <3>2, FullyReadCovers
  <2> QED BY <2>1, <2>2, ResultChanges
<1> QED BY <1>1, SessionInvariant, PTL DEF Spec, CompletedWasRead

----------------------------------------------------------------------------
\* Why a session ends

\* The steps a session can still take: answers to the reply at hand, and for every model
\* call up to the hard cap a reply with as many tool calls as it may have.
Left ==
    IF place = "idle" THEN 0
    ELSE (HardCap - calls) * (MaxBatch + 1) + 1 + (IF place = "tools" THEN batch ELSE 0)

LEMMA LeftIsNumber ==
    ASSUME SessionInv
    PROVE  Left \in Nat /\ (place # "idle" => Left >= 1)
<1> DEFINE h == HardCap - calls
           b == MaxBatch + 1
<1>1. h \in Nat /\ b \in Nat /\ batch \in Nat
  BY Limits DEF SessionInv, TypeOK
<1>2. h * b \in Nat
  <2> HIDE DEF h, b
  <2> QED BY <1>1
<1>3. Left = IF place = "idle" THEN 0 ELSE h * b + 1 + (IF place = "tools" THEN batch ELSE 0)
  BY DEF Left
<1> HIDE DEF h, b
<1> QED BY <1>1, <1>2, <1>3

LEMMA AnswerShortens ==
    ASSUME SessionInv, Answer, calls' = calls
    PROVE  Left' < Left
<1> DEFINE d == (HardCap - calls) * (MaxBatch + 1)
<1>1. batch \in 1 .. MaxBatch /\ MaxBatch \in Nat
  BY Limits DEF SessionInv, TypeOK, CountsOK, Answer
<1>2. d \in Nat
  <2> DEFINE h == HardCap - calls
             b == MaxBatch + 1
  <2>1. h \in Nat /\ b \in Nat
    BY Limits DEF SessionInv, TypeOK
  <2> HIDE DEF h, b
  <2>2. h * b \in Nat
    BY <2>1
  <2> QED BY <2>2 DEF h, b
<1>3. Left = d + 1 + batch
  BY DEF Left, Answer
<1>4. Left' = d + 1 + (IF place' = "tools" THEN batch' ELSE 0) /\ batch' = batch - 1
      /\ (place' = "tools" \/ batch = 1)
  BY DEF Left, Answer
<1> HIDE DEF d
<1> QED BY <1>1, <1>2, <1>3, <1>4

LEMMA AskShortens ==
    ASSUME SessionInv, NEW n \in 1 .. MaxBatch, Ask(n)
    PROVE  Left' < Left
<1> DEFINE h == HardCap - calls
           b == MaxBatch + 1
<1>1. h \in Nat /\ b \in Nat /\ h >= 1 /\ HardCap - (calls + 1) = h - 1 /\ n < b
  BY Limits DEF SessionInv, TypeOK, CountsOK, Ask
<1>5. h * b \in Nat
  <2> HIDE DEF h, b
  <2> QED BY <1>1
<1>2. Left = h * b + 1
  BY <1>5 DEF Left, Ask
<1>3. Left' = (h - 1) * b + 1 + n
  <2>1. Left' = (HardCap - (calls + 1)) * b + 1 + n
    BY DEF Left, Ask
  <2> QED BY <1>1, <2>1
<1> HIDE DEF h, b
<1>4. (h - 1) * b + b = h * b /\ h * b \in Nat /\ (h - 1) * b \in Nat
  BY <1>1
<1> QED BY <1>1, <1>2, <1>3, <1>4

\* What is left is a number, and every step of a session lowers it, whatever the model asks for and
\* whatever is granted; so there are at most (HardCap + 1) * (MaxBatch + 1) of them.
THEOREM SessionShortens == Spec => [](Left \in Nat) /\ [][Session => Left' < Left]_vars
<1>1. SessionInv /\ [Next]_vars => (Session => Left' < Left)
  <2> SUFFICES ASSUME SessionInv, [Next]_vars, Session PROVE Left' < Left
    OBVIOUS
  <2>3. Left \in Nat /\ (place # "idle" => Left >= 1)
    BY LeftIsNumber
  <2>4. ASSUME NEW n \in 1 .. MaxBatch, Ask(n) PROVE Left' < Left
    BY <2>4, AskShortens
  <2>5. ASSUME place # "idle", place' = "idle" PROVE Left' < Left
    <3>1. Left' = 0
      BY <2>5 DEF Left
    <3> QED BY <2>3, <2>5, <3>1
  <2>6. CASE GiveUp \/ RunOut \/ RunOutUnsaved
    <3>1. place # "idle" /\ place' = "idle"
      BY <2>6 DEF GiveUp, RunOut, RunOutUnsaved
    <3> QED BY <2>5, <3>1
  <2>7. ASSUME NEW status \in Statuses, NEW cited \in SUBSET Docs, NEW required \in SUBSET Needs,
               SaveResult(status, cited, required)
        PROVE  Left' < Left
    BY <2>5, <2>7 DEF SaveResult
  <2>8. ASSUME Answer, calls' = calls PROVE Left' < Left
    BY <2>8, AnswerShortens
  <2>9. CASE Extend \/ List \/ NoEffect
    <3>1. Answer /\ calls' = calls
      BY <2>9 DEF Extend, List, NoEffect, Grant, budgetVars
    <3> QED BY <2>8, <3>1
  <2>10. ASSUME NEW needs, Record(needs) PROVE Left' < Left
    BY <2>8, <2>10 DEF Record, budgetVars
  <2>11. ASSUME NEW chosen, Select(chosen) PROVE Left' < Left
    BY <2>8, <2>11 DEF Select, budgetVars
  <2>12. ASSUME NEW d, NEW start, NEW size, Read(d, start, size) PROVE Left' < Left
    BY <2>8, <2>12 DEF Read, budgetVars
  <2>13. ASSUME NEW status, NEW cited, NEW required, RefuseUnread(status, cited, required)
         PROVE  Left' < Left
    BY <2>8, <2>13 DEF RefuseUnread, Grant
  <2> QED BY <2>4, <2>6, <2>7, <2>9, <2>10, <2>11, <2>12, <2>13 DEF Session, Tool
<1>2. SessionInv => Left \in Nat
  BY LeftIsNumber
<1> QED BY <1>1, <1>2, SessionInvariant, PTL DEF Spec
=============================================================================
