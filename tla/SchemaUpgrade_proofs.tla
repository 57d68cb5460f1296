------------------------ MODULE SchemaUpgrade_proofs ------------------------
(***************************************************************************)
(* Proofs about SchemaUpgrade, for any number of links, starts, faults and *)
(* saves.  The upgrade is safe to repeat because what a start is about to  *)
(* drop is in case_results from its commit on; it is safe beside workers   *)
(* that keep out of starts because what they save never meets a finding or *)
(* a to-do entry, unless a failed statement left one behind.               *)
(***************************************************************************)
EXTENDS SchemaUpgrade, TLAPS

LEMMA MaxOfTwo ==
    ASSUME NEW a \in Nat, NEW b \in Nat
    PROVE  Max({a, b}) \in {a, b} /\ Max({a, b}) >= a /\ Max({a, b}) >= b
<1>1. \E m \in {a, b} : \A x \in {a, b} : m >= x
  OBVIOUS
<1> QED
  BY <1>1 DEF Max

\* What the older stores add is one of their results.
LEMMA AddedType ==
    ASSUME TypeOK, NEW l \in Links
    PROVE  Added(l) \in 0 .. 3
<1>1. reports[l] \in SUBSET (1 .. 2) /\ agentResult[l] \in 0 .. 3
  BY DEF TypeOK
<1>2. ASSUME reports[l] # {}
      PROVE  Min(reports[l]) \in reports[l]
  <2>1. \E m \in reports[l] : \A x \in reports[l] : m <= x
    <3>1. 1 \in reports[l] \/ reports[l] = {2}
      BY <1>1, <1>2
    <3> QED
      BY <1>1, <3>1
  <2> QED
    BY <2>1 DEF Min
<1> QED
  BY <1>1, <1>2 DEF Added

LEMMA ConsolidatedType ==
    ASSUME TypeOK
    PROVE  Consolidated \in [Links -> Versions]
<1>1. \A l \in Links : Added(l) \in Versions
  BY AddedType, BoundsAssumption DEF Versions, Finding
<1>2. \A l \in Links : findings[l] \in Versions /\ copy[l] \in Versions
  BY BoundsAssumption DEF TypeOK, Versions, Finding
<1> QED
  BY <1>1, <1>2 DEF Consolidated

\* The tables left by dropping one of them.
LEMMA RetireLeaves ==
    ASSUME TypeOK, NEW what \in Retired, Retire(what)
    PROVE  /\ pc = what /\ pc' = After[what] /\ pc' \in {"serving"} \cup (Retired \ {"findings"})
           /\ findings' = IF what = "findings" THEN NoResults ELSE findings
           /\ reports' = IF what = "reports" THEN NoReports ELSE reports
           /\ agentResult' = IF what = "agent_result" THEN NoResults ELSE agentResult
           /\ UNCHANGED <<quiet, results, column, checkpoint, copy, saves, starts, faults, failed>>
           /\ findings' \in [Links -> {0, Finding}] /\ reports' \in [Links -> SUBSET (1 .. 2)]
           /\ agentResult' \in [Links -> 0 .. 3]
           /\ todos' = (todos /\ what # "todos") /\ legacy' = (legacy /\ what # "agent_memory")
<1>1. NoResults \in [Links -> {0, Finding}] /\ NoResults \in [Links -> 0 .. 3]
      /\ NoReports \in [Links -> SUBSET (1 .. 2)]
  BY DEF NoResults, NoReports
<1>2. pc' = After[what] /\ pc' \in {"serving"} \cup (Retired \ {"findings"})
  BY DEF Retire, Go, After, Retired
<1> QED
  BY <1>1, <1>2 DEF Retire, Go, TypeOK

\* Type correctness of the database, the upgrade and its counters, for every number of links,
\* starts, faults and saves.
THEOREM TypeCorrect == Spec => []TypeOK
<1> USE BoundsAssumption
<1>1. Init => TypeOK
  <2> SUFFICES ASSUME Init PROVE TypeOK
    OBVIOUS
  <2>1. results \in [Links -> Versions] /\ copy \in [Links -> Versions]
    BY DEF Init, Versions, Finding, NoResults
  <2>2. /\ findings \in [Links -> {0, Finding}] /\ agentResult \in [Links -> 0 .. 3]
        /\ reports \in [Links -> SUBSET (1 .. 2)]
    BY DEF Init
  <2>3. checkpoint \in [form : Forms, paused : BOOLEAN] /\ (checkpoint.form = "old" => column /\ pc # "dropping")
    BY DEF Init, Forms
  <2> QED
    BY <2>1, <2>2, <2>3 DEF Init, TypeOK
<1>2. TypeOK /\ [Next]_vars => TypeOK'
  <2> SUFFICES ASSUME TypeOK, [Next]_vars PROVE TypeOK'
    OBVIOUS
  <2>1. CASE ConvertMemory
    <3>1. checkpoint' \in [form : Forms, paused : BOOLEAN] /\ checkpoint'.form # "old"
      BY <2>1 DEF ConvertMemory, TypeOK, Forms
    <3>2. pc' \in {"dropping", "reading"} /\ UNCHANGED <<quiet, saves, starts>>
      BY <2>1 DEF ConvertMemory, Go
    <3> QED
      BY <2>1, <3>1, <3>2 DEF ConvertMemory, TypeOK, oldStores, oldMemory
  <2>2. CASE DropColumn
    BY <2>2 DEF DropColumn, Go, TypeOK, oldStores
  <2>3. CASE ReadResults
    BY <2>3 DEF ReadResults, Go, TypeOK, database, oldStores, oldMemory
  <2>4. CASE Consolidate
    <3>1. checkpoint' \in [form : Forms, paused : BOOLEAN] /\ (checkpoint'.form = "old" => column)
      BY <2>4 DEF Consolidate, Amended, TypeOK, Forms
    <3> QED
      BY <2>4, <3>1, ConsolidatedType DEF Consolidate, Go, TypeOK, Retired, oldStores, oldMemory
  <2>5. ASSUME NEW what \in Retired, Retire(what) PROVE TypeOK'
    <3>1. pc' \in {"serving"} \cup Retired /\ pc' # "dropping"
      BY <2>5, RetireLeaves DEF Retired
    <3> QED
      BY <2>5, <3>1, RetireLeaves DEF TypeOK
  <2>6. ASSUME NEW what \in Retired, KeepOld(what) PROVE TypeOK'
    <3>1. pc' \in {"serving"} \cup Retired /\ pc' # "dropping"
      BY <2>6 DEF KeepOld, Go, After, Retired
    <3> QED
      BY <2>6, <3>1 DEF KeepOld, Fault, Go, TypeOK, database, oldStores, oldMemory
  <2>7. CASE Raise \/ Die \/ Start
    BY <2>7 DEF Raise, Die, Start, Fault, Go, TypeOK, database, oldStores, oldMemory
  <2>8. ASSUME NEW l \in Links, SaveResult(l) PROVE TypeOK'
    BY <2>8 DEF SaveResult, Save, TypeOK, Versions, Finding, oldStores, oldMemory
  <2>9. CASE SaveCheckpoint
    BY <2>9 DEF SaveCheckpoint, Save, TypeOK, Forms, oldStores, oldMemory
  <2>10. CASE UNCHANGED vars
    BY <2>10 DEF vars, database, oldStores, oldMemory, TypeOK
  <2> QED
    BY <2>1, <2>2, <2>3, <2>4, <2>5, <2>6, <2>7, <2>8, <2>9, <2>10 DEF Next
<1> QED
  BY <1>1, <1>2, PTL DEF Spec

-----------------------------------------------------------------------------
\* What a start may drop is in case_results

\* Workers that keep out of starts leave the copy what was read, and from the commit on every
\* link has the result it comes by.
Settled ==
    quiet => /\ pc = "consolidating" => copy = results
             /\ pc \in Retired => \A l \in Links : results[l] = Standing(l)

\* What is consolidated is what each link comes by.
LEMMA ConsolidatedStands ==
    ASSUME TypeOK, copy = results
    PROVE  \A l \in Links : Consolidated[l] = Standing(l)
BY DEF Consolidated, Standing

\* The steps that leave results and their stores alone.
Idle == UNCHANGED <<quiet, results, oldStores>>

LEMMA IdleSteps ==
    ASSUME ConvertMemory \/ DropColumn \/ ReadResults \/ (\E what \in Retired : KeepOld(what))
               \/ Raise \/ Die \/ Start \/ SaveCheckpoint \/ UNCHANGED vars
    PROVE  Idle
<1>1. ASSUME NEW what \in Retired, KeepOld(what) PROVE Idle
  BY <1>1 DEF KeepOld, Go, Idle, database
<1>2. CASE ConvertMemory
  BY <1>2 DEF ConvertMemory, Go, Idle
<1>3. CASE DropColumn \/ ReadResults
  BY <1>3 DEF DropColumn, ReadResults, Go, Idle, database
<1>4. CASE Raise \/ Die \/ Start
  BY <1>4 DEF Raise, Die, Start, Go, Idle, database
<1>5. CASE SaveCheckpoint \/ UNCHANGED vars
  BY <1>5 DEF SaveCheckpoint, Save, Idle, vars, database
<1> QED
  BY <1>1, <1>2, <1>3, <1>4, <1>5

\* A commit and a drop leave each link what it comes by.
LEMMA StandingKept ==
    ASSUME TypeOK, Settled, quiet, Next, \A l \in Links : ~SaveResult(l), NEW l \in Links
    PROVE  Standing(l)' = Standing(l)
<1>1. CASE Idle
  BY <1>1 DEF Idle, oldStores, Standing, Added
<1>2. CASE Consolidate
  <2>1. copy = results /\ results' = Consolidated /\ UNCHANGED <<findings, reports, agentResult>>
    BY <1>2 DEF Consolidate, Settled, oldStores
  <2>2. results'[l] = Standing(l)
    BY <2>1, ConsolidatedStands
  <2> QED
    BY <2>1, <2>2 DEF Standing, Added
<1>3. ASSUME NEW what \in Retired, Retire(what) PROVE Standing(l)' = Standing(l)
  <2>1. results[l] = Standing(l) /\ results' = results
    BY <1>3, RetireLeaves DEF Settled
  <2>2. /\ findings'[l] = findings[l] \/ findings'[l] = 0
        /\ reports'[l] = reports[l] \/ reports'[l] = {}
        /\ agentResult'[l] = agentResult[l] \/ agentResult'[l] = 0
    BY <1>3, RetireLeaves DEF NoResults, NoReports
  <2>3. CASE results[l] # 0
    BY <2>1, <2>2, <2>3 DEF Standing
  <2>4. CASE results[l] = 0
    <3>1. findings[l] = 0 /\ Added(l) = 0
      BY <2>1, <2>4 DEF Standing
    <3>2. reports[l] = {} /\ agentResult[l] = 0
      <4>1. reports[l] # {} => Min(reports[l]) # 0
        <5> SUFFICES ASSUME reports[l] # {} PROVE Min(reports[l]) # 0
          OBVIOUS
        <5>1. reports[l] \in SUBSET (1 .. 2)
          BY DEF TypeOK
        <5>2. 1 \in reports[l] \/ reports[l] = {2}
          BY <5>1
        <5>3. \E m \in reports[l] : \A x \in reports[l] : m <= x
          BY <5>1, <5>2
        <5>4. Min(reports[l]) \in reports[l]
          BY <5>3 DEF Min
        <5> QED
          BY <5>1, <5>4
      <4> QED
        BY <3>1, <4>1 DEF Added
    <3> QED
      BY <2>1, <2>2, <2>4, <3>1, <3>2 DEF Standing, Added
  <2> QED
    BY <2>3, <2>4
<1> QED
  BY <1>1, <1>2, <1>3, IdleSteps DEF Next

LEMMA SettledStep == TypeOK /\ TypeOK' /\ Settled /\ [Next]_vars => Settled'
<1> SUFFICES ASSUME TypeOK, TypeOK', Settled, [Next]_vars, quiet' PROVE Settled'
  BY DEF Settled
<1>1. CASE Consolidate
  <2>1. quiet /\ copy = results /\ results' = Consolidated /\ pc' = "findings"
    BY <1>1 DEF Consolidate, Go, Settled
  <2>2. \A l \in Links : ~SaveResult(l)
    BY <1>1 DEF Consolidate, Go, SaveResult, Save
  <2>3. ASSUME NEW l \in Links PROVE results'[l] = Standing(l)'
    BY <1>1, <2>1, <2>2, <2>3, ConsolidatedStands, StandingKept DEF Next
  <2> QED
    BY <2>1, <2>3 DEF Settled
<1>2. ASSUME NEW what \in Retired, Retire(what) PROVE Settled'
  <2>1. quiet /\ pc = what /\ pc' # "consolidating" /\ results' = results
    BY <1>2, RetireLeaves DEF Retired
  <2>2. \A l \in Links : ~SaveResult(l)
    BY <1>2, <2>1 DEF SaveResult, Save, Retired
  <2>3. ASSUME NEW l \in Links PROVE results'[l] = Standing(l)'
    <3>1. results[l] = Standing(l)
      BY <2>1 DEF Settled
    <3> QED
      BY <1>2, <2>1, <2>2, <3>1, StandingKept DEF Next
  <2> QED
    BY <2>1, <2>3 DEF Settled
<1>3. CASE ReadResults
  <2>1. copy' = results' /\ pc' = "consolidating"
    BY <1>3 DEF ReadResults, Go, database
  <2> QED
    BY <2>1 DEF Settled, Retired
<1>4. ASSUME NEW what \in Retired, KeepOld(what) PROVE Settled'
  <2>1. quiet /\ pc \in Retired /\ pc' # "consolidating" /\ UNCHANGED <<results, oldStores>>
    BY <1>4 DEF KeepOld, Go, After, Retired, database
  <2> QED
    BY <2>1 DEF Settled, Standing, Added, oldStores
<1>5. CASE ConvertMemory \/ DropColumn \/ Raise \/ Die \/ Start
  <2>1. pc' \in {"dropping", "reading", "serving", "starting"}
    BY <1>5 DEF ConvertMemory, DropColumn, Raise, Die, Start, Go
  <2> QED
    BY <2>1 DEF Settled, Retired
<1>6. CASE (\E l \in Links : SaveResult(l)) \/ SaveCheckpoint
  <2>1. pc' = "serving"
    BY <1>6 DEF SaveResult, SaveCheckpoint, Save
  <2> QED
    BY <2>1 DEF Settled, Retired
<1>7. CASE UNCHANGED vars
  BY <1>7 DEF vars, database, oldStores, Settled, Standing, Added
<1> QED
  BY <1>1, <1>2, <1>3, <1>4, <1>5, <1>6, <1>7 DEF Next

LEMMA SettledAlways == Spec => []Settled
<1>1. Init => Settled
  BY DEF Init, Settled, Retired
<1> QED
  BY <1>1, SettledStep, TypeCorrect, PTL DEF Spec

\* However often a start is cut short and repeated, every link comes by the result it would
\* have had the first time, for every number of links, starts, faults and saves.
THEOREM RepeatsGiveTheSame == Spec => RepeatsAgree
<1>1. TypeOK /\ Settled /\ [Next]_vars
        => [quiet /\ saves' = saves => \A l \in Links : Standing(l)' = Standing(l)]_vars
  <2> SUFFICES ASSUME TypeOK, Settled, Next, quiet, saves' = saves, NEW l \in Links
               PROVE  Standing(l)' = Standing(l)
    OBVIOUS
  <2>1. \A k \in Links : ~SaveResult(k)
    <3>1. saves \in Nat
      BY BoundsAssumption DEF TypeOK
    <3>2. ASSUME NEW k \in Links, SaveResult(k) PROVE FALSE
      <4>1. saves = saves + 1
        BY <3>2 DEF SaveResult, Save
      <4> QED
        BY <3>1, <4>1
    <3> QED
      BY <3>2
  <2> QED
    BY <2>1, StandingKept
<1> QED
  BY <1>1, TypeCorrect, SettledAlways, PTL DEF Spec, RepeatsAgree

-----------------------------------------------------------------------------
\* A save does not meet a finding

\* As long as every start copied and dropped the findings: none is left where the web process
\* serves, and no result is newer than a finding that is.
FindingsFirst ==
    {"copy", "findings"} \cap failed = {} =>
        /\ pc \in {"serving"} \cup (Retired \ {"findings"}) => findings = NoResults
        /\ quiet => \A l \in Links : findings[l] # 0 => results[l] <= findings[l]

\* The workers number what they save.
Numbered == \A l \in Links : results[l] <= Finding + saves /\ copy[l] <= Finding + saves

LEMMA NumberedStep == TypeOK /\ Numbered /\ [Next]_vars => Numbered'
<1> SUFFICES ASSUME TypeOK, Numbered, [Next]_vars PROVE Numbered'
  OBVIOUS
<1>0. saves \in Nat /\ \A l \in Links : results[l] \in Nat /\ copy[l] \in Nat
  BY BoundsAssumption DEF TypeOK, Versions, Finding
<1>1. CASE Consolidate
  <2>1. results' = Consolidated /\ UNCHANGED <<copy, saves>>
    BY <1>1 DEF Consolidate, Go
  <2>2. ASSUME NEW l \in Links PROVE Consolidated[l] <= Finding + saves
    <3>1. Added(l) \in 0 .. 3 /\ findings[l] \in {0, Finding} /\ copy[l] <= Finding + saves
      BY AddedType DEF TypeOK, Numbered
    <3> QED
      BY <1>0, <3>1 DEF Consolidated, Finding
  <2> QED
    BY <2>1, <2>2 DEF Numbered
<1>2. CASE ReadResults
  BY <1>2 DEF ReadResults, Go, Numbered, database
<1>3. ASSUME NEW what \in Retired, Retire(what) PROVE Numbered'
  BY <1>3, RetireLeaves DEF Numbered
<1>4. ASSUME NEW l \in Links, SaveResult(l) PROVE Numbered'
  <2>1. saves' = saves + 1 /\ copy' = copy /\ results' = [results EXCEPT ![l] = Finding + (saves + 1)]
    BY <1>4 DEF SaveResult, Save
  <2> QED
    BY <1>0, <2>1 DEF Numbered, TypeOK, Finding
<1>5. CASE SaveCheckpoint
  <2>1. saves' = saves + 1 /\ UNCHANGED <<copy, results>>
    BY <1>5 DEF SaveCheckpoint, Save
  <2> QED
    BY <1>0, <2>1 DEF Numbered, Finding
<1>6. ASSUME NEW what \in Retired, KeepOld(what) PROVE Numbered'
  BY <1>6 DEF KeepOld, Go, Numbered, database
<1>7. CASE ConvertMemory \/ DropColumn
  BY <1>7 DEF ConvertMemory, DropColumn, Go, Numbered
<1>8. CASE Raise \/ Die \/ Start \/ UNCHANGED vars
  BY <1>8 DEF Raise, Die, Start, Go, Numbered, database, vars
<1> QED
  BY <1>1, <1>2, <1>3, <1>4, <1>5, <1>6, <1>7, <1>8 DEF Next

LEMMA FindingsStep == TypeOK /\ Settled /\ FindingsFirst /\ [Next]_vars => FindingsFirst'
<1> SUFFICES ASSUME TypeOK, Settled, FindingsFirst, [Next]_vars,
                    {"copy", "findings"} \cap failed' = {}
             PROVE  FindingsFirst'
  BY DEF FindingsFirst
<1>0. \A l \in Links : findings[l] \in {0, Finding} /\ results[l] \in Nat
  BY BoundsAssumption DEF TypeOK, Versions, Finding
<1>1. CASE Consolidate
  <2>1. /\ results' = Consolidated /\ pc' = "findings" /\ UNCHANGED <<quiet, findings, failed>>
    BY <1>1 DEF Consolidate, Go, oldStores
  <2>2. \A l \in Links : findings[l] # 0 => results'[l] = findings[l]
    BY <2>1 DEF Consolidated
  <2> QED
    BY <1>0, <2>1, <2>2 DEF FindingsFirst, Retired, Finding
<1>2. ASSUME NEW what \in Retired, Retire(what) PROVE FindingsFirst'
  <2>1. /\ pc = what /\ UNCHANGED <<quiet, results, failed>>
        /\ findings' = IF what = "findings" THEN NoResults ELSE findings
    BY <1>2, RetireLeaves
  <2>2. findings' = NoResults
    BY <2>1 DEF FindingsFirst
  <2> QED
    BY <2>1, <2>2 DEF FindingsFirst, NoResults
<1>3. ASSUME NEW what \in Retired, KeepOld(what) PROVE FindingsFirst'
  <2>1. pc = what /\ failed' = failed \cup {what} /\ UNCHANGED <<quiet, results, findings>>
    BY <1>3 DEF KeepOld, Go, database, oldStores
  <2>2. what # "findings" /\ {"copy", "findings"} \cap failed = {}
    BY <2>1
  <2> QED
    BY <2>1, <2>2 DEF FindingsFirst
<1>4. CASE Raise
  BY <1>4 DEF Raise
<1>5. CASE ConvertMemory \/ DropColumn \/ ReadResults
  <2>1. pc' \in {"dropping", "reading", "consolidating"} /\ UNCHANGED <<quiet, results, findings, failed>>
    BY <1>5 DEF ConvertMemory, DropColumn, ReadResults, Go, database, oldStores
  <2> QED
    BY <2>1 DEF FindingsFirst, Retired
<1>6. CASE Die \/ Start
  <2>1. pc' = "starting" /\ UNCHANGED <<quiet, results, findings, failed>>
    BY <1>6 DEF Die, Start, Go, database, oldStores
  <2> QED
    BY <2>1 DEF FindingsFirst, Retired
<1>7. ASSUME NEW l \in Links, SaveResult(l) PROVE FindingsFirst'
  <2>1. (quiet => pc = "serving") /\ UNCHANGED <<quiet, pc, findings, failed>>
    BY <1>7 DEF SaveResult, Save, oldStores
  <2>2. quiet => \A k \in Links : findings'[k] = 0
    BY <2>1 DEF FindingsFirst, NoResults
  <2> QED
    BY <2>1, <2>2 DEF FindingsFirst
<1>8. CASE SaveCheckpoint
  BY <1>8 DEF SaveCheckpoint, Save, FindingsFirst, oldStores
<1>9. CASE UNCHANGED vars
  BY <1>9 DEF vars, database, oldStores, FindingsFirst
<1> QED
  BY <1>1, <1>2, <1>3, <1>4, <1>5, <1>6, <1>7, <1>8, <1>9 DEF Next

LEMMA FindingsAlways == Spec => [](FindingsFirst /\ Numbered)
<1>1. Init => FindingsFirst /\ Numbered
  <2> SUFFICES ASSUME Init PROVE FindingsFirst /\ Numbered
    OBVIOUS
  <2>1. \A l \in Links : findings[l] \in {0, Finding} /\ results[l] \in {0, 2} /\ copy[l] = 0
    BY DEF Init, NoResults
  <2> QED
    BY <2>1 DEF Init, FindingsFirst, Numbered, Retired, Finding
<1> QED
  BY <1>1, FindingsStep, NumberedStep, SettledAlways, TypeCorrect, PTL DEF Spec

\* No result gives way to an older one, for every number of links, starts, faults and saves, as
\* long as workers keep out of starts and every start copied and dropped the findings.
THEOREM NewestKept == Spec => NewestIsKept
<1> DEFINE Grows(l) == results'[l] >= results[l] /\ Latest(l)' >= Latest(l)
<1>1. TypeOK /\ TypeOK' /\ Settled /\ FindingsFirst /\ Numbered /\ [Next]_vars
        => [quiet /\ {"copy", "findings"} \cap failed' = {} => \A l \in Links : Grows(l)]_vars
  <2> SUFFICES ASSUME TypeOK, TypeOK', Settled, FindingsFirst, Numbered, Next, quiet,
                      {"copy", "findings"} \cap failed' = {}, NEW l \in Links
               PROVE  Grows(l)
    OBVIOUS
  <2> DEFINE r == results[l]
             f == findings[l]
             r1 == results'[l]
             f1 == findings'[l]
  <2>1. r \in Nat /\ f \in Nat /\ r1 \in Nat /\ f1 \in Nat
    BY BoundsAssumption DEF TypeOK, Versions, Finding
  <2>2. r1 >= r /\ (f1 >= f \/ r1 >= f)
    <3>1. CASE Idle
      BY <2>1, <3>1 DEF Idle, oldStores
    <3>2. CASE Consolidate
      <4>1. r1 = Consolidated[l] /\ copy[l] = r /\ f1 = f /\ failed' = failed
        BY <3>2 DEF Consolidate, Go, Settled, oldStores
      <4>2. f # 0 => r <= f
        BY <4>1 DEF FindingsFirst
      <4>3. r1 = IF f # 0 THEN f ELSE IF r # 0 THEN r ELSE Added(l)
        BY <4>1 DEF Consolidated
      <4> QED
        BY <2>1, <4>1, <4>2, <4>3
    <3>3. ASSUME NEW what \in Retired, Retire(what) PROVE r1 >= r /\ (f1 >= f \/ r1 >= f)
      <4>1. r1 = r /\ r = Standing(l) /\ f1 \in {0, f}
        BY <3>3, RetireLeaves DEF Settled, NoResults
      <4>2. f # 0 => r = f
        BY <4>1 DEF Standing
      <4> QED
        BY <2>1, <4>1, <4>2
    <3>4. ASSUME NEW k \in Links, SaveResult(k) PROVE r1 >= r /\ (f1 >= f \/ r1 >= f)
      <4>1. /\ results' = [results EXCEPT ![k] = Finding + saves'] /\ saves' = saves + 1
            /\ f1 = f
        BY <3>4 DEF SaveResult, Save, oldStores
      <4>2. saves \in Nat /\ r <= Finding + saves
        BY BoundsAssumption DEF TypeOK, Numbered
      <4>3. r1 = r \/ r1 = Finding + (saves + 1)
        BY <4>1 DEF TypeOK
      <4> QED
        BY <2>1, <4>1, <4>2, <4>3 DEF Finding
    <3> QED
      BY <3>1, <3>2, <3>3, <3>4, IdleSteps DEF Next
  <2>3. Latest(l) = Max({r, f}) /\ Latest(l)' = Max({r1, f1})
    BY DEF Latest
  <2> HIDE DEF r, f, r1, f1
  <2>4. Max({r1, f1}) >= Max({r, f})
    <3>1. /\ Max({r, f}) \in {r, f} /\ Max({r1, f1}) \in {r1, f1}
          /\ Max({r1, f1}) >= r1 /\ Max({r1, f1}) >= f1
      BY <2>1, MaxOfTwo
    <3> QED
      BY <2>1, <2>2, <3>1
  <2> QED
    BY <2>2, <2>3, <2>4 DEF r, r1
<1> QED
  BY <1>1, TypeCorrect, SettledAlways, FindingsAlways, PTL DEF Spec, NewestIsKept

-----------------------------------------------------------------------------
\* A checkpoint of this version does not meet a to-do entry

CheckpointOK ==
    {"copy", "todos"} \cap failed = {} =>
        /\ pc \in {"agent_result", "agent_memory", "serving"} => ~todos
        /\ checkpoint.form = "old" => pc = "starting"
        /\ quiet => checkpoint.form # "mixed" /\ (checkpoint.form = "json" => ~todos)

LEMMA CheckpointStep == TypeOK /\ CheckpointOK /\ [Next]_vars => CheckpointOK'
<1> SUFFICES ASSUME TypeOK, CheckpointOK, [Next]_vars, {"copy", "todos"} \cap failed' = {}
             PROVE  CheckpointOK'
  BY DEF CheckpointOK
<1>1. CASE ConvertMemory
  <2>1. pc' \in {"dropping", "reading"} /\ UNCHANGED <<quiet, todos, failed>>
    BY <1>1 DEF ConvertMemory, Go, oldMemory
  <2>2. /\ checkpoint'.form # "old"
        /\ checkpoint'.form \in {"json", "mixed"} => checkpoint'.form = checkpoint.form
    BY <1>1 DEF ConvertMemory, TypeOK
  <2> QED
    BY <2>1, <2>2 DEF CheckpointOK
<1>2. CASE DropColumn \/ ReadResults
  <2>1. /\ pc \in {"dropping", "reading"} /\ pc' \in {"reading", "consolidating"}
        /\ UNCHANGED <<quiet, todos, failed, checkpoint>>
    BY <1>2 DEF DropColumn, ReadResults, Go, database, oldMemory
  <2> QED
    BY <2>1 DEF CheckpointOK
<1>3. CASE Consolidate
  <2>1. pc = "consolidating" /\ pc' = "findings" /\ UNCHANGED <<quiet, todos, failed>>
    BY <1>3 DEF Consolidate, Go, oldMemory
  <2>2. /\ checkpoint'.form = "mixed" => (todos /\ checkpoint.form = "json") \/ checkpoint.form = "mixed"
        /\ checkpoint'.form \in {"old", "json"} => checkpoint'.form = checkpoint.form
    BY <1>3 DEF Consolidate, Amended, NewRow, TypeOK
  <2> QED
    BY <2>1, <2>2 DEF CheckpointOK
<1>4. ASSUME NEW what \in Retired, Retire(what) PROVE CheckpointOK'
  <2>1. /\ pc = what /\ pc' = After[what] /\ UNCHANGED <<quiet, failed, checkpoint>>
        /\ todos' = (todos /\ what # "todos")
    BY <1>4, RetireLeaves
  <2>2. pc' \in {"agent_result", "agent_memory", "serving"}
          => what = "todos" \/ pc \in {"agent_result", "agent_memory"}
    BY <2>1 DEF After, Retired
  <2>3. pc # "starting"
    BY <2>1 DEF Retired
  <2> QED
    BY <2>1, <2>2, <2>3 DEF CheckpointOK
<1>5. ASSUME NEW what \in Retired, KeepOld(what) PROVE CheckpointOK'
  <2>1. /\ pc = what /\ pc' = After[what] /\ UNCHANGED <<quiet, checkpoint, todos>>
        /\ failed' = failed \cup {what}
    BY <1>5 DEF KeepOld, Go, database, oldMemory
  <2>2. what # "todos" /\ {"copy", "todos"} \cap failed = {}
    BY <2>1
  <2>3. pc' \in {"agent_result", "agent_memory", "serving"} => pc \in {"agent_result", "agent_memory"}
    BY <2>1, <2>2 DEF After, Retired
  <2>4. pc # "starting"
    BY <2>1 DEF Retired
  <2> QED
    BY <2>1, <2>2, <2>3, <2>4 DEF CheckpointOK
<1>6. CASE Raise
  BY <1>6 DEF Raise
<1>7. CASE Die \/ Start
  <2>1. pc' = "starting" /\ UNCHANGED <<quiet, todos, failed, checkpoint>>
    BY <1>7 DEF Die, Start, Go, database, oldMemory
  <2> QED
    BY <2>1 DEF CheckpointOK
<1>8. ASSUME NEW l \in Links, SaveResult(l) PROVE CheckpointOK'
  BY <1>8 DEF SaveResult, Save, CheckpointOK, oldMemory
<1>9. CASE SaveCheckpoint
  <2>1. (quiet => pc = "serving") /\ checkpoint'.form = "json" /\ UNCHANGED <<quiet, pc, todos, failed>>
    BY <1>9 DEF SaveCheckpoint, Save, oldMemory
  <2> QED
    BY <2>1 DEF CheckpointOK
<1>10. CASE UNCHANGED vars
  BY <1>10 DEF vars, database, oldMemory, CheckpointOK
<1> QED
  BY <1>1, <1>2, <1>3, <1>4, <1>5, <1>6, <1>7, <1>8, <1>9, <1>10 DEF Next

\* When the web process serves, a pause is read as it was saved, for every number of links,
\* starts, faults and saves, as long as workers keep out of starts and every start copied and
\* dropped the to-do entries.
THEOREM PauseReadable == Spec => []PauseIsReadable
<1>1. Init => CheckpointOK
  BY DEF Init, CheckpointOK
<1>2. CheckpointOK => PauseIsReadable
  BY DEF CheckpointOK, PauseIsReadable, Seen
<1> QED
  BY <1>1, <1>2, CheckpointStep, TypeCorrect, PTL DEF Spec

----------------------------------------------------------------------------
\* Why a start ends, and what it leaves.

\* What a start has seen to by the place it has come to, as long as no statement has failed.
Behind ==
    failed = {} =>
        /\ pc \notin {"starting", "dropping"} => ~column
        /\ pc \in {"reports", "todos", "agent_result", "agent_memory", "serving"} => findings = NoResults
        /\ pc \in {"todos", "agent_result", "agent_memory", "serving"} => reports = NoReports
        /\ pc \in {"agent_result", "agent_memory", "serving"} => ~todos
        /\ pc \in {"agent_memory", "serving"} => agentResult = NoResults
        /\ pc = "serving" => ~legacy

LEMMA BehindStep == TypeOK /\ Behind /\ [Next]_vars => Behind'
<1> SUFFICES ASSUME TypeOK, Behind, [Next]_vars, failed' = {} PROVE Behind'
  BY DEF Behind
<1>1. CASE ConvertMemory
  BY <1>1 DEF ConvertMemory, Go, Behind, oldMemory
<1>2. CASE DropColumn \/ ReadResults
  BY <1>2 DEF DropColumn, ReadResults, Go, Behind, database, oldMemory
<1>3. CASE Consolidate
  BY <1>3 DEF Consolidate, Go, Behind, oldMemory
<1>4. ASSUME NEW what \in Retired, Retire(what) PROVE Behind'
  <2>1. /\ pc = what /\ pc' = After[what] /\ UNCHANGED <<column, failed>>
        /\ findings' = IF what = "findings" THEN NoResults ELSE findings
        /\ reports' = IF what = "reports" THEN NoReports ELSE reports
        /\ agentResult' = IF what = "agent_result" THEN NoResults ELSE agentResult
        /\ todos' = (todos /\ what # "todos") /\ legacy' = (legacy /\ what # "agent_memory")
    BY <1>4, RetireLeaves
  <2>2. CASE what = "findings"
    BY <2>1, <2>2 DEF Behind, After
  <2>3. CASE what = "reports"
    BY <2>1, <2>3 DEF Behind, After
  <2>4. CASE what = "todos"
    BY <2>1, <2>4 DEF Behind, After
  <2>5. CASE what = "agent_result"
    BY <2>1, <2>5 DEF Behind, After
  <2>6. CASE what = "agent_memory"
    BY <2>1, <2>6 DEF Behind, After
  <2> QED BY <2>2, <2>3, <2>4, <2>5, <2>6 DEF Retired
<1>5. ASSUME NEW what \in Retired, KeepOld(what) PROVE Behind'
  BY <1>5 DEF KeepOld
<1>6. CASE Raise
  BY <1>6 DEF Raise
<1>7. CASE Die \/ Start
  BY <1>7 DEF Die, Start, Go, Behind
<1>8. CASE (\E l \in Links : SaveResult(l)) \/ SaveCheckpoint
  BY <1>8 DEF SaveResult, SaveCheckpoint, Save, Behind, oldStores, oldMemory
<1>9. CASE UNCHANGED vars
  BY <1>9 DEF vars, database, oldStores, oldMemory, Behind
<1> QED BY <1>1, <1>2, <1>3, <1>4, <1>5, <1>6, <1>7, <1>8, <1>9 DEF Next

ServesUpgraded == pc = "serving" /\ failed = {} => Upgraded

\* When the web process serves and no statement has failed, nothing is left to upgrade, however
\* often and wherever it died and was started again, and whatever the workers saved meanwhile.
THEOREM ServingIsUpgraded == Spec => []ServesUpgraded
<1>1. Init => Behind
  BY DEF Init, Behind
<1>2. Behind => ServesUpgraded
  BY DEF Behind, ServesUpgraded, Upgraded
<1> QED BY <1>1, <1>2, BehindStep, TypeCorrect, PTL DEF Spec

\* The steps left of a start, and with those of the starts and faults still to come.
Distance ==
    [starting |-> 9, dropping |-> 8, reading |-> 7, consolidating |-> 6, findings |-> 5, reports |-> 4,
     todos |-> 3, agent_result |-> 2, agent_memory |-> 1, serving |-> 0][pc]

\* The starts and the faults still to come.
Repeats == (MaxStarts - starts) + (MaxFaults - faults)

Left == 10 * Repeats + Distance

LEMMA DistanceIsNumber == ASSUME TypeOK PROVE Distance \in 0 .. 9
BY DEF Distance, TypeOK, Retired

LEMMA LeftIsNumber == ASSUME TypeOK PROVE Left \in Nat /\ Repeats \in Nat
<1>1. Repeats \in Nat
  BY BoundsAssumption DEF Repeats, TypeOK
<1> QED BY <1>1, DistanceIsNumber DEF Left

LEMMA Lowers ==
    ASSUME NEW r \in Nat, NEW d \in 0 .. 9, NEW r1 \in Nat, NEW d1 \in 0 .. 9,
           (r1 = r /\ d1 < d) \/ r1 = r - 1
    PROVE  10 * r1 + d1 < 10 * r + d
OBVIOUS

\* The same of a step, whose successor values are given names.
LEMMA LeftLowers ==
    ASSUME TypeOK, TypeOK',
           \/ starts' = starts /\ faults' = faults /\ Distance' < Distance
           \/ starts' = starts /\ faults' = faults + 1
           \/ starts' = starts + 1 /\ faults' = faults
    PROVE  Left' < Left /\ Left' <= Left
<1> DEFINE r1 == Repeats'
           d1 == Distance'
           s1 == starts'
           f1 == faults'
<1>1. s1 \in 0 .. MaxStarts /\ f1 \in 0 .. MaxFaults /\ r1 = (MaxStarts - s1) + (MaxFaults - f1)
  BY DEF TypeOK, Repeats
<1>2. d1 \in 0 .. 9
  BY DEF Distance, TypeOK, Retired
<1>3. \/ s1 = starts /\ f1 = faults /\ d1 < Distance
      \/ s1 = starts /\ f1 = faults + 1
      \/ s1 = starts + 1 /\ f1 = faults
  OBVIOUS
<1>4. Left' = 10 * r1 + d1 /\ Left = 10 * Repeats + Distance
  BY DEF Left
<1>5. Distance \in 0 .. 9 /\ Repeats \in Nat /\ starts \in 0 .. MaxStarts /\ faults \in 0 .. MaxFaults
  BY DistanceIsNumber, LeftIsNumber DEF TypeOK
<1> HIDE DEF r1, d1, s1, f1
<1>6. r1 \in Nat
  BY <1>1, BoundsAssumption
<1>7. (r1 = Repeats /\ d1 < Distance) \/ r1 = Repeats - 1
  BY <1>1, <1>3, <1>5, BoundsAssumption DEF Repeats
<1>8. 10 * r1 + d1 < 10 * Repeats + Distance
  BY <1>2, <1>5, <1>6, <1>7, Lowers
<1> QED BY <1>2, <1>4, <1>5, <1>6, <1>8

\* Every step of the web process lowers a natural number that the workers leave alone: it comes to
\* serve, or stops at a statement, however the faults and the starts by the operator fall.
THEOREM StartsShorten ==
    Spec => /\ [](Left \in Nat)
            /\ [][Left' <= Left /\ (pc' # pc => Left' < Left)]_vars
<1>1. TypeOK /\ TypeOK' /\ [Next]_vars => [Left' <= Left /\ (pc' # pc => Left' < Left)]_vars
  <2> SUFFICES ASSUME TypeOK, TypeOK', Next
               PROVE  Left' <= Left /\ (pc' # pc => Left' < Left)
    OBVIOUS
  <2>1. ASSUME \/ starts' = starts /\ faults' = faults /\ Distance' < Distance
               \/ starts' = starts /\ faults' = faults + 1
               \/ starts' = starts + 1 /\ faults' = faults
        PROVE  Left' <= Left /\ (pc' # pc => Left' < Left)
    BY <2>1, LeftLowers
  <2>2. CASE ConvertMemory \/ DropColumn \/ ReadResults \/ Consolidate
    <3>1. starts' = starts /\ faults' = faults /\ Distance' < Distance
      BY <2>2 DEF ConvertMemory, DropColumn, ReadResults, Consolidate, Go, Distance
    <3> QED BY <2>1, <3>1
  <2>3. ASSUME NEW what \in Retired, Retire(what)
        PROVE  Left' <= Left /\ (pc' # pc => Left' < Left)
    <3>1. starts' = starts /\ faults' = faults /\ Distance' < Distance
      BY <2>3 DEF Retire, Go, Distance, Retired, After
    <3> QED BY <2>1, <3>1
  <2>4. CASE (\E what \in Retired : KeepOld(what)) \/ Raise \/ Die
    <3>1. starts' = starts /\ faults' = faults + 1
      BY <2>4 DEF KeepOld, Raise, Die, Fault, Go
    <3> QED BY <2>1, <3>1
  <2>5. CASE Start
    <3>1. starts' = starts + 1 /\ faults' = faults
      BY <2>5 DEF Start
    <3> QED BY <2>1, <3>1
  <2>6. CASE (\E l \in Links : SaveResult(l)) \/ SaveCheckpoint
    <3>1. pc' = pc /\ starts' = starts /\ faults' = faults
      BY <2>6 DEF SaveResult, SaveCheckpoint, Save
    <3>2. Left' = Left
      BY <3>1 DEF Left, Repeats, Distance
    <3> QED BY <3>1, <3>2, LeftIsNumber
  <2> QED BY <2>2, <2>3, <2>4, <2>5, <2>6 DEF Next
<1>2. TypeOK => Left \in Nat
  BY LeftIsNumber
<1> QED BY <1>1, <1>2, TypeCorrect, PTL DEF Spec

=============================================================================
