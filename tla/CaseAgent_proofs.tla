-------------------------- MODULE CaseAgent_proofs --------------------------
(***************************************************************************)
(* What holds of CaseAgent for every number of workers, links, uploads,    *)
(* requests and faults: its types, and what the agent lock buys.  As long  *)
(* as Redis neither refuses the lock call nor lets a held lock expire,     *)
(* runs of a case exclude each other.                                      *)
(***************************************************************************)
EXTENDS CaseAgent, TLAPS

\* The loop variable of a run is a link, or one past the last, wherever the
\* run still uses it, and no status is owed before the run is entered.
PlaceOK ==
    \A w \in Workers :
        /\ pc[w] \notin {"idle", "begin", "release"} => run[w].pos >= 1
        /\ pc[w] \in {"verify", "settle", "rewrite"} => run[w].pos \in Links
        /\ pc[w] \in {"idle", "begin", "mark", "enter"} => owed[w] = "none"

TypeInv == TypeOK /\ PlaceOK

\* An upload is stored while no pipeline runs and within the bound of uploads, and
\* only an upload at work holds a copy of the checkpoint.
UploadOK ==
    /\ accepted # NoUpload /\ copy = {} => docs % 2 = 0 /\ docs < 2 * MaxUploads + 1
    /\ copy # {} => accepted # NoUpload

LEMMA BoundsFacts ==
    /\ MaxLinks \in Nat /\ MaxLinks >= 1
    /\ MaxUploads \in Nat /\ MaxRequests \in Nat /\ MaxFaults \in Nat
BY BoundsAssumption

\* A manifest version that is odd and in range has a successor in range.
LEMMA OddVersions ==
    \A d \in Versions : d % 2 = 1 => d + 1 \in Versions
BY BoundsFacts DEF Versions

LEMMA EvenVersions ==
    \A d \in Versions : d < 2 * MaxUploads + 1 => d + 1 \in Versions
BY BoundsFacts DEF Versions

\* The result records the agent writes are results.
LEMMA WrittenResults ==
    ASSUME TypeOK, NEW w \in Workers, NEW l \in Links, NEW s \in Statuses
    PROVE  /\ SavedResult(w, l, s) \in Results
           /\ Unverified(l) \in SUBSET Links
<1>1. Unverified(l) \in SUBSET Links
  BY BoundsFacts DEF Unverified, Links
<1>2. run[w].docs \in Versions
  BY DEF TypeOK, Runs
<1>3. 0 \in Versions
  BY BoundsFacts DEF Versions
<1> QED BY <1>1, <1>2, <1>3 DEF SavedResult, Results

LEMMA ConstantRecords ==
    /\ NoResult \in Results /\ BoundedStop \in Results
    /\ NoMemory \in Memories /\ NoRun \in Runs /\ NoTask \in Tasks
    /\ \A l \in Links : Task("skip", l) \in Tasks /\ Task("retry", l) \in Tasks
    /\ Task("run", 0) \in Tasks /\ Task("resume", 0) \in Tasks
<1>1. NoResult \in Results /\ BoundedStop \in Results
  BY BoundsFacts DEF NoResult, BoundedStop, Results, Statuses, Versions
<1>2. NoMemory \in Memories
  BY BoundsFacts DEF NoMemory, Memories
<1>3. NoRun \in Runs
  BY <1>1, BoundsFacts DEF NoRun, Runs, Verdicts, Versions, Links
<1>4. /\ NoTask \in Tasks /\ Task("run", 0) \in Tasks /\ Task("resume", 0) \in Tasks
      /\ \A l \in Links : Task("skip", l) \in Tasks /\ Task("retry", l) \in Tasks
  BY DEF NoTask, Tasks, Task
<1> QED BY <1>1, <1>2, <1>3, <1>4

\* Moving the loop variable of a run record, alone and with another field.
LEMMA RunAt ==
    ASSUME NEW r \in Runs, NEW p \in 0 .. MaxLinks + 1
    PROVE  [r EXCEPT !.pos = p] \in Runs /\ [r EXCEPT !.pos = p].pos = p
BY DEF Runs

LEMMA RunPausedAt ==
    ASSUME NEW r \in Runs, NEW p \in 0 .. MaxLinks + 1
    PROVE  /\ [r EXCEPT !.verdict = "paused", !.pos = p] \in Runs
           /\ [r EXCEPT !.verdict = "paused", !.pos = p].pos = p
BY DEF Runs, Verdicts

THEOREM TypeInit == Init => TypeInv /\ UploadOK
<1> SUFFICES ASSUME Init PROVE TypeInv /\ UploadOK
  OBVIOUS
<1>1. TypeOK
  <2>1. /\ chain \in 0 .. MaxLinks /\ docs \in Versions /\ accepted \in 0 .. NoUpload /\ finalizing \in Nat
        /\ requests \in 0 .. MaxRequests /\ faults \in 0 .. MaxFaults
    BY BoundsFacts DEF Init, NoUpload, Versions
  <2>2. /\ results \in [Links -> Results] /\ memory \in Memories /\ copy \in SUBSET Memories
        /\ task \in [Workers -> Tasks] /\ mem \in [Workers -> Memories] /\ run \in [Workers -> Runs]
    BY ConstantRecords DEF Init
  <2>3. /\ agentStatus \in AgentStatuses /\ verdict \in Verdicts /\ overtaken \in BOOLEAN
        /\ pc \in [Workers -> Places] /\ owed \in [Workers -> AgentStatuses]
        /\ queue \in [Tasks -> Nat] /\ lock \in Workers \cup {Free, Orphan}
    BY DEF Init, Places, Verdicts, AgentStatuses
  <2> QED BY <2>1, <2>2, <2>3 DEF TypeOK
<1>2. PlaceOK /\ UploadOK
  BY DEF Init, PlaceOK, UploadOK
<1> QED BY <1>1, <1>2 DEF TypeInv

\* Frames: what the workers' part of the state is made of.
LEMMA LeaveType ==
    ASSUME TypeInv, NEW w \in Workers, Leave(w)
    PROVE  /\ pc' \in [Workers -> Places] /\ task' \in [Workers -> Tasks]
           /\ mem' \in [Workers -> Memories] /\ run' \in [Workers -> Runs]
           /\ owed' \in [Workers -> AgentStatuses]
           /\ PlaceOK'
<1>0. owed' \in [Workers -> AgentStatuses]
  BY DEF TypeInv, TypeOK, Leave, AgentStatuses
<1>1. pc' \in [Workers -> Places] /\ task' \in [Workers -> Tasks]
  BY ConstantRecords DEF TypeInv, TypeOK, Leave, Places
<1>2. mem' \in [Workers -> Memories] /\ run' \in [Workers -> Runs]
  BY ConstantRecords DEF TypeInv, TypeOK, Leave
<1>3. PlaceOK'
  BY DEF TypeInv, TypeOK, PlaceOK, Leave
<1> QED BY <1>0, <1>1, <1>2, <1>3

LEMMA SaveType ==
    ASSUME TypeOK, NEW w \in Workers, NEW m \in Memories, NEW status \in AgentStatuses,
           Save(w, m, status)
    PROVE  /\ memory' \in Memories /\ mem' \in [Workers -> Memories]
           /\ owed' \in [Workers -> AgentStatuses] /\ agentStatus' \in AgentStatuses
BY DEF Save, TypeOK

LEMMA DecideType ==
    ASSUME TypeInv, NEW w \in Workers, NEW m \in Memories, NEW only \in 0 .. MaxLinks,
           NEW fresh \in BOOLEAN, NEW place \in Places, Decide(w, m, only, fresh, place),
           place \notin {"verify", "settle", "rewrite"}, pc[w] = "begin", UNCHANGED owed
    PROVE  /\ pc' \in [Workers -> Places] /\ mem' \in [Workers -> Memories]
           /\ run' \in [Workers -> Runs] /\ PlaceOK'
<1> DEFINE r == [NoRun EXCEPT !.only = only, !.fresh = fresh, !.skips = m.skipped, !.pos = 1]
<1>1. r \in Runs /\ r.pos = 1
  <2>1. m.skipped \in SUBSET Links /\ 1 \in 0 .. MaxLinks + 1
    BY BoundsFacts DEF Memories
  <2> QED BY <2>1, ConstantRecords DEF Runs
<1>2. run' = [run EXCEPT ![w] = r] /\ pc' = [pc EXCEPT ![w] = place]
  BY DEF Decide, SetRun, Goto
<1> HIDE DEF r
<1>3. run' \in [Workers -> Runs] /\ pc' \in [Workers -> Places]
  BY <1>1, <1>2 DEF TypeInv, TypeOK
<1>4. PlaceOK'
  BY <1>1, <1>2 DEF TypeInv, TypeOK, PlaceOK
<1>5. mem' \in [Workers -> Memories]
  BY DEF Decide, TypeInv, TypeOK
<1> QED BY <1>3, <1>4, <1>5

\* What a task may decide on: a checkpoint with other skips, and a scope.
LEMMA Decisions ==
    ASSUME TypeOK, NEW w \in Workers, Analysis(w) \/ Resume(w) \/ Retry(w) \/ Skip(w)
    PROVE  \E m \in Memories, only \in 0 .. MaxLinks, fresh \in BOOLEAN, place \in {"mark", "enter"} :
              /\ Decide(w, m, only, fresh, place)
              /\ m.paused = memory.paused
              /\ place = "enter" => m.skipped \subseteq memory.skipped
              /\ \A l \in m.skipped \ memory.skipped : results[l].status \in {"NONE", "PENDING"}
              /\ fresh => only # 0 /\ results[only].status = "ISSUES"
<1>0. memory \in Memories /\ 0 \in 0 .. MaxLinks /\ MaxLinks \in Nat
  BY BoundsFacts DEF TypeOK
<1>1. CASE Analysis(w)
  <2> DEFINE m == [memory EXCEPT !.skipped = {}]
  <2>1. m \in Memories /\ m.skipped = {} /\ m.paused = memory.paused
    BY <1>0 DEF Memories
  <2>2. PICK place \in {"mark", "enter"} : Decide(w, m, 0, FALSE, place)
    BY <1>1 DEF Analysis
  <2> HIDE DEF m
  <2> QED BY <1>0, <2>1, <2>2
<1>2. CASE Resume(w)
  <2> DEFINE m == [memory EXCEPT !.skipped = @ \ {memory.paused}]
  <2>1. /\ m \in Memories /\ m.skipped \subseteq memory.skipped
        /\ m.paused = memory.paused /\ memory.paused \in 0 .. MaxLinks
    BY <1>0 DEF Memories
  <2>2. Decide(w, m, memory.paused, FALSE, "enter")
    BY <1>2 DEF Resume
  <2> HIDE DEF m
  <2> QED BY <1>0, <2>1, <2>2
<1>3. CASE Retry(w)
  <2> DEFINE l == task[w].link
             pending == results[l].status = "PENDING" /\ l \in memory.skipped
             issues == results[l].status = "ISSUES"
             kept == IF pending THEN memory.skipped \ {l} ELSE memory.skipped
             m == [memory EXCEPT !.skipped = kept, !.retry = 0]
  <2>1. kept \in SUBSET Links /\ kept \subseteq memory.skipped
    BY <1>0 DEF Memories
  <2>2. m \in Memories /\ m.skipped = kept /\ m.paused = memory.paused
    <3> HIDE DEF kept
    <3>1. m \in Memories
      BY <1>0, <2>1 DEF Memories
    <3>2. m.skipped = kept /\ m.paused = memory.paused
      BY <1>0 DEF Memories
    <3> QED BY <3>1, <3>2
  <2>3. l \in 0 .. MaxLinks /\ l # 0 /\ issues \in BOOLEAN
    BY <1>0, <1>3 DEF TypeOK, Tasks, Links, Retry
  <2>4. Decide(w, m, l, issues, "mark") /\ (issues => results[l].status = "ISSUES")
    BY <1>3 DEF Retry
  <2> HIDE DEF m, kept, issues, l
  <2> QED BY <2>1, <2>2, <2>3, <2>4
<1>4. CASE Skip(w)
  <2> DEFINE l == task[w].link
             m == [memory EXCEPT !.skipped = @ \cup {l}]
  <2>1. l \in Links /\ results[l].status \in {"NONE", "PENDING"}
    BY <1>4 DEF TypeOK, Tasks, Skip
  <2>2. m \in Memories /\ m.skipped = memory.skipped \cup {l} /\ m.paused = memory.paused
    BY <1>0, <2>1 DEF Memories
  <2>3. Decide(w, m, 0, FALSE, "mark")
    BY <1>4 DEF Skip
  <2> HIDE DEF m
  <2> QED BY <1>0, <2>1, <2>2, <2>3
<1> QED BY <1>1, <1>2, <1>3, <1>4

LEMMA BeginType ==
    ASSUME TypeInv, NEW w \in Workers, Begin(w)
    PROVE  TypeInv'
<1> USE DEF TypeInv
<1>1. CASE Analysis(w) \/ Resume(w) \/ Retry(w) \/ Skip(w)
  <2>1. PICK m \in Memories, only \in 0 .. MaxLinks, fresh \in BOOLEAN, place \in {"mark", "enter"} :
          Decide(w, m, only, fresh, place)
    BY <1>1, Decisions
  <2>2. /\ pc' \in [Workers -> Places] /\ mem' \in [Workers -> Memories]
        /\ run' \in [Workers -> Runs] /\ PlaceOK'
    BY <2>1, DecideType DEF Places, Begin
  <2> QED BY <2>2 DEF TypeOK, Begin, caseVars, docVars
<1>2. CASE Refuse(w)
  BY <1>2 DEF Refuse, Goto, TypeOK, PlaceOK, Places, Begin, caseVars, docVars
<1> QED BY <1>1, <1>2 DEF Begin

\* The prologue of a run, up to its loop.
LEMMA PrologueType ==
    ASSUME TypeInv, NEW w \in Workers,
           WriteStatus(w) \/ Mark(w) \/ Enter(w) \/ Survey(w) \/ PhaseA(w) \/ Loop(w)
    PROVE  TypeInv'
<1> USE DEF TypeInv
<1>0. /\ run[w] \in Runs /\ mem[w] \in Memories /\ memory \in Memories /\ "running" \in AgentStatuses
      /\ "none" \in AgentStatuses
  BY DEF TypeOK, AgentStatuses
<1>1. CASE WriteStatus(w)
  BY <1>0, <1>1 DEF WriteStatus, TypeOK, PlaceOK, docVars
<1>2. CASE Mark(w)
  BY <1>0, <1>2 DEF Mark, Goto, TypeOK, PlaceOK, Places, docVars
<1>3. CASE Enter(w)
  <2> DEFINE r == [run[w] EXCEPT !.docs = docs]
  <2>1. r \in Runs /\ r.pos = run[w].pos
    BY <1>0 DEF TypeOK, Runs
  <2>2. run' = [run EXCEPT ![w] = r]
    BY <1>3 DEF Enter, SetRun
  <2>3. PICK place \in {"survey", "loop"} : pc' = [pc EXCEPT ![w] = place] /\ pc[w] = "enter"
    BY <1>3 DEF Enter, Goto
  <2> HIDE DEF r
  <2>4. TypeOK'
    BY <1>0, <1>3, <2>1, <2>2, <2>3 DEF Enter, TypeOK, Places, caseVars, docVars
  <2>5. PlaceOK'
    BY <1>3, <2>1, <2>2, <2>3 DEF Enter, TypeOK, PlaceOK
  <2> QED BY <2>4, <2>5
<1>4. CASE Survey(w)
  <2>1. Save(w, mem[w], "running")
    BY <1>4 DEF Survey
  <2>2. TypeOK'
    BY <1>0, <1>4, <2>1, SaveType DEF Survey, Goto, TypeOK, Places, docVars
  <2>3. PlaceOK'
    BY <1>4 DEF Survey, Save, Goto, TypeOK, PlaceOK
  <2> QED BY <2>2, <2>3
<1>5. CASE PhaseA(w)
  BY <1>5, BoundsFacts DEF PhaseA, Goto, TypeOK, PlaceOK, Places, Links, docVars
<1>6. CASE Loop(w)
  <2> DEFINE m == [mem[w] EXCEPT !.skipped = run[w].skips]
  <2>1. m \in Memories
    BY <1>0 DEF Memories, Runs
  <2>2. Save(w, m, "running")
    BY <1>6 DEF Loop
  <2> HIDE DEF m
  <2>3. TypeOK'
    BY <1>0, <1>6, <2>1, <2>2, SaveType DEF Loop, Goto, TypeOK, Places, docVars
  <2>4. PlaceOK'
    BY <1>6 DEF Loop, Save, Goto, TypeOK, PlaceOK
  <2> QED BY <2>3, <2>4
<1> QED BY <1>1, <1>2, <1>3, <1>4, <1>5, <1>6

LEMMA LoopType ==
    ASSUME TypeInv, NEW w \in Workers,
           SelectLink(w) \/ SelectNone(w) \/ Verify(w)
    PROVE  TypeInv'
<1> USE DEF TypeInv, AgentStatuses
<1>2. CASE SelectLink(w)
  <2>1. PICK l \in Due(w) : SetRun(w, [run[w] EXCEPT !.pos = l])
    BY <1>2 DEF SelectLink
  <2>2. run[w] \in Runs /\ run[w].pos >= 1 /\ chain \in 0 .. MaxLinks
    BY <1>2 DEF SelectLink, TypeOK, PlaceOK
  <2>3. l \in Links
    BY <2>1, <2>2, BoundsFacts DEF Due, Links, Runs
  <2>4. [run[w] EXCEPT !.pos = l] \in Runs
    BY <2>2, <2>3, BoundsFacts DEF Runs, Links
  <2>5. run' \in [Workers -> Runs] /\ run'[w].pos = l
    BY <2>1, <2>2, <2>4 DEF SetRun, TypeOK, Runs
  <2>6. TypeOK'
    BY <1>2, <2>5 DEF SelectLink, Save, Goto, TypeOK, Places, docVars
  <2>7. PlaceOK'
    BY <1>2, <2>1, <2>3, <2>5 DEF SelectLink, Save, SetRun, Goto, TypeOK, PlaceOK, Links
  <2> QED BY <2>6, <2>7
<1>3. CASE SelectNone(w)
  BY <1>3 DEF SelectNone, Goto, TypeOK, PlaceOK, Places, caseVars, docVars
<1>4. CASE Verify(w)
  <2> DEFINE l == run[w].pos
  <2>1. l \in Links /\ run[w] \in Runs
    BY <1>4 DEF Verify, TypeOK, PlaceOK
  <2>2. results' \in [Links -> Results]
    BY <1>4, <2>1, WrittenResults, ConstantRecords DEF Verify, TypeOK
  <2>3. [run[w] EXCEPT !.verified = TRUE] \in Runs
    BY <2>1 DEF Runs
  <2>4. run' \in [Workers -> Runs] /\ \A v \in Workers : run'[v].pos = run[v].pos
    BY <1>4, <2>1, <2>3 DEF Verify, SetRun, TypeOK, Runs
  <2> QED BY <1>4, <2>2, <2>4 DEF Verify, Goto, TypeOK, PlaceOK, Places, docVars
<1> QED BY <1>2, <1>3, <1>4

LEMMA OutcomeType ==
    ASSUME TypeInv, NEW w \in Workers,
           Pause(w) \/ Advance(w) \/ RunFails(w) \/ Finish(w) \/ SyncVerdict(w)
    PROVE  TypeInv'
<1> USE DEF TypeInv, AgentStatuses
<1>0. run[w] \in Runs /\ mem[w] \in Memories
  BY DEF TypeOK
<1>1. CASE Pause(w)
  <2> DEFINE l == run[w].pos
             m == [mem[w] EXCEPT !.paused = l]
             r == [run[w] EXCEPT !.verdict = "paused", !.pos = l + 1]
  <2>1. l \in Links
    BY <1>1 DEF Pause, PlaceOK
  <2>2. m \in Memories
    BY <1>0, <2>1, BoundsFacts DEF Memories, Links
  <2>3. r \in Runs /\ r.pos >= 1
    <3>1. l + 1 \in 0 .. MaxLinks + 1 /\ l + 1 >= 1
      BY <2>1, BoundsFacts DEF Links
    <3> HIDE DEF l
    <3> QED BY <1>0, <3>1, RunPausedAt
  <2>4. run' = [run EXCEPT ![w] = r] /\ pc' = [pc EXCEPT ![w] = "sync"]
    BY <1>1 DEF Pause, SetRun, Goto
  <2>5. /\ memory' = m /\ mem' = [mem EXCEPT ![w] = m]
        /\ owed' = [owed EXCEPT ![w] = "paused"] /\ UNCHANGED agentStatus
    BY <1>1 DEF Pause, Save
  <2> HIDE DEF m, r
  <2>6. TypeOK'
    BY <1>1, <2>2, <2>3, <2>4, <2>5 DEF Pause, TypeOK, Places, docVars
  <2>7. PlaceOK'
    BY <2>3, <2>4, <2>5 DEF TypeOK, PlaceOK
  <2> QED BY <2>6, <2>7
<1>2. CASE Advance(w)
  <2> DEFINE r == [run[w] EXCEPT !.pos = @ + 1]
  <2>1. run[w].pos \in Links
    BY <1>2 DEF Advance, PlaceOK
  <2>2. r \in Runs /\ r.pos >= 1
    BY <1>0, <2>1, BoundsFacts DEF Runs, Links
  <2>3. run' = [run EXCEPT ![w] = r] /\ pc' = [pc EXCEPT ![w] = "select"]
    BY <1>2 DEF Advance, SetRun, Goto
  <2> HIDE DEF r
  <2>4. TypeOK'
    BY <1>0, <1>2, <2>2, <2>3 DEF Advance, Save, TypeOK, Places, docVars
  <2>5. PlaceOK'
    BY <1>2, <2>2, <2>3 DEF Advance, Save, TypeOK, PlaceOK
  <2> QED BY <2>4, <2>5
<1>3. CASE RunFails(w)
  <2> DEFINE r == [run[w] EXCEPT !.verdict = "error"]
  <2>1. r \in Runs /\ r.pos = run[w].pos
    BY <1>0 DEF Runs, Verdicts
  <2>2. run' = [run EXCEPT ![w] = r] /\ pc' = [pc EXCEPT ![w] = "sync"]
    BY <1>3 DEF RunFails, SetRun, Goto
  <2>3. r.pos >= 1
    BY <1>3, <2>1 DEF RunFails, PlaceOK
  <2> HIDE DEF r
  <2>4. TypeOK'
    BY <1>0, <1>3, <2>1, <2>2 DEF RunFails, Save, TypeOK, Places, docVars
  <2>5. PlaceOK'
    BY <1>3, <2>2, <2>3 DEF RunFails, Save, TypeOK, PlaceOK
  <2> QED BY <2>4, <2>5
<1>4. CASE Finish(w)
  <2> DEFINE m == [mem[w] EXCEPT !.paused = 0]
             r == [run[w] EXCEPT !.verdict = OverallVerdict]
  <2>1. m \in Memories
    BY <1>0, BoundsFacts DEF Memories
  <2>2. OverallVerdict \in Verdicts
    BY DEF OverallVerdict, Verdicts
  <2>3. r \in Runs /\ r.pos = run[w].pos
    BY <1>0, <2>2 DEF Runs
  <2>4. run' = [run EXCEPT ![w] = r] /\ pc' = [pc EXCEPT ![w] = "sync"]
    BY <1>4 DEF Finish, SetRun, Goto
  <2>5. /\ memory' = m /\ mem' = [mem EXCEPT ![w] = m]
        /\ owed' = [owed EXCEPT ![w] = "done"] /\ UNCHANGED agentStatus
    BY <1>4 DEF Finish, Save
  <2>6. r.pos >= 1
    BY <1>4, <2>3 DEF Finish, PlaceOK
  <2> HIDE DEF m, r
  <2>7. TypeOK'
    BY <1>4, <2>1, <2>3, <2>4, <2>5 DEF Finish, TypeOK, Places, docVars
  <2>8. PlaceOK'
    BY <2>4, <2>5, <2>6 DEF TypeOK, PlaceOK
  <2> QED BY <2>7, <2>8
<1>5. CASE SyncVerdict(w)
  <2>1. verdict' \in Verdicts
    BY <1>0, <1>5 DEF SyncVerdict, TypeOK, Runs
  <2>2. faults' \in 0 .. MaxFaults
    BY <1>5, BoundsFacts DEF SyncVerdict, Fault, TypeOK
  <2> QED BY <1>5, <2>1, <2>2 DEF SyncVerdict, Goto, TypeOK, PlaceOK, Places, docVars
<1> QED BY <1>1, <1>2, <1>3, <1>4, <1>5

LEMMA RefreshType ==
    ASSUME TypeInv, NEW w \in Workers,
           RefreshRead(w) \/ RefreshWrite(w) \/ RefreshDone(w)
    PROVE  TypeInv'
<1> USE DEF TypeInv
<1>0. run[w] \in Runs
  BY DEF TypeOK
<1>1. CASE RefreshRead(w)
  <2>1. PICK l \in Stale(w) :
          SetRun(w, [run[w] EXCEPT !.pos = l,
                                   !.buf = [results[l] EXCEPT !.ctx = Unverified(l)]])
    BY <1>1 DEF RefreshRead
  <2> DEFINE b == [results[l] EXCEPT !.ctx = Unverified(l)]
             r == [run[w] EXCEPT !.pos = l, !.buf = b]
  <2>1a. run[w].pos \in 1 .. MaxLinks + 1 /\ chain \in 0 .. MaxLinks
    <3>1. run[w].pos \in 0 .. MaxLinks + 1
      BY <1>0 DEF Runs
    <3>2. run[w].pos >= 1 /\ chain \in 0 .. MaxLinks
      BY <1>1 DEF RefreshRead, PlaceOK, TypeOK
    <3> QED BY <3>1, <3>2
  <2>2. l \in Links
    BY <2>1, <2>1a, BoundsFacts DEF Stale, Links
  <2>3. b \in Results
    <3>1. results[l] \in Results /\ Unverified(l) \in SUBSET Links
      BY <2>2, BoundsFacts DEF Unverified, TypeOK, Links
    <3> QED BY <3>1 DEF Results
  <2>4. r \in Runs /\ r.pos = l
    <3>1. l \in 0 .. MaxLinks + 1
      BY <2>2, BoundsFacts DEF Links
    <3> HIDE DEF b
    <3>2. [run[w] EXCEPT !.pos = l, !.buf = b] \in Runs
      BY <1>0, <2>3, <3>1 DEF Runs
    <3>3. [run[w] EXCEPT !.pos = l, !.buf = b].pos = l
      BY <1>0 DEF Runs
    <3> QED BY <3>2, <3>3
  <2>5. run' = [run EXCEPT ![w] = r] /\ pc' = [pc EXCEPT ![w] = "rewrite"]
    BY <1>1, <2>1 DEF RefreshRead, SetRun, Goto
  <2> HIDE DEF r
  <2>6. TypeOK'
    BY <1>1, <2>4, <2>5 DEF RefreshRead, TypeOK, Places, caseVars, docVars
  <2>7. UNCHANGED owed
    BY <1>1 DEF RefreshRead
  <2>8. PlaceOK'
    BY <2>2, <2>4, <2>5, <2>7, BoundsFacts DEF TypeOK, PlaceOK, Links
  <2> QED BY <2>6, <2>8
<1>2. CASE RefreshWrite(w)
  <2> DEFINE r == [run[w] EXCEPT !.pos = @ + 1, !.buf = NoResult]
  <2>1. run[w].pos \in Links
    BY <1>2 DEF RefreshWrite, PlaceOK
  <2>2. r \in Runs /\ r.pos >= 1
    <3>1. run[w].pos + 1 \in 0 .. MaxLinks + 1 /\ run[w].pos + 1 >= 1
      BY <2>1, BoundsFacts DEF Links
    <3>2. r \in Runs
      BY <1>0, <3>1, ConstantRecords DEF Runs
    <3>3. r.pos = run[w].pos + 1
      BY <1>0 DEF Runs
    <3> QED BY <3>1, <3>2, <3>3
  <2>3. run' = [run EXCEPT ![w] = r] /\ pc' = [pc EXCEPT ![w] = "refresh"]
    BY <1>2 DEF RefreshWrite, SetRun, Goto
  <2>4. results' \in [Links -> Results]
    BY <1>0, <1>2, <2>1 DEF RefreshWrite, Runs, TypeOK
  <2>5. faults' \in 0 .. MaxFaults
    BY <1>2, BoundsFacts DEF RefreshWrite, Fault, TypeOK
  <2> HIDE DEF r
  <2>6. TypeOK'
    BY <1>2, <2>2, <2>3, <2>4, <2>5 DEF RefreshWrite, TypeOK, Places, docVars
  <2>7. PlaceOK'
    BY <1>2, <2>2, <2>3 DEF RefreshWrite, TypeOK, PlaceOK
  <2> QED BY <2>6, <2>7
<1>3. CASE RefreshDone(w)
  BY <1>3 DEF RefreshDone, Goto, TypeOK, PlaceOK, Places, caseVars, docVars
<1> QED BY <1>1, <1>2, <1>3

LEMMA EnqueueType ==
    ASSUME TypeOK, NEW t \in Tasks, Enqueue(t)
    PROVE  queue' \in [Tasks -> Nat]
BY DEF TypeOK, Enqueue

LEMMA WorkerEndsType ==
    ASSUME TypeInv, NEW w \in Workers,
           Release(w) \/ Crash(w) \/ Lapse(w) \/ \E t \in Tasks : Start(w, t)
    PROVE  TypeInv'
<1> USE DEF TypeInv
<1>1. CASE Release(w)
  <2>1. lock' \in Workers \cup {Free, Orphan}
    BY <1>1 DEF Release, TypeOK
  <2> QED BY <1>1, <2>1, LeaveType DEF Release, TypeOK, caseVars, docVars
<1>2. CASE Crash(w)
  <2>1. lock' \in Workers \cup {Free, Orphan}
    BY <1>2 DEF Crash, TypeOK
  <2>2. queue' \in [Tasks -> Nat]
    BY <1>2, EnqueueType DEF Crash, TypeOK
  <2>3. faults' \in 0 .. MaxFaults
    BY <1>2, BoundsFacts DEF Crash, Fault, TypeOK
  <2> QED BY <1>2, <2>1, <2>2, <2>3, LeaveType DEF Crash, TypeOK, caseVars, docVars
<1>3. CASE Lapse(w)
  <2>1. faults' \in 0 .. MaxFaults
    BY <1>3, BoundsFacts DEF Lapse, Fault, TypeOK
  <2> QED BY <1>3, <2>1 DEF Lapse, TypeOK, PlaceOK, caseVars, docVars, workerVars
<1>4. ASSUME NEW t \in Tasks, Start(w, t) PROVE TypeInv'
  <2>1. queue' \in [Tasks -> Nat]
    BY <1>4 DEF Start, TypeOK
  <2>2. faults' \in 0 .. MaxFaults
    BY <1>4, BoundsFacts DEF Start, Acquire, Busy, Unlocked, Fault, TypeOK
  <2>3. /\ pc' \in [Workers -> Places] /\ task' \in [Workers -> Tasks]
        /\ lock' \in Workers \cup {Free, Orphan}
    BY <1>4 DEF Start, Acquire, Busy, Unlocked, Goto, TypeOK, Places
  <2>4. PlaceOK'
    BY <1>4 DEF Start, Acquire, Busy, Unlocked, Goto, TypeOK, PlaceOK
  <2> QED BY <1>4, <2>1, <2>2, <2>3, <2>4 DEF Start, TypeOK, caseVars, docVars
<1> QED BY <1>1, <1>2, <1>3, <1>4

LEMMA NextTaskType ==
    TypeOK => NextTask \in Tasks
<1> SUFFICES ASSUME TypeOK PROVE NextTask \in Tasks
  OBVIOUS
<1>1. CASE memory.retry # 0
  <2>1. memory.retry \in Links
    BY <1>1, BoundsFacts DEF TypeOK, Memories, Links
  <2> QED BY <1>1, <2>1, ConstantRecords DEF NextTask
<1>2. CASE memory.retry = 0 /\ memory.paused # 0
  BY <1>2, ConstantRecords DEF NextTask
<1>3. CASE memory.retry = 0 /\ memory.paused = 0
  BY <1>3, ConstantRecords DEF NextTask
<1> QED BY <1>1, <1>2, <1>3

LEMMA SurroundingsType ==
    ASSUME TypeInv, UploadOK,
           \/ OrphanExpires \/ RequestAnalysis
           \/ \E l \in Links : RequestSkip(l)
           \/ \E l \in 0 .. MaxLinks : UploadAccepted(l)
           \/ UploadStored \/ UploadMarked \/ FinalizeRelease \/ FinalizeQueue
    PROVE  TypeInv'
<1> USE DEF TypeInv
<1>1. CASE OrphanExpires
  BY <1>1 DEF OrphanExpires, TypeOK, PlaceOK, caseVars, docVars, workerVars
<1>2. CASE RequestAnalysis
  <2>1. queue' \in [Tasks -> Nat]
    BY <1>2, ConstantRecords, EnqueueType DEF RequestAnalysis
  <2>2. requests' \in 0 .. MaxRequests
    BY <1>2, BoundsFacts DEF RequestAnalysis, TypeOK
  <2> QED BY <1>2, <2>1, <2>2 DEF RequestAnalysis, TypeOK, PlaceOK, caseVars, docVars, workerVars
<1>3. ASSUME NEW l \in Links, RequestSkip(l) PROVE TypeInv'
  <2>1. queue' \in [Tasks -> Nat]
    BY <1>3, ConstantRecords, EnqueueType DEF RequestSkip
  <2>2. requests' \in 0 .. MaxRequests
    BY <1>3, BoundsFacts DEF RequestSkip, TypeOK
  <2> QED BY <1>3, <2>1, <2>2 DEF RequestSkip, TypeOK, PlaceOK, caseVars, docVars, workerVars
<1>4. ASSUME NEW l \in 0 .. MaxLinks, UploadAccepted(l) PROVE TypeInv'
  <2>1. accepted' \in 0 .. NoUpload
    BY <1>4, BoundsFacts DEF UploadAccepted, NoUpload
  <2> QED BY <1>4, <2>1 DEF UploadAccepted, TypeOK, PlaceOK, caseVars, workerVars
<1>5. CASE UploadStored
  <2>1. docs' \in Versions
    BY <1>5, EvenVersions DEF UploadStored, UploadOK, TypeOK
  <2>2. copy' \in SUBSET Memories /\ verdict' \in Verdicts
    BY <1>5 DEF UploadStored, TypeOK, Verdicts
  <2> QED BY <1>5, <2>1, <2>2 DEF UploadStored, TypeOK, PlaceOK, workerVars
<1>5a. CASE UploadMarked
  <2>1. accepted \in 0 .. MaxLinks /\ accepted' \in 0 .. NoUpload
    BY <1>5a, BoundsFacts DEF UploadMarked, UploadOK, TypeOK, NoUpload
  <2>2. memory' \in Memories
    BY <1>5a, <2>1 DEF UploadMarked, TypeOK, Memories
  <2>3. overtaken' \in BOOLEAN /\ copy' \in SUBSET Memories
    BY <1>5a DEF UploadMarked, TypeOK
  <2> QED BY <1>5a, <2>1, <2>2, <2>3 DEF UploadMarked, TypeOK, PlaceOK, workerVars
<1>6. CASE FinalizeRelease
  <2>1. docs' \in Versions /\ finalizing' \in Nat
    BY <1>6, OddVersions DEF FinalizeRelease, TypeOK
  <2> QED BY <1>6, <2>1 DEF FinalizeRelease, TypeOK, PlaceOK, caseVars, workerVars
<1>7. CASE FinalizeQueue
  <2>1. queue' \in [Tasks -> Nat]
    BY <1>7, NextTaskType, EnqueueType DEF FinalizeQueue, TypeOK
  <2>2. finalizing' \in Nat
    BY <1>7 DEF FinalizeQueue, TypeOK
  <2> QED BY <1>7, <2>1, <2>2 DEF FinalizeQueue, TypeOK, PlaceOK, caseVars, workerVars
<1> QED BY <1>1, <1>2, <1>3, <1>4, <1>5, <1>5a, <1>6, <1>7

LEMMA WorkType ==
    ASSUME TypeInv, NEW w \in Workers, Work(w)
    PROVE  TypeInv'
BY BeginType, PrologueType, LoopType, OutcomeType, RefreshType, WorkerEndsType DEF Work

\* Only an upload and a finalizer change the documents.
LEMMA UploadStep ==
    ASSUME TypeInv, UploadOK, [Next]_vars
    PROVE  UploadOK'
<1>1. CASE \E l \in 0 .. MaxLinks : UploadAccepted(l)
  BY <1>1 DEF UploadAccepted, UploadOK
<1>2. CASE UploadStored
  BY <1>2 DEF UploadStored, UploadOK
<1>2a. CASE UploadMarked
  BY <1>2a DEF UploadMarked, UploadOK
<1>3. CASE FinalizeRelease
  BY <1>3 DEF FinalizeRelease, UploadOK
<1>4. CASE FinalizeQueue
  BY <1>4 DEF FinalizeQueue, UploadOK
<1>5. CASE UNCHANGED docVars
  BY <1>5 DEF UploadOK, docVars
<1>6. ASSUME NEW w \in Workers, Work(w) PROVE UNCHANGED docVars
  BY <1>6 DEF Work, WriteStatus, Begin, Mark, Enter, Survey, PhaseA, Loop, SelectLink, SelectNone,
              Verify, Pause, Advance, RunFails, Finish, SyncVerdict, RefreshRead, RefreshWrite, RefreshDone, Release
<1>7. ASSUME NEW w \in Workers, Crash(w) \/ Lapse(w) \/ \E t \in Tasks : Start(w, t)
      PROVE  UNCHANGED docVars
  BY <1>7 DEF Crash, Lapse, Start
<1>8. ASSUME OrphanExpires \/ RequestAnalysis \/ \E l \in Links : RequestSkip(l)
      PROVE  UNCHANGED docVars
  BY <1>8 DEF OrphanExpires, RequestAnalysis, RequestSkip
<1>9. CASE UNCHANGED vars
  BY <1>5, <1>9 DEF vars
<1> QED BY <1>1, <1>2, <1>2a, <1>3, <1>4, <1>5, <1>6, <1>7, <1>8, <1>9 DEF Next

LEMMA TypeStep == TypeInv /\ UploadOK /\ [Next]_vars => TypeInv' /\ UploadOK'
<1> SUFFICES ASSUME TypeInv, UploadOK, [Next]_vars PROVE TypeInv'
  BY UploadStep
<1>1. CASE Next
  BY <1>1, WorkType, WorkerEndsType, SurroundingsType DEF Next
<1>2. CASE UNCHANGED vars
  BY <1>2 DEF TypeInv, TypeOK, PlaceOK, vars, caseVars, docVars, workerVars
<1> QED BY <1>1, <1>2

\* Type correctness of the agent and its surroundings (TypeOK), for every value of
\* the constants.
THEOREM TypeCorrect == Spec => []TypeOK
<1>1. Init => TypeInv /\ UploadOK
  BY TypeInit
<1>2. TypeInv /\ UploadOK /\ [Next]_vars => TypeInv' /\ UploadOK'
  BY TypeStep
<1>3. TypeInv => TypeOK
  BY DEF TypeInv
<1> QED BY <1>1, <1>2, <1>3, PTL DEF Spec

----------------------------------------------------------------------------
\* Safety while the lock excludes.  The first invariant, SafetyInv, gives that skips and
\* scopes are honoured whatever crashes or fails.  The second, RunInv, follows one run
\* through its loop and gives the rest: clear verdicts are backed, pauses are actionable,
\* conclusions stand and refreshes are complete.

\* The faults under which the lock still excludes.
Exclusive == FaultKinds \cap {"outage", "lapse"} = {}

\* Only the holder of the lock is inside a task.
Mutex == \A w \in Workers : pc[w] # "idle" => lock = w

Active == {"survey", "phase_a", "loop", "select", "verify", "settle", "refresh", "rewrite",
           "finish", "sync"}
Looping == {"select", "verify", "settle"}

\* As long as no upload wrote back an outdated checkpoint, a run's copy of the skips is
\* the durable one, in the loop it is what the run goes by, and what is about to be saved
\* keeps the pause.  A worker outside a run has no scope.
CopyOK ==
    \A w \in Workers :
        /\ ~overtaken /\ pc[w] \in Active => mem[w].skipped = memory.skipped
        /\ ~overtaken /\ pc[w] \in Looping => run[w].skips = mem[w].skipped
        /\ ~overtaken /\ pc[w] = "mark" => /\ mem[w].skipped = run[w].skips
                                            /\ mem[w].paused = memory.paused
        /\ pc[w] \in {"idle", "begin"} => run[w].only = 0 /\ run[w].skips = {}

\* The link under verification is in scope and was not skipped.
TargetOK ==
    \A w \in Workers :
        /\ pc[w] = "verify" => /\ run[w].only \in {0, run[w].pos}
                               /\ run[w].pos \notin run[w].skips
        /\ ~overtaken /\ pc[w] = "rewrite" => run[w].pos \notin memory.skipped

\* Every skipped link waits for evidence, in the checkpoint and in the runs.
Wait(skips) == \A l \in skips : results[l].status \in {"NONE", "PENDING"}
SkippedWait == ~overtaken => Wait(memory.skipped) /\ \A w \in Workers : Wait(run[w].skips)

\* What a refresh writes back is the saved result but for its context.
Faithful(old, new) ==
    /\ new.status = old.status /\ new.ckpt = old.ckpt /\ new.manifest = old.manifest
HoldingOK ==
    \A w \in Workers :
        pc[w] = "rewrite" => Faithful(results[run[w].pos], run[w].buf)

SafetyInv == TypeInv /\ UploadOK /\ Mutex /\ CopyOK /\ TargetOK /\ SkippedWait /\ HoldingOK

LEMMA SafetyInit == Init => SafetyInv
<1> SUFFICES ASSUME Init PROVE SafetyInv
  OBVIOUS
<1>1. TypeInv /\ UploadOK
  BY TypeInit
<1> QED BY <1>1 DEF Init, SafetyInv, Mutex, CopyOK, TargetOK, SkippedWait, Wait, HoldingOK,
           Active, Looping, NoRun, NoMemory

\* What two workers inside a task would have to share is one lock.
LEMMA OneWorker ==
    ASSUME SafetyInv, NEW w \in Workers, NEW v \in Workers, pc[w] # "idle", pc[v] # "idle"
    PROVE  v = w
BY DEF SafetyInv, Mutex

\* While a worker is inside a task every other one is idle.
LEMMA OthersIdle ==
    ASSUME SafetyInv, NEW w \in Workers, pc[w] # "idle"
    PROVE  \A v \in Workers : v # w => pc[v] = "idle"
BY OneWorker

Parts == Mutex /\ CopyOK /\ TargetOK /\ SkippedWait /\ HoldingOK

\* A task that is decided on: its skips are links that wait.
LEMMA BeginSafe ==
    ASSUME SafetyInv, NEW w \in Workers, Begin(w)
    PROVE  Parts'
<1> USE DEF SafetyInv, TypeInv
<1>0. pc[w] = "begin" /\ UNCHANGED <<lock, results, memory, overtaken>>
  BY DEF Begin, caseVars, docVars
<1>1. CASE Analysis(w) \/ Resume(w) \/ Retry(w) \/ Skip(w)
  <2>1. PICK m \in Memories, only \in 0 .. MaxLinks, fresh \in BOOLEAN, place \in {"mark", "enter"} :
          /\ Decide(w, m, only, fresh, place)
          /\ m.paused = memory.paused
          /\ \A l \in m.skipped \ memory.skipped : results[l].status \in {"NONE", "PENDING"}
    BY <1>1, Decisions
  <2>2. /\ pc' = [pc EXCEPT ![w] = place] /\ mem' = [mem EXCEPT ![w] = m]
        /\ run' = [run EXCEPT ![w] =
                     [NoRun EXCEPT !.only = only, !.fresh = fresh, !.skips = m.skipped, !.pos = 1]]
    BY <2>1 DEF Decide, Goto, SetRun
  <2>3. \A v \in Workers : v # w => pc'[v] = "idle" /\ run'[v] = run[v]
    BY <1>0, <2>2, OthersIdle DEF TypeOK
  <2>4. pc'[w] \in {"mark", "enter"} /\ mem'[w] = m /\ run'[w].skips = m.skipped
    BY <2>2 DEF TypeOK, NoRun
  <2>5. Mutex'
    BY <1>0, <2>3 DEF Mutex
  <2>6. CopyOK'
    BY <1>0, <2>1, <2>3, <2>4, OthersIdle DEF CopyOK, Active, Looping
  <2>7. TargetOK' /\ HoldingOK'
    BY <2>3, <2>4 DEF TargetOK, HoldingOK
  <2>8. SkippedWait'
    BY <1>0, <2>1, <2>3, <2>4 DEF SkippedWait, Wait
  <2> QED BY <2>5, <2>6, <2>7, <2>8 DEF Parts
<1>2. CASE Refuse(w)
  <2>1. pc' = [pc EXCEPT ![w] = "release"] /\ UNCHANGED <<mem, run>>
    BY <1>2 DEF Refuse, Goto
  <2> QED BY <1>0, <2>1 DEF TypeOK, Mutex, CopyOK, TargetOK, SkippedWait, Wait, HoldingOK, Active,
             Looping, Parts
<1> QED BY <1>1, <1>2 DEF Begin

\* The prologue: what is saved, read again and saved as the run's skips is one set.
LEMMA PrologueSafe ==
    ASSUME SafetyInv, NEW w \in Workers, Mark(w) \/ Enter(w) \/ Loop(w)
    PROVE  Parts'
<1> USE DEF SafetyInv, TypeInv
<1>0. UNCHANGED <<lock, results, overtaken>> /\ pc[w] \in {"mark", "enter", "loop"}
  BY DEF Mark, Enter, Loop, Save, caseVars, docVars
<1>1. \A v \in Workers : v # w => pc[v] = "idle"
  BY <1>0, OthersIdle
<1>2. CASE Mark(w)
  <2>1. pc[w] = "mark" /\ pc' = [pc EXCEPT ![w] = "enter"] /\ memory' = mem[w] /\ UNCHANGED <<mem, run>>
    BY <1>2 DEF Mark, Goto
  <2>2. pc'[w] = "enter" /\ \A v \in Workers : v # w => pc'[v] = "idle"
    BY <1>1, <2>1 DEF TypeOK
  <2>3. Mutex'
    BY <1>0, <2>1, <2>2 DEF Mutex
  <2>4. CopyOK' /\ TargetOK' /\ HoldingOK'
    BY <1>1, <2>1, <2>2 DEF CopyOK, TargetOK, HoldingOK, Active, Looping
  <2>5. SkippedWait'
    BY <1>0, <2>1 DEF SkippedWait, Wait, CopyOK
  <2> QED BY <2>3, <2>4, <2>5 DEF Parts
<1>3. CASE Enter(w)
  <2>1. PICK place \in {"survey", "loop"} :
          /\ pc[w] = "enter" /\ pc' = [pc EXCEPT ![w] = place] /\ memory' = memory
          /\ mem' = [mem EXCEPT ![w] = memory] /\ run' = [run EXCEPT ![w] = [run[w] EXCEPT !.docs = docs]]
    BY <1>3 DEF Enter, Goto, SetRun, caseVars
  <2>2. /\ pc'[w] \in {"survey", "loop"} /\ mem'[w] = memory
        /\ \A v \in Workers : v # w => pc'[v] = "idle" /\ run'[v] = run[v]
    BY <1>1, <2>1 DEF TypeOK
  <2>3. run'[w].skips = run[w].skips
    BY <2>1 DEF TypeOK, Runs
  <2>4. Mutex'
    BY <1>0, <2>2, <2>1 DEF Mutex
  <2>5. CopyOK' /\ TargetOK' /\ HoldingOK'
    BY <1>1, <2>1, <2>2 DEF CopyOK, TargetOK, HoldingOK, Active, Looping
  <2>6. SkippedWait'
    BY <1>0, <2>1, <2>2, <2>3 DEF SkippedWait, Wait
  <2> QED BY <2>4, <2>5, <2>6 DEF Parts
<1>4. CASE Loop(w)
  <2> DEFINE m == [mem[w] EXCEPT !.skipped = run[w].skips]
  <2>0. m.skipped = run[w].skips
    BY DEF TypeOK, Memories
  <2>1. /\ pc[w] = "loop" /\ pc' = [pc EXCEPT ![w] = "select"] /\ memory' = m
        /\ mem' = [mem EXCEPT ![w] = m] /\ run' = run
    BY <1>4 DEF Loop, Goto, Save
  <2> HIDE DEF m
  <2>2. pc'[w] = "select" /\ mem'[w] = m /\ \A v \in Workers : v # w => pc'[v] = "idle"
    BY <1>1, <2>1 DEF TypeOK
  <2>4. Mutex'
    BY <1>0, <2>2, <2>1 DEF Mutex
  <2>5. CopyOK' /\ TargetOK' /\ HoldingOK'
    BY <1>1, <2>0, <2>1, <2>2 DEF CopyOK, TargetOK, HoldingOK, Active, Looping
  <2>6. SkippedWait'
    BY <1>0, <2>0, <2>1, <2>2 DEF SkippedWait, Wait
  <2> QED BY <2>4, <2>5, <2>6 DEF Parts
<1> QED BY <1>2, <1>3, <1>4

\* A step of the run that leaves results alone, keeps the skips and goes to a
\* place that promises nothing.
LEMMA QuietSafe ==
    ASSUME SafetyInv, NEW w \in Workers, NEW place \in Places,
           pc[w] \in Active, place \in Active \cup {"release"},
           place \notin {"verify", "rewrite"}, place \in Looping => pc[w] \in Looping,
           pc' = [pc EXCEPT ![w] = place], UNCHANGED <<results, lock, overtaken>>,
           \/ UNCHANGED <<mem, memory>>
           \/ /\ mem' = [mem EXCEPT ![w] = memory']
              /\ memory'.skipped = mem[w].skipped,
           run'[w].skips = run[w].skips,
           \A v \in Workers : v # w => run'[v] = run[v]
    PROVE  Parts'
<1> USE DEF SafetyInv, TypeInv
<1>1. \A v \in Workers : v # w => pc'[v] = "idle" /\ run'[v] = run[v]
  BY OthersIdle DEF TypeOK, Active
<1>2. pc'[w] = place /\ (~overtaken => memory'.skipped = memory.skipped)
  BY DEF TypeOK, CopyOK
<1>3. mem'[w].skipped = mem[w].skipped /\ (~overtaken => mem'[w].skipped = memory'.skipped)
  BY DEF TypeOK, CopyOK
<1>4. Mutex'
  BY <1>1 DEF Mutex, Active
<1>5. CopyOK'
  BY <1>1, <1>2, <1>3, OthersIdle DEF CopyOK, Active, Looping
<1>6. TargetOK' /\ HoldingOK'
  BY <1>1, <1>2 DEF TargetOK, HoldingOK
<1>7. SkippedWait'
  BY <1>1, <1>2 DEF SkippedWait, Wait
<1> QED BY <1>4, <1>5, <1>6, <1>7 DEF Parts

\* Saving a checkpoint changed in a field other than the skips.
LEMMA KeepSkipped ==
    ASSUME NEW m \in Memories, NEW p
    PROVE  [m EXCEPT !.paused = p].skipped = m.skipped
BY DEF Memories

LEMMA QuietSteps ==
    ASSUME SafetyInv, NEW w \in Workers,
           \/ Survey(w) \/ PhaseA(w) \/ SelectNone(w) \/ Pause(w) \/ Advance(w) \/ RunFails(w)
           \/ Finish(w) \/ SyncVerdict(w) \/ RefreshDone(w)
    PROVE  Parts'
<1> USE DEF SafetyInv, TypeInv
<1>0. mem[w] \in Memories
  BY DEF TypeOK
<1>1. CASE Survey(w)
  <2>1. /\ pc[w] = "survey" /\ pc' = [pc EXCEPT ![w] = "phase_a"]
        /\ mem' = [mem EXCEPT ![w] = memory'] /\ memory' = mem[w]
        /\ UNCHANGED <<results, lock, run, overtaken>>
    BY <1>1 DEF Survey, Goto, Save, docVars
  <2> QED BY <2>1, QuietSafe DEF Places, Active, Looping
<1>1a. CASE PhaseA(w)
  <2>1. /\ pc[w] = "phase_a" /\ pc' = [pc EXCEPT ![w] = "loop"]
        /\ UNCHANGED <<results, lock, run, mem, memory, overtaken>>
    BY <1>1a DEF PhaseA, Goto, docVars
  <2> QED BY <2>1, QuietSafe DEF Places, Active, Looping
<1>2. CASE SelectNone(w)
  <2>1. PICK place \in {"refresh", "finish"} : pc' = [pc EXCEPT ![w] = place]
    BY <1>2 DEF SelectNone, Goto
  <2>2. pc[w] = "select" /\ UNCHANGED <<results, lock, run, mem, memory, overtaken>>
    BY <1>2 DEF SelectNone, caseVars, docVars
  <2> QED BY <2>1, <2>2, QuietSafe DEF Places, Active, Looping
<1>3. CASE Pause(w)
  <2>1. /\ pc[w] = "settle" /\ pc' = [pc EXCEPT ![w] = "sync"]
        /\ mem' = [mem EXCEPT ![w] = memory']
        /\ memory' = [mem[w] EXCEPT !.paused = run[w].pos]
        /\ UNCHANGED <<results, lock, overtaken>>
    BY <1>3 DEF Pause, Goto, Save, docVars
  <2>2. run'[w].skips = run[w].skips /\ \A v \in Workers : v # w => run'[v] = run[v]
    BY <1>3 DEF Pause, SetRun, TypeOK, Runs
  <2> QED BY <1>0, <2>1, <2>2, KeepSkipped, QuietSafe DEF Places, Active, Looping
<1>4. CASE Advance(w)
  <2>1. /\ pc[w] = "settle" /\ pc' = [pc EXCEPT ![w] = "select"]
        /\ mem' = [mem EXCEPT ![w] = memory'] /\ memory' = mem[w]
        /\ UNCHANGED <<results, lock, overtaken>>
    BY <1>4 DEF Advance, Goto, Save, docVars
  <2>2. run'[w].skips = run[w].skips /\ \A v \in Workers : v # w => run'[v] = run[v]
    BY <1>4 DEF Advance, SetRun, TypeOK, Runs
  <2> QED BY <2>1, <2>2, QuietSafe DEF Places, Active, Looping
<1>5. CASE RunFails(w)
  <2>1. /\ pc[w] \in {"phase_a", "verify"} /\ pc' = [pc EXCEPT ![w] = "sync"]
        /\ mem' = [mem EXCEPT ![w] = memory'] /\ memory' = mem[w]
        /\ UNCHANGED <<results, lock, overtaken>>
    BY <1>5 DEF RunFails, Goto, Save, docVars
  <2>2. run'[w].skips = run[w].skips /\ \A v \in Workers : v # w => run'[v] = run[v]
    BY <1>5 DEF RunFails, SetRun, TypeOK, Runs
  <2> QED BY <2>1, <2>2, QuietSafe DEF Places, Active, Looping
<1>6. CASE Finish(w)
  <2>1. /\ pc[w] = "finish" /\ pc' = [pc EXCEPT ![w] = "sync"]
        /\ mem' = [mem EXCEPT ![w] = memory']
        /\ memory' = [mem[w] EXCEPT !.paused = 0]
        /\ UNCHANGED <<results, lock, overtaken>>
    BY <1>6 DEF Finish, Goto, Save, docVars
  <2>2. run'[w].skips = run[w].skips /\ \A v \in Workers : v # w => run'[v] = run[v]
    BY <1>6 DEF Finish, SetRun, TypeOK, Runs
  <2> QED BY <1>0, <2>1, <2>2, KeepSkipped, QuietSafe DEF Places, Active, Looping
<1>7. CASE SyncVerdict(w)
  <2>1. PICK place \in {"refresh", "release"} : pc' = [pc EXCEPT ![w] = place]
    BY <1>7 DEF SyncVerdict, Goto
  <2>2. pc[w] = "sync" /\ UNCHANGED <<results, lock, run, mem, memory, overtaken>>
    BY <1>7 DEF SyncVerdict, docVars
  <2> QED BY <2>1, <2>2, QuietSafe DEF Places, Active, Looping
<1>8. CASE RefreshDone(w)
  <2>1. PICK place \in {"release", "finish"} : pc' = [pc EXCEPT ![w] = place]
    BY <1>8 DEF RefreshDone, Goto
  <2>2. pc[w] = "refresh" /\ UNCHANGED <<results, lock, run, mem, memory, overtaken>>
    BY <1>8 DEF RefreshDone, caseVars, docVars
  <2> QED BY <2>1, <2>2, QuietSafe DEF Places, Active, Looping
<1> QED BY <1>1, <1>1a, <1>2, <1>3, <1>4, <1>5, <1>6, <1>7, <1>8

\* The loop picks a link in scope that is not skipped.
LEMMA SelectSafe ==
    ASSUME SafetyInv, NEW w \in Workers, SelectLink(w)
    PROVE  Parts'
<1> USE DEF SafetyInv, TypeInv
<1>1. PICK l \in Due(w) : SetRun(w, [run[w] EXCEPT !.pos = l])
  BY DEF SelectLink
<1>2. /\ pc[w] = "select" /\ pc' = [pc EXCEPT ![w] = "verify"]
      /\ mem' = [mem EXCEPT ![w] = mem[w]] /\ memory' = mem[w]
      /\ UNCHANGED <<results, lock, overtaken>>
  BY DEF SelectLink, Goto, Save, docVars
<1>3. run[w] \in Runs /\ l \notin run[w].skips /\ run[w].only \in {0, l}
  BY <1>1 DEF TypeOK, Due
<1>4. run'[w].pos = l /\ run'[w].only = run[w].only /\ run'[w].skips = run[w].skips
  BY <1>1, <1>3 DEF SetRun, TypeOK, Runs
<1>5. \A v \in Workers : v # w => pc'[v] = "idle" /\ run'[v] = run[v]
  BY <1>1, <1>2, OthersIdle DEF TypeOK, SetRun
<1>6. /\ pc'[w] = "verify" /\ mem' = mem
      /\ ~overtaken => memory'.skipped = memory.skipped /\ run[w].skips = mem[w].skipped
  BY <1>2 DEF TypeOK, CopyOK, Active, Looping
<1>7. Mutex'
  BY <1>2, <1>5 DEF Mutex
<1>8. CopyOK'
  BY <1>4, <1>5, <1>6, <1>2, OthersIdle DEF CopyOK, Active, Looping
<1>9. TargetOK' /\ HoldingOK'
  BY <1>3, <1>4, <1>5, <1>6 DEF TargetOK, HoldingOK
<1>10. SkippedWait'
  BY <1>2, <1>4, <1>5, <1>6 DEF SkippedWait, Wait
<1> QED BY <1>7, <1>8, <1>9, <1>10 DEF Parts

\* A verification writes the result of its own link only.
LEMMA VerifyWrites ==
    ASSUME SafetyInv, NEW w \in Workers, Verify(w)
    PROVE  /\ \A l \in Links : l # run[w].pos => results'[l] = results[l]
           /\ run[w].only \in {0, run[w].pos} /\ run[w].pos \notin run[w].skips
           /\ ~overtaken => run[w].pos \notin memory.skipped
<1> USE DEF SafetyInv, TypeInv
<1>1. /\ run[w].only \in {0, run[w].pos} /\ run[w].pos \notin run[w].skips
      /\ ~overtaken => run[w].pos \notin memory.skipped
  BY DEF Verify, TargetOK, CopyOK, Active, Looping
<1>2. \A l \in Links : l # run[w].pos => results'[l] = results[l]
  BY DEF Verify, TypeOK
<1> QED BY <1>1, <1>2

LEMMA VerifySafe ==
    ASSUME SafetyInv, NEW w \in Workers, Verify(w)
    PROVE  Parts'
<1> USE DEF SafetyInv, TypeInv
<1>1. /\ pc[w] = "verify" /\ pc' = [pc EXCEPT ![w] = "settle"]
      /\ UNCHANGED <<mem, memory, lock, overtaken>>
  BY DEF Verify, Goto, docVars
<1>2. \A v \in Workers : v # w => pc'[v] = "idle" /\ run'[v] = run[v]
  BY <1>1, OthersIdle DEF Verify, SetRun, TypeOK
<1>2a. run'[w].skips = run[w].skips /\ \A v \in Workers : v # w => run[v].skips = {}
  <2>1. run'[w].skips = run[w].skips
    BY DEF Verify, SetRun, TypeOK, Runs
  <2> QED BY <1>1, <2>1, OthersIdle DEF CopyOK
<1>3. Mutex'
  BY <1>1, <1>2 DEF Mutex
<1>4. CopyOK'
  BY <1>1, <1>2, <1>2a, OthersIdle DEF CopyOK, Active, Looping, TypeOK
<1>5. TargetOK' /\ HoldingOK'
  BY <1>1, <1>2 DEF TargetOK, HoldingOK, TypeOK
<1>6. SkippedWait'
  <2>1. memory.skipped \subseteq Links /\ run[w].skips \subseteq Links
    BY DEF TypeOK, Memories, Runs
  <2> QED BY <1>1, <1>2, <1>2a, <2>1, VerifyWrites DEF SkippedWait, Wait
<1> QED BY <1>3, <1>4, <1>5, <1>6 DEF Parts

\* A refresh reads a result that is saved and does not wait for evidence.
LEMMA RefreshReadSafe ==
    ASSUME SafetyInv, NEW w \in Workers, RefreshRead(w)
    PROVE  Parts'
<1> USE DEF SafetyInv, TypeInv
<1>1. PICK l \in Stale(w) :
        SetRun(w, [run[w] EXCEPT !.pos = l,
                                 !.buf = [results[l] EXCEPT !.ctx = Unverified(l)]])
  BY DEF RefreshRead
<1>2. /\ pc[w] = "refresh" /\ pc' = [pc EXCEPT ![w] = "rewrite"]
      /\ UNCHANGED <<results, mem, memory, lock, overtaken>>
  BY DEF RefreshRead, Goto, caseVars, docVars
<1>3. run[w] \in Runs /\ run[w].pos \in 0 .. MaxLinks + 1 /\ run[w].pos >= 1
  BY <1>2 DEF TypeOK, PlaceOK, Runs
<1>4. l \in Links /\ results[l].status \notin {"NONE", "PENDING"}
  BY <1>1, <1>3, BoundsFacts DEF TypeOK, Stale, Links
<1> DEFINE b == [results[l] EXCEPT !.ctx = Unverified(l)]
<1>5. Faithful(results[l], b)
  BY <1>4 DEF TypeOK, Faithful, Results
<1>6. run'[w].pos = l /\ run'[w].buf = b
  <2> HIDE DEF b
  <2>1. SetRun(w, [run[w] EXCEPT !.pos = l, !.buf = b])
    BY <1>1 DEF b
  <2> QED BY <1>3, <2>1 DEF SetRun, TypeOK, Runs
<1>6a. run'[w].only = run[w].only /\ run'[w].skips = run[w].skips
  BY <1>1, <1>3 DEF SetRun, TypeOK, Runs
<1>7. \A v \in Workers : v # w => pc'[v] = "idle" /\ run'[v] = run[v]
  BY <1>1, <1>2, OthersIdle DEF TypeOK, SetRun
<1> HIDE DEF b
<1>8. Mutex'
  BY <1>2, <1>7 DEF Mutex
<1>9. CopyOK'
  BY <1>2, <1>7, OthersIdle DEF CopyOK, Active, Looping, TypeOK
<1>10. TargetOK' /\ HoldingOK'
  BY <1>2, <1>4, <1>5, <1>6, <1>7 DEF TargetOK, HoldingOK, TypeOK, SkippedWait, Wait
<1>11. SkippedWait'
  BY <1>2, <1>6a, <1>7 DEF SkippedWait, Wait
<1> QED BY <1>8, <1>9, <1>10, <1>11 DEF Parts

\* A refresh writes back the result it read, but for its context.
LEMMA RefreshWrites ==
    ASSUME SafetyInv, NEW w \in Workers, RefreshWrite(w)
    PROVE  /\ \A l \in Links : l # run[w].pos => results'[l] = results[l]
           /\ Faithful(results[run[w].pos], results'[run[w].pos])
           /\ ~overtaken => run[w].pos \notin memory.skipped
BY DEF RefreshWrite, SafetyInv, TypeInv, TypeOK, PlaceOK, TargetOK, HoldingOK, Faithful

LEMMA RefreshWriteSafe ==
    ASSUME SafetyInv, NEW w \in Workers, RefreshWrite(w)
    PROVE  Parts'
<1> USE DEF SafetyInv, TypeInv
<1>1. /\ pc[w] = "rewrite" /\ pc' = [pc EXCEPT ![w] = "refresh"]
      /\ UNCHANGED <<mem, memory, lock, overtaken>>
  BY DEF RefreshWrite, Goto, docVars
<1>2. \A v \in Workers : v # w => pc'[v] = "idle" /\ run'[v] = run[v]
  BY <1>1, OthersIdle DEF RefreshWrite, SetRun, TypeOK
<1>2a. run'[w].skips = run[w].skips
  BY DEF RefreshWrite, SetRun, TypeOK, Runs
<1>3. Mutex'
  BY <1>1, <1>2 DEF Mutex
<1>4. CopyOK'
  BY <1>1, <1>2, OthersIdle DEF CopyOK, Active, Looping, TypeOK
<1>5. TargetOK' /\ HoldingOK'
  BY <1>1, <1>2 DEF TargetOK, HoldingOK, TypeOK
<1>6. SkippedWait'
  <2>1. \A l \in Links : results'[l].status = results[l].status
    BY RefreshWrites DEF Faithful
  <2>2. memory.skipped \subseteq Links /\ \A v \in Workers : run[v].skips \subseteq Links
    BY DEF TypeOK, Memories, Runs
  <2> QED BY <1>1, <1>2, <1>2a, <2>1, <2>2 DEF SkippedWait, Wait
<1> QED BY <1>3, <1>4, <1>5, <1>6 DEF Parts

\* A worker that leaves its task forgets its run.
LEMMA LeaveSafe ==
    ASSUME SafetyInv, NEW w \in Workers, pc[w] # "idle", Leave(w),
           UNCHANGED <<results, memory, overtaken>>
    PROVE  Parts'
<1> USE DEF SafetyInv, TypeInv
<1>1. \A v \in Workers : pc'[v] = "idle"
  BY OthersIdle DEF TypeOK, Leave
<1>2. run'[w].only = 0 /\ run'[w].skips = {} /\ \A v \in Workers : v # w => run'[v] = run[v]
  BY DEF TypeOK, NoRun, Leave
<1>3. CopyOK'
  BY <1>1, <1>2, OthersIdle DEF CopyOK, Active, Looping
<1>4. Mutex' /\ TargetOK' /\ HoldingOK'
  BY <1>1 DEF Mutex, TargetOK, HoldingOK
<1>5. SkippedWait'
  BY <1>2 DEF SkippedWait, Wait
<1> QED BY <1>3, <1>4, <1>5 DEF Parts

LEMMA WorkSafe ==
    ASSUME SafetyInv, NEW w \in Workers, Work(w)
    PROVE  Parts'
<1>1. CASE Release(w)
  <2> USE DEF SafetyInv, TypeInv
  <2>1. /\ pc[w] # "idle" /\ Leave(w) /\ UNCHANGED <<results, memory, overtaken>>
    BY <1>1 DEF Release, caseVars, docVars
  <2> QED BY <2>1, LeaveSafe
<1>2. CASE Begin(w)
  BY <1>2, BeginSafe
<1>3. CASE WriteStatus(w)
  BY <1>3 DEF WriteStatus, docVars, SafetyInv, Parts, Mutex, CopyOK, TargetOK, SkippedWait, Wait, HoldingOK
<1> QED BY <1>1, <1>2, <1>3, PrologueSafe, QuietSteps, SelectSafe, VerifySafe, RefreshReadSafe,
           RefreshWriteSafe DEF Work

\* With the lock free nobody is inside a task, so taking it excludes.
LEMMA StartSafe ==
    ASSUME Exclusive, SafetyInv, NEW w \in Workers, NEW t \in Tasks, Start(w, t)
    PROVE  Parts'
<1> USE DEF SafetyInv, TypeInv
<1>1. UNCHANGED <<results, memory, mem, run, overtaken>> /\ pc[w] = "idle"
  BY DEF Start, caseVars, docVars
<1>2. CASE Acquire(w, t)
  <2>1. lock = Free /\ lock' = w /\ pc' = [pc EXCEPT ![w] = "begin"]
    BY <1>2 DEF Acquire, Goto
  <2>2. \A v \in Workers : pc[v] = "idle"
    BY <2>1, WorkersAssumption DEF Mutex
  <2>3. pc'[w] = "begin" /\ \A v \in Workers : v # w => pc'[v] = "idle"
    BY <2>1, <2>2 DEF TypeOK
  <2>4. Mutex'
    BY <2>1, <2>3 DEF Mutex
  <2>5. CopyOK'
    BY <1>1, <2>2, <2>3 DEF CopyOK, Active, Looping
  <2>6. TargetOK' /\ HoldingOK' /\ SkippedWait'
    BY <1>1, <2>3 DEF TargetOK, HoldingOK, SkippedWait, Wait
  <2> QED BY <2>4, <2>5, <2>6 DEF Parts
<1>3. CASE Busy
  BY <1>1, <1>3 DEF Busy, Mutex, CopyOK, TargetOK, HoldingOK, SkippedWait, Wait, Parts
<1>4. ~Unlocked(w, t)
  BY DEF Exclusive, Unlocked, Fault
<1> QED BY <1>2, <1>3, <1>4 DEF Start

LEMMA CrashSafe ==
    ASSUME SafetyInv, NEW w \in Workers, Crash(w)
    PROVE  Parts'
<1>1. pc[w] # "idle" /\ Leave(w) /\ UNCHANGED <<results, memory, overtaken>>
  BY DEF Crash, caseVars, docVars
<1> QED BY <1>1, LeaveSafe

Surroundings ==
    \/ OrphanExpires \/ RequestAnalysis
    \/ \E l \in Links : RequestSkip(l)
    \/ \E l \in 0 .. MaxLinks : UploadAccepted(l)
    \/ UploadStored \/ UploadMarked \/ FinalizeRelease \/ FinalizeQueue

\* The user, the pipeline and Redis's clock leave the runs and the results alone, and
\* the skips and the pause but for an upload that overtakes; an orphaned lock has no
\* worker inside a task.
LEMMA SurroundingsKeep ==
    ASSUME TypeInv, Surroundings
    PROVE  /\ UNCHANGED <<results, pc, owed, mem, run>>
           /\ ~overtaken' => /\ ~overtaken
                             /\ memory'.skipped = memory.skipped /\ memory'.paused = memory.paused
           /\ lock' = lock \/ lock = Orphan
<1> USE DEF TypeInv
<1>1. UNCHANGED <<results, pc, owed, mem, run>>
  BY DEF Surroundings, OrphanExpires, RequestAnalysis, RequestSkip, UploadAccepted, UploadStored,
         UploadMarked, FinalizeRelease, FinalizeQueue, caseVars, workerVars
<1>2. ~overtaken' => /\ ~overtaken
                     /\ memory'.skipped = memory.skipped /\ memory'.paused = memory.paused
  <2>1. CASE UploadMarked
    <3> SUFFICES ASSUME ~overtaken'
                 PROVE  /\ ~overtaken
                        /\ memory'.skipped = memory.skipped /\ memory'.paused = memory.paused
      OBVIOUS
    <3>1. CASE UNCHANGED <<memory, overtaken>>
      BY <3>1
    <3>2. CASE \E m \in copy : /\ memory' = [m EXCEPT !.retry = accepted]
                               /\ overtaken' = (overtaken \/ m # memory)
      <4>1. PICK m \in copy : memory' = [m EXCEPT !.retry = accepted] /\ overtaken' = (overtaken \/ m # memory)
        BY <3>2
      <4>2. ~overtaken /\ m = memory
        BY <4>1
      <4> QED BY <4>1, <4>2 DEF TypeOK, Memories
    <3> QED BY <2>1, <3>1, <3>2 DEF UploadMarked
  <2>2. CASE ~UploadMarked
    <3>1. UNCHANGED <<memory, overtaken>>
      BY <2>2 DEF Surroundings, OrphanExpires, RequestAnalysis, RequestSkip, UploadAccepted, UploadStored,
                  FinalizeRelease, FinalizeQueue, caseVars, docVars
    <3> QED BY <3>1
  <2> QED BY <2>1, <2>2
<1>3. lock' = lock \/ lock = Orphan
  BY DEF Surroundings, OrphanExpires, RequestAnalysis, RequestSkip, UploadAccepted, UploadStored,
         UploadMarked, FinalizeRelease, FinalizeQueue
<1> QED BY <1>1, <1>2, <1>3

LEMMA SurroundingsSafe ==
    ASSUME SafetyInv, Surroundings
    PROVE  Parts' /\ results' = results
<1> USE DEF SafetyInv, TypeInv
<1>1. /\ UNCHANGED <<results, pc, mem, run>>
      /\ ~overtaken' => /\ ~overtaken
                        /\ memory'.skipped = memory.skipped /\ memory'.paused = memory.paused
      /\ lock' = lock \/ lock = Orphan
  BY SurroundingsKeep
<1>2. Mutex'
  BY <1>1, WorkersAssumption DEF Mutex
<1>3. CopyOK' /\ TargetOK' /\ SkippedWait' /\ HoldingOK'
  BY <1>1 DEF CopyOK, TargetOK, SkippedWait, Wait, HoldingOK
<1> QED BY <1>1, <1>2, <1>3 DEF Parts

\* Every step is one of these.
LEMMA Steps ==
    ASSUME Exclusive, Next
    PROVE  \/ \E w \in Workers : Work(w) \/ Crash(w) \/ \E t \in Tasks : Start(w, t)
           \/ Surroundings
<1>1. \A w \in Workers : ~Lapse(w)
  BY DEF Exclusive, Lapse, Fault
<1> QED BY <1>1 DEF Next, Surroundings

LEMMA SafetyStep ==
    ASSUME Exclusive
    PROVE  SafetyInv /\ [Next]_vars => SafetyInv'
<1> SUFFICES ASSUME SafetyInv, [Next]_vars PROVE SafetyInv'
  OBVIOUS
<1>1. TypeInv' /\ UploadOK'
  BY TypeStep DEF SafetyInv
<1>2. CASE Next
  BY <1>1, <1>2, Steps, WorkSafe, CrashSafe, StartSafe, SurroundingsSafe
     DEF SafetyInv, Parts
<1>3. CASE UNCHANGED vars
  BY <1>1, <1>3 DEF SafetyInv, Mutex, CopyOK, TargetOK, SkippedWait, Wait, HoldingOK,
     vars, caseVars, docVars, workerVars
<1> QED BY <1>2, <1>3

----------------------------------------------------------------------------
\* What the invariant shows of a step

\* Results change in two actions only.
LEMMA Writers ==
    ASSUME Exclusive, SafetyInv, Next, results' # results
    PROVE  \E w \in Workers : Verify(w) \/ RefreshWrite(w)
<1>1. ~Surroundings
  BY SurroundingsSafe
<1>2. PICK w \in Workers : Work(w) \/ Crash(w) \/ \E t \in Tasks : Start(w, t)
  BY <1>1, Steps
<1>3. Work(w)
  BY <1>2 DEF Crash, Start, caseVars
<1>4. Verify(w) \/ RefreshWrite(w)
  BY <1>3 DEF Work, WriteStatus, Begin, Mark, Enter, Survey, PhaseA, Loop, SelectLink, SelectNone,
       Pause, Advance, RunFails, Finish, SyncVerdict, RefreshRead, RefreshDone, Release, caseVars
<1> QED BY <1>4

LEMMA SameButContext ==
    ASSUME NEW old \in Results, NEW new \in Results, Faithful(old, new)
    PROVE  new = [old EXCEPT !.ctx = new.ctx]
BY DEF Results, Faithful

\* Whatever crashes or fails, and for every number of workers and links: as long as
\* the lock excludes and no upload wrote back an outdated checkpoint, no run touches
\* the result of a link while it is skipped.
THEOREM SkipHonoured ==
    ASSUME Exclusive
    PROVE  Spec => SkipIsHonoured
<1>1. SafetyInv /\ [Next]_vars
        => [~overtaken => \A l \in memory.skipped : results'[l] = results[l]]_vars
  <2> SUFFICES ASSUME SafetyInv, Next, results' # results, ~overtaken, NEW l \in memory.skipped
               PROVE  results'[l] = results[l]
    OBVIOUS
  <2>1. PICK w \in Workers : Verify(w) \/ RefreshWrite(w)
    BY Writers
  <2>2. l \in Links
    BY DEF SafetyInv, TypeInv, TypeOK, Memories
  <2> QED BY <2>1, <2>2, VerifyWrites, RefreshWrites
<1>2. Init => SafetyInv
  BY SafetyInit
<1>3. SafetyInv /\ [Next]_vars => SafetyInv'
  BY SafetyStep
<1> QED BY <1>1, <1>2, <1>3, PTL DEF Spec, SkipIsHonoured

\* Under the same condition a resume or a retry writes the verdict of its own link
\* only: of the others it may rewrite no more than the record of the upstream state.
THEOREM ScopeKept ==
    ASSUME Exclusive
    PROVE  Spec => ScopedRunsStayInScope
<1> DEFINE Step ==
      \A w \in Workers : \A l \in Links \ {run[w].only} :
          run[w].only # 0 =>
             results'[l] = [results[l] EXCEPT !.ctx = results'[l].ctx]
<1>1. SafetyInv /\ [Next]_vars => [Step]_vars
  <2> SUFFICES ASSUME SafetyInv, Next, NEW w \in Workers,
                      NEW l \in Links \ {run[w].only}, run[w].only # 0
               PROVE  Faithful(results[l], results'[l])
    <3>1. SafetyInv /\ Next => results \in [Links -> Results] /\ results' \in [Links -> Results]
      BY TypeStep DEF SafetyInv, TypeInv, TypeOK
    <3> QED BY <3>1, SameButContext
  <2>1. CASE results' = results
    BY <2>1 DEF Faithful
  <2>2. CASE results' # results
    <3>1. PICK v \in Workers : Verify(v) \/ RefreshWrite(v)
      BY <2>2, Writers
    <3>2. v = w
      BY <3>1, OneWorker DEF SafetyInv, CopyOK, Verify, RefreshWrite
    <3>3. CASE Verify(w)
      BY <3>3, VerifyWrites DEF Faithful
    <3>4. CASE RefreshWrite(w)
      BY <3>4, RefreshWrites DEF Faithful
    <3> QED BY <3>1, <3>2, <3>3, <3>4
  <2> QED BY <2>1, <2>2
<1>2. Init => SafetyInv
  BY SafetyInit
<1>3. SafetyInv /\ [Next]_vars => SafetyInv'
  BY SafetyStep
<1> QED BY <1>1, <1>2, <1>3, PTL DEF Spec, ScopedRunsStayInScope

----------------------------------------------------------------------------
\* What a run knows of the results it writes, shows and refreshes

\* A checkpoint of a bounded stop is no conclusion.
CkptOK == \A l \in Links : results[l].ckpt => results[l].status = "INCONCLUSIVE"

\* PauseIsActionable also while a run is at work, from the save of the checkpoint on.
Waiting == memory.paused \in 1 .. chain /\ results[memory.paused].status = "PENDING"
PausedOK ==
    ~overtaken /\ (agentStatus = "paused" \/ \E w \in Workers : owed[w] = "paused") => Waiting

Backed == \A l \in Links : results[l].status \in {"NONE", "VERIFIED"}

ClearOK ==
    faults = 0 /\ agentStatus = "done" /\ verdict = "clear" /\ (\A w \in Workers : pc[w] # "sync")
        => Backed

\* The results from link first to link last record the upstream state as it is.
Recorded(first, last) ==
    \A l \in Links :
        first <= l /\ l <= last /\ results[l].status \in Conclusive /\ ~results[l].ckpt
            => results[l].ctx = Unverified(l)

\* The agent status as it is once the run at work wrote what it owes.
Status(w) == IF owed[w] = "none" THEN agentStatus ELSE owed[w]

\* What the agent status says of the run at work.
Verifying == {"survey", "phase_a", "loop", "select", "verify", "settle"}
StatusOK(w) ==
    /\ pc[w] \in {"settle", "refresh", "rewrite", "finish", "release"} => owed[w] = "none"
    /\ pc[w] \in Verifying \cup {"finish"} => Status(w) = "running"
    /\ pc[w] \in {"refresh", "rewrite"} => Status(w) \in {"running", "paused"}
    /\ pc[w] \in {"refresh", "rewrite"} /\ run[w].verdict # "paused" => Status(w) = "running"
    /\ pc[w] = "sync" /\ run[w].verdict = "paused" => Status(w) = "paused"
    /\ pc[w] = "sync" /\ Status(w) = "done" /\ run[w].verdict = "clear" => Backed

\* The link at hand is in the chain and due, and a fresh run is for a link with issues.
Entering == {"mark", "enter", "survey", "phase_a", "loop"}
LinkOK(w) ==
    /\ pc[w] \in {"verify", "settle"} => /\ run[w].pos \in 1 .. chain
                                         /\ run[w].only \in {0, run[w].pos}
    /\ pc[w] = "verify" => run[w].fresh \/ ~Terminal(results[run[w].pos], run[w].docs)
    /\ pc[w] \in Entering \cup {"select", "verify", "settle"} /\ run[w].fresh => run[w].only # 0
    /\ pc[w] \in Entering \cup {"select", "verify"} /\ run[w].fresh /\ run[w].pos <= run[w].only
         => results[run[w].only].status = "ISSUES"

\* A scoped run verifies its link once, and then looks past it.
OnceOK(w) ==
    /\ pc[w] \in Entering => ~run[w].verified
    /\ pc[w] = "verify" /\ run[w].only # 0 => ~run[w].verified
    /\ pc[w] = "select" /\ run[w].only # 0 /\ run[w].verified => run[w].pos = run[w].only + 1
    /\ pc[w] = "sync" /\ run[w].only # 0 /\ run[w].verdict = "paused"
         => run[w].pos = run[w].only + 1

\* The run has its refresh behind it.
Past(w) ==
    pc[w] \in {"finish", "release"} \/ (pc[w] = "sync" /\ run[w].verdict # "paused")

\* The refresh is done up to its position, and through the chain when it is behind.
RefreshOK(w) ==
    /\ pc[w] = "rewrite" => run[w].buf.ctx = Unverified(run[w].pos)
    /\ faults = 0 /\ pc[w] \in {"refresh", "rewrite"} =>
         Recorded(run[w].only + 1, run[w].pos - 1)
    /\ faults = 0 /\ run[w].only # 0 /\ run[w].verified /\ Past(w) =>
         Recorded(run[w].only + 1, chain)

WorkerOK(w) == StatusOK(w) /\ LinkOK(w) /\ OnceOK(w) /\ RefreshOK(w)
CaseOK == CkptOK /\ PausedOK /\ ClearOK
RunInv == SafetyInv /\ CaseOK /\ \A w \in Workers : WorkerOK(w)

LEMMA RunInit == Init => RunInv
<1> SUFFICES ASSUME Init PROVE RunInv
  OBVIOUS
<1>1. SafetyInv /\ chain = 0 /\ agentStatus = "none" /\ \A l \in Links : results[l] = NoResult
  BY SafetyInit DEF Init
<1>2. \A w \in Workers : pc[w] = "idle"
  BY DEF Init
<1>3. CaseOK
  BY <1>1 DEF Init, CaseOK, CkptOK, PausedOK, ClearOK, NoResult
<1>4. \A w \in Workers : WorkerOK(w)
  BY <1>2 DEF WorkerOK, StatusOK, LinkOK, OnceOK, RefreshOK, Past, Verifying, Entering
<1> QED BY <1>1, <1>3, <1>4 DEF RunInv

\* Nothing is asked of a worker outside a run.
LEMMA OneWorkerOK ==
    ASSUME NEW w \in Workers, \A v \in Workers : v # w => pc'[v] = "idle", WorkerOK(w)'
    PROVE  \A v \in Workers : WorkerOK(v)'
<1>1. ASSUME NEW v \in Workers, pc'[v] = "idle" PROVE WorkerOK(v)'
  BY <1>1 DEF WorkerOK, StatusOK, LinkOK, OnceOK, RefreshOK, Past, Verifying, Entering
<1> QED BY <1>1

\* What is known of the worker at work.
LEMMA AtWork ==
    ASSUME RunInv, NEW w \in Workers, pc[w] # "idle"
    PROVE  /\ run[w] \in Runs /\ mem[w] \in Memories /\ memory \in Memories
           /\ run[w].only \in 0 .. MaxLinks /\ run[w].pos \in 0 .. MaxLinks + 1
           /\ chain \in 0 .. MaxLinks /\ MaxLinks \in Nat /\ faults \in Nat
           /\ results \in [Links -> Results] /\ Links = 1 .. MaxLinks
           /\ pc \in [Workers -> Places] /\ run \in [Workers -> Runs]
           /\ mem \in [Workers -> Memories] /\ owed \in [Workers -> AgentStatuses]
           /\ \A v \in Workers : v # w => pc[v] = "idle" /\ owed[v] = "none"
           /\ pc[w] \in {"begin", "mark", "enter"} => owed[w] = "none"
           /\ WorkerOK(w) /\ CkptOK /\ PausedOK /\ ClearOK
           /\ pc[w] \notin {"begin", "release"} => run[w].pos >= 1
<1>1. TypeOK /\ PlaceOK
  BY DEF RunInv, SafetyInv, TypeInv
<1>2. run[w] \in Runs /\ run[w].only \in 0 .. MaxLinks /\ run[w].pos \in 0 .. MaxLinks + 1
  BY <1>1 DEF TypeOK, Runs
<1> QED BY <1>1, <1>2, OthersIdle, BoundsFacts DEF RunInv, CaseOK, TypeOK, PlaceOK, Links

\* A context depends on the statuses alone.
LEMMA UnverifiedSame ==
    ASSUME \A l \in Links : /\ results'[l].status = results[l].status
                            /\ results'[l].ckpt = results[l].ckpt,
           chain \in Nat, Links = 1 .. MaxLinks, MaxLinks \in Nat
    PROVE  \A l \in Links : Unverified(l)' = Unverified(l)
BY DEF Unverified

----------------------------------------------------------------------------
\* The steps of a run

LEMMA BeginOK ==
    ASSUME RunInv, NEW w \in Workers, Begin(w)
    PROVE  CaseOK' /\ WorkerOK(w)'
<1>1. pc[w] = "begin" /\ UNCHANGED <<chain, results, memory, agentStatus, verdict, owed, overtaken, faults>>
  BY DEF Begin, caseVars, docVars
<1>2. \A v \in Workers : pc[v] # "sync" /\ owed[v] = "none"
  BY <1>1, AtWork
<1>3. CASE Analysis(w) \/ Resume(w) \/ Retry(w) \/ Skip(w)
  <2>1. PICK m \in Memories, only \in 0 .. MaxLinks, fresh \in BOOLEAN, place \in {"mark", "enter"} :
          /\ Decide(w, m, only, fresh, place)
          /\ fresh => only # 0 /\ results[only].status = "ISSUES"
    BY <1>3, Decisions DEF RunInv, SafetyInv, TypeInv
  <2>2. /\ pc'[w] = place
        /\ run'[w] = [NoRun EXCEPT !.only = only, !.fresh = fresh, !.skips = m.skipped, !.pos = 1]
    BY <1>1, <2>1, AtWork DEF Decide, Goto, SetRun
  <2>3. run'[w].only = only /\ run'[w].fresh = fresh /\ run'[w].verified = FALSE
    BY <2>2 DEF NoRun
  <2>4. CaseOK'
    BY <1>1, <1>2, AtWork DEF CaseOK, CkptOK, PausedOK, Waiting, ClearOK, Backed
  <2>5. WorkerOK(w)'
    BY <1>1, <2>1, <2>2, <2>3 DEF WorkerOK, StatusOK, LinkOK, OnceOK, RefreshOK, Past, Verifying, Entering
  <2> QED BY <2>4, <2>5
<1>4. CASE Refuse(w)
  <2>1. pc' = [pc EXCEPT ![w] = "release"] /\ UNCHANGED <<mem, run>>
    BY <1>4 DEF Refuse, Goto
  <2>2. pc'[w] = "release" /\ run[w].only = 0
    BY <1>1, <2>1, AtWork DEF RunInv, SafetyInv, CopyOK
  <2>3. CaseOK'
    BY <1>1, <1>2, <2>1, AtWork DEF CaseOK, CkptOK, PausedOK, Waiting, ClearOK, Backed
  <2>4. WorkerOK(w)'
    BY <1>1, <1>2, <2>1, <2>2 DEF WorkerOK, StatusOK, LinkOK, OnceOK, RefreshOK, Past, Verifying, Entering
  <2> QED BY <2>3, <2>4
<1> QED BY <1>3, <1>4 DEF Begin

\* What is saved before the run is entered keeps the pause.
LEMMA MarkOK ==
    ASSUME RunInv, NEW w \in Workers, Mark(w)
    PROVE  CaseOK' /\ WorkerOK(w)'
<1>1. /\ pc[w] = "mark" /\ pc'[w] = "enter" /\ memory' = mem[w]
      /\ UNCHANGED <<chain, results, agentStatus, verdict, owed, overtaken, run, faults>>
  BY AtWork DEF Mark, Goto, docVars
<1>2. /\ ~overtaken => memory'.paused = memory.paused
      /\ \A v \in Workers : pc[v] # "sync" /\ owed[v] = "none"
  BY <1>1, AtWork DEF RunInv, SafetyInv, CopyOK
<1>3. CaseOK'
  BY <1>1, <1>2, AtWork DEF CaseOK, CkptOK, PausedOK, Waiting, ClearOK, Backed
<1>4. WorkerOK(w)'
  BY <1>1, AtWork DEF WorkerOK, StatusOK, LinkOK, OnceOK, RefreshOK, Past, Verifying, Entering
<1> QED BY <1>3, <1>4

LEMMA EnterOK ==
    ASSUME RunInv, NEW w \in Workers, Enter(w)
    PROVE  CaseOK' /\ WorkerOK(w)'
<1>1. /\ pc[w] = "enter" /\ pc'[w] \in {"survey", "loop"} /\ owed' = [owed EXCEPT ![w] = "running"]
      /\ run' = [run EXCEPT ![w] = [run[w] EXCEPT !.docs = docs]]
      /\ UNCHANGED <<chain, results, memory, agentStatus, verdict, overtaken, faults>>
  BY AtWork DEF Enter, Goto, SetRun, caseVars, docVars
<1>2. /\ run'[w].only = run[w].only /\ run'[w].pos = run[w].pos /\ run'[w].fresh = run[w].fresh
      /\ run'[w].verified = run[w].verified
  BY <1>1, AtWork DEF Runs
<1>3. /\ owed'[w] = "running" /\ \A v \in Workers : pc[v] # "sync"
      /\ \A v \in Workers : owed'[v] # "paused"
  BY <1>1, AtWork
<1>4. CaseOK'
  BY <1>1, <1>3, AtWork DEF CaseOK, CkptOK, PausedOK, Waiting, ClearOK, Backed
<1>5. WorkerOK(w)'
  BY <1>1, <1>2, <1>3, AtWork DEF WorkerOK, StatusOK, Status, LinkOK, OnceOK, RefreshOK, Past, Verifying, Entering
<1> QED BY <1>4, <1>5

\* A save under a running agent: what follows for the case.
LEMMA RunningSave ==
    ASSUME RunInv, NEW w \in Workers, NEW status \in AgentStatuses \ {"paused"},
           pc[w] \in Verifying \cup {"finish"}, owed[w] = "none",
           owed' = [owed EXCEPT ![w] = status], UNCHANGED <<results, agentStatus, overtaken>>
    PROVE  CaseOK' /\ owed'[w] = status /\ agentStatus' = "running"
<1>1. agentStatus' = "running" /\ owed'[w] = status
  BY AtWork DEF WorkerOK, StatusOK, Status, Verifying
<1>2. \A v \in Workers : owed'[v] # "paused"
  BY AtWork DEF Verifying
<1>3. CaseOK'
  BY <1>1, <1>2, AtWork DEF CaseOK, CkptOK, PausedOK, ClearOK, Verifying
<1> QED BY <1>1, <1>3

LEMMA SurveyOK ==
    ASSUME RunInv, NEW w \in Workers, owed[w] = "none", Survey(w) \/ Loop(w)
    PROVE  CaseOK' /\ WorkerOK(w)'
<1>1. /\ pc[w] \in {"survey", "loop"} /\ pc'[w] = (IF pc[w] = "survey" THEN "phase_a" ELSE "select")
      /\ owed' = [owed EXCEPT ![w] = "running"]
      /\ UNCHANGED <<chain, results, agentStatus, verdict, overtaken, run, faults>>
  BY AtWork DEF Survey, Loop, Goto, Save, docVars
<1>2. CaseOK' /\ owed'[w] = "running"
  BY <1>1, RunningSave DEF Verifying, AgentStatuses
<1>3. WorkerOK(w)'
  BY <1>1, <1>2, AtWork DEF WorkerOK, StatusOK, Status, LinkOK, OnceOK, RefreshOK, Past, Verifying, Entering
<1> QED BY <1>2, <1>3

LEMMA PhaseAOK ==
    ASSUME RunInv, NEW w \in Workers, owed[w] = "none", PhaseA(w)
    PROVE  CaseOK' /\ WorkerOK(w)'
<1>1. /\ pc[w] = "phase_a" /\ pc'[w] = "loop"
      /\ UNCHANGED <<results, memory, agentStatus, verdict, overtaken, owed, run, faults>>
  BY AtWork DEF PhaseA, Goto, docVars
<1>2. agentStatus = "running" /\ \A v \in Workers : owed[v] = "none"
  BY <1>1, AtWork DEF WorkerOK, StatusOK, Status, Verifying
<1>3. CaseOK'
  BY <1>1, <1>2, AtWork DEF CaseOK, CkptOK, PausedOK, ClearOK
<1>4. WorkerOK(w)'
  BY <1>1, <1>2, AtWork DEF WorkerOK, StatusOK, Status, LinkOK, OnceOK, RefreshOK, Past, Verifying, Entering
<1> QED BY <1>3, <1>4

\* The status that is owed: the checkpoint was saved for it.
LEMMA WriteStatusOK ==
    ASSUME RunInv, NEW w \in Workers, WriteStatus(w)
    PROVE  CaseOK' /\ WorkerOK(w)'
<1>1. /\ owed[w] # "none" /\ agentStatus' = owed[w] /\ owed' = [owed EXCEPT ![w] = "none"]
      /\ UNCHANGED <<chain, results, memory, verdict, overtaken, pc, run, faults>>
  BY DEF WriteStatus, docVars
<1>2. /\ pc[w] \in {"survey", "phase_a", "loop", "select", "verify", "sync"}
  BY <1>1, AtWork DEF RunInv, SafetyInv, TypeInv, TypeOK, PlaceOK, WorkerOK, StatusOK, Places
<1>3. owed'[w] = "none" /\ agentStatus' = Status(w) /\ Status(w)' = Status(w)
  BY <1>1, <1>2, AtWork DEF Status
<1>4. pc[w] # "sync" => agentStatus' = "running"
  BY <1>2, <1>3, AtWork DEF WorkerOK, StatusOK, Verifying
<1>5. PausedOK'
  BY <1>1, <1>2, AtWork DEF PausedOK, Waiting
<1>6. CaseOK'
  BY <1>1, <1>2, <1>4, <1>5, AtWork DEF CaseOK, CkptOK, ClearOK
<1>7. WorkerOK(w)'
  BY <1>1, <1>2, <1>3, AtWork DEF WorkerOK, StatusOK, LinkOK, OnceOK, RefreshOK, Past, Verifying, Entering,
     Terminal, Recorded, Unverified, Backed
<1> QED BY <1>6, <1>7

LEMMA SelectLinkOK ==
    ASSUME RunInv, NEW w \in Workers, owed[w] = "none", SelectLink(w)
    PROVE  CaseOK' /\ WorkerOK(w)'
<1>1. PICK l \in Due(w) : run' = [run EXCEPT ![w] = [run[w] EXCEPT !.pos = l]]
  BY DEF SelectLink, SetRun
<1>2. /\ pc[w] = "select" /\ pc'[w] = "verify" /\ owed' = [owed EXCEPT ![w] = "running"]
      /\ UNCHANGED <<chain, results, agentStatus, overtaken, faults>>
  BY AtWork DEF SelectLink, Goto, Save, docVars
<1>3. /\ run'[w].pos = l /\ run'[w].only = run[w].only /\ run'[w].fresh = run[w].fresh
      /\ run'[w].docs = run[w].docs /\ run'[w].verified = run[w].verified
  BY <1>1, <1>2, AtWork DEF Runs
<1>4. /\ l \in run[w].pos .. chain /\ run[w].only \in {0, l} /\ l \notin run[w].skips
      /\ run[w].fresh \/ ~Terminal(results[l], run[w].docs)
  BY <1>1 DEF Due
<1>5. l \in 1 .. chain /\ run[w].pos <= l /\ run[w].pos \in Int /\ l \in Int
  BY <1>2, <1>4, AtWork
<1>6. CaseOK' /\ owed'[w] = "running"
  BY <1>2, RunningSave DEF Verifying, AgentStatuses
<1>7. StatusOK(w)' /\ RefreshOK(w)'
  BY <1>2, <1>6 DEF StatusOK, Status, RefreshOK, Past, Verifying
<1>8. LinkOK(w)'
  BY <1>2, <1>3, <1>4, <1>5, AtWork DEF WorkerOK, LinkOK, Terminal, Entering
<1>9. OnceOK(w)'
  BY <1>2, <1>3, <1>4, <1>5, AtWork DEF WorkerOK, OnceOK, Entering
<1> QED BY <1>6, <1>7, <1>8, <1>9 DEF WorkerOK

LEMMA SelectNoneOK ==
    ASSUME RunInv, NEW w \in Workers, owed[w] = "none", SelectNone(w)
    PROVE  CaseOK' /\ WorkerOK(w)'
<1>1. /\ pc[w] = "select" /\ UNCHANGED <<caseVars, overtaken, owed, run, faults>>
      /\ pc'[w] = IF run[w].only # 0 /\ run[w].verified THEN "refresh" ELSE "finish"
  BY AtWork DEF SelectNone, Goto, docVars
<1>2. UNCHANGED <<chain, results, memory, agentStatus, verdict>>
  BY <1>1 DEF caseVars
<1>3. agentStatus = "running" /\ OnceOK(w) /\ \A v \in Workers : owed[v] = "none"
  BY <1>1, AtWork DEF WorkerOK, StatusOK, Status, Verifying
<1>4. CaseOK'
  BY <1>1, <1>2, <1>3, AtWork DEF CaseOK, CkptOK, PausedOK, ClearOK
<1>5. StatusOK(w)' /\ LinkOK(w)' /\ OnceOK(w)'
  <2>1. pc'[w] \in {"refresh", "finish"}
    BY <1>1
  <2> QED BY <1>1, <1>2, <1>3, <2>1 DEF StatusOK, Status, Verifying, LinkOK, OnceOK, Entering
<1>6. RefreshOK(w)'
  <2>1. CASE run[w].only # 0 /\ run[w].verified
    <3>1. pc'[w] = "refresh" /\ run[w].pos = run[w].only + 1
      BY <1>1, <1>3, <2>1 DEF OnceOK
    <3>2. Recorded(run[w].only + 1, run[w].pos - 1)'
      BY <1>1, <3>1, AtWork DEF Recorded
    <3> QED BY <1>1, <3>1, <3>2 DEF RefreshOK, Past
  <2>2. CASE ~(run[w].only # 0 /\ run[w].verified)
    BY <1>1, <2>2 DEF RefreshOK, Past
  <2> QED BY <2>1, <2>2
<1> QED BY <1>4, <1>5, <1>6 DEF WorkerOK

LEMMA VerifyOK ==
    ASSUME RunInv, NEW w \in Workers, owed[w] = "none", Verify(w)
    PROVE  CaseOK' /\ WorkerOK(w)'
<1> DEFINE l == run[w].pos
<1>1. /\ pc[w] = "verify" /\ pc'[w] = "settle"
      /\ run' = [run EXCEPT ![w] = [run[w] EXCEPT !.verified = TRUE]]
      /\ UNCHANGED <<chain, memory, agentStatus, verdict, overtaken, owed, faults>>
  BY AtWork DEF Verify, Goto, SetRun, docVars
<1>2. run'[w].pos = l /\ run'[w].only = run[w].only /\ run'[w].fresh = run[w].fresh
  BY <1>1, AtWork DEF Runs
<1>3. agentStatus = "running" /\ LinkOK(w) /\ \A v \in Workers : owed[v] = "none"
  BY <1>1, AtWork DEF WorkerOK, StatusOK, Status, Verifying
<1>4. CkptOK'
  <2>1. ASSUME NEW r, results' = [results EXCEPT ![l] = r], r.ckpt => r.status = "INCONCLUSIVE"
        PROVE  CkptOK'
    BY <2>1, <1>1, AtWork DEF CkptOK
  <2>2. CASE UNCHANGED results
    BY <2>2, <1>1, AtWork DEF CkptOK
  <2>3. CASE results' = [results EXCEPT ![l] = BoundedStop]
    <3>1. BoundedStop.status = "INCONCLUSIVE"
      BY DEF BoundedStop
    <3> QED BY <2>1, <2>3, <3>1
  <2>4. ASSUME NEW status, results' = [results EXCEPT ![l] = SavedResult(w, l, status)]
        PROVE  CkptOK'
    <3> DEFINE r == SavedResult(w, l, status)
    <3>1. ~r.ckpt
      BY DEF SavedResult
    <3> HIDE DEF r
    <3> QED BY <2>1, <2>4, <3>1 DEF r
  <2> QED BY <2>2, <2>3, <2>4 DEF Verify
<1>5. CaseOK'
  BY <1>1, <1>3, <1>4 DEF CaseOK, PausedOK, ClearOK
<1>6. WorkerOK(w)'
  BY <1>1, <1>2, <1>3 DEF WorkerOK, StatusOK, Status, Verifying, LinkOK, OnceOK, RefreshOK, Past, Entering
<1> QED BY <1>5, <1>6

\* The pause names the link the run stands at.
LEMMA PauseOK ==
    ASSUME RunInv, NEW w \in Workers, owed[w] = "none", Pause(w)
    PROVE  CaseOK' /\ WorkerOK(w)'
<1> DEFINE l == run[w].pos
<1>1. /\ pc[w] = "settle" /\ pc'[w] = "sync" /\ owed' = [owed EXCEPT ![w] = "paused"]
      /\ run' = [run EXCEPT ![w] = [run[w] EXCEPT !.verdict = "paused", !.pos = l + 1]]
      /\ memory' = [mem[w] EXCEPT !.paused = l] /\ results[l].status = "PENDING"
      /\ UNCHANGED <<chain, results, agentStatus, verdict, faults>>
  BY AtWork DEF Pause, Goto, SetRun, Save
<1>2. run'[w].pos = l + 1 /\ run'[w].only = run[w].only /\ run'[w].verdict = "paused"
  BY <1>1, AtWork DEF Runs
<1>3. l \in 1 .. chain /\ run[w].only \in {0, l} /\ agentStatus = "running" /\ owed'[w] = "paused"
  BY <1>1, AtWork DEF WorkerOK, LinkOK, StatusOK, Status, Verifying
<1>4. memory'.paused = l
  BY <1>1, AtWork DEF Memories
<1>5. CaseOK'
  BY <1>1, <1>3, <1>4, AtWork DEF CaseOK, CkptOK, PausedOK, Waiting, ClearOK
<1>6. WorkerOK(w)'
  BY <1>1, <1>2, <1>3 DEF WorkerOK, StatusOK, Status, Verifying, LinkOK, OnceOK, RefreshOK, Past, Entering
<1> QED BY <1>5, <1>6

LEMMA AdvanceOK ==
    ASSUME RunInv, NEW w \in Workers, owed[w] = "none", Advance(w)
    PROVE  CaseOK' /\ WorkerOK(w)'
<1>1. /\ pc[w] = "settle" /\ pc'[w] = "select" /\ owed' = [owed EXCEPT ![w] = "running"]
      /\ run' = [run EXCEPT ![w] = [run[w] EXCEPT !.pos = @ + 1]]
      /\ UNCHANGED <<chain, results, agentStatus, verdict, overtaken, faults>>
  BY AtWork DEF Advance, Goto, SetRun, Save, docVars
<1>2. /\ run'[w].pos = run[w].pos + 1 /\ run'[w].only = run[w].only
      /\ run'[w].fresh = run[w].fresh
  BY <1>1, AtWork DEF Runs
<1>3. /\ run[w].pos \in 1 .. chain /\ run[w].only \in {0, run[w].pos}
      /\ run[w].fresh => run[w].only # 0
  BY <1>1, AtWork DEF WorkerOK, LinkOK
<1>4. CaseOK' /\ owed'[w] = "running"
  BY <1>1, RunningSave DEF Verifying, AgentStatuses
<1>5. StatusOK(w)' /\ RefreshOK(w)'
  BY <1>1, <1>4 DEF StatusOK, Status, Verifying, RefreshOK, Past
<1>6. LinkOK(w)' /\ OnceOK(w)'
  BY <1>1, <1>2, <1>3, AtWork DEF LinkOK, OnceOK, Entering
<1> QED BY <1>4, <1>5, <1>6 DEF WorkerOK

LEMMA RunFailsOK ==
    ASSUME RunInv, NEW w \in Workers, owed[w] = "none", RunFails(w)
    PROVE  CaseOK' /\ WorkerOK(w)'
<1>1. /\ pc[w] \in {"phase_a", "verify"} /\ pc'[w] = "sync" /\ owed' = [owed EXCEPT ![w] = "error"]
      /\ run' = [run EXCEPT ![w] = [run[w] EXCEPT !.verdict = "error"]]
      /\ UNCHANGED <<chain, results, agentStatus, verdict, overtaken, faults>>
  BY AtWork DEF RunFails, Goto, SetRun, Save, docVars
<1>2. /\ run'[w].verdict = "error" /\ run'[w].only = run[w].only
      /\ run'[w].verified = run[w].verified
  BY <1>1, AtWork DEF Runs
<1>3. run[w].only # 0 => ~run[w].verified
  BY <1>1, AtWork DEF WorkerOK, OnceOK, Entering
<1>4. CaseOK' /\ owed'[w] = "error"
  BY <1>1, RunningSave DEF Verifying, AgentStatuses
<1>5. WorkerOK(w)'
  BY <1>1, <1>2, <1>3, <1>4 DEF WorkerOK, StatusOK, Status, Verifying, LinkOK, OnceOK, RefreshOK, Past, Entering
<1> QED BY <1>4, <1>5

LEMMA FinishOK ==
    ASSUME RunInv, NEW w \in Workers, owed[w] = "none", Finish(w)
    PROVE  CaseOK' /\ WorkerOK(w)'
<1>1. /\ pc[w] = "finish" /\ pc'[w] = "sync" /\ owed' = [owed EXCEPT ![w] = "done"]
      /\ run' = [run EXCEPT ![w] = [run[w] EXCEPT !.verdict = OverallVerdict]]
      /\ UNCHANGED <<chain, results, agentStatus, verdict, overtaken, faults>>
  BY AtWork DEF Finish, Goto, SetRun, Save, docVars
<1>2. /\ run'[w].verdict = OverallVerdict /\ run'[w].only = run[w].only
      /\ run'[w].verified = run[w].verified
  BY <1>1, AtWork DEF Runs
<1>3. OverallVerdict # "paused" /\ (OverallVerdict = "clear" => Backed)
  BY DEF OverallVerdict, Backed
<1>4. CaseOK' /\ owed'[w] = "done"
  BY <1>1, RunningSave DEF AgentStatuses
<1>5. RefreshOK(w)'
  BY <1>1, <1>2, AtWork DEF WorkerOK, RefreshOK, Past, Recorded, Unverified
<1>6. StatusOK(w)' /\ LinkOK(w)' /\ OnceOK(w)'
  BY <1>1, <1>2, <1>3, <1>4 DEF StatusOK, Status, Verifying, LinkOK, OnceOK, Backed, Entering
<1> QED BY <1>4, <1>5, <1>6 DEF WorkerOK

LEMMA SyncVerdictOK ==
    ASSUME RunInv, NEW w \in Workers, owed[w] = "none", SyncVerdict(w)
    PROVE  CaseOK' /\ WorkerOK(w)'
<1>1. /\ pc[w] = "sync" /\ UNCHANGED <<chain, results, memory, agentStatus, overtaken, owed, run>>
      /\ pc'[w] = (IF run[w].verdict = "paused" /\ run[w].only # 0 THEN "refresh" ELSE "release")
  BY AtWork DEF SyncVerdict, Goto, docVars
<1>2. faults' = 0 => faults = 0 /\ verdict' = run[w].verdict
  BY AtWork, <1>1 DEF SyncVerdict, Fault
<1>3. StatusOK(w) /\ OnceOK(w) /\ RefreshOK(w)
  BY <1>1, AtWork DEF WorkerOK
<1>4. CaseOK'
  <2>1. CkptOK' /\ PausedOK'
    BY <1>1, AtWork DEF CkptOK, PausedOK, Waiting
  <2>2. ClearOK'
    BY <1>1, <1>2, <1>3, AtWork DEF ClearOK, StatusOK, Status, Backed
  <2> QED BY <2>1, <2>2 DEF CaseOK
<1>5. StatusOK(w)' /\ LinkOK(w)' /\ OnceOK(w)'
  BY <1>1, <1>3 DEF StatusOK, Status, Verifying, LinkOK, OnceOK, Entering
<1>6. RefreshOK(w)'
  BY <1>1, <1>2, <1>3, AtWork DEF RefreshOK, Past, OnceOK, Recorded, Unverified
<1> QED BY <1>4, <1>5, <1>6 DEF WorkerOK

LEMMA RefreshReadOK ==
    ASSUME RunInv, NEW w \in Workers, owed[w] = "none", RefreshRead(w)
    PROVE  CaseOK' /\ WorkerOK(w)'
<1>1. PICK l \in Stale(w) :
        /\ \A k \in Stale(w) : l <= k
        /\ run' = [run EXCEPT ![w] = [run[w] EXCEPT
                     !.pos = l, !.buf = [results[l] EXCEPT !.ctx = Unverified(l)]]]
  BY DEF RefreshRead, SetRun
<1>2. /\ pc[w] = "refresh" /\ pc'[w] = "rewrite"
      /\ UNCHANGED <<chain, results, memory, agentStatus, verdict, overtaken, owed, faults>>
  BY AtWork DEF RefreshRead, Goto, caseVars, docVars
<1>3. /\ l \in run[w].pos .. chain /\ l \in Links
      /\ run[w].pos \in Int /\ run[w].only \in Int /\ chain \in Int
  BY <1>1, <1>2, AtWork DEF Stale
<1>4. run'[w].pos = l /\ run'[w].only = run[w].only /\ run'[w].buf.ctx = Unverified(l)
  <2> DEFINE b == [results[l] EXCEPT !.ctx = Unverified(l)]
  <2>1. b.ctx = Unverified(l)
    BY <1>2, <1>3, AtWork DEF Results
  <2>2. run' = [run EXCEPT ![w] = [run[w] EXCEPT !.pos = l, !.buf = b]]
    BY <1>1
  <2> HIDE DEF b
  <2> QED BY <1>2, <2>1, <2>2, AtWork DEF Runs
<1>5. CaseOK'
  BY <1>2, AtWork DEF CaseOK, CkptOK, PausedOK, Waiting, ClearOK, Backed
<1>6. StatusOK(w)' /\ LinkOK(w)' /\ OnceOK(w)'
  <2>1. run'[w].verdict = run[w].verdict
    <3> DEFINE b == [results[l] EXCEPT !.ctx = Unverified(l)]
    <3>1. run' = [run EXCEPT ![w] = [run[w] EXCEPT !.pos = l, !.buf = b]]
      BY <1>1
    <3> HIDE DEF b
    <3> QED BY <1>2, <3>1, AtWork DEF Runs
  <2> QED BY <1>2, <2>1, AtWork DEF WorkerOK, StatusOK, Status, Verifying, LinkOK, OnceOK, Entering
<1>7. \A k : Unverified(k)' = Unverified(k)
  BY <1>2 DEF Unverified
<1>8. faults = 0 => Recorded(run[w].only + 1, l - 1)
  <2> SUFFICES ASSUME faults = 0, NEW k \in Links, run[w].only + 1 <= k, k <= l - 1,
                      results[k].status \in Conclusive, ~results[k].ckpt
               PROVE  results[k].ctx = Unverified(k)
    BY DEF Recorded
  <2>1. k \in Int
    BY <1>2, AtWork
  <2>2. CASE k <= run[w].pos - 1
    BY <1>2, <2>2, AtWork DEF WorkerOK, RefreshOK, Recorded
  <2>3. CASE k > run[w].pos - 1
    <3>1. k \notin Stale(w)
      BY <1>1, <1>3, <2>1
    <3>2. k \in run[w].pos .. chain /\ k > run[w].only
      BY <1>3, <2>1, <2>3
    <3>3. results[k].status \notin {"NONE", "PENDING"}
      BY DEF Conclusive
    <3> QED BY <3>1, <3>2, <3>3 DEF Stale
  <2> QED BY <1>3, <2>1, <2>2, <2>3
<1>9. RefreshOK(w)'
  <2>1. PICK first : first = run[w].only + 1
    OBVIOUS
  <2>2. PICK last : last = l - 1
    OBVIOUS
  <2>3. faults' = 0 => Recorded(first, last)'
    BY <1>2, <1>7, <1>8, <2>1, <2>2 DEF Recorded
  <2> QED BY <1>2, <1>4, <1>7, <2>1, <2>2, <2>3 DEF RefreshOK, Past
<1> QED BY <1>5, <1>6, <1>9 DEF WorkerOK

LEMMA RefreshWriteOK ==
    ASSUME RunInv, NEW w \in Workers, owed[w] = "none", RefreshWrite(w)
    PROVE  CaseOK' /\ WorkerOK(w)'
<1> DEFINE l == run[w].pos
<1>1. /\ pc[w] = "rewrite" /\ pc'[w] = "refresh"
      /\ run' = [run EXCEPT ![w] = [run[w] EXCEPT !.pos = @ + 1, !.buf = NoResult]]
      /\ UNCHANGED <<chain, memory, agentStatus, verdict, overtaken, owed>>
  BY AtWork DEF RefreshWrite, Goto, SetRun, docVars
<1>2. run'[w].pos = l + 1 /\ run'[w].only = run[w].only /\ run'[w].verdict = run[w].verdict
  BY <1>1, AtWork DEF Runs
<1>3. l \in Int /\ run[w].only \in Int /\ \A k \in Links : k \in Int
  BY <1>1, AtWork
<1>4. /\ \A k \in Links : k # l => results'[k] = results[k]
      /\ Faithful(results[l], results'[l])
  BY RefreshWrites DEF RunInv
<1>5. \A k \in Links : results'[k].status = results[k].status
                          /\ results'[k].ckpt = results[k].ckpt
  BY <1>4 DEF Faithful
<1>6. faults' = 0 => faults = 0 /\ results' = [results EXCEPT ![l] = run[w].buf]
  BY <1>1, AtWork DEF RefreshWrite, Fault
<1>7. CkptOK'
  BY <1>1, <1>5, AtWork DEF CkptOK
<1>8. PausedOK'
  BY <1>1, <1>5, AtWork DEF PausedOK, Waiting
<1>9. ClearOK'
  BY <1>1, <1>5, <1>6, AtWork DEF ClearOK, Backed
<1>10. StatusOK(w)' /\ LinkOK(w)' /\ OnceOK(w)'
  BY <1>1, <1>2, AtWork DEF WorkerOK, StatusOK, Status, Verifying, LinkOK, OnceOK, Entering
<1>11. \A k \in Links : Unverified(k)' = Unverified(k)
  BY <1>1, <1>5, AtWork, UnverifiedSame
<1>12. PICK first : first = run[w].only + 1
  OBVIOUS
<1>13. PICK last : last = l
  OBVIOUS
<1>14. faults' = 0 => Recorded(first, last)'
  <2> SUFFICES ASSUME faults' = 0, NEW k \in Links, run[w].only + 1 <= k, k <= l,
                      results'[k].status \in Conclusive, ~results'[k].ckpt
               PROVE  results'[k].ctx = Unverified(k)
    BY <1>11, <1>12, <1>13 DEF Recorded
  <2>1. CASE k = l
    BY <1>1, <1>6, <2>1, AtWork DEF WorkerOK, RefreshOK
  <2>2. CASE k # l
    <3>1. k <= l - 1 /\ results'[k] = results[k]
      BY <1>3, <1>4, <2>2
    <3>2. Recorded(run[w].only + 1, l - 1)
      BY <1>1, <1>6, AtWork DEF WorkerOK, RefreshOK
    <3> QED BY <3>1, <3>2 DEF Recorded
  <2> QED BY <2>1, <2>2
<1>15. RefreshOK(w)'
  <2>1. first = run'[w].only + 1 /\ last = run'[w].pos - 1
    BY <1>2, <1>3, <1>12, <1>13
  <2> QED BY <1>1, <1>14, <2>1 DEF RefreshOK, Past
<1> QED BY <1>7, <1>8, <1>9, <1>10, <1>15 DEF CaseOK, WorkerOK

LEMMA RefreshDoneOK ==
    ASSUME RunInv, NEW w \in Workers, owed[w] = "none", RefreshDone(w)
    PROVE  CaseOK' /\ WorkerOK(w)'
<1>1. /\ pc[w] = "refresh" /\ Stale(w) = {}
      /\ pc'[w] = (IF run[w].verdict = "paused" THEN "release" ELSE "finish")
      /\ UNCHANGED <<chain, results, memory, agentStatus, verdict, overtaken, owed, run, faults>>
  BY AtWork DEF RefreshDone, Goto, caseVars, docVars
<1>2. /\ run[w].pos \in Int /\ run[w].only \in Int /\ chain \in Int
      /\ \A k \in Links : k \in Int
  BY <1>1, AtWork
<1>3. CaseOK'
  BY <1>1, AtWork DEF CaseOK, CkptOK, PausedOK, Waiting, ClearOK, Backed
<1>4. StatusOK(w)' /\ LinkOK(w)' /\ OnceOK(w)'
  BY <1>1, AtWork DEF WorkerOK, StatusOK, Status, Verifying, LinkOK, OnceOK, Entering
<1>5. faults = 0 => Recorded(run[w].only + 1, chain)
  <2> SUFFICES ASSUME faults = 0, NEW k \in Links, run[w].only + 1 <= k, k <= chain,
                      results[k].status \in Conclusive, ~results[k].ckpt
               PROVE  results[k].ctx = Unverified(k)
    BY DEF Recorded
  <2>1. CASE k <= run[w].pos - 1
    BY <1>1, <2>1, AtWork DEF WorkerOK, RefreshOK, Recorded
  <2>2. CASE k > run[w].pos - 1
    <3>1. k \in run[w].pos .. chain /\ k > run[w].only
      BY <1>2, <2>2
    <3>2. results[k].status \notin {"NONE", "PENDING"}
      BY DEF Conclusive
    <3> QED BY <1>1, <3>1, <3>2 DEF Stale
  <2> QED BY <1>2, <2>1, <2>2
<1>6. RefreshOK(w)'
  BY <1>1, <1>5 DEF RefreshOK, Past, Recorded, Unverified
<1> QED BY <1>3, <1>4, <1>6 DEF WorkerOK

\* A worker that leaves its task, by its end or by its death.
LEMMA LeaveOK ==
    ASSUME RunInv, NEW w \in Workers, Release(w) \/ Crash(w)
    PROVE  CaseOK' /\ WorkerOK(w)'
<1>1. /\ pc[w] # "idle" /\ pc' = [pc EXCEPT ![w] = "idle"]
      /\ owed' = [owed EXCEPT ![w] = "none"]
      /\ UNCHANGED <<chain, results, memory, agentStatus, verdict, overtaken>>
      /\ faults' = 0 => faults = 0 /\ pc[w] = "release"
  BY AtWork DEF Release, Crash, Leave, Fault, caseVars, docVars
<1>2. pc'[w] = "idle" /\ \A v \in Workers : owed'[v] = "none"
  BY <1>1, AtWork
<1>3. faults' = 0 => faults = 0 /\ \A v \in Workers : pc[v] # "sync"
  BY <1>1, AtWork
<1>4. CaseOK'
  BY <1>1, <1>2, <1>3, AtWork DEF CaseOK, CkptOK, PausedOK, Waiting, ClearOK, Backed
<1>5. WorkerOK(w)'
  BY <1>2 DEF WorkerOK, StatusOK, Verifying, LinkOK, OnceOK, RefreshOK, Past, Entering
<1> QED BY <1>4, <1>5

LEMMA WorkOK ==
    ASSUME RunInv, NEW w \in Workers, Work(w)
    PROVE  CaseOK' /\ WorkerOK(w)'
BY WriteStatusOK, BeginOK, MarkOK, EnterOK, SurveyOK, PhaseAOK, SelectLinkOK, SelectNoneOK, VerifyOK, PauseOK, AdvanceOK, RunFailsOK,
   FinishOK, SyncVerdictOK, RefreshReadOK, RefreshWriteOK, RefreshDoneOK, LeaveOK DEF Work

----------------------------------------------------------------------------
\* The steps outside a run

LEMMA StartOK ==
    ASSUME Exclusive, RunInv, NEW w \in Workers, NEW t \in Tasks, Start(w, t)
    PROVE  CaseOK' /\ \A v \in Workers : WorkerOK(v)'
<1>1. pc[w] = "idle" /\ UNCHANGED <<chain, results, memory, agentStatus, verdict, overtaken, owed, run>>
  BY DEF Start, caseVars, docVars
<1>2. CASE Acquire(w, t)
  <2>1. lock = Free /\ pc' = [pc EXCEPT ![w] = "begin"] /\ UNCHANGED faults
    BY <1>2 DEF Acquire, Goto
  <2>2. \A v \in Workers : pc[v] = "idle"
    BY <2>1, WorkersAssumption DEF RunInv, SafetyInv, Mutex
  <2>3. pc'[w] = "begin" /\ \A v \in Workers : v # w => pc'[v] = "idle"
    BY <2>1, <2>2 DEF RunInv, SafetyInv, TypeInv, TypeOK
  <2>4. CaseOK'
    BY <1>1, <2>1, <2>2 DEF RunInv, CaseOK, CkptOK, PausedOK, Waiting, ClearOK, Backed
  <2>5. WorkerOK(w)'
    BY <2>3 DEF WorkerOK, StatusOK, Verifying, LinkOK, OnceOK, RefreshOK, Past, Entering
  <2> QED BY <2>3, <2>4, <2>5, OneWorkerOK
<1>3. CASE Busy
  BY <1>1, <1>3 DEF Busy, RunInv, CaseOK, CkptOK, PausedOK, Waiting, ClearOK, Backed, WorkerOK, StatusOK,
     Status, Verifying, Entering, LinkOK, OnceOK, RefreshOK, Past, Recorded, Unverified, Terminal
<1>4. ~Unlocked(w, t)
  BY DEF Exclusive, Unlocked, Fault
<1> QED BY <1>2, <1>3, <1>4 DEF Start

\* An upload resets the verdict and writes the checkpoint back; nothing else reaches
\* the case from outside a run.
LEMMA SurroundingsOK ==
    ASSUME RunInv, Surroundings
    PROVE  CaseOK' /\ \A w \in Workers : WorkerOK(w)'
<1>1. /\ UNCHANGED <<chain, results, agentStatus, owed, pc, run, faults>>
      /\ verdict' \in {verdict, "none"}
  BY DEF Surroundings, OrphanExpires, RequestAnalysis, RequestSkip, UploadAccepted, UploadStored,
         UploadMarked, FinalizeRelease, FinalizeQueue, caseVars, docVars, workerVars
<1>2. ~overtaken' => ~overtaken /\ memory'.paused = memory.paused
  BY SurroundingsKeep DEF RunInv, SafetyInv, TypeInv
<1>3. CkptOK' /\ ClearOK'
  BY <1>1 DEF RunInv, CaseOK, CkptOK, ClearOK, Backed
<1>4. PausedOK'
  BY <1>1, <1>2 DEF RunInv, CaseOK, PausedOK, Waiting
<1>5. ASSUME NEW w \in Workers PROVE WorkerOK(w)'
  BY <1>1 DEF RunInv, WorkerOK, StatusOK, Status, Verifying, Entering, LinkOK, OnceOK, RefreshOK, Past,
     Recorded, Unverified, Backed, Terminal
<1> QED BY <1>3, <1>4, <1>5 DEF CaseOK

LEMMA RunStep ==
    ASSUME Exclusive
    PROVE  RunInv /\ [Next]_vars => RunInv'
<1> SUFFICES ASSUME RunInv, [Next]_vars PROVE RunInv'
  OBVIOUS
<1>1. SafetyInv'
  BY SafetyStep DEF RunInv
<1>2. CASE Surroundings
  BY <1>1, <1>2, SurroundingsOK DEF RunInv
<1>3. ASSUME NEW w \in Workers, Work(w) \/ Crash(w) PROVE RunInv'
  <2>1. CaseOK' /\ WorkerOK(w)'
    BY <1>3, WorkOK, LeaveOK
  <2>2. pc[w] # "idle" /\ \E place : pc' = [pc EXCEPT ![w] = place]
    <3>1. CASE WriteStatus(w)
      BY <3>1, WriteStatusOK, AtWork DEF WriteStatus, RunInv, SafetyInv, TypeInv, TypeOK, PlaceOK
    <3>2. CASE ~WriteStatus(w)
      BY <1>3, <3>2 DEF Work, Begin, Analysis, Resume, Retry, Skip, Refuse, Decide, Mark, Enter, Survey,
       PhaseA, Loop, SelectLink, SelectNone, Verify, Pause, Advance, RunFails, Finish, SyncVerdict,
       RefreshRead, RefreshWrite, RefreshDone, Release, Crash, Leave, Goto
    <3> QED BY <3>1, <3>2
  <2>3. \A v \in Workers : v # w => pc'[v] = "idle"
    BY <2>2, AtWork
  <2> QED BY <1>1, <2>1, <2>3, OneWorkerOK DEF RunInv
<1>4. ASSUME NEW w \in Workers, NEW t \in Tasks, Start(w, t) PROVE RunInv'
  BY <1>1, <1>4, StartOK DEF RunInv
<1>5. CASE UNCHANGED vars
  BY <1>1, <1>5 DEF vars, caseVars, docVars, workerVars, RunInv, CaseOK, CkptOK, PausedOK, Waiting,
     ClearOK, Backed, WorkerOK, StatusOK, Status, Verifying, Entering, LinkOK, OnceOK, RefreshOK, Past, Recorded, Unverified, Terminal
<1> QED BY <1>2, <1>3, <1>4, <1>5, Steps

LEMMA RunAlways ==
    ASSUME Exclusive
    PROVE  Spec => []RunInv
<1>1. RunInv /\ [Next]_vars => RunInv'
  BY RunStep
<1> QED BY <1>1, RunInit, PTL DEF Spec

----------------------------------------------------------------------------
\* What follows for the case

\* For every number of workers, links, uploads and requests, as long as the lock
\* excludes: a clear verdict shown for a finished agent is backed by the results.
THEOREM ClearBacked ==
    ASSUME Exclusive
    PROVE  Spec => []ClearVerdictIsBacked
<1>1. RunInv => ClearVerdictIsBacked
  BY DEF RunInv, CaseOK, ClearOK, Backed, ClearVerdictIsBacked
<1> QED BY <1>1, RunAlways, PTL

\* Under the same condition, and whatever crashes or fails between any two writes of a
\* run: unless an upload wrote back an outdated checkpoint, a case that rests at "paused"
\* names a link whose result asks for evidence.
THEOREM PauseActionable ==
    ASSUME Exclusive
    PROVE  Spec => []PauseIsActionable
<1>1. RunInv => PauseIsActionable
  BY DEF RunInv, CaseOK, PausedOK, Waiting, PauseIsActionable
<1> QED BY <1>1, RunAlways, PTL

\* Under the same condition, a scoped run that met no fault leaves no later result
\* with an outdated record of the upstream state.
THEOREM RefreshReaches ==
    ASSUME Exclusive
    PROVE  Spec => []RefreshReachesDownstream
<1>1. RunInv => RefreshReachesDownstream
  <2> SUFFICES ASSUME RunInv, NEW w \in Workers,
                      faults = 0, pc[w] = "release", run[w].only # 0, run[w].verified,
                      NEW l \in run[w].only + 1 .. chain,
                      results[l].status \in Conclusive, ~results[l].ckpt
               PROVE  results[l].ctx = Unverified(l)
    BY DEF RefreshReachesDownstream
  <2>1. l \in Links /\ run[w].only + 1 <= l /\ l <= chain
    BY AtWork
  <2>2. Recorded(run[w].only + 1, chain)
    BY AtWork DEF WorkerOK, RefreshOK, Past
  <2> QED BY <2>1, <2>2 DEF Recorded
<1> QED BY <1>1, RunAlways, PTL

\* What a verification may overwrite: nothing conclusive outside a fresh retry, and
\* there the issues the retry is for.
LEMMA VerifyReopens ==
    ASSUME RunInv, NEW w \in Workers, Verify(w)
    PROVE  LET l == run[w].pos
           IN  \/ /\ run[w].fresh /\ run[w].only = l
                  /\ results[l].status = "ISSUES"
               \/ /\ results[l].status \notin {"VERIFIED", "ISSUES"}
                  /\ results[l].status = "INCONCLUSIVE" =>
                       results[l].ckpt \/ results[l].manifest # run[w].docs
<1>1. /\ pc[w] = "verify" /\ LinkOK(w) /\ run[w].pos \in Links
      /\ run[w].pos <= run[w].pos
  BY AtWork DEF Verify, WorkerOK, LinkOK
<1>2. results[run[w].pos].ckpt => results[run[w].pos].status = "INCONCLUSIVE"
  BY <1>1, AtWork DEF CkptOK
<1>3. CASE run[w].fresh
  BY <1>1, <1>3 DEF LinkOK
<1>4. CASE ~run[w].fresh
  BY <1>1, <1>2, <1>4 DEF LinkOK, Terminal, Conclusive
<1> QED BY <1>3, <1>4

\* Under the same condition, and whatever crashes or fails, a conclusion stands.
THEOREM ConclusionStands ==
    ASSUME Exclusive
    PROVE  Spec => ConclusionsStand
<1> DEFINE Stands(l) ==
      results'[l].status # results[l].status =>
         /\ results[l].status # "VERIFIED"
         /\ results[l].status = "ISSUES" =>
               \E w \in Workers : pc[w] = "verify" /\ run[w].fresh /\ run[w].only = l
         /\ results[l].status = "INCONCLUSIVE" =>
               results[l].ckpt \/ results[l].manifest # docs
                 \/ \E w \in Workers : run[w].docs # results[l].manifest
<1>1. RunInv /\ [Next]_vars => [\A l \in Links : Stands(l)]_vars
  <2> SUFFICES ASSUME RunInv, Next, NEW l \in Links,
                      results'[l].status # results[l].status
               PROVE  Stands(l)
    OBVIOUS
  <2>1. PICK w \in Workers : Verify(w) \/ RefreshWrite(w)
    BY Writers DEF RunInv
  <2>2. CASE RefreshWrite(w)
    BY <2>2, RefreshWrites DEF RunInv, Faithful
  <2>3. CASE Verify(w)
    <3>1. run[w].pos = l /\ pc[w] = "verify"
      BY <2>3, VerifyWrites DEF RunInv, Verify
    <3> QED BY <2>3, <3>1, VerifyReopens
  <2> QED BY <2>1, <2>2, <2>3
<1>2. RunInv /\ [Next]_vars => RunInv'
  BY RunStep
<1> QED BY <1>1, <1>2, RunInit, PTL DEF Spec, ConclusionsStand

----------------------------------------------------------------------------
\* Why a run ends.

\* The links the loop, or the refresh, of a run has not been through.
Ahead(w) == MaxLinks + 1 - run[w].pos

\* The writes and reads the run of a worker can still make: three for a link of the loop, two
\* for a link of the refresh, and the rest of its way.
Rest(w) ==
    CASE pc[w] = "idle" -> 0
      [] pc[w] = "begin" -> 3 * MaxLinks + 11
      [] pc[w] = "mark" -> 3 * Ahead(w) + 10
      [] pc[w] = "enter" -> 3 * Ahead(w) + 9
      [] pc[w] = "survey" -> 3 * Ahead(w) + 8
      [] pc[w] = "phase_a" -> 3 * Ahead(w) + 7
      [] pc[w] = "loop" -> 3 * Ahead(w) + 6
      [] pc[w] = "select" -> 3 * Ahead(w) + 5
      [] pc[w] = "verify" -> 3 * Ahead(w) + 4
      [] pc[w] = "settle" -> 3 * Ahead(w) + 3
      [] pc[w] = "refresh" -> 2 * Ahead(w) + 4
      [] pc[w] = "rewrite" -> 2 * Ahead(w) + 3
      [] pc[w] = "finish" -> 3
      [] pc[w] = "sync" /\ run[w].verdict = "paused" /\ run[w].only # 0 -> 2 * Ahead(w) + 5
      [] pc[w] = "sync" /\ ~(run[w].verdict = "paused" /\ run[w].only # 0) -> 2
      [] pc[w] = "release" -> 1

\* Each of them may leave a status to write behind it.
Left(w) == 2 * Rest(w) + (IF owed[w] = "none" THEN 0 ELSE 1)

LeftBounded == \A w \in Workers : Left(w) \in 0 .. 6 * MaxLinks + 23
RestNumbers == \A w \in Workers : Rest(w) \in Nat

LEMMA RestIsNumber ==
    ASSUME TypeInv, NEW w \in Workers
    PROVE  /\ Rest(w) \in 0 .. 3 * MaxLinks + 11
           /\ pc[w] \notin {"idle", "begin", "release"} => Ahead(w) \in 0 .. MaxLinks
           /\ pc[w] \in {"verify", "settle", "rewrite"} => Ahead(w) >= 1
<1>1. run[w].pos \in 0 .. MaxLinks + 1 /\ pc[w] \in Places
  BY DEF TypeInv, TypeOK, Runs
<1>2. /\ pc[w] \notin {"idle", "begin", "release"} => Ahead(w) \in 0 .. MaxLinks
      /\ pc[w] \in {"verify", "settle", "rewrite"} => Ahead(w) >= 1
  BY <1>1, BoundsFacts DEF TypeInv, PlaceOK, Ahead, Links
<1> DEFINE a == Ahead(w)
           n == MaxLinks
<1>3. pc[w] \notin {"idle", "begin", "release"} => a \in Nat /\ a <= n
  BY <1>2, BoundsFacts
<1>4. n \in Nat
  BY BoundsFacts
<1>5. CASE pc[w] = "idle"
  BY <1>2, <1>3, <1>4, <1>5 DEF Rest
<1>6. CASE pc[w] = "begin"
  BY <1>2, <1>3, <1>4, <1>6 DEF Rest
<1>7. CASE pc[w] = "release"
  BY <1>2, <1>3, <1>4, <1>7 DEF Rest
<1>8. CASE pc[w] = "finish"
  BY <1>2, <1>3, <1>4, <1>8 DEF Rest
<1>9. CASE pc[w] = "phase_a"
  BY <1>2, <1>3, <1>4, <1>9 DEF Rest
<1>16. CASE pc[w] = "mark"
  BY <1>2, <1>3, <1>4, <1>16 DEF Rest
<1>17. CASE pc[w] = "enter"
  BY <1>2, <1>3, <1>4, <1>17 DEF Rest
<1>18. CASE pc[w] = "survey"
  BY <1>2, <1>3, <1>4, <1>18 DEF Rest
<1>19. CASE pc[w] = "loop"
  BY <1>2, <1>3, <1>4, <1>19 DEF Rest
<1>10. CASE pc[w] = "select"
  BY <1>2, <1>3, <1>4, <1>10 DEF Rest
<1>11. CASE pc[w] = "verify"
  BY <1>2, <1>3, <1>4, <1>11 DEF Rest
<1>12. CASE pc[w] = "settle"
  BY <1>2, <1>3, <1>4, <1>12 DEF Rest
<1>13. CASE pc[w] = "refresh"
  BY <1>2, <1>3, <1>4, <1>13 DEF Rest
<1>14. CASE pc[w] = "rewrite"
  BY <1>2, <1>3, <1>4, <1>14 DEF Rest
<1>15. CASE pc[w] = "sync"
  BY <1>2, <1>3, <1>4, <1>15 DEF Rest
<1> QED BY <1>1, <1>5, <1>6, <1>7, <1>8, <1>9, <1>10, <1>11, <1>12, <1>13, <1>14, <1>15,
   <1>16, <1>17, <1>18, <1>19 DEF Places

\* The beginning of a run and its loop.
LEMMA LoopShortens ==
    ASSUME TypeInv, TypeInv', NEW w \in Workers,
           \/ Begin(w) \/ Mark(w) \/ Enter(w) \/ Survey(w) \/ PhaseA(w) \/ Loop(w) \/ SelectLink(w) \/ SelectNone(w) \/ Verify(w)
           \/ Pause(w) \/ Advance(w)
    PROVE  Rest(w)' < Rest(w)
<1>1. /\ Ahead(w) = MaxLinks + 1 - run[w].pos
      /\ Ahead(w)' = MaxLinks + 1 - run'[w].pos
      /\ run[w].pos \in 0 .. MaxLinks + 1 /\ run'[w].pos \in 0 .. MaxLinks + 1
      /\ run[w] \in Runs /\ run' \in [Workers -> Runs] /\ pc' \in [Workers -> Places]
  BY DEF Ahead, TypeInv, TypeOK, Runs
<1>2. /\ pc[w] \notin {"idle", "begin", "release"} => Ahead(w) \in 0 .. MaxLinks
      /\ pc[w] \in {"verify", "settle", "rewrite"} => Ahead(w) >= 1
  BY RestIsNumber
<1>3. CASE Begin(w)
  <2>1. pc[w] = "begin"
    BY <1>3 DEF Begin
  <2>2. CASE Refuse(w)
    <3>1. pc'[w] = "release"
      BY <2>2 DEF Refuse, Goto, TypeInv, TypeOK
    <3> QED BY <2>1, <3>1, BoundsFacts DEF Rest
  <2>3. ASSUME NEW m, NEW only, NEW fresh, NEW place \in {"mark", "enter"},
               Decide(w, m, only, fresh, place)
        PROVE  Rest(w)' < Rest(w)
    <3>1. pc'[w] = place /\ run'[w].pos = 1
      BY <2>3 DEF Decide, SetRun, NoRun, Goto, TypeInv, TypeOK
    <3>2. Ahead(w)' = MaxLinks
      BY <1>1, <3>1, BoundsFacts
    <3> QED BY <2>1, <3>1, <3>2, BoundsFacts DEF Rest
  <2> QED BY <1>3, <2>2, <2>3 DEF Begin, Analysis, Resume, Retry, Skip
<1>4. CASE Mark(w) \/ Survey(w) \/ PhaseA(w) \/ Loop(w)
  <2>1. /\ <<pc[w], pc'[w]>> \in {<<"mark", "enter">>, <<"survey", "phase_a">>, <<"phase_a", "loop">>,
                                 <<"loop", "select">>}
        /\ Ahead(w)' = Ahead(w)
    BY <1>4 DEF Mark, Survey, PhaseA, Loop, Goto, TypeInv, TypeOK, Ahead
  <2> QED BY <1>2, <2>1, BoundsFacts DEF Rest
<1>10. CASE Enter(w)
  <2>1. pc[w] = "enter" /\ pc'[w] \in {"survey", "loop"} /\ run'[w].pos = run[w].pos
    BY <1>1, <1>10 DEF Enter, SetRun, Goto, TypeInv, TypeOK, Runs
  <2>2. Ahead(w)' = Ahead(w)
    BY <1>1, <2>1
  <2> QED BY <1>2, <2>1, <2>2, BoundsFacts DEF Rest
<1>5. CASE SelectLink(w)
  <2>1. pc[w] = "select" /\ pc'[w] = "verify"
    BY <1>5 DEF SelectLink, Goto, TypeInv, TypeOK
  <2>2. run'[w].pos >= run[w].pos
    <3>1. PICK l \in Due(w) : SetRun(w, [run[w] EXCEPT !.pos = l])
      BY <1>5 DEF SelectLink
    <3>2. l \in run[w].pos .. chain /\ chain \in Nat
      BY <3>1 DEF Due, TypeInv, TypeOK
    <3>3. run'[w].pos = l
      BY <1>1, <3>1 DEF SetRun, TypeInv, TypeOK, Runs
    <3> QED BY <1>1, <3>2, <3>3
  <2>3. Ahead(w)' <= Ahead(w) /\ Ahead(w)' \in Int
    BY <1>1, <2>2, BoundsFacts
  <2> QED BY <1>2, <2>1, <2>3, BoundsFacts DEF Rest
<1>6. CASE SelectNone(w)
  <2>1. pc[w] = "select" /\ pc'[w] \in {"refresh", "finish"} /\ Ahead(w)' = Ahead(w)
    BY <1>6 DEF SelectNone, Goto, TypeInv, TypeOK, Ahead
  <2> QED BY <1>2, <2>1, BoundsFacts DEF Rest
<1>7. CASE Verify(w)
  <2>1. pc[w] = "verify" /\ pc'[w] = "settle" /\ run'[w].pos = run[w].pos
    BY <1>1, <1>7 DEF Verify, SetRun, Goto, TypeInv, TypeOK, Runs
  <2>2. Ahead(w)' = Ahead(w)
    BY <1>1, <2>1
  <2> QED BY <1>2, <2>1, <2>2, BoundsFacts DEF Rest
<1>8. CASE Pause(w)
  <2>1. pc[w] = "settle" /\ pc'[w] = "sync" /\ run'[w].pos = run[w].pos + 1
    BY <1>1, <1>8 DEF Pause, SetRun, Goto, TypeInv, TypeOK, Runs
  <2>2. Ahead(w)' = Ahead(w) - 1
    BY <1>1, <2>1, BoundsFacts
  <2> QED BY <1>2, <2>1, <2>2, BoundsFacts DEF Rest
<1>9. CASE Advance(w)
  <2>1. pc[w] = "settle" /\ pc'[w] = "select" /\ run'[w].pos = run[w].pos + 1
    BY <1>1, <1>9 DEF Advance, SetRun, Goto, TypeInv, TypeOK, Runs
  <2>2. Ahead(w)' = Ahead(w) - 1
    BY <1>1, <2>1, BoundsFacts
  <2> QED BY <1>2, <2>1, <2>2, BoundsFacts DEF Rest
<1> QED BY <1>3, <1>4, <1>5, <1>6, <1>7, <1>8, <1>9, <1>10

\* The ways out of the loop, and the refresh.
LEMMA ExitShortens ==
    ASSUME TypeInv, TypeInv', NEW w \in Workers,
           \/ RunFails(w) \/ Finish(w) \/ SyncVerdict(w)
           \/ RefreshRead(w) \/ RefreshWrite(w) \/ RefreshDone(w) \/ Release(w)
    PROVE  Rest(w)' < Rest(w)
<1>1. /\ Ahead(w) = MaxLinks + 1 - run[w].pos
      /\ Ahead(w)' = MaxLinks + 1 - run'[w].pos
      /\ run[w].pos \in 0 .. MaxLinks + 1 /\ run'[w].pos \in 0 .. MaxLinks + 1
      /\ run[w] \in Runs /\ run' \in [Workers -> Runs] /\ pc' \in [Workers -> Places]
  BY DEF Ahead, TypeInv, TypeOK, Runs
<1>2. /\ pc[w] \notin {"idle", "begin", "release"} => Ahead(w) \in 0 .. MaxLinks
      /\ pc[w] \in {"verify", "settle", "rewrite"} => Ahead(w) >= 1
  BY RestIsNumber
<1>3. CASE RunFails(w)
  <2>1. pc[w] \in {"phase_a", "verify"} /\ pc'[w] = "sync" /\ run'[w].verdict = "error"
    BY <1>1, <1>3 DEF RunFails, SetRun, Goto, TypeInv, TypeOK, Runs
  <2>2. Rest(w)' = 2
    BY <2>1 DEF Rest
  <2> QED BY <1>2, <2>1, <2>2, BoundsFacts DEF Rest
<1>4. CASE Finish(w)
  <2>1. pc[w] = "finish" /\ pc'[w] = "sync" /\ run'[w].verdict \in {"clear", "attention"}
    BY <1>1, <1>4 DEF Finish, OverallVerdict, SetRun, Goto, TypeInv, TypeOK, Runs
  <2>2. Rest(w)' = 2
    BY <2>1 DEF Rest
  <2> QED BY <2>1, <2>2 DEF Rest
<1>5. CASE SyncVerdict(w)
  <2>1. /\ pc[w] = "sync" /\ Ahead(w)' = Ahead(w)
        /\ pc'[w] = IF run[w].verdict = "paused" /\ run[w].only # 0 THEN "refresh" ELSE "release"
    BY <1>5 DEF SyncVerdict, Goto, TypeInv, TypeOK, Ahead
  <2> QED BY <1>2, <2>1, BoundsFacts DEF Rest
<1>6. CASE RefreshRead(w)
  <2>1. pc[w] = "refresh" /\ pc'[w] = "rewrite"
    BY <1>6 DEF RefreshRead, Goto, TypeInv, TypeOK
  <2>2. run'[w].pos >= run[w].pos
    <3>1. PICK l \in Stale(w) :
             SetRun(w, [run[w] EXCEPT !.pos = l, !.buf = [results[l] EXCEPT !.ctx = Unverified(l)]])
      BY <1>6 DEF RefreshRead
    <3>2. l \in run[w].pos .. chain /\ chain \in Nat
      BY <3>1 DEF Stale, TypeInv, TypeOK
    <3>3. run'[w].pos = l
      BY <1>1, <3>1 DEF SetRun, TypeInv, TypeOK, Runs
    <3> QED BY <1>1, <3>2, <3>3
  <2>3. Ahead(w)' <= Ahead(w) /\ Ahead(w)' \in Int
    BY <1>1, <2>2, BoundsFacts
  <2> QED BY <1>2, <2>1, <2>3, BoundsFacts DEF Rest
<1>7. CASE RefreshWrite(w)
  <2>1. pc[w] = "rewrite" /\ pc'[w] = "refresh" /\ run'[w].pos = run[w].pos + 1
    BY <1>1, <1>7 DEF RefreshWrite, SetRun, Goto, TypeInv, TypeOK, Runs
  <2>2. Ahead(w)' = Ahead(w) - 1
    BY <1>1, <2>1, BoundsFacts
  <2> QED BY <1>2, <2>1, <2>2, BoundsFacts DEF Rest
<1>8. CASE RefreshDone(w)
  <2>1. pc[w] = "refresh" /\ pc'[w] \in {"release", "finish"}
    BY <1>8 DEF RefreshDone, Goto, TypeInv, TypeOK
  <2> QED BY <1>2, <2>1, BoundsFacts DEF Rest
<1>9. CASE Release(w)
  <2>1. pc[w] = "release" /\ pc'[w] = "idle"
    BY <1>9 DEF Release, Leave, TypeInv, TypeOK
  <2> QED BY <2>1 DEF Rest
<1> QED BY <1>3, <1>4, <1>5, <1>6, <1>7, <1>8, <1>9

\* What happens beside a run leaves it alone.
LEMMA OthersLeave ==
    ASSUME TypeInv, [Next]_vars, NEW w \in Workers, pc[w] # "idle", ~Work(w), ~Crash(w)
    PROVE  pc'[w] = pc[w] /\ run'[w] = run[w] /\ owed'[w] = owed[w]
<1>1. ASSUME NEW v \in Workers, v # w, Work(v) PROVE pc'[w] = pc[w] /\ run'[w] = run[w] /\ owed'[w] = owed[w]
  <2>1. CASE Begin(v)
    BY <1>1, <2>1 DEF Begin, Analysis, Resume, Retry, Skip, Refuse, Decide, SetRun, Goto, TypeInv, TypeOK
  <2>4. CASE WriteStatus(v) \/ Mark(v) \/ Enter(v) \/ Survey(v) \/ Loop(v)
    BY <1>1, <2>4 DEF WriteStatus, Mark, Enter, Survey, Loop, Save, SetRun, Goto, TypeInv, TypeOK
  <2>2. CASE PhaseA(v) \/ SelectLink(v) \/ SelectNone(v) \/ Verify(v) \/ Pause(v) \/ Advance(v)
    BY <1>1, <2>2 DEF PhaseA, SelectLink, SelectNone, Verify, Pause, Advance, Save, SetRun, Goto, TypeInv, TypeOK
  <2>3. CASE RunFails(v) \/ Finish(v) \/ SyncVerdict(v) \/ RefreshRead(v) \/ RefreshWrite(v)
             \/ RefreshDone(v) \/ Release(v)
    BY <1>1, <2>3 DEF RunFails, Finish, SyncVerdict, RefreshRead, RefreshWrite, RefreshDone, Release,
                      Leave, Save, SetRun, Goto, TypeInv, TypeOK
  <2> QED BY <1>1, <2>1, <2>2, <2>3, <2>4 DEF Work
<1>2. ASSUME NEW v \in Workers, v # w, Crash(v) PROVE pc'[w] = pc[w] /\ run'[w] = run[w] /\ owed'[w] = owed[w]
  BY <1>2 DEF Crash, Leave, TypeInv, TypeOK
<1>3. ASSUME NEW v \in Workers, NEW t \in Tasks, Start(v, t) PROVE pc'[w] = pc[w] /\ run'[w] = run[w] /\ owed'[w] = owed[w]
  BY <1>3 DEF Start, Acquire, Busy, Unlocked, Goto, TypeInv, TypeOK
<1>4. ASSUME NEW v \in Workers, Lapse(v) PROVE pc'[w] = pc[w] /\ run'[w] = run[w] /\ owed'[w] = owed[w]
  BY <1>4 DEF Lapse, workerVars
<1>5. CASE \/ OrphanExpires \/ RequestAnalysis \/ (\E l \in Links : RequestSkip(l))
           \/ (\E l \in 0 .. MaxLinks : UploadAccepted(l)) \/ UploadStored \/ UploadMarked
           \/ FinalizeRelease \/ FinalizeQueue
  BY <1>5 DEF OrphanExpires, RequestAnalysis, RequestSkip, UploadAccepted, UploadStored,
              UploadMarked, FinalizeRelease, FinalizeQueue, workerVars
<1>6. CASE UNCHANGED vars
  BY <1>6 DEF vars, workerVars
<1> QED BY <1>1, <1>2, <1>3, <1>4, <1>5, <1>6 DEF Next

\* A run that was started takes at most 6 * MaxLinks + 23 steps: each lowers what is left of it, and
\* no other run, upload, skip or fault meanwhile raises it, whatever links they open or make stale.
THEOREM RunShortens ==
    Spec => /\ []LeftBounded
            /\ [][\A w \in Workers : pc[w] # "idle" =>
                     /\ Left(w)' <= Left(w)
                     /\ Work(w) => Left(w)' < Left(w)]_vars
<1>0. ASSUME TypeInv, NEW w \in Workers
      PROVE  Rest(w) \in Nat /\ Left(w) \in 0 .. 6 * MaxLinks + 23
  <2>1. Rest(w) \in 0 .. 3 * MaxLinks + 11
    BY <1>0, RestIsNumber
  <2> DEFINE r == Rest(w)
  <2> HIDE DEF r
  <2>2. 2 * r + (IF owed[w] = "none" THEN 0 ELSE 1) \in 0 .. 6 * MaxLinks + 23
    BY <2>1, BoundsFacts DEF r
  <2> QED BY <2>1, <2>2, BoundsFacts DEF Left, r
<1>1. TypeInv /\ TypeInv' /\ LeftBounded' /\ RestNumbers' /\ [Next]_vars =>
        [\A w \in Workers : pc[w] # "idle" =>
            /\ Left(w)' <= Left(w)
            /\ Work(w) => Left(w)' < Left(w)]_vars
  <2> SUFFICES ASSUME TypeInv, TypeInv', LeftBounded', RestNumbers', [Next]_vars,
                      NEW w \in Workers, pc[w] # "idle"
               PROVE  Left(w)' <= Left(w) /\ (Work(w) => Left(w)' < Left(w))
    OBVIOUS
  <2>1. Rest(w) \in Nat /\ Left(w) \in Nat
    BY <1>0, BoundsFacts
  <2>0. Rest(w)' \in Nat /\ Left(w)' \in Nat /\ Left(w)' = 2 * Rest(w)' + (IF owed'[w] = "none" THEN 0 ELSE 1)
    BY BoundsFacts DEF LeftBounded, RestNumbers, Left
  <2>2. CASE Work(w) /\ ~WriteStatus(w)
    <3>1. owed[w] = "none" /\ Rest(w)' < Rest(w)
      BY <2>2, LoopShortens, ExitShortens DEF Work
    <3>3. Left(w)' < Left(w)
      BY <2>0, <2>1, <3>1 DEF Left
    <3> QED BY <2>0, <2>1, <3>3
  <2>3. CASE WriteStatus(w)
    <3>1. owed[w] # "none" /\ owed'[w] = "none" /\ Rest(w)' = Rest(w)
      BY <2>3 DEF WriteStatus, TypeInv, TypeOK, Rest, Ahead
    <3>2. Left(w)' < Left(w)
      BY <2>0, <2>1, <3>1 DEF Left
    <3> QED BY <2>0, <2>1, <3>2
  <2>4. CASE Crash(w) /\ ~Work(w)
    <3>1. Rest(w)' = 0 /\ owed'[w] = "none"
      BY <2>4 DEF Crash, Leave, TypeInv, TypeOK, Rest
    <3> QED BY <2>0, <2>1, <2>4, <3>1
  <2>5. CASE ~Crash(w) /\ ~Work(w)
    <3>1. pc'[w] = pc[w] /\ run'[w] = run[w] /\ owed'[w] = owed[w]
      BY <2>5, OthersLeave
    <3>2. Left(w)' = Left(w)
      BY <3>1 DEF Left, Rest, Ahead
    <3> QED BY <2>1, <2>5, <3>2
  <2> QED BY <2>2, <2>3, <2>4, <2>5 DEF Work
<1>2. TypeInv => LeftBounded /\ RestNumbers
  BY <1>0 DEF LeftBounded, RestNumbers
<1>3. Init => TypeInv /\ UploadOK
  BY TypeInit
<1>4. TypeInv /\ UploadOK /\ [Next]_vars => TypeInv' /\ UploadOK'
  BY TypeStep
<1> QED BY <1>1, <1>2, <1>3, <1>4, PTL DEF Spec

=============================================================================
