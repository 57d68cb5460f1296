--------------------------- MODULE SchemaUpgrade ---------------------------
(***************************************************************************)
(* database/migrations.py: what the web process does to the database at    *)
(* every start.  The results and the checkpoints of earlier versions are   *)
(* copied into the rows of this one, then the old tables and columns are   *)
(* dropped one by one, each as far as it succeeds.  The process may die,   *)
(* and is then started again, or a statement may fail, and it serves       *)
(* anyway (main.py).  The workers are another container: they save results *)
(* and checkpoints at any time or, where that is seen to, only while the   *)
(* web process serves.                                                     *)
(*                                                                         *)
(* One case.  Its rows are locked from a statement that writes them to the *)
(* end of the transaction; a plain SELECT takes no lock.  Statements that  *)
(* change the schema commit.                                               *)
(***************************************************************************)
EXTENDS Integers, FiniteSetsExt

CONSTANTS
    Links,      \* the links of the case
    MaxSaves,   \* bound: what the workers save
    MaxStarts,  \* bound: starts by the operator
    MaxFaults   \* bound: crashes and statements that fail

ASSUME BoundsAssumption == MaxSaves \in Nat /\ MaxStarts \in Nat /\ MaxFaults \in Nat

VARIABLES
    quiet,        \* the workers stand still while the web process starts
    results,      \* case_results: the version of each link's result
    findings,     \* the last of its findings
    reports,      \* its results in the reports, numbered in the order they were stored
    agentResult,  \* its result in cases.agent_result
    column,       \* case_memory has its old column
    legacy,       \* cases.agent_memory holds a checkpoint
    todos,        \* the table of old to-do entries is there
    checkpoint,   \* case_memory: how the checkpoint is written and what was meant by it
    pc,           \* where the web process is
    copy,         \* the results it has read
    saves, starts, faults,
    failed        \* the statements that failed: drops, by what they drop, and "copy"

oldStores == <<findings, reports, agentResult>>
oldMemory == <<column, legacy, todos>>
database == <<results, oldStores, oldMemory, checkpoint>>
vars == <<quiet, database, pc, copy, saves, starts, faults, failed>>

----------------------------------------------------------------------------
\* Values

\* A later version is newer; 0 is none.  An earlier version of the program wrote a link's
\* finding last.
Finding == 4
Versions == 0 .. Finding + MaxSaves
NoResults == [l \in Links |-> 0]
NoReports == [l \in Links |-> {}]

\* What is dropped, in this order.
Retired == {"findings", "reports", "todos", "agent_result", "agent_memory"}
After == [findings |-> "reports", reports |-> "todos", todos |-> "agent_result",
          agent_result |-> "agent_memory", agent_memory |-> "serving"]

\* "json" is the form of this version, "text" the labelled lines the upgrade writes, "old"
\* the form of the old column, "mixed" one with a line after the JSON object.
Forms == {"none", "old", "text", "json", "mixed"}

\* get_agent_memory: the old column is not read; a mixed checkpoint is read as lines, and none
\* of them has a label.
Seen(c) == IF c.form \in {"old", "mixed"} THEN FALSE ELSE c.paused

TypeOK ==
    /\ quiet \in BOOLEAN /\ column \in BOOLEAN /\ legacy \in BOOLEAN /\ todos \in BOOLEAN
    /\ results \in [Links -> Versions] /\ copy \in [Links -> Versions]
    /\ findings \in [Links -> {0, Finding}] /\ agentResult \in [Links -> 0 .. 3]
    /\ reports \in [Links -> SUBSET (1 .. 2)]
    /\ checkpoint \in [form : Forms, paused : BOOLEAN]
    /\ pc \in {"starting", "dropping", "reading", "consolidating", "serving"} \cup Retired
    /\ saves \in 0 .. MaxSaves /\ starts \in 0 .. MaxStarts
    /\ faults \in 0 .. MaxFaults /\ failed \subseteq Retired \cup {"copy"}
    /\ checkpoint.form = "old" => column /\ pc # "dropping"

\* A database of an earlier version, with results in any of its stores, several where the
\* store can have them, and a checkpoint in one of its places.
Init ==
    /\ quiet \in BOOLEAN
    /\ results \in [Links -> {0, 2}] /\ findings \in [Links -> {0, Finding}]
    /\ reports \in [Links -> {{}, {1, 2}}] /\ agentResult \in [Links -> {0, 3}]
    /\ column \in BOOLEAN /\ legacy \in BOOLEAN /\ todos \in BOOLEAN
    /\ checkpoint \in [form : {"none"}, paused : {FALSE}]
                     \cup IF column THEN [form : {"old"}, paused : BOOLEAN] ELSE {}
    /\ pc = "starting"
    /\ copy = NoResults
    /\ saves = 0 /\ starts = 0 /\ faults = 0 /\ failed = {}

Upgraded ==
    /\ findings = NoResults /\ reports = NoReports /\ agentResult = NoResults
    /\ ~column /\ ~legacy /\ ~todos

----------------------------------------------------------------------------
\* The start of the web process

Go(place) == pc' = place /\ UNCHANGED <<quiet, saves, starts>>

\* Variant: the column is dropped before the checkpoint is taken from it.
ConvertMemory_Dropped ==
    /\ pc = "starting"
    /\ column' = FALSE
    /\ Go("reading")
    /\ UNCHANGED <<results, oldStores, legacy, todos, checkpoint, copy, faults, failed>>

\* While the old column is there, its checkpoint, and one of this version, are written as
\* lines.  The statement that drops the column commits them first.
ConvertMemory ==
    /\ pc = "starting"
    /\ IF column
       THEN /\ checkpoint' = IF checkpoint.form \in {"old", "json"}
                              THEN [checkpoint EXCEPT !.form = "text"] ELSE checkpoint
            /\ Go("dropping")
       ELSE UNCHANGED checkpoint /\ Go("reading")
    /\ UNCHANGED <<results, oldStores, oldMemory, copy, faults, failed>>

DropColumn ==
    /\ pc = "dropping"
    /\ column' = FALSE
    /\ Go("reading")
    /\ UNCHANGED <<results, oldStores, legacy, todos, checkpoint, copy, faults, failed>>

\* The saved results are read, without a lock.
ReadResults ==
    /\ pc = "reading"
    /\ copy' = results
    /\ Go("consolidating")
    /\ UNCHANGED <<database, faults, failed>>

\* What the older stores add for a link that is not known yet: the first of its reports,
\* else what is in agent_result.
Added(l) == IF reports[l] # {} THEN Min(reports[l]) ELSE agentResult[l]

\* Variant: a result that is there already is kept, whatever the finding says.
Consolidated_KeepsFirst ==
    [l \in Links |-> IF copy[l] # 0 THEN copy[l]
                     ELSE IF findings[l] # 0 THEN findings[l] ELSE Added(l)]

\* Variant: the reports count, known or not.
Consolidated_Reported ==
    [l \in Links |-> IF findings[l] # 0 THEN findings[l]
                     ELSE IF Added(l) # 0 THEN Added(l) ELSE copy[l]]

\* A finding replaces a link's result; reports and agent_result only add links.
Consolidated ==
    [l \in Links |-> IF findings[l] # 0 THEN findings[l]
                     ELSE IF copy[l] # 0 THEN copy[l] ELSE Added(l)]

\* A checkpoint in cases.agent_memory makes a row where there is none, of its progress and
\* next action alone: a pause in it is not carried over.
NewRow == legacy /\ checkpoint.form = "none"

\* Variant: the table of to-do entries is taken to be there.
Amended_Always ==
    [checkpoint EXCEPT !.form = IF checkpoint.form \in {"json", "mixed"} THEN "mixed" ELSE "text"]

\* Each to-do entry becomes a line after the checkpoint.
Amended ==
    IF todos \/ NewRow
    THEN [checkpoint EXCEPT !.form = IF checkpoint.form \in {"json", "mixed"} THEN "mixed" ELSE "text"]
    ELSE checkpoint

\* The rest of the transaction, up to its commit.
Consolidate ==
    /\ pc = "consolidating"
    /\ results' = Consolidated
    /\ checkpoint' = Amended
    /\ Go("findings")
    /\ UNCHANGED <<oldStores, oldMemory, copy, faults, failed>>

\* Variant: what was copied is not dropped.
Retire_Kept(what) ==
    /\ pc = what
    /\ Go(After[what])
    /\ UNCHANGED <<database, copy, faults, failed>>

Retire(what) ==
    /\ pc = what
    /\ findings' = IF what = "findings" THEN NoResults ELSE findings
    /\ reports' = IF what = "reports" THEN NoReports ELSE reports
    /\ todos' = (todos /\ what # "todos")
    /\ agentResult' = IF what = "agent_result" THEN NoResults ELSE agentResult
    /\ legacy' = (legacy /\ what # "agent_memory")
    /\ Go(After[what])
    /\ UNCHANGED <<results, column, checkpoint, copy, faults, failed>>

Fault == faults < MaxFaults /\ faults' = faults + 1

\* A drop that fails is passed over.
KeepOld(what) ==
    /\ pc = what
    /\ Fault /\ failed' = failed \cup {what}
    /\ Go(After[what])
    /\ UNCHANGED <<database, copy>>

\* Any other statement that fails: rolled back, raised, and logged by lifespan.
Raise ==
    /\ pc \in {"starting", "dropping", "reading", "consolidating"}
    /\ Fault /\ failed' = failed \cup {"copy"}
    /\ Go("serving")
    /\ UNCHANGED <<database, copy>>

\* The container starts the process again; what was not committed is undone.
Die ==
    /\ pc # "starting"
    /\ Fault
    /\ Go("starting")
    /\ UNCHANGED <<database, copy, failed>>

\* A new version, or the same one, is started.
Start ==
    /\ pc = "serving" /\ starts < MaxStarts
    /\ starts' = starts + 1
    /\ pc' = "starting"
    /\ UNCHANGED <<quiet, database, copy, saves, faults, failed>>

----------------------------------------------------------------------------
\* The workers

Save ==
    /\ quiet => pc = "serving"
    /\ saves < MaxSaves /\ saves' = saves + 1
    /\ UNCHANGED <<quiet, oldStores, oldMemory, pc, copy, starts, faults, failed>>

\* save_transaction_result.
SaveResult(l) ==
    /\ Save
    /\ results' = [results EXCEPT ![l] = Finding + saves']
    /\ UNCHANGED checkpoint

\* save_agent_memory; the row is locked while what the start adds to it is not committed.
SaveCheckpoint ==
    /\ Save
    /\ ~(pc = "consolidating" /\ (todos \/ NewRow))
    /\ \E paused \in BOOLEAN : checkpoint' = [form |-> "json", paused |-> paused]
    /\ UNCHANGED results

----------------------------------------------------------------------------

Next ==
    \/ ConvertMemory \/ DropColumn \/ ReadResults \/ Consolidate
    \/ \E what \in Retired : Retire(what) \/ KeepOld(what)
    \/ Raise \/ Die \/ Start
    \/ \E l \in Links : SaveResult(l)
    \/ SaveCheckpoint

Spec == Init /\ [][Next]_vars

\* A start goes on: statements return, and the container is restarted (docker-compose.yml).
FairSpec ==
    /\ Spec
    /\ WF_vars(ConvertMemory \/ DropColumn \/ ReadResults \/ Consolidate)
    /\ WF_vars(\E what \in Retired : Retire(what))

----------------------------------------------------------------------------
\* Properties

\* The result a completed start leaves a link with.
Standing(l) ==
    IF findings[l] # 0 THEN findings[l]
    ELSE IF results[l] # 0 THEN results[l] ELSE Added(l)

\* migrations.py:177-178, 304: a start can be cut short after any statement, by a crash or a
\* failure, and repeated, drops left out or not, and every link still comes by the result it
\* would have had the first time: none is lost with its store, none is taken from another.
\* If workers keep out of starts; which of several results that is, is the code's choice (the
\* first report, not the last).
RepeatsAgree == [][quiet /\ saves' = saves => \A l \in Links : Standing(l)' = Standing(l)]_vars

\* What a link has to show, and what its finding says: a result never gives way to an older
\* one, by a start or a worker's save, if workers keep out of starts, no start failed to copy
\* and no drop of the findings was passed over: a finding left in its table is put over
\* whatever the workers saved since (migrations.py:264-265).
Latest(l) == Max({results[l], findings[l]})
NewestIsKept ==
    [][quiet /\ {"copy", "findings"} \cap failed' = {}
          => \A l \in Links : results'[l] >= results[l] /\ Latest(l)' >= Latest(l)]_vars

\* When the web process serves, a pause in the row of case_memory is read as it was saved,
\* whatever forms the checkpoint has been brought into (agent_repo.py:137-183), if workers
\* keep out of starts, no start failed to copy and no drop of the to-do entries was passed
\* over: their lines would be put behind a checkpoint of this version (migrations.py:225-242).
PauseIsReadable ==
    quiet /\ pc = "serving" /\ {"copy", "todos"} \cap failed = {}
        => Seen(checkpoint) = checkpoint.paused

\* In the end the web process serves, and if no statement failed, nothing is left to upgrade,
\* however often the process died.
StartsEnd == <>[](pc = "serving" /\ (failed = {} => Upgraded))

==============================================================================
