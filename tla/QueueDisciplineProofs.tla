------------------------ MODULE QueueDisciplineProofs ------------------------
(***************************************************************************)
(* What the profiling queue promises to users with a discipline.  The pool *)
(* is called append-only and the queue resumable, and neither holds of the *)
(* scripts as they are (PoolIsAppendOnly and CompletedBatchesAreProfiled   *)
(* are violated).  Two rules are enough for them:                          *)
(*                                                                         *)
(*   - the executor is not started in a directory that has rows already;   *)
(*   - the queue is built once, as its batch numbers mean nothing to the   *)
(*     next build.                                                         *)
(*                                                                         *)
(* The scripts may still run together, stop anywhere, and run any number   *)
(* of times; archives may still arrive while they do.                      *)
(***************************************************************************)
EXTENDS QueuePipelineProofs

\* The rule about directories: an execution begins in one without rows.
NewDirectory == execPc = "idle" /\ execPc' # "idle" => rows[dir'].run = 0

NewDirectories == [][NewDirectory]_vars

\* Under it a directory's rows and summary are of one execution for good, and so
\* is what the pool has gathered from it.
OnceInv ==
    /\ execPc \in {"jobs", "batches", "campaign"} => rows[dir].run = 0
    /\ \A d \in Dirs : summaries[d].run > 0 => summaries[d].run = rows[d].run
    /\ \A s \in sources \cup poolSources : s.run = rows[s.dir].run
    /\ \A r \in collected : /\ r.run = rows[r.dir].run
                            /\ \E s \in sources : s.dir = r.dir
    /\ \A r \in poolRows : /\ r.run = rows[r.dir].run
                           /\ \E s \in poolSources : s.dir = r.dir
    /\ poolPc = "combine" => \A d \in todo : \E s \in sources : s.dir = d

\* Steps that leave the directories and the pool as they are keep it.
LEMMA OnceFrame ==
    ASSUME OnceInv, UNCHANGED <<rows, summaries, sources, poolSources, collected, poolRows, poolPc, todo>>,
           execPc' \in {"jobs", "batches", "campaign"} => rows[dir'].run = 0
    PROVE  OnceInv'
BY DEF OnceInv

\* A row of a directory is of the execution that wrote its file.
LEMMA RowsAreOfRun ==
    \A d, r : r \in RowsOf(d) => r.dir = d /\ r.run = rows[d].run
BY DEF RowsOf

\* The executor: rows appear only where there were none.
LEMMA OnceExecutor ==
    ASSUME QueueInv, GatherInv, OnceInv, ExecutorWorks, NewDirectory
    PROVE  OnceInv'
<1>1. CASE BeginExecution
  <2>1. /\ UNCHANGED <<rows, summaries, sources, poolSources, collected, poolRows, poolPc,
                       todo>>
        /\ execPc = "idle" /\ execPc' = "jobs"
    BY <1>1 DEF BeginExecution, runFiles, poolFiles, poolVars
  <2> QED
    BY <2>1, OnceFrame DEF NewDirectory
<1>2. CASE ReadJobs \/ ReadBatch
  <2>1. /\ UNCHANGED <<rows, summaries, sources, poolSources, collected, poolRows, poolPc,
                       todo>>
        /\ execPc \in {"jobs", "batches"}
        /\ execPc' = "idle" \/ dir' = dir
    BY <1>2 DEF ReadJobs, ReadBatch, ExecutorForgets, runFiles, poolFiles, poolVars
  <2>2. execPc' \in {"jobs", "batches", "campaign"} => rows[dir'].run = 0
    BY <2>1 DEF OnceInv
  <2> QED
    BY <2>1, <2>2, OnceFrame
<1>3. CASE Campaign
  <2>1. /\ execPc = "campaign" /\ dir' = dir /\ execPc' = "rows" /\ dir \in Dirs
        /\ rows' = [rows EXCEPT ![dir] = [batch |-> batchId, run |-> runs,
                                          results |-> NoResults]]
        /\ UNCHANGED <<summaries, sources, poolSources, collected, poolRows, poolPc, todo>>
    BY <1>3 DEF Campaign, poolFiles, poolVars, QueueInv, RunInv, Marked
  <2>2. /\ rows \in [Dirs -> RowFiles]
        /\ \A d \in Dirs : d # dir => rows'[d] = rows[d]
    BY <2>1 DEF QueueInv, TypeOK
  <2>3. rows[dir].run = 0
    BY <2>1 DEF OnceInv
  <2>4. summaries[dir].run = 0
    BY <2>1, <2>3 DEF GatherInv, QueueInv, TypeOK, Summaries
  <2>5. \A s \in sources \cup poolSources : s.dir # dir /\ s.dir \in Dirs
    <3> SUFFICES ASSUME NEW s \in sources \cup poolSources
                 PROVE  s.dir # dir /\ s.dir \in Dirs
      OBVIOUS
    <3>1. 0 < s.run /\ s.run <= rows[s.dir].run
      BY DEF GatherInv, Vouched
    <3>2. s.dir \in Dirs /\ s.run \in Int
      BY DEF QueueInv, TypeOK, Sources
    <3> QED
      BY <2>3, <3>1, <3>2
  <2>6. \A s \in sources \cup poolSources : rows'[s.dir] = rows[s.dir]
    BY <2>2, <2>5
  <2>7. /\ \A r \in collected : rows'[r.dir] = rows[r.dir]
        /\ \A r \in poolRows : rows'[r.dir] = rows[r.dir]
    BY <2>6 DEF OnceInv
  <2> QED
    BY <2>1, <2>2, <2>4, <2>6, <2>7 DEF OnceInv
<1>4. CASE WriteRow
  <2>1. /\ execPc = "rows" /\ execPc' = "rows" /\ dir \in Dirs
        /\ UNCHANGED <<summaries, sources, poolSources, collected, poolRows, poolPc, todo>>
        /\ rows \in [Dirs -> RowFiles]
        /\ \E f : rows' = [rows EXCEPT ![dir].results = f]
    BY <1>4 DEF WriteRow, poolFiles, poolVars, execVars, QueueInv, TypeOK, RunInv, Marked
  <2>2. \A d \in Dirs : rows'[d].run = rows[d].run
    BY <2>1 DEF RowFiles
  <2>3. /\ \A s \in sources \cup poolSources : s.dir \in Dirs
        /\ \A r \in collected \cup poolRows : r.dir \in Dirs
    BY DEF QueueInv, TypeOK, Sources, PoolRows
  <2> QED
    BY <2>1, <2>2, <2>3 DEF OnceInv
<1>5. CASE WriteSummary
  <2>1. /\ execPc = "rows" /\ execPc' = "idle" /\ dir \in Dirs
        /\ summaries' = [summaries EXCEPT ![dir] = [batch |-> batchId, run |-> runs,
                                                    outcome |-> outcome]]
        /\ UNCHANGED <<rows, sources, poolSources, collected, poolRows, poolPc, todo>>
        /\ rows[dir].run = runs
    BY <1>5 DEF WriteSummary, ExecutorForgets, poolFiles, poolVars, QueueInv, RunInv, Marked,
                Evaluating
  <2>2. \A d \in Dirs : summaries'[d].run = IF d = dir THEN runs ELSE summaries[d].run
    BY <2>1 DEF QueueInv, TypeOK
  <2> QED
    BY <2>1, <2>2 DEF OnceInv
<1> QED
  BY <1>1, <1>2, <1>3, <1>4, <1>5 DEF ExecutorWorks

\* The pool: what is gathered from a directory is of its one execution.
LEMMA OncePool ==
    ASSUME QueueInv, GatherInv, OnceInv, PoolWorks \/ PoolStops
    PROVE  OnceInv'
<1>0. UNCHANGED <<rows, summaries, execPc, dir>>
  BY DEF PoolWorks, PoolStops, BeginPool, ScanDir, EndScan, CombineDir, WritePool,
         WritePoolSummary, runFiles, execVars
<1>1. CASE BeginPool \/ EndScan
  BY <1>0, <1>1 DEF BeginPool, EndScan, poolFiles, OnceInv
<1>2. CASE ScanDir
  <2>1. PICK d \in Next1(todo) :
            sources' = IF TakesDir(d)
                       THEN sources \cup {[dir |-> d, batch |-> summaries[d].batch,
                                           run |-> summaries[d].run]}
                       ELSE sources
    BY <1>2 DEF ScanDir
  <2>2. d \in Dirs /\ poolPc' = "scan" /\ UNCHANGED <<poolSources, collected, poolRows>>
    BY <1>2, <2>1 DEF ScanDir, Next1, poolFiles, QueueInv, TypeOK
  <2>3. TakesDir(d) => summaries[d].run = rows[d].run
    BY <2>2 DEF TakesDir, OnceInv
  <2>4. \A s \in sources' : s.run = rows[s.dir].run
    BY <2>1, <2>3 DEF OnceInv
  <2>5. sources \subseteq sources'
    BY <2>1
  <2> QED
    BY <1>0, <2>2, <2>4, <2>5 DEF OnceInv
<1>3. CASE CombineDir
  <2>1. PICK d \in Next1(todo) :
            \/ PoolForgets
            \/ /\ collected' = collected \cup RowsOf(d)
               /\ todo' = todo \ {d} /\ UNCHANGED <<poolPc, sources>>
    BY <1>3 DEF CombineDir
  <2>2. UNCHANGED <<poolSources, poolRows>>
    BY <1>3 DEF CombineDir, poolFiles
  <2>3. CASE PoolForgets
    BY <1>0, <2>2, <2>3 DEF PoolForgets, OnceInv
  <2>4. CASE /\ collected' = collected \cup RowsOf(d)
             /\ todo' = todo \ {d} /\ UNCHANGED <<poolPc, sources>>
    <3>1. \E s \in sources : s.dir = d
      BY <1>3 DEF CombineDir, Next1, OnceInv
    <3> QED
      BY <1>0, <2>2, <2>4, <3>1, RowsAreOfRun DEF OnceInv
  <2> QED
    BY <2>1, <2>3, <2>4
<1>4. CASE WritePool
  BY <1>0, <1>4 DEF WritePool, OnceInv
<1>5. CASE WritePoolSummary \/ PoolStops
  BY <1>0, <1>5 DEF WritePoolSummary, PoolStops, PoolForgets, poolFiles, OnceInv
<1> QED
  BY <1>1, <1>2, <1>3, <1>4, <1>5 DEF PoolWorks

LEMMA OnceNext ==
    ASSUME QueueInv, GatherInv, OnceInv, [Next]_vars, [NewDirectory]_vars
    PROVE  OnceInv'
<1>1. CASE UNCHANGED vars \/ Download \/ BuilderWorks \/ BuilderStops
  <2>1. /\ UNCHANGED <<rows, summaries, sources, poolSources, collected, poolRows, poolPc,
                       todo>>
        /\ UNCHANGED <<execPc, dir>>
    BY <1>1 DEF vars, Download, BuilderWorks, BuilderStops, BeginBuild, WriteMatrixRow, BeginJobs,
                WriteJobRow, BeginBatches, WriteBatchRow, EndBuild, runFiles, poolFiles,
                execVars, poolVars
  <2> QED
    BY <2>1, OnceFrame DEF OnceInv
<1>2. CASE ExecutorStops
  <2>1. /\ UNCHANGED <<rows, summaries, sources, poolSources, collected, poolRows, poolPc,
                       todo>>
        /\ execPc' = "idle"
    BY <1>2 DEF ExecutorStops, ExecutorForgets, runFiles, poolFiles, poolVars
  <2> QED
    BY <2>1, OnceFrame
<1>3. CASE ExecutorWorks /\ ~UNCHANGED vars
  BY <1>3, OnceExecutor
<1>4. CASE PoolWorks \/ PoolStops
  BY <1>4, OncePool
<1> QED
  BY <1>1, <1>2, <1>3, <1>4 DEF Next

LEMMA OnceInit == Init => OnceInv
BY DEF Init, OnceInv

\* With a new directory for each execution, the queue's evidence is never mixed.
THEOREM OnceHolds == Spec /\ NewDirectories => []OnceInv
BY OnceInit, OnceNext, InvHolds, GatherHolds, PTL DEF Spec, NewDirectories

\* With a new directory for each execution the pool is append-only, as its
\* function says of itself (csr_queue_training_pool.py:27): what finding
\* PoolIsAppendOnly shows needs an execution in a directory that was used before.
THEOREM AppendOnlyHolds == Spec /\ NewDirectories => PoolIsAppendOnly
<1> DEFINE Leaves == \A r \in poolRows \ poolRows' :
                         \/ rows[r.dir].run # r.run
                         \/ \A s \in poolSources : s.dir = r.dir => s.run # r.run
           Keeps == {Key(r) : r \in poolRows} \subseteq {Key(r) : r \in poolRows'}
<1>1. OnceInv /\ [Leaves]_vars => [Keeps]_vars
  <2> SUFFICES ASSUME OnceInv, Leaves PROVE poolRows \subseteq poolRows'
    OBVIOUS
  <2> SUFFICES ASSUME NEW r \in poolRows, r \notin poolRows' PROVE FALSE
    OBVIOUS
  <2>1. rows[r.dir].run = r.run
    BY DEF OnceInv
  <2>2. PICK s \in poolSources : s.dir = r.dir
    BY DEF OnceInv
  <2>3. s.run = r.run
    BY <2>1, <2>2 DEF OnceInv
  <2> QED
    BY <2>1, <2>2, <2>3
<1> QED
  BY <1>1, OnceHolds, RowsHold, PTL DEF RowsLeaveOnlyByExecution, PoolIsAppendOnly

-----------------------------------------------------------------------------
(* One queue *)

\* The rule about builds.
OneQueue == builds <= 1

AllOf(b) == Members(queued, b) \X Candidates

\* As long as the queue is built once, every file and everything that was read is
\* of its one plan, and what the pool takes for completed, it has rows of.
PlanInv ==
    /\ builds = 0 =>
           /\ builderPc = "idle" /\ matrixFile = {} /\ jobFile = {} /\ batchFile = {}
           /\ batchMatrices = {} /\ batchJobs = {}
           /\ execPc \in {"idle", "jobs", "batches"}
           /\ \A d \in Dirs : summaries[d].run = 0
    /\ matrixFile \subseteq MatrixRowsOf(queued)
    /\ jobFile \subseteq JobRowsOf(queued)
    /\ batchFile \subseteq BatchRowsOf(queued)
    /\ batchJobs \subseteq AllOf(batchId)
    /\ execPc \in {"idle", "jobs"} => batchJobs = {}
    /\ execPc = "campaign" => batchJobs # {} /\ batch.jobs = Cardinality(AllOf(batchId))
    /\ execPc = "rows" /\ outcome \in Passed =>
           DOMAIN results # {} /\ DOMAIN results = AllOf(batchId)
    /\ \A d \in Dirs : TakesDir(d) =>
           /\ DOMAIN rows[d].results # {}
           /\ DOMAIN rows[d].results = AllOf(summaries[d].batch)
    /\ poolSummary.completed \subseteq {s.batch : s \in poolSources}
    /\ poolPc = "summary" => sources = poolSources

LEMMA PlanBuilder ==
    ASSUME PlanInv, BuilderWorks \/ BuilderStops, builds \in Nat, OneQueue'
    PROVE  PlanInv'
<1>1. UNCHANGED <<rows, summaries, poolSources, poolSummary, execPc, batchId, batchMatrices,
                  batchJobs, batch, results, outcome, poolPc, sources>>
  BY DEF BuilderWorks, BuilderStops, BeginBuild, WriteMatrixRow, BeginJobs, WriteJobRow,
         BeginBatches, WriteBatchRow, EndBuild, runFiles, poolFiles, execVars, poolVars
<1>2. CASE BeginBuild
  <2>1. /\ builds = 0 /\ builds' = 1
        /\ matrixFile' = {} /\ jobFile' = jobFile /\ batchFile' = batchFile
    BY <1>2 DEF BeginBuild, OneQueue
  <2>2. /\ jobFile = {} /\ batchFile = {} /\ batchJobs = {}
        /\ execPc \in {"idle", "jobs", "batches"}
        /\ \A d \in Dirs : ~TakesDir(d)
    BY <2>1 DEF PlanInv, TakesDir
  <2>3. \A d \in Dirs : ~TakesDir(d)'
    BY <1>1, <2>2 DEF TakesDir
  <2> QED
    BY <1>1, <2>1, <2>2, <2>3 DEF PlanInv
<1>3. CASE ~BeginBuild
  <2>1. /\ UNCHANGED <<builds, queued>>
        /\ builds # 0
        /\ matrixFile' \subseteq MatrixRowsOf(queued)
        /\ jobFile' \subseteq JobRowsOf(queued)
        /\ batchFile' \subseteq BatchRowsOf(queued)
    BY <1>3 DEF PlanInv, BuilderWorks, BuilderStops, WriteMatrixRow, BeginJobs, WriteJobRow,
                BeginBatches, WriteBatchRow, EndBuild, queueFiles, builderVars
  <2> QED
    BY <1>1, <2>1 DEF PlanInv, AllOf, TakesDir
<1> QED
  BY <1>2, <1>3

\* The jobs of a batch in the queue's file are those of its members.
LEMMA JobsOfBatch ==
    ASSUME NEW plan, NEW b
    PROVE  /\ \A r \in JobRowsOf(plan) : r.batch = b => r.job \in Members(plan, b) \X Candidates
           /\ \A r \in BatchRowsOf(plan) :
                  r.batch = b => r.jobs = Cardinality(Members(plan, b) \X Candidates)
           /\ \A r \in MatrixRowsOf(plan) : r.batch = b => r.matrix \in Members(plan, b)
<1>1. \A r \in JobRowsOf(plan) : r.batch = b => r.job \in Members(plan, b) \X Candidates
  <2> SUFFICES ASSUME NEW j \in plan \X Candidates, BatchOf(plan, j[1]) = b
               PROVE  j \in Members(plan, b) \X Candidates
    BY DEF JobRowsOf
  <2> QED
    BY DEF Members
<1>2. \A r \in BatchRowsOf(plan) :
          r.batch = b => r.jobs = Cardinality(Members(plan, b) \X Candidates)
  <2> SUFFICES ASSUME NEW r \in BatchRowsOf(plan), r.batch = b
               PROVE  r.jobs = Cardinality(Members(plan, b) \X Candidates)
    OBVIOUS
  <2>1. PICK c : r = BatchRow(Members(plan, c), c)
    BY DEF BatchRowsOf, Members
  <2>2. r.batch = c /\ r.jobs = Cardinality(Members(plan, c) \X Candidates)
    BY <2>1 DEF BatchRow
  <2> QED
    BY <2>2
<1>3. \A r \in MatrixRowsOf(plan) : r.batch = b => r.matrix \in Members(plan, b)
  BY DEF MatrixRowsOf, Members
<1> QED
  BY <1>1, <1>2, <1>3

\* Counting is enough here as well: as many jobs evaluated as the batch has.
LEMMA PassedIsAll ==
    ASSUME QueueInv, PlanInv, execPc = "campaign", batchId \in BatchIds,
           NEW imported \in SUBSET batchMatrices,
           NEW evaluated \in [{j \in batchJobs : j[1] \in imported} -> Statuses],
           BatchOutcome(imported, evaluated) \in Passed
    PROVE  DOMAIN evaluated # {} /\ DOMAIN evaluated = AllOf(batchId)
<1>1. Accounted(imported, evaluated)
  BY DEF BatchOutcome, Passed
<1>2. /\ Cardinality(DOMAIN evaluated) = Cardinality(batchJobs)
      /\ Cardinality(batchJobs) = Cardinality(AllOf(batchId))
      /\ DOMAIN evaluated \subseteq batchJobs /\ batchJobs \subseteq AllOf(batchId)
      /\ batchJobs # {}
  BY <1>1 DEF Accounted, PlanInv
<1>3. IsFiniteSet(AllOf(batchId))
  <2>1. Members(queued, batchId) \subseteq Matrices
    BY DEF Members, QueueInv, TypeOK
  <2> QED
    BY <2>1, FS_Subset, FS_Product, IndexAssumption, CandidatesAssumption DEF AllOf
<1>4. batchJobs = AllOf(batchId)
  BY <1>2, <1>3, FS_Subset
<1>5. DOMAIN evaluated = batchJobs
  BY <1>2, <1>3, <1>4, FS_Subset
<1> QED
  BY <1>2, <1>4, <1>5

LEMMA PlanExecutor ==
    ASSUME QueueInv, GatherInv, OnceInv, PlanInv, ExecutorWorks \/ ExecutorStops
    PROVE  PlanInv'
<1> DEFINE Rest == UNCHANGED <<builds, builderPc, queued, matrixFile, jobFile, batchFile,
                               poolSources, poolSummary, poolPc, sources>>
<1>1. Rest
  BY DEF ExecutorWorks, ExecutorStops, BeginExecution, ReadJobs, ReadBatch, Campaign, WriteRow,
         WriteSummary, queueFiles, builderVars, poolFiles, poolVars
<1>2. CASE BeginExecution
  <2>1. /\ UNCHANGED <<rows, summaries, batchJobs>> /\ execPc = "idle" /\ execPc' = "jobs"
        /\ matrixFile = {} => batchMatrices' = {}
    BY <1>2 DEF BeginExecution, runFiles
  <2>2. batchJobs = {}
    BY <2>1 DEF PlanInv
  <2> QED
    BY <1>1, <2>1, <2>2 DEF PlanInv, AllOf, TakesDir
<1>3. CASE ExecutorForgets /\ UNCHANGED <<rows, summaries>>
  BY <1>1, <1>3 DEF ExecutorForgets, PlanInv, AllOf, TakesDir
<1>4. CASE ReadJobs
  <2>1. /\ UNCHANGED <<rows, summaries, batchId, batchMatrices>> /\ execPc' = "batches"
        /\ batchJobs' = {r.job : r \in {s \in jobFile : s.batch = batchId}}
    BY <1>4 DEF ReadJobs, runFiles
  <2>2. batchJobs' \subseteq AllOf(batchId)
    <3>1. jobFile \subseteq JobRowsOf(queued)
      BY DEF PlanInv
    <3>2. \A r \in JobRowsOf(queued) : r.batch = batchId => r.job \in AllOf(batchId)
      BY JobsOfBatch DEF AllOf
    <3> QED
      BY <2>1, <3>1, <3>2
  <2>3. jobFile = {} => batchJobs' = {}
    BY <2>1
  <2> QED
    BY <1>1, <2>1, <2>2, <2>3 DEF PlanInv, AllOf, TakesDir
<1>5. CASE ReadBatch /\ ~ExecutorForgets
  <2>1. /\ UNCHANGED <<rows, summaries, batchId, batchMatrices, batchJobs>>
        /\ execPc' = "campaign" /\ batchJobs # {}
        /\ batch' \in batchFile /\ batch'.batch = batchId
    BY <1>5 DEF ReadBatch, runFiles
  <2>2. batch'.jobs = Cardinality(AllOf(batchId))
    BY <2>1, JobsOfBatch DEF PlanInv, AllOf
  <2> QED
    BY <1>1, <2>1, <2>2 DEF PlanInv, AllOf, TakesDir
<1>6. CASE Campaign
  <2>1. /\ execPc = "campaign" /\ execPc' = "rows" /\ dir \in Dirs /\ batchId \in BatchIds
        /\ UNCHANGED <<summaries, batchId, batchMatrices, batchJobs>>
        /\ \A d \in Dirs : d # dir => rows'[d] = rows[d]
    BY <1>6 DEF Campaign, QueueInv, RunInv, Marked
  <2>2. PICK imported \in SUBSET batchMatrices :
            /\ results' \in [{j \in batchJobs : j[1] \in imported} -> Statuses]
            /\ outcome' = BatchOutcome(imported, results')
    BY <1>6 DEF Campaign
  <2>3. PICK evaluated : evaluated = results'
    OBVIOUS
  <2>4. outcome' \in Passed => DOMAIN results' # {} /\ DOMAIN results' = AllOf(batchId)
    BY <2>1, <2>2, <2>3, PassedIsAll
  <2>5. ~TakesDir(dir)
    BY <2>1 DEF OnceInv, TakesDir
  <2>6. \A d \in Dirs : TakesDir(d)' => TakesDir(d) /\ rows'[d] = rows[d]
    BY <2>1, <2>5 DEF TakesDir
  <2>7. builds # 0
    BY <2>1 DEF PlanInv
  <2> QED
    BY <1>1, <2>1, <2>4, <2>6, <2>7 DEF PlanInv, AllOf
<1>7. CASE WriteRow
  <2>1. /\ execPc = "rows" /\ dir \in Dirs
        /\ UNCHANGED <<summaries, execPc, batchId, batchMatrices, batchJobs, batch, results,
                       outcome>>
        /\ \A d \in Dirs : d # dir => rows'[d] = rows[d]
        /\ rows[dir].run = runs /\ summaries[dir].run < runs
    BY <1>7 DEF WriteRow, execVars, QueueInv, RunInv, Marked, Evaluating
  <2>2. ~TakesDir(dir)
    <3>1. runs \in Int /\ summaries[dir].run \in Int
      BY <2>1 DEF QueueInv, TypeOK, Summaries
    <3> QED
      BY <2>1, <3>1 DEF OnceInv, TakesDir
  <2>3. \A d \in Dirs : TakesDir(d)' => TakesDir(d) /\ rows'[d] = rows[d]
    BY <2>1, <2>2 DEF TakesDir
  <2> QED
    BY <1>1, <2>1, <2>3 DEF PlanInv, AllOf
<1>8. CASE WriteSummary
  <2>1. /\ execPc = "rows" /\ ExecutorForgets /\ rows' = rows /\ dir \in Dirs
        /\ summaries' = [summaries EXCEPT ![dir] = [batch |-> batchId, run |-> runs,
                                                    outcome |-> outcome]]
        /\ DOMAIN rows[dir].results = DOMAIN results
    BY <1>8 DEF WriteSummary, Unwritten, QueueInv, RunInv, Marked, Evaluating
  <2>2. \A d \in Dirs : summaries'[d] = IF d = dir
                                        THEN [batch |-> batchId, run |-> runs,
                                              outcome |-> outcome]
                                        ELSE summaries[d]
    BY <2>1 DEF QueueInv, TypeOK
  <2>3. outcome \in Passed => DOMAIN rows[dir].results # {}
                              /\ DOMAIN rows[dir].results = AllOf(batchId)
    BY <2>1 DEF PlanInv
  <2>4. builds # 0
    BY <2>1 DEF PlanInv
  <2>5. \A d \in Dirs : TakesDir(d)' =>
            /\ DOMAIN rows'[d].results # {}
            /\ DOMAIN rows'[d].results = AllOf(summaries'[d].batch)
    BY <2>1, <2>2, <2>3 DEF TakesDir, PlanInv
  <2> QED
    BY <1>1, <2>1, <2>4, <2>5 DEF ExecutorForgets, PlanInv, AllOf
<1> QED
  BY <1>2, <1>3, <1>4, <1>5, <1>6, <1>7, <1>8
  DEF ExecutorWorks, ExecutorStops, ReadBatch, WriteSummary, runFiles

LEMMA PlanPool ==
    ASSUME QueueInv, GatherInv, OnceInv, PlanInv, PoolWorks \/ PoolStops
    PROVE  PlanInv'
<1>1. UNCHANGED <<builds, builderPc, queued, matrixFile, jobFile, batchFile, rows, summaries,
                  execPc, batchId, batchMatrices, batchJobs, batch, results, outcome>>
  BY DEF PoolWorks, PoolStops, BeginPool, ScanDir, EndScan, CombineDir, WritePool,
         WritePoolSummary, queueFiles, builderVars, runFiles, execVars
<1>2. /\ poolSummary'.completed \subseteq {s.batch : s \in poolSources'}
      /\ poolPc' = "summary" => sources' = poolSources'
  <2>1. CASE WritePool
    <3>1. poolSources \subseteq sources
      <4>1. \A s \in poolSources : Again(s)
        BY <2>1 DEF WritePool, GatherInv
      <4> QED
        BY <4>1 DEF Again, OnceInv
    <3> QED
      BY <2>1, <3>1 DEF WritePool, PlanInv
  <2>2. CASE WritePoolSummary
    BY <2>2 DEF WritePoolSummary, PoolForgets, PlanInv
  <2>3. CASE BeginPool \/ ScanDir \/ EndScan \/ CombineDir \/ PoolStops
    BY <2>3 DEF BeginPool, ScanDir, EndScan, CombineDir, PoolStops, PoolForgets, poolFiles, PlanInv
  <2> QED
    BY <2>1, <2>2, <2>3 DEF PoolWorks
<1> QED
  BY <1>1, <1>2 DEF PlanInv, AllOf, TakesDir

LEMMA PlanNext ==
    ASSUME QueueInv, GatherInv, OnceInv, PlanInv, OneQueue', [Next]_vars
    PROVE  PlanInv'
<1>1. CASE UNCHANGED vars \/ Download
  <2>1. UNCHANGED <<queueFiles, runFiles, poolFiles, builderVars, execVars, poolVars>>
    BY <1>1 DEF vars, Download
  <2> QED
    BY <2>1 DEF queueFiles, runFiles, poolFiles, builderVars, execVars, poolVars, PlanInv, AllOf,
                TakesDir
<1>2. CASE BuilderWorks \/ BuilderStops
  <2>1. builds \in Nat
    BY BoundsAssumption DEF QueueInv, TypeOK
  <2> QED
    BY <1>2, <2>1, PlanBuilder
<1>3. CASE ExecutorWorks \/ ExecutorStops
  BY <1>3, PlanExecutor
<1>4. CASE PoolWorks \/ PoolStops
  BY <1>4, PlanPool
<1> QED
  BY <1>1, <1>2, <1>3, <1>4 DEF Next

LEMMA PlanInit == Init => PlanInv
BY DEF Init, PlanInv, TakesDir, Passed

\* A matrix of a completed batch has a row: the first candidate's, if no other.
LEMMA CompletedHaveRows ==
    ASSUME QueueInv, GatherInv, OnceInv, PlanInv
    PROVE  CompletedBatchesAreProfiled
<1> SUFFICES ASSUME NEW r \in matrixFile, r.batch \in poolSummary.completed
             PROVE  \E q \in poolRows : q.job[1] = r.matrix
  BY DEF CompletedBatchesAreProfiled
<1>1. PICK s \in poolSources : s.batch = r.batch
  BY DEF PlanInv
<1>2. /\ s.dir \in Dirs /\ s.run = rows[s.dir].run
      /\ Vouched(s) /\ {q \in poolRows : q.dir = s.dir} = RowsOf(s.dir)
  BY DEF QueueInv, TypeOK, Sources, OnceInv, GatherInv, Gathered
<1>3. TakesDir(s.dir) /\ summaries[s.dir].batch = r.batch
  BY <1>1, <1>2 DEF Vouched, TakesDir
<1>4. DOMAIN rows[s.dir].results # {} /\ DOMAIN rows[s.dir].results = AllOf(r.batch)
  BY <1>2, <1>3 DEF PlanInv
<1>5. r.matrix \in Members(queued, r.batch)
  BY JobsOfBatch DEF PlanInv
<1>6. PICK c \in Candidates : <<r.matrix, c>> \in DOMAIN rows[s.dir].results
  BY <1>4, <1>5 DEF AllOf
<1>7. \E q \in RowsOf(s.dir) : q.job = <<r.matrix, c>>
  <2> DEFINE j == <<r.matrix, c>>
             q == [dir |-> s.dir, run |-> rows[s.dir].run, batch |-> rows[s.dir].batch,
                   job |-> j, status |-> rows[s.dir].results[j]]
  <2>1. q \in RowsOf(s.dir)
    BY <1>6 DEF RowsOf
  <2>2. q.job = j
    OBVIOUS
  <2> QED
    BY <2>1, <2>2
<1> QED
  BY <1>2, <1>7

\* With a new directory for each execution and the queue built once, what the pool
\* calls completed has been run (csr_full_dataset_queue.py:559, api.py:849): what
\* the finding CompletedBatchesAreProfiled shows needs one of the two broken.
THEOREM CompletedHolds ==
    Spec /\ NewDirectories /\ []OneQueue => []CompletedBatchesAreProfiled
<1>1. QueueInv /\ GatherInv /\ OnceInv /\ PlanInv => CompletedBatchesAreProfiled
  BY CompletedHaveRows
<1> QED
  BY <1>1, PlanInit, PlanNext, InvHolds, GatherHolds, OnceHolds, PTL DEF Spec
=============================================================================
