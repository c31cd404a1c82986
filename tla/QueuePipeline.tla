---------------------------- MODULE QueuePipeline ----------------------------
(***************************************************************************)
(* The full-dataset profiling queue: three scripts that are started by     *)
(* hand, any number of times, and talk through files.                      *)
(*                                                                         *)
(*   builder   tss_csr_full_dataset_queue: cuts the matrices that have no  *)
(*             selector rows yet into numbered batches and writes the      *)
(*             queue's files (profiling/csr_full_dataset_queue.py)         *)
(*   executor  tss_csr_queue_batch_execute: imports, screens and solves    *)
(*             one batch, and writes its selector rows and its summary     *)
(*             (profiling/csr_queue_batch_execution.py,                    *)
(*             profiling/csr_micro_campaign.py)                            *)
(*   pool      tss_csr_queue_training_pool: gathers the rows of the        *)
(*             batches that passed (profiling/csr_queue_training_pool.py)  *)
(*                                                                         *)
(* A file is truncated and written again row by row, without a lock, and a *)
(* script may stop anywhere: by an exception, or because it is killed.     *)
(* Archives reach the disk while all this goes on.                         *)
(***************************************************************************)
EXTENDS Integers, FiniteSets

CONSTANTS
    Matrices,    \* the index, a matrix being its place in it
    Candidates,  \* places in the list of templates that a matrix is tried with:
                 \*   symmetric matrices have other templates, but as many
    BatchSize,   \* batch_matrix_count
    Profiled,    \* matrices that the base selector rows are about
    Dirs,        \* output directories of the executor, in the order of their names
    MaxBuilds,   \* bounds: queues built,
    MaxRuns,     \*   batches executed,
    MaxPools     \*   pools built

ASSUME IndexAssumption == Matrices \subseteq Nat /\ IsFiniteSet(Matrices)
ASSUME CandidatesAssumption == IsFiniteSet(Candidates)
ASSUME BatchSizeAssumption == BatchSize \in Nat \ {0}
ASSUME ProfiledAssumption == Profiled \subseteq Matrices
ASSUME DirsAssumption == Dirs \subseteq Nat \ {0}
ASSUME BoundsAssumption == {MaxBuilds, MaxRuns, MaxPools} \subseteq Nat

VARIABLES
    present,     \* matrices whose archive is on the disk, within the limits
    matrixFile,  \* csr_full_dataset_queue_matrices.jsonl, its queued rows
    jobFile,     \* csr_full_dataset_queue_jobs.jsonl
    batchFile,   \* csr_full_dataset_queue_batches.jsonl
    rows,        \* csr_micro_selector_rows.jsonl, for each directory
    summaries,   \* csr_queue_batch_execution_summary.json, for each directory
    poolRows,    \* csr_queue_training_pool_selector_rows.jsonl, its queue rows
    poolSources, \* csr_queue_training_pool_sources.jsonl, its queue sources
    poolSummary, \* csr_queue_training_pool_summary.json
    builds,      \* queues built so far
    builderPc,   \* the file that the builder is writing, or "idle"
    queued,      \* queued_source
    runs,        \* executions started so far
    execPc,      \* where the executor is
    batchId,     \* --batch-id
    dir,         \* --out
    batchMatrices, batchJobs, batch,   \* what it read from the queue's files
    results,     \* the status of each job that it evaluated
    outcome,     \* batch_outcome
    pools,       \* pools built so far
    poolPc,      \* where the pool is
    batchRows,   \* the batches that it read from the queue's file
    todo,        \* directories that it has still to look at
    sources,     \* queue_sources
    collected    \* selector_rows

queueFiles  == <<matrixFile, jobFile, batchFile>>
runFiles    == <<rows, summaries>>
poolFiles   == <<poolRows, poolSources, poolSummary>>
builderVars == <<builds, builderPc, queued>>
execVars    == <<runs, execPc, batchId, dir, batchMatrices, batchJobs, batch, results, outcome>>
poolVars    == <<pools, poolPc, batchRows, todo, sources, collected>>
vars == <<present, queueFiles, runFiles, poolFiles, builderVars, execVars, poolVars>>

-----------------------------------------------------------------------------
Jobs     == Matrices \X Candidates
BatchIds == 1 .. Cardinality(Matrices)
Statuses == {"success", "screened_out", "failed"}
Results  == UNION {[S -> Statuses] : S \in SUBSET Jobs}
Outcomes == {"profiled_with_gpu_success", "screen_only_no_oracle", "failed"}
Passed   == {"profiled_with_gpu_success", "screen_only_no_oracle"}

\* Rows of the queue's files.
MatrixRows == [matrix : Matrices, batch : BatchIds]
JobRows    == [job : Jobs, batch : BatchIds]
BatchRows  == [batch : BatchIds, matrices : Nat, jobs : Nat]

\* What a directory holds.  The context_id of a row names the batch; "run" says
\* which execution wrote the file, and is nowhere in it.
RowFiles  == [batch : BatchIds \cup {0}, run : 0 .. MaxRuns, results : Results]
Summaries == [batch : BatchIds \cup {0}, run : 0 .. MaxRuns, outcome : Outcomes]

\* What the pool holds.
Sources  == [dir : Dirs, batch : BatchIds, run : 0 .. MaxRuns]
PoolRows == [dir : Dirs, run : 0 .. MaxRuns, batch : BatchIds, job : Jobs, status : Statuses]

NoResults == [job \in {} |-> "failed"]
NoBatch   == [batch |-> 0, matrices |-> 0, jobs |-> 0]

TypeOK ==
    /\ present \subseteq Matrices
    /\ matrixFile \subseteq MatrixRows
    /\ jobFile \subseteq JobRows
    /\ batchFile \subseteq BatchRows
    /\ rows \in [Dirs -> RowFiles]
    /\ summaries \in [Dirs -> Summaries]
    /\ poolRows \subseteq PoolRows
    /\ poolSources \subseteq Sources
    /\ poolSummary \in [completed : SUBSET BatchIds, pending : SUBSET BatchIds,
                        build : 0 .. MaxBuilds]
    /\ builds \in 0 .. MaxBuilds
    /\ builderPc \in {"idle", "matrices", "jobs", "batches"}
    /\ queued \subseteq Matrices
    /\ runs \in 0 .. MaxRuns
    /\ execPc \in {"idle", "jobs", "batches", "campaign", "rows"}
    /\ batchId \in BatchIds \cup {0}
    /\ dir \in Dirs \cup {0}
    /\ batchMatrices \subseteq Matrices
    /\ batchJobs \subseteq Jobs
    /\ batch \in BatchRows \cup {NoBatch}
    /\ results \in Results
    /\ outcome \in Outcomes
    /\ pools \in 0 .. MaxPools
    /\ poolPc \in {"idle", "scan", "combine", "summary"}
    /\ batchRows \in [ids : SUBSET BatchIds, build : 0 .. MaxBuilds]
    /\ todo \subseteq Dirs
    /\ sources \subseteq Sources
    /\ collected \subseteq PoolRows

Init ==
    /\ present \in SUBSET Matrices
    /\ matrixFile = {} /\ jobFile = {} /\ batchFile = {}
    /\ rows = [d \in Dirs |-> [batch |-> 0, run |-> 0, results |-> NoResults]]
    /\ summaries = [d \in Dirs |-> [batch |-> 0, run |-> 0, outcome |-> "failed"]]
    /\ poolRows = {} /\ poolSources = {}
    /\ poolSummary = [completed |-> {}, pending |-> {}, build |-> 0]
    /\ builds = 0 /\ builderPc = "idle" /\ queued = {}
    /\ runs = 0 /\ execPc = "idle" /\ batchId = 0 /\ dir = 0
    /\ batchMatrices = {} /\ batchJobs = {} /\ batch = NoBatch
    /\ results = NoResults /\ outcome = "failed"
    /\ pools = 0 /\ poolPc = "idle" /\ batchRows = [ids |-> {}, build |-> 0]
    /\ todo = {} /\ sources = {} /\ collected = {}

\* Another archive is there, and in the index.
Download ==
    /\ \E m \in Matrices \ present : present' = present \cup {m}
    /\ UNCHANGED <<queueFiles, runFiles, poolFiles, builderVars, execVars, poolVars>>

-----------------------------------------------------------------------------
(* The builder.                                                            *)

\* Mutant of BatchOf: the count is not shifted.
BatchOfUnshifted(plan, m) == Cardinality({n \in plan : n <= m}) \div BatchSize + 1

\* Mutant of BatchOf: batches are numbered from zero.
BatchOfFromZero(plan, m) == Cardinality({n \in plan : n < m}) \div BatchSize

\* The batch of a queued matrix comes from its position alone.
BatchOf(plan, m) == Cardinality({n \in plan : n < m}) \div BatchSize + 1

MatrixRowsOf(plan) == {[matrix |-> m, batch |-> BatchOf(plan, m)] : m \in plan}

JobRowsOf(plan) ==
    {[job |-> j, batch |-> BatchOf(plan, j[1])] : j \in plan \X Candidates}

BatchRow(members, b) ==
    [batch |-> b, matrices |-> Cardinality(members),
     jobs |-> Cardinality(members \X Candidates)]

BatchRowsOf(plan) ==
    {BatchRow({n \in plan : BatchOf(plan, n) = b}, b) : b \in {BatchOf(plan, m) : m \in plan}}

\* The selector rows that tell what is profiled are the base rows, or the pool.
BeginBuild ==
    /\ builderPc = "idle"
    /\ builds < MaxBuilds
    /\ \E pooled \in {{}, {r.job[1] : r \in poolRows}} :
           queued' = present \ (Profiled \cup pooled)
    /\ builds' = builds + 1
    /\ builderPc' = "matrices"
    /\ matrixFile' = {}
    /\ UNCHANGED <<present, jobFile, batchFile, runFiles, poolFiles, execVars, poolVars>>

\* Rows are written in the order of the index.
WriteMatrixRow ==
    /\ builderPc = "matrices"
    /\ LET left == MatrixRowsOf(queued) \ matrixFile IN
       \E r \in left : /\ \A s \in left : r.matrix <= s.matrix
                       /\ matrixFile' = matrixFile \cup {r}
    /\ UNCHANGED <<present, jobFile, batchFile, runFiles, poolFiles, builderVars, execVars,
                   poolVars>>

BeginJobs ==
    /\ builderPc = "matrices"
    /\ MatrixRowsOf(queued) \subseteq matrixFile
    /\ builderPc' = "jobs"
    /\ jobFile' = {}
    /\ UNCHANGED <<present, matrixFile, batchFile, runFiles, poolFiles, builds, queued,
                   execVars, poolVars>>

WriteJobRow ==
    /\ builderPc = "jobs"
    /\ LET left == JobRowsOf(queued) \ jobFile IN
       \E r \in left : /\ \A s \in left : r.job[1] <= s.job[1]
                       /\ jobFile' = jobFile \cup {r}
    /\ UNCHANGED <<present, matrixFile, batchFile, runFiles, poolFiles, builderVars, execVars,
                   poolVars>>

BeginBatches ==
    /\ builderPc = "jobs"
    /\ JobRowsOf(queued) \subseteq jobFile
    /\ builderPc' = "batches"
    /\ batchFile' = {}
    /\ UNCHANGED <<present, matrixFile, jobFile, runFiles, poolFiles, builds, queued,
                   execVars, poolVars>>

WriteBatchRow ==
    /\ builderPc = "batches"
    /\ LET left == BatchRowsOf(queued) \ batchFile IN
       \E r \in left : /\ \A s \in left : r.batch <= s.batch
                       /\ batchFile' = batchFile \cup {r}
    /\ UNCHANGED <<present, matrixFile, jobFile, runFiles, poolFiles, builderVars, execVars,
                   poolVars>>

\* The queue's state, summary, schema and report follow; nothing reads them.
EndBuild ==
    /\ builderPc = "batches"
    /\ BatchRowsOf(queued) \subseteq batchFile
    /\ builderPc' = "idle"
    /\ UNCHANGED <<present, queueFiles, runFiles, poolFiles, builds, queued, execVars, poolVars>>

BuilderStops ==
    /\ builderPc # "idle"
    /\ builderPc' = "idle"
    /\ UNCHANGED <<present, queueFiles, runFiles, poolFiles, builds, queued, execVars, poolVars>>

-----------------------------------------------------------------------------
(* The executor.                                                           *)

\* What an execution leaves behind in memory: nothing.
ExecutorForgets ==
    /\ execPc' = "idle"
    /\ batchId' = 0 /\ dir' = 0
    /\ batchMatrices' = {} /\ batchJobs' = {} /\ batch' = NoBatch
    /\ results' = NoResults /\ outcome' = "failed"

\* The three files are read one after the other.
BeginExecution ==
    /\ execPc = "idle"
    /\ runs < MaxRuns
    /\ runs' = runs + 1
    /\ \E b \in BatchIds, d \in Dirs :
           /\ batchId' = b
           /\ dir' = d
           /\ batchMatrices' = {r.matrix : r \in {s \in matrixFile : s.batch = b}}
    /\ execPc' = "jobs"
    /\ UNCHANGED <<present, queueFiles, runFiles, poolFiles, builderVars, batchJobs, batch,
                   results, outcome, poolVars>>

ReadJobs ==
    /\ execPc = "jobs"
    /\ batchJobs' = {r.job : r \in {s \in jobFile : s.batch = batchId}}
    /\ execPc' = "batches"
    /\ UNCHANGED <<present, queueFiles, runFiles, poolFiles, builderVars, runs, batchId, dir,
                   batchMatrices, batch, results, outcome, poolVars>>

\* An unknown batch, or one without matrices or jobs, is refused.
ReadBatch ==
    /\ execPc = "batches"
    /\ LET found == {r \in batchFile : r.batch = batchId} IN
       IF found = {} \/ batchMatrices = {} \/ batchJobs = {}
       THEN ExecutorForgets
       ELSE /\ batch' \in found
            /\ execPc' = "campaign"
            /\ UNCHANGED <<batchId, dir, batchMatrices, batchJobs, results, outcome>>
    /\ UNCHANGED <<present, queueFiles, runFiles, poolFiles, builderVars, runs, poolVars>>

\* Mutant of Accounted: the batch's own job count is not compared.
AccountedInPart(imported, evaluated) ==
    /\ imported = batchMatrices
    /\ Cardinality(batchMatrices) = batch.matrices
    /\ Cardinality(DOMAIN evaluated) = Cardinality(batchJobs)

\* all_imported, and candidate_jobs == len(batch_jobs) == job_count.
Accounted(imported, evaluated) ==
    /\ imported = batchMatrices
    /\ Cardinality(batchMatrices) = batch.matrices
    /\ Cardinality(DOMAIN evaluated) = Cardinality(batchJobs)
    /\ Cardinality(batchJobs) = batch.jobs

SuccessOrScreen(evaluated) ==
    \A j \in DOMAIN evaluated : evaluated[j] \in {"success", "screened_out"}

\* Oracle rows are there exactly when a candidate succeeded.
BatchOutcome(imported, evaluated) ==
    IF ~Accounted(imported, evaluated) \/ ~SuccessOrScreen(evaluated) THEN "failed"
    ELSE IF \E j \in DOMAIN evaluated : evaluated[j] = "success"
         THEN "profiled_with_gpu_success"
         ELSE "screen_only_no_oracle"

\* run_csr_micro_campaign imports what it can and evaluates the jobs of what it
\* imported; then the file of the rows is opened.
Campaign ==
    /\ execPc = "campaign"
    /\ \E imported \in SUBSET batchMatrices :
           /\ results' \in [{j \in batchJobs : j[1] \in imported} -> Statuses]
           /\ outcome' = BatchOutcome(imported, results')
    /\ rows' = [rows EXCEPT ![dir] = [batch |-> batchId, run |-> runs,
                                      results |-> NoResults]]
    /\ execPc' = "rows"
    /\ UNCHANGED <<present, queueFiles, summaries, poolFiles, builderVars, runs, batchId, dir,
                   batchMatrices, batchJobs, batch, poolVars>>

Unwritten == DOMAIN results \ DOMAIN rows[dir].results

WriteRow ==
    /\ execPc = "rows"
    /\ \E j \in Unwritten :
           /\ \A k \in Unwritten : j[1] <= k[1]
           /\ rows' = [rows EXCEPT ![dir].results =
                           [k \in DOMAIN @ \cup {j} |-> results[k]]]
    /\ UNCHANGED <<present, queueFiles, summaries, poolFiles, builderVars, execVars, poolVars>>

\* Mutant of WriteSummary: the summary is written before the rows are.
WriteSummaryEarly ==
    /\ execPc = "rows"
    /\ summaries[dir].run # runs
    /\ summaries' = [summaries EXCEPT ![dir] = [batch |-> batchId, run |-> runs,
                                                outcome |-> outcome]]
    /\ UNCHANGED <<present, queueFiles, rows, poolFiles, builderVars, execVars, poolVars>>

WriteSummary ==
    /\ execPc = "rows"
    /\ Unwritten = {}
    /\ summaries' = [summaries EXCEPT ![dir] = [batch |-> batchId, run |-> runs,
                                                outcome |-> outcome]]
    /\ ExecutorForgets
    /\ UNCHANGED <<present, queueFiles, rows, poolFiles, builderVars, runs, poolVars>>

\* Mutant of ExecutorStops: the summary is written in any case.
ExecutorStopsSaying ==
    /\ execPc # "idle"
    /\ ExecutorForgets
    /\ summaries' = IF execPc = "rows"
                    THEN [summaries EXCEPT ![dir] = [batch |-> batchId, run |-> runs,
                                                     outcome |-> outcome]]
                    ELSE summaries
    /\ UNCHANGED <<present, queueFiles, rows, poolFiles, builderVars, runs, poolVars>>

\* A row cut in two, an exception of the solver, or a kill.
ExecutorStops ==
    /\ execPc # "idle"
    /\ ExecutorForgets
    /\ UNCHANGED <<present, queueFiles, runFiles, poolFiles, builderVars, runs, poolVars>>

-----------------------------------------------------------------------------
(* The pool.                                                               *)

PoolForgets ==
    /\ poolPc' = "idle"
    /\ batchRows' = [ids |-> {}, build |-> 0]
    /\ todo' = {} /\ sources' = {} /\ collected' = {}

BeginPool ==
    /\ poolPc = "idle"
    /\ pools < MaxPools
    /\ pools' = pools + 1
    /\ batchRows' = [ids |-> {r.batch : r \in batchFile}, build |-> builds]
    /\ todo' = Dirs
    /\ poolPc' = "scan"
    /\ UNCHANGED <<present, queueFiles, runFiles, poolFiles, builderVars, execVars, sources,
                   collected>>

\* Directories are taken in the order of their names.
Next1(S) == {d \in S : \A e \in S : d <= e}

\* _queue_batch_sources: the summary says whether the batch passed.
TakesDir(d) == summaries[d].run > 0 /\ summaries[d].outcome \in Passed

ScanDir ==
    /\ poolPc = "scan"
    /\ \E d \in Next1(todo) :
           /\ todo' = todo \ {d}
           /\ sources' = IF TakesDir(d)
                         THEN sources \cup {[dir |-> d, batch |-> summaries[d].batch,
                                             run |-> summaries[d].run]}
                         ELSE sources
    /\ UNCHANGED <<present, queueFiles, runFiles, poolFiles, builderVars, execVars, pools,
                   poolPc, batchRows, collected>>

\* Mutant of EndScan: only what the pool did not have before is combined.
EndScanOnlyNew ==
    /\ poolPc = "scan"
    /\ todo = {}
    /\ todo' = {s.dir : s \in sources \ poolSources}
    /\ poolPc' = "combine"
    /\ UNCHANGED <<present, queueFiles, runFiles, poolFiles, builderVars, execVars, pools,
                   batchRows, sources, collected>>

EndScan ==
    /\ poolPc = "scan"
    /\ todo = {}
    /\ todo' = {s.dir : s \in sources}
    /\ poolPc' = "combine"
    /\ UNCHANGED <<present, queueFiles, runFiles, poolFiles, builderVars, execVars, pools,
                   batchRows, sources, collected>>

RowsOf(d) ==
    {[dir |-> d, run |-> rows[d].run, batch |-> rows[d].batch, job |-> j,
      status |-> rows[d].results[j]] : j \in DOMAIN rows[d].results}

\* (matrix_id, context_id, candidate_id)
Key(row) == <<row.job, row.batch>>

\* Mutant of Collides: rows that say the same are no duplicates.
CollidesWithin(d) == \E r, q \in RowsOf(d) : r # q /\ Key(r) = Key(q)

Collides(d) == \E r \in RowsOf(d), q \in collected : Key(r) = Key(q)

\* The rows are read again, and a duplicate raises.
CombineDir ==
    /\ poolPc = "combine"
    /\ \E d \in Next1(todo) :
           IF Collides(d)
           THEN PoolForgets
           ELSE /\ collected' = collected \cup RowsOf(d)
                /\ todo' = todo \ {d}
                /\ UNCHANGED <<poolPc, batchRows, sources>>
    /\ UNCHANGED <<present, queueFiles, runFiles, poolFiles, builderVars, execVars, pools>>

\* selector_rows, then sources and membership, ...
WritePool ==
    /\ poolPc = "combine"
    /\ todo = {}
    /\ poolRows' = collected
    /\ poolSources' = sources
    /\ poolPc' = "summary"
    /\ UNCHANGED <<present, queueFiles, runFiles, poolSummary, builderVars, execVars, pools,
                   batchRows, todo, sources, collected>>

\* ... and the summary, whose next_pending_batch_id is the first that is pending.
WritePoolSummary ==
    /\ poolPc = "summary"
    /\ LET completed == {s.batch : s \in sources} IN
       poolSummary' = [completed |-> completed, pending |-> batchRows.ids \ completed,
                       build |-> batchRows.build]
    /\ PoolForgets
    /\ UNCHANGED <<present, queueFiles, runFiles, poolRows, poolSources, builderVars, execVars,
                   pools>>

PoolStops ==
    /\ poolPc # "idle"
    /\ PoolForgets
    /\ UNCHANGED <<present, queueFiles, runFiles, poolFiles, builderVars, execVars, pools>>

-----------------------------------------------------------------------------
BuilderWorks  == BeginBuild \/ WriteMatrixRow \/ BeginJobs \/ WriteJobRow \/ BeginBatches
                 \/ WriteBatchRow \/ EndBuild
ExecutorWorks == BeginExecution \/ ReadJobs \/ ReadBatch \/ Campaign \/ WriteRow
                 \/ WriteSummary
PoolWorks     == BeginPool \/ ScanDir \/ EndScan \/ CombineDir \/ WritePool
                 \/ WritePoolSummary

Next == \/ Download
        \/ BuilderWorks  \/ BuilderStops
        \/ ExecutorWorks \/ ExecutorStops
        \/ PoolWorks     \/ PoolStops

Spec == Init /\ [][Next]_vars

\* A careful user: one script at a time, none of them interrupted, no archive
\* arriving while one is at work.
AllIdle == builderPc = "idle" /\ execPc = "idle" /\ poolPc = "idle"

CarefulNext == \/ AllIdle /\ Download
               \/ execPc = "idle" /\ poolPc = "idle" /\ BuilderWorks
               \/ builderPc = "idle" /\ poolPc = "idle" /\ ExecutorWorks
               \/ builderPc = "idle" /\ execPc = "idle" /\ PoolWorks

CarefulSpec == Init /\ [][CarefulNext]_vars

-----------------------------------------------------------------------------
\* Every candidate has been tried on every matrix of some set, and none failed.
Whole(evaluated) ==
    /\ \E S \in (SUBSET Matrices) \ {{}} : DOMAIN evaluated = S \X Candidates
    /\ SuccessOrScreen(evaluated)

\* A passed summary and the rows of the same execution: the batch was run to its
\* end, each candidate on each matrix, even if the queue's files were being
\* rewritten while the executor read them (csr_queue_batch_execution.py:145-168).
PassedRunIsWhole ==
    \A d \in Dirs :
        (summaries[d].outcome \in Passed /\ summaries[d].run = rows[d].run)
            => Whole(rows[d].results)

\* The pool's rows of a source, as a function of the job.
Pooled(s) ==
    LET mine == {r \in poolRows : r.dir = s.dir}
    IN  [j \in {r.job : r \in mine} |-> (CHOOSE r \in mine : r.job = j).status]

\* What the pool takes from a batch is all of it, unless the executor was started
\* on the same directory after its summary was written: then it may be a part of
\* the newer rows (csr_queue_training_pool.py:96-120, 178-190).
PooledBatchIsWhole ==
    \A s \in poolSources : rows[s.dir].run = s.run => Whole(Pooled(s))

\* The directories implement BatchEvidence.  Only a passed summary beside rows of the
\* same execution is evidence, whatever is in the files otherwise
\* (csr_queue_batch_execution.py:57-93, 124-168).
Nothing == [batch |-> 0, run |-> 0, results |-> NoResults]

Shown == [d \in Dirs |->
             IF summaries[d].outcome \in Passed /\ summaries[d].run = rows[d].run
             THEN rows[d] ELSE Nothing]

Phase == CASE execPc = "idle" -> "none"
           [] execPc = "rows" -> "writing"
           [] OTHER -> "reading"

Register == INSTANCE BatchEvidence WITH
    Places <- Dirs, Nowhere <- 0, Limit <- MaxRuns, Empty <- Nothing,
    Evidence <- {file \in RowFiles : Whole(file.results)},
    evidence <- Shown, executions <- runs, phase <- Phase, place <- dir

KeepsEvidence == Register!RegisterSpec

\* The pool never has two rows for one matrix, context and candidate, although two
\* directories may hold the same batch (csr_queue_training_pool.py:184-188).
PoolKeysAreUnique ==
    \A r, q \in poolRows : Key(r) = Key(q) => r = q

\* A row leaves the pool only when the executor has been at work in its directory
\* again: the rows there are of another execution, or the row itself was one of a
\* newer execution than the one that the pool took it for
\* (csr_queue_training_pool.py:96-120, 178-190).
RowsLeaveOnlyByExecution ==
    [][\A r \in poolRows \ poolRows' :
           \/ rows[r.dir].run # r.run
           \/ \A s \in poolSources : s.dir = r.dir => s.run # r.run]_vars

\* When a build is done, the batches partition the queue in the order of the
\* index, all of them full but the last, and the three files agree
\* (csr_full_dataset_queue.py:671-679).
BatchesPartitionQueue ==
    (builderPc = "batches" /\ BatchRowsOf(queued) \subseteq batchFile) =>
        /\ {r.matrix : r \in matrixFile} = queued
        /\ \A r \in batchFile :
               /\ r.matrices = Cardinality({s \in matrixFile : s.batch = r.batch})
               /\ r.jobs = Cardinality({s \in jobFile : s.batch = r.batch})
               /\ r.matrices <= BatchSize
               /\ \A q \in batchFile : q.batch > r.batch => r.matrices = BatchSize
        /\ {r.batch : r \in matrixFile} = {r.batch : r \in batchFile}
        /\ \A r, q \in matrixFile : r.matrix <= q.matrix => r.batch <= q.batch
        /\ \A b \in 1 .. Cardinality(batchFile) : \E r \in batchFile : r.batch = b

\* csr_queue_training_pool.py:27 "Build an append-only selector-row pool from
\* completed queue batches": what the pool once had a row for, it keeps a row for.
PoolIsAppendOnly ==
    [][{Key(r) : r \in poolRows} \subseteq {Key(r) : r \in poolRows'}]_vars

\* csr_full_dataset_queue.py:559 and api.py:849 call the queue resumable: what the
\* pool says is completed, and so is not run again, has been run.  (Batches are
\* compared by a number that every build gives out anew.)
CompletedBatchesAreProfiled ==
    (poolSummary.build = builds /\ builderPc = "idle") =>
        \A r \in matrixFile :
            r.batch \in poolSummary.completed => \E q \in poolRows : q.job[1] = r.matrix

=============================================================================
