------------------------- MODULE QueuePipelineProofs -------------------------
(***************************************************************************)
(* Theorems about QueuePipeline, for every index, candidate set, batch     *)
(* size and number of directories, builds, executions and pools.  RunInv   *)
(* is why counting is enough for the executor: rows of the batches' file   *)
(* count their jobs as matrices times candidates, whichever build wrote    *)
(* them, and the marks of executions tell old files from new ones.         *)
(* GatherInv keeps the pool and the directories that it was taken from in  *)
(* step, and BuildInv the three files of the queue.  That batches are      *)
(* consecutive and full rests on the rank of a matrix in the queue, a      *)
(* bijection between the queue and the numbers below its size.             *)
(***************************************************************************)
EXTENDS QueuePipeline, FiniteSetTheorems, TLAPS

KeysUnique(S) == \A r, q \in S : Key(r) = Key(q) => r = q

PoolInv == KeysUnique(poolRows) /\ KeysUnique(collected)

\* Files that hold something name the batch it is about.
Named ==
    \A d \in Dirs :
        /\ DOMAIN rows[d].results # {} => rows[d].batch \in BatchIds
        /\ summaries[d].run > 0 => summaries[d].batch \in BatchIds

Counted(r) == r.jobs = r.matrices * Cardinality(Candidates)

\* No file is marked with an execution that is still to come.
Marked ==
    /\ \A d \in Dirs : rows[d].run <= runs /\ summaries[d].run <= runs
    /\ execPc # "idle" =>
           dir \in Dirs /\ batchId \in BatchIds /\ \A d \in Dirs : summaries[d].run < runs
    /\ execPc \in {"jobs", "batches", "campaign"} => \A d \in Dirs : rows[d].run < runs

\* What the executor knows when it evaluates the batch, and while it writes.
Evaluating ==
    /\ execPc = "campaign" => Counted(batch) /\ batchMatrices # {}
    /\ execPc = "rows" =>
           /\ rows[dir].batch = batchId /\ rows[dir].run = runs
           /\ DOMAIN rows[dir].results \subseteq DOMAIN results
           /\ \A j \in DOMAIN rows[dir].results : rows[dir].results[j] = results[j]
           /\ outcome \in Passed => Whole(results)

RunInv == (\A r \in batchFile : Counted(r)) /\ Named /\ Marked /\ Evaluating /\ PassedRunIsWhole

QueueInv == TypeOK /\ PoolInv /\ RunInv

\* While the rows of a source's directory are of its execution, the summary beside
\* them is the one that it was taken for.
Vouched(s) ==
    /\ 0 < s.run /\ s.run <= rows[s.dir].run
    /\ s.run = rows[s.dir].run =>
           /\ summaries[s.dir].run = s.run /\ summaries[s.dir].batch = s.batch
           /\ summaries[s.dir].outcome \in Passed

\* Then R has just these rows of the directory, and a scan finds the source again.
Gathered(s, R) ==
    s.run = rows[s.dir].run => {r \in R : r.dir = s.dir} = RowsOf(s.dir)
Again(s) == s.run = rows[s.dir].run => s \in sources

GatherInv ==
    /\ \A d \in Dirs : summaries[d].run <= rows[d].run
    /\ \A s \in sources \cup poolSources : Vouched(s)
    /\ \A s \in poolSources : Gathered(s, poolRows)
    /\ poolPc = "idle" => collected = {}
    /\ poolPc = "scan" =>
           /\ collected = {}
           /\ \A s \in poolSources : s.dir \notin todo => Again(s)
    /\ poolPc = "combine" =>
           /\ \A r \in collected : r.dir \notin todo
           /\ \A s \in sources : s.dir \notin todo => Gathered(s, collected)
           /\ \A s \in poolSources : Again(s)

\* What the builder has written is of its plan.
BuildInv ==
    /\ builderPc = "matrices" => matrixFile \subseteq MatrixRowsOf(queued)
    /\ builderPc \in {"jobs", "batches"} => matrixFile = MatrixRowsOf(queued)
    /\ builderPc = "jobs" => jobFile \subseteq JobRowsOf(queued)
    /\ builderPc = "batches" =>
           jobFile = JobRowsOf(queued) /\ batchFile \subseteq BatchRowsOf(queued)

-----------------------------------------------------------------------------
(* Batches *)

LEMMA QuotientBound ==
    ASSUME NEW a \in Nat, NEW b \in Nat \ {0}
    PROVE  a \div b \in Nat /\ a \div b <= a
<1>1. a \div b \in Int /\ b * (a \div b) <= a /\ a < b * (a \div b) + b
  OBVIOUS
<1> DEFINE q == a \div b
<1>2. q >= 0
  <2>1. SUFFICES ASSUME q <= -1 PROVE FALSE
    BY <1>1
  <2>2. b * q <= -b
    BY <1>1, <2>1
  <2> QED
    BY <1>1, <2>2
<1>3. q <= b * q
  BY <1>1, <1>2
<1> QED
  BY <1>1, <1>2, <1>3

\* There are no more batches than matrices.
LEMMA BatchOfType ==
    ASSUME NEW plan \in SUBSET Matrices, NEW m \in plan
    PROVE  BatchOf(plan, m) \in BatchIds
<1> DEFINE below == {n \in plan : n < m}
<1>1. IsFiniteSet(Matrices) /\ m \in Matrices
  BY IndexAssumption
<1>7. below \subseteq Matrices \ {m}
  <2>1. m \in Nat /\ ~(m < m)
    BY <1>1, IndexAssumption
  <2> QED
    BY <2>1
<1>2. /\ IsFiniteSet(Matrices \ {m})
      /\ Cardinality(Matrices \ {m}) = Cardinality(Matrices) - 1
      /\ Cardinality(Matrices) \in Nat
  BY <1>1, FS_RemoveElement, FS_CardinalityType
<1>3. IsFiniteSet(below) /\ Cardinality(below) <= Cardinality(Matrices) - 1
  BY <1>2, <1>7, FS_Subset
<1>4. Cardinality(below) \in Nat
  BY <1>3, FS_CardinalityType
<1>5. Cardinality(below) \div BatchSize \in Nat
      /\ Cardinality(below) \div BatchSize <= Cardinality(below)
  BY <1>4, QuotientBound, BatchSizeAssumption
<1> HIDE DEF below
<1>6. Cardinality(below) \div BatchSize + 1 \in 1 .. Cardinality(Matrices)
  BY <1>2, <1>3, <1>4, <1>5
<1> QED
  BY <1>6 DEF BatchOf, BatchIds, below

LEMMA QueueRowTypes ==
    ASSUME NEW plan \in SUBSET Matrices
    PROVE  /\ MatrixRowsOf(plan) \subseteq MatrixRows
           /\ JobRowsOf(plan) \subseteq JobRows
           /\ BatchRowsOf(plan) \subseteq BatchRows
           /\ \A r \in BatchRowsOf(plan) : Counted(r)
<1>1. MatrixRowsOf(plan) \subseteq MatrixRows
  BY BatchOfType DEF MatrixRowsOf, MatrixRows
<1>2. JobRowsOf(plan) \subseteq JobRows
  <2> SUFFICES ASSUME NEW j \in plan \X Candidates
               PROVE  j \in Jobs /\ BatchOf(plan, j[1]) \in BatchIds
    BY DEF JobRowsOf, JobRows
  <2> QED
    BY BatchOfType DEF Jobs
<1>3. ASSUME NEW m \in plan
      PROVE  LET r == BatchRow({n \in plan : BatchOf(plan, n) = BatchOf(plan, m)},
                               BatchOf(plan, m))
             IN  r \in BatchRows /\ Counted(r)
  <2> DEFINE members == {n \in plan : BatchOf(plan, n) = BatchOf(plan, m)}
  <2>1. IsFiniteSet(members)
    BY FS_Subset, IndexAssumption
  <2>2. /\ Cardinality(members) \in Nat
        /\ Cardinality(Candidates) \in Nat
        /\ Cardinality(members \X Candidates)
               = Cardinality(members) * Cardinality(Candidates)
    BY <2>1, FS_CardinalityType, FS_Product, CandidatesAssumption
  <2>3. BatchOf(plan, m) \in BatchIds
    BY BatchOfType
  <2> HIDE DEF members
  <2>4. Cardinality(members \X Candidates) \in Nat
    BY <2>2
  <2> QED
    BY <2>2, <2>3, <2>4 DEF BatchRow, BatchRows, Counted, members
<1>4. BatchRowsOf(plan) \subseteq BatchRows /\ \A r \in BatchRowsOf(plan) : Counted(r)
  BY <1>3 DEF BatchRowsOf
<1> QED
  BY <1>1, <1>2, <1>4

-----------------------------------------------------------------------------
(* The builder and new archives *)

\* What the builder does to its own files and variables disturbs nothing else.
LEMMA BuilderFrame ==
    ASSUME QueueInv,
           UNCHANGED <<runFiles, poolFiles, execVars, poolVars>>,
           present' \subseteq Matrices, matrixFile' \subseteq MatrixRows,
           jobFile' \subseteq JobRows, batchFile' \subseteq BatchRows,
           builds' \in 0 .. MaxBuilds, queued' \subseteq Matrices,
           builderPc' \in {"idle", "matrices", "jobs", "batches"},
           \A r \in batchFile' : Counted(r)
    PROVE  QueueInv'
<1>1. TypeOK'
  BY DEF QueueInv, TypeOK, runFiles, poolFiles, execVars, poolVars
<1>2. PoolInv'
  BY DEF QueueInv, PoolInv, KeysUnique, poolFiles, poolVars
<1>3. Named' /\ Marked' /\ Evaluating' /\ PassedRunIsWhole'
  BY DEF QueueInv, RunInv, Named, Marked, Evaluating, PassedRunIsWhole, runFiles, execVars
<1> QED
  BY <1>1, <1>2, <1>3 DEF QueueInv, RunInv

LEMMA DownloadInv ==
    ASSUME QueueInv, Download
    PROVE  QueueInv'
<1>1. UNCHANGED <<matrixFile, jobFile, batchFile, builds, builderPc, queued>>
  BY DEF Download, queueFiles, builderVars
<1>2. UNCHANGED <<runFiles, poolFiles, execVars, poolVars>>
  BY DEF Download
<1>3. present' \subseteq Matrices
  BY DEF QueueInv, TypeOK, Download
<1> QED
  BY <1>1, <1>2, <1>3, BuilderFrame DEF QueueInv, TypeOK, RunInv

LEMMA BuilderInv ==
    ASSUME QueueInv, BuilderWorks \/ BuilderStops
    PROVE  QueueInv'
<1> DEFINE Typed == /\ present' \subseteq Matrices /\ matrixFile' \subseteq MatrixRows
                    /\ jobFile' \subseteq JobRows /\ batchFile' \subseteq BatchRows
                    /\ builds' \in 0 .. MaxBuilds /\ queued' \subseteq Matrices
                    /\ builderPc' \in {"idle", "matrices", "jobs", "batches"}
                    /\ \A r \in batchFile' : Counted(r)
<1>1. /\ present \subseteq Matrices /\ matrixFile \subseteq MatrixRows
      /\ jobFile \subseteq JobRows /\ batchFile \subseteq BatchRows
      /\ builds \in 0 .. MaxBuilds /\ queued \subseteq Matrices
      /\ builderPc \in {"idle", "matrices", "jobs", "batches"}
      /\ \A r \in batchFile : Counted(r)
  BY DEF QueueInv, TypeOK, RunInv
<1>2. /\ MatrixRowsOf(queued) \subseteq MatrixRows
      /\ JobRowsOf(queued) \subseteq JobRows
      /\ BatchRowsOf(queued) \subseteq BatchRows
      /\ \A r \in BatchRowsOf(queued) : Counted(r)
  BY <1>1, QueueRowTypes
<1>3. UNCHANGED <<runFiles, poolFiles, execVars, poolVars>>
  BY DEF BuilderWorks, BuilderStops, BeginBuild, WriteMatrixRow, BeginJobs, WriteJobRow,
         BeginBatches, WriteBatchRow, EndBuild
<1>4. Typed
  <2>1. CASE BeginBuild
    <3>1. builds' \in 0 .. MaxBuilds
      BY <1>1, <2>1, BoundsAssumption DEF BeginBuild
    <3> QED
      BY <1>1, <2>1, <3>1 DEF BeginBuild
  <2>2. CASE WriteMatrixRow
    BY <1>1, <1>2, <2>2 DEF WriteMatrixRow, builderVars
  <2>3. CASE BeginJobs
    BY <1>1, <2>3 DEF BeginJobs
  <2>4. CASE WriteJobRow
    BY <1>1, <1>2, <2>4 DEF WriteJobRow, builderVars
  <2>5. CASE BeginBatches
    BY <1>1, <2>5 DEF BeginBatches
  <2>6. CASE WriteBatchRow
    BY <1>1, <1>2, <2>6 DEF WriteBatchRow, builderVars
  <2>7. CASE EndBuild \/ BuilderStops
    BY <1>1, <2>7 DEF EndBuild, BuilderStops, queueFiles
  <2> QED
    BY <2>1, <2>2, <2>3, <2>4, <2>5, <2>6, <2>7 DEF BuilderWorks
<1> QED
  BY <1>3, <1>4, BuilderFrame

-----------------------------------------------------------------------------
(* The executor *)

\* Counting is enough: as many jobs as the batch has, all of them evaluated, and
\* as many matrices, are all the pairs.
LEMMA PassedIsWhole ==
    ASSUME QueueInv, execPc = "campaign",
           NEW imported \in SUBSET batchMatrices,
           NEW evaluated \in [{j \in batchJobs : j[1] \in imported} -> Statuses],
           BatchOutcome(imported, evaluated) \in Passed
    PROVE  Whole(evaluated)
<1> DEFINE done == {j \in batchJobs : j[1] \in imported}
           all  == batchMatrices \X Candidates
<1>1. /\ batchMatrices \subseteq Matrices /\ batchMatrices # {}
      /\ batchJobs \subseteq Jobs /\ batch.jobs = batch.matrices * Cardinality(Candidates)
  BY DEF QueueInv, TypeOK, RunInv, Evaluating, Counted
<1>2. Accounted(imported, evaluated) /\ SuccessOrScreen(evaluated)
  BY DEF BatchOutcome, Passed
<1>3. IsFiniteSet(batchMatrices) /\ IsFiniteSet(all)
      /\ Cardinality(all) = Cardinality(batchMatrices) * Cardinality(Candidates)
  BY <1>1, FS_Subset, FS_Product, IndexAssumption, CandidatesAssumption
<1>4. IsFiniteSet(batchJobs)
  BY <1>1, FS_Product, FS_Subset, IndexAssumption, CandidatesAssumption DEF Jobs
<1>5. DOMAIN evaluated = done
  OBVIOUS
<1>6. done = batchJobs
  <2>1. Cardinality(done) = Cardinality(batchJobs)
    BY <1>2, <1>5 DEF Accounted
  <2> QED
    BY <1>4, <2>1, FS_Subset
<1>7. batchJobs \subseteq all
  <2>1. \A j \in batchJobs : j \in Jobs /\ j[1] \in batchMatrices
    BY <1>1, <1>6
  <2> QED
    BY <2>1 DEF Jobs
<1>8. Cardinality(batchJobs) = Cardinality(all)
  BY <1>1, <1>2, <1>3 DEF Accounted
<1>9. batchJobs = all
  <2> HIDE DEF all
  <2> QED
    BY <1>3, <1>7, <1>8, FS_Subset
<1>10. DOMAIN evaluated = batchMatrices \X Candidates
  BY <1>5, <1>6, <1>9
<1>11. batchMatrices \in (SUBSET Matrices) \ {{}}
  BY <1>1
<1> QED
  BY <1>2, <1>10, <1>11 DEF Whole

\* The executor touches neither the queue's files nor the pool.
LEMMA ExecutorFrame ==
    ASSUME QueueInv, UNCHANGED <<present, queueFiles, poolFiles, builderVars, poolVars>>,
           rows' \in [Dirs -> RowFiles], summaries' \in [Dirs -> Summaries],
           runs' \in 0 .. MaxRuns,
           execPc' \in {"idle", "jobs", "batches", "campaign", "rows"},
           batchId' \in BatchIds \cup {0}, dir' \in Dirs \cup {0},
           batchMatrices' \subseteq Matrices, batchJobs' \subseteq Jobs,
           batch' \in BatchRows \cup {NoBatch}, results' \in Results, outcome' \in Outcomes,
           Named', Marked', Evaluating', PassedRunIsWhole'
    PROVE  QueueInv'
<1>1. TypeOK'
  BY DEF QueueInv, TypeOK, queueFiles, poolFiles, builderVars, poolVars
<1>2. PoolInv'
  BY DEF QueueInv, PoolInv, KeysUnique, poolFiles, poolVars
<1>3. \A r \in batchFile' : Counted(r)
  BY DEF QueueInv, RunInv, queueFiles
<1> QED
  BY <1>1, <1>2, <1>3 DEF QueueInv, RunInv

LEMMA NothingTyped ==
    NoResults \in Results /\ "failed" \in Outcomes
<1>1. NoResults \in [{} -> Statuses] /\ {} \in SUBSET Jobs
  BY DEF NoResults
<1> QED
  BY <1>1 DEF Results, Outcomes

LEMMA ForgetsInv ==
    ASSUME QueueInv, ExecutorForgets,
           UNCHANGED <<present, queueFiles, runFiles, poolFiles, builderVars, runs, poolVars>>
    PROVE  QueueInv'
<1>1. /\ rows' = rows /\ summaries' = summaries /\ runs' = runs
      /\ UNCHANGED <<present, queueFiles, poolFiles, builderVars, poolVars>>
  BY DEF runFiles
<1>2. Named' /\ Marked' /\ Evaluating' /\ PassedRunIsWhole'
  BY <1>1 DEF QueueInv, RunInv, Named, Marked, Evaluating, PassedRunIsWhole, ExecutorForgets
<1>3. /\ rows \in [Dirs -> RowFiles] /\ summaries \in [Dirs -> Summaries]
      /\ runs \in 0 .. MaxRuns
  BY DEF QueueInv, TypeOK
<1> QED
  BY <1>1, <1>2, <1>3, NothingTyped, ExecutorFrame DEF ExecutorForgets

LEMMA ReadsInv ==
    ASSUME QueueInv, BeginExecution \/ ReadJobs \/ ReadBatch
    PROVE  QueueInv'
<1>1. /\ rows \in [Dirs -> RowFiles] /\ summaries \in [Dirs -> Summaries]
      /\ runs \in 0 .. MaxRuns /\ batchId \in BatchIds \cup {0} /\ dir \in Dirs \cup {0}
      /\ batchMatrices \subseteq Matrices /\ batchJobs \subseteq Jobs
      /\ batch \in BatchRows \cup {NoBatch} /\ results \in Results /\ outcome \in Outcomes
      /\ matrixFile \subseteq MatrixRows /\ jobFile \subseteq JobRows
      /\ batchFile \subseteq BatchRows
  BY DEF QueueInv, TypeOK
<1>2. (\A r \in batchFile : Counted(r)) /\ Named /\ Marked /\ Evaluating /\ PassedRunIsWhole
  BY DEF QueueInv, RunInv
<1>3. \A d \in Dirs : rows[d].run \in Int /\ summaries[d].run \in Int
  BY <1>1 DEF RowFiles, Summaries
<1>4. CASE BeginExecution
  <2>1. /\ rows' = rows /\ summaries' = summaries /\ execPc' = "jobs"
        /\ runs' = runs + 1 /\ runs' \in 0 .. MaxRuns
        /\ dir' \in Dirs /\ batchId' \in BatchIds
        /\ UNCHANGED <<present, queueFiles, poolFiles, builderVars, poolVars>>
        /\ UNCHANGED <<batchJobs, batch, results, outcome>>
    BY <1>1, <1>4, BoundsAssumption DEF BeginExecution, runFiles
  <2>2. batchMatrices' \subseteq Matrices
    BY <1>1, <1>4 DEF BeginExecution, MatrixRows
  <2>3. Named' /\ Evaluating' /\ PassedRunIsWhole'
    BY <1>2, <2>1 DEF Named, Evaluating, PassedRunIsWhole
  <2>4. Marked'
    BY <1>1, <1>2, <1>3, <2>1 DEF Marked
  <2> QED
    BY <1>1, <2>1, <2>2, <2>3, <2>4, ExecutorFrame
<1>5. CASE ReadJobs
  <2>1. /\ rows' = rows /\ summaries' = summaries /\ execPc = "jobs" /\ execPc' = "batches"
        /\ UNCHANGED <<present, queueFiles, poolFiles, builderVars, poolVars>>
        /\ UNCHANGED <<runs, batchId, dir, batchMatrices, batch, results, outcome>>
    BY <1>5 DEF ReadJobs, runFiles
  <2>2. batchJobs' \subseteq Jobs
    BY <1>1, <1>5 DEF ReadJobs, JobRows
  <2>3. Named' /\ Marked' /\ Evaluating' /\ PassedRunIsWhole'
    BY <1>2, <2>1 DEF Named, Marked, Evaluating, PassedRunIsWhole
  <2> QED
    BY <1>1, <2>1, <2>2, <2>3, ExecutorFrame
<1>6. CASE ReadBatch
  <2>1. CASE ExecutorForgets
    BY <1>6, <2>1, ForgetsInv DEF ReadBatch
  <2>2. CASE ~ExecutorForgets
    <3>1. /\ rows' = rows /\ summaries' = summaries
          /\ execPc = "batches" /\ execPc' = "campaign"
          /\ batch' \in batchFile /\ batchMatrices # {}
          /\ UNCHANGED <<present, queueFiles, poolFiles, builderVars, poolVars>>
          /\ UNCHANGED <<runs, batchId, dir, batchMatrices, batchJobs, results, outcome>>
      BY <1>6, <2>2 DEF ReadBatch, runFiles
    <3>2. Named' /\ Marked' /\ PassedRunIsWhole'
      BY <1>2, <3>1 DEF Named, Marked, PassedRunIsWhole
    <3>3. Evaluating'
      BY <1>2, <3>1 DEF Evaluating
    <3> QED
      BY <1>1, <3>1, <3>2, <3>3, ExecutorFrame
  <2> QED
    BY <2>1, <2>2
<1> QED
  BY <1>4, <1>5, <1>6

LEMMA CampaignInv ==
    ASSUME QueueInv, Campaign
    PROVE  QueueInv'
<1>1. /\ rows \in [Dirs -> RowFiles] /\ summaries \in [Dirs -> Summaries]
      /\ runs \in 0 .. MaxRuns /\ batchJobs \subseteq Jobs
      /\ batchMatrices \subseteq Matrices /\ batch \in BatchRows \cup {NoBatch}
  BY DEF QueueInv, TypeOK
<1>2. Named /\ Marked /\ Evaluating /\ PassedRunIsWhole
  BY DEF QueueInv, RunInv
<1>3. execPc = "campaign" /\ dir \in Dirs /\ batchId \in BatchIds
  BY <1>2 DEF Campaign, Marked
<1>4. PICK imported \in SUBSET batchMatrices :
          /\ results' \in [{j \in batchJobs : j[1] \in imported} -> Statuses]
          /\ outcome' = BatchOutcome(imported, results')
  BY DEF Campaign
<1>5. outcome' \in Passed => Whole(results')
  <2> DEFINE evaluated == results'
  <2>1. evaluated \in [{j \in batchJobs : j[1] \in imported} -> Statuses]
    BY <1>4
  <2> HIDE DEF evaluated
  <2>2. BatchOutcome(imported, evaluated) \in Passed => Whole(evaluated)
    BY <1>3, <2>1, PassedIsWhole
  <2> QED
    BY <1>4, <2>2 DEF evaluated
<1>6. results' \in Results /\ outcome' \in Outcomes
  BY <1>1, <1>4 DEF Results, BatchOutcome, Outcomes
<1> DEFINE file == [batch |-> batchId, run |-> runs, results |-> NoResults]
<1>7. /\ rows' = [rows EXCEPT ![dir] = file] /\ summaries' = summaries
      /\ execPc' = "rows" /\ UNCHANGED <<runs, batchId, dir, batchMatrices, batchJobs, batch>>
      /\ UNCHANGED <<present, queueFiles, poolFiles, builderVars, poolVars>>
  BY DEF Campaign
<1>8. file \in RowFiles /\ DOMAIN file.results = {}
      /\ file.batch = batchId /\ file.run = runs
  BY <1>1, <1>3, NothingTyped DEF RowFiles, NoResults
<1> HIDE DEF file
<1>9. /\ rows' \in [Dirs -> RowFiles]
      /\ \A d \in Dirs : rows'[d] = IF d = dir THEN file ELSE rows[d]
  BY <1>1, <1>3, <1>7, <1>8
<1>10. \A d \in Dirs : rows[d].run \in Int /\ summaries[d].run \in Int
  BY <1>1 DEF RowFiles, Summaries
<1>11. Named'
  BY <1>2, <1>7, <1>8, <1>9 DEF Named
<1>12. Marked'
  BY <1>1, <1>2, <1>3, <1>7, <1>8, <1>9, <1>10 DEF Marked
<1>13. Evaluating'
  BY <1>3, <1>5, <1>7, <1>8, <1>9 DEF Evaluating
<1>14. PassedRunIsWhole'
  <2>1. \A d \in Dirs : summaries[d].run < runs
    BY <1>2, <1>3 DEF Marked
  <2>2. summaries[dir].run # rows'[dir].run
    BY <1>1, <1>3, <1>8, <1>9, <1>10, <2>1
  <2> QED
    BY <1>2, <1>7, <1>9, <2>2 DEF PassedRunIsWhole
<1> QED
  BY <1>1, <1>3, <1>6, <1>7, <1>9, <1>11, <1>12, <1>13, <1>14, ExecutorFrame

LEMMA WriteRowInv ==
    ASSUME QueueInv, WriteRow
    PROVE  QueueInv'
<1>1. /\ rows \in [Dirs -> RowFiles] /\ summaries \in [Dirs -> Summaries]
      /\ runs \in 0 .. MaxRuns /\ results \in Results
      /\ batchId \in BatchIds \cup {0} /\ dir \in Dirs \cup {0}
      /\ batchMatrices \subseteq Matrices /\ batchJobs \subseteq Jobs
      /\ batch \in BatchRows \cup {NoBatch} /\ outcome \in Outcomes
  BY DEF QueueInv, TypeOK
<1>2. Named /\ Marked /\ Evaluating /\ PassedRunIsWhole
  BY DEF QueueInv, RunInv
<1>3. execPc = "rows" /\ dir \in Dirs /\ batchId \in BatchIds
  BY <1>2 DEF WriteRow, Marked
<1>4. PICK j \in Unwritten :
          rows' = [rows EXCEPT ![dir].results = [k \in DOMAIN @ \cup {j} |-> results[k]]]
  BY DEF WriteRow
<1> DEFINE old == rows[dir].results
           new == [k \in DOMAIN old \cup {j} |-> results[k]]
<1>5. /\ summaries' = summaries
      /\ UNCHANGED <<runs, execPc, batchId, dir, batchMatrices, batchJobs, batch, results,
                     outcome>>
      /\ UNCHANGED <<present, queueFiles, poolFiles, builderVars, poolVars>>
  BY DEF WriteRow, execVars
<1>6. DOMAIN new \subseteq DOMAIN results /\ \A k \in DOMAIN new : new[k] = results[k]
  BY <1>2, <1>3 DEF Unwritten, Evaluating
<1>7. new \in Results
  <2>1. PICK S \in SUBSET Jobs : results \in [S -> Statuses]
    BY <1>1 DEF Results
  <2>2. new \in [DOMAIN old \cup {j} -> Statuses] /\ DOMAIN old \cup {j} \in SUBSET Jobs
    BY <1>6, <2>1
  <2> QED
    BY <2>2 DEF Results
<1>8. rows[dir] = [batch |-> batchId, run |-> runs, results |-> old]
  BY <1>1, <1>2, <1>3 DEF RowFiles, Evaluating
<1> DEFINE file == [batch |-> batchId, run |-> runs, results |-> new]
<1>9. rows' = [rows EXCEPT ![dir] = [rows[dir] EXCEPT !.results = new]]
  BY <1>1, <1>3, <1>4
<1> HIDE DEF new
<1>10. [rows[dir] EXCEPT !.results = new] = file
  BY <1>8
<1>11. file \in RowFiles /\ file.batch = batchId /\ file.run = runs /\ file.results = new
  BY <1>1, <1>3, <1>7 DEF RowFiles
<1> HIDE DEF file
<1>12. /\ rows' \in [Dirs -> RowFiles]
       /\ \A d \in Dirs : rows'[d] = IF d = dir THEN file ELSE rows[d]
  BY <1>1, <1>9, <1>10, <1>11
<1>13. rows[dir].run = runs /\ \A d \in Dirs : summaries[d].run < runs
  BY <1>2, <1>3 DEF Marked, Evaluating
<1>14. Named'
  BY <1>2, <1>3, <1>5, <1>11, <1>12 DEF Named
<1>15. Marked'
  BY <1>2, <1>3, <1>5, <1>11, <1>12, <1>13 DEF Marked
<1>16. Evaluating'
  BY <1>2, <1>3, <1>5, <1>6, <1>11, <1>12 DEF Evaluating
<1>17. PassedRunIsWhole'
  <2>1. summaries[dir].run # file.run
    BY <1>1, <1>3, <1>11, <1>13 DEF Summaries
  <2> QED
    BY <1>2, <1>5, <1>12, <2>1 DEF PassedRunIsWhole
<1> QED
  BY <1>1, <1>3, <1>5, <1>12, <1>14, <1>15, <1>16, <1>17, ExecutorFrame

LEMMA WriteSummaryInv ==
    ASSUME QueueInv, WriteSummary
    PROVE  QueueInv'
<1>1. /\ rows \in [Dirs -> RowFiles] /\ summaries \in [Dirs -> Summaries]
      /\ runs \in 0 .. MaxRuns /\ outcome \in Outcomes
  BY DEF QueueInv, TypeOK
<1>2. Named /\ Marked /\ Evaluating /\ PassedRunIsWhole
  BY DEF QueueInv, RunInv
<1>3. execPc = "rows" /\ dir \in Dirs /\ batchId \in BatchIds
  BY <1>2 DEF WriteSummary, Marked
<1> DEFINE summary == [batch |-> batchId, run |-> runs, outcome |-> outcome]
<1>4. /\ summaries' = [summaries EXCEPT ![dir] = summary]
      /\ rows' = rows /\ runs' = runs /\ ExecutorForgets
      /\ UNCHANGED <<present, queueFiles, poolFiles, builderVars, poolVars>>
  BY DEF WriteSummary
<1>5. summary \in Summaries /\ summary.batch = batchId /\ summary.run = runs
      /\ summary.outcome = outcome
  BY <1>1, <1>3 DEF Summaries
<1> HIDE DEF summary
<1>6. /\ summaries' \in [Dirs -> Summaries]
      /\ \A d \in Dirs : summaries'[d] = IF d = dir THEN summary ELSE summaries[d]
  BY <1>1, <1>3, <1>4, <1>5
<1>7. outcome \in Passed => Whole(rows[dir].results)
  <2>1. DOMAIN results = DOMAIN rows[dir].results
    BY <1>2, <1>3 DEF WriteSummary, Unwritten, Evaluating
  <2>2. SuccessOrScreen(results) => SuccessOrScreen(rows[dir].results)
    BY <1>2, <1>3, <2>1 DEF SuccessOrScreen, Evaluating
  <2> QED
    BY <1>2, <1>3, <2>1, <2>2 DEF Whole, Evaluating
<1>8. Named'
  BY <1>2, <1>3, <1>4, <1>5, <1>6 DEF Named
<1>9. Marked'
  <2>1. runs <= runs
    BY <1>1
  <2> QED
    BY <1>2, <1>4, <1>5, <1>6, <2>1 DEF Marked, ExecutorForgets
<1>10. Evaluating'
  BY <1>4 DEF Evaluating, ExecutorForgets
<1>11. PassedRunIsWhole'
  BY <1>2, <1>4, <1>5, <1>6, <1>7 DEF PassedRunIsWhole
<1> QED
  BY <1>1, <1>4, <1>6, <1>8, <1>9, <1>10, <1>11, NothingTyped, ExecutorFrame DEF ExecutorForgets

-----------------------------------------------------------------------------
(* The pool *)

\* The pool touches nothing but its own files and variables.
LEMMA PoolFrame ==
    ASSUME QueueInv,
           UNCHANGED <<present, queueFiles, runFiles, builderVars, execVars>>,
           poolRows' \subseteq PoolRows, poolSources' \subseteq Sources,
           poolSummary' \in [completed : SUBSET BatchIds, pending : SUBSET BatchIds,
                             build : 0 .. MaxBuilds],
           pools' \in 0 .. MaxPools, poolPc' \in {"idle", "scan", "combine", "summary"},
           batchRows' \in [ids : SUBSET BatchIds, build : 0 .. MaxBuilds],
           todo' \subseteq Dirs, sources' \subseteq Sources, collected' \subseteq PoolRows,
           KeysUnique(poolRows'), KeysUnique(collected')
    PROVE  QueueInv'
<1>1. TypeOK'
  BY DEF QueueInv, TypeOK, queueFiles, runFiles, builderVars, execVars
<1>2. PoolInv'
  BY DEF PoolInv
<1>3. RunInv'
  BY DEF QueueInv, RunInv, Named, Marked, Evaluating, PassedRunIsWhole, queueFiles, runFiles,
         execVars
<1> QED
  BY <1>1, <1>2, <1>3 DEF QueueInv

\* The rows of a directory are of one batch, one for each of its jobs.
LEMMA RowsOfFacts ==
    ASSUME QueueInv, NEW d \in Dirs
    PROVE  RowsOf(d) \subseteq PoolRows /\ KeysUnique(RowsOf(d))
<1>1. rows[d] \in RowFiles /\ (DOMAIN rows[d].results # {} => rows[d].batch \in BatchIds)
  BY DEF QueueInv, TypeOK, RunInv, Named
<1>2. PICK S \in SUBSET Jobs : rows[d].results \in [S -> Statuses]
  BY <1>1 DEF RowFiles, Results
<1>3. RowsOf(d) \subseteq PoolRows
  BY <1>1, <1>2 DEF RowsOf, PoolRows, RowFiles
<1>4. KeysUnique(RowsOf(d))
  BY DEF KeysUnique, RowsOf, Key
<1> QED
  BY <1>3, <1>4

LEMMA PoolInvHolds ==
    ASSUME QueueInv, PoolWorks \/ PoolStops
    PROVE  QueueInv'
<1>1. /\ poolRows \subseteq PoolRows /\ poolSources \subseteq Sources
      /\ poolSummary \in [completed : SUBSET BatchIds, pending : SUBSET BatchIds,
                          build : 0 .. MaxBuilds]
      /\ pools \in 0 .. MaxPools /\ poolPc \in {"idle", "scan", "combine", "summary"}
      /\ batchRows \in [ids : SUBSET BatchIds, build : 0 .. MaxBuilds]
      /\ todo \subseteq Dirs /\ sources \subseteq Sources /\ collected \subseteq PoolRows
      /\ KeysUnique(poolRows) /\ KeysUnique(collected)
      /\ batchFile \subseteq BatchRows /\ builds \in 0 .. MaxBuilds
      /\ summaries \in [Dirs -> Summaries] /\ Named
  BY DEF QueueInv, TypeOK, PoolInv, RunInv
<1>2. UNCHANGED <<present, queueFiles, runFiles, builderVars, execVars>>
  BY DEF PoolWorks, PoolStops, BeginPool, ScanDir, EndScan, CombineDir, WritePool,
         WritePoolSummary
<1>3. ASSUME PoolForgets
      PROVE  /\ poolPc' \in {"idle", "scan", "combine", "summary"}
             /\ batchRows' \in [ids : SUBSET BatchIds, build : 0 .. MaxBuilds]
             /\ todo' \subseteq Dirs /\ sources' \subseteq Sources /\ collected' \subseteq PoolRows
             /\ KeysUnique(collected')
  BY <1>3, BoundsAssumption DEF PoolForgets, KeysUnique
<1>4. CASE BeginPool
  <2>1. {r.batch : r \in batchFile} \subseteq BatchIds
    BY <1>1 DEF BatchRows
  <2>2. pools' \in 0 .. MaxPools
    BY <1>1, <1>4, BoundsAssumption DEF BeginPool
  <2> QED
    BY <1>1, <1>2, <1>4, <2>1, <2>2, PoolFrame DEF BeginPool, poolFiles
<1>5. CASE ScanDir
  <2>1. PICK d \in Next1(todo) :
            /\ todo' = todo \ {d}
            /\ sources' = IF TakesDir(d)
                          THEN sources \cup {[dir |-> d, batch |-> summaries[d].batch,
                                              run |-> summaries[d].run]}
                          ELSE sources
    BY <1>5 DEF ScanDir
  <2>2. d \in Dirs
    BY <1>1 DEF Next1
  <2>3. TakesDir(d) => [dir |-> d, batch |-> summaries[d].batch, run |-> summaries[d].run]
                           \in Sources
    BY <1>1, <2>2 DEF TakesDir, Sources, Summaries, Named
  <2>4. sources' \subseteq Sources /\ todo' \subseteq Dirs
    BY <1>1, <2>1, <2>3
  <2> QED
    BY <1>1, <1>2, <1>5, <2>4, PoolFrame DEF ScanDir, poolFiles
<1>6. CASE EndScan
  <2>1. todo' \subseteq Dirs
    BY <1>1, <1>6 DEF EndScan, Sources
  <2> QED
    BY <1>1, <1>2, <1>6, <2>1, PoolFrame DEF EndScan, poolFiles
<1>7. CASE CombineDir
  <2>1. PICK d \in Next1(todo) :
            IF Collides(d)
            THEN PoolForgets
            ELSE /\ collected' = collected \cup RowsOf(d)
                 /\ todo' = todo \ {d}
                 /\ UNCHANGED <<poolPc, batchRows, sources>>
    BY <1>7 DEF CombineDir
  <2>2. d \in Dirs
    BY <1>1 DEF Next1
  <2>3. UNCHANGED <<poolRows, poolSources, poolSummary, pools>>
    BY <1>7 DEF CombineDir, poolFiles
  <2>4. CASE Collides(d)
    BY <1>1, <1>2, <1>3, <2>1, <2>3, <2>4, PoolFrame
  <2>5. CASE ~Collides(d)
    <3>1. collected' \subseteq PoolRows
      BY <1>1, <2>1, <2>2, <2>5, RowsOfFacts
    <3>2. KeysUnique(collected')
      BY <1>1, <2>1, <2>2, <2>5, RowsOfFacts DEF KeysUnique, Collides
    <3> QED
      BY <1>1, <1>2, <2>1, <2>3, <2>5, <3>1, <3>2, PoolFrame
  <2> QED
    BY <2>4, <2>5
<1>8. CASE WritePool
  BY <1>1, <1>2, <1>8, PoolFrame DEF WritePool
<1>9. CASE WritePoolSummary
  <2>1. {s.batch : s \in sources} \subseteq BatchIds
    BY <1>1 DEF Sources
  <2>2. poolSummary' \in [completed : SUBSET BatchIds, pending : SUBSET BatchIds,
                          build : 0 .. MaxBuilds]
    BY <1>1, <1>9, <2>1 DEF WritePoolSummary
  <2> QED
    BY <1>1, <1>2, <1>3, <1>9, <2>2, PoolFrame DEF WritePoolSummary
<1>10. CASE PoolStops
  BY <1>1, <1>2, <1>3, <1>10, PoolFrame DEF PoolStops, poolFiles
<1> QED
  BY <1>4, <1>5, <1>6, <1>7, <1>8, <1>9, <1>10 DEF PoolWorks

-----------------------------------------------------------------------------
(* What the pool gathers *)

\* The executor makes the rows of a directory newer than every source of it.
LEMMA GatherFrame ==
    ASSUME TypeOK, GatherInv, UNCHANGED <<poolFiles, poolVars>>,
           rows' \in [Dirs -> RowFiles], summaries' \in [Dirs -> Summaries],
           NEW d \in Dirs,
           \A e \in Dirs \ {d} : rows'[e] = rows[e] /\ summaries'[e] = summaries[e],
           rows[d].run <= rows'[d].run, summaries[d].run < rows'[d].run,
           summaries'[d].run <= rows'[d].run
    PROVE  GatherInv'
<1>1. /\ sources \subseteq Sources /\ poolSources \subseteq Sources
      /\ \A s \in Sources : s.dir \in Dirs /\ s.run \in Int
      /\ \A e \in Dirs : /\ rows[e].run \in Int /\ rows'[e].run \in Int
                        /\ summaries[e].run \in Int /\ summaries'[e].run \in Int
  BY DEF TypeOK, Sources, RowFiles, Summaries
<1>2. UNCHANGED <<poolRows, poolSources, poolPc, todo, sources, collected>>
  BY DEF poolFiles, poolVars
<1>3. ASSUME NEW s \in sources \cup poolSources
      PROVE  /\ Vouched(s)'
             /\ s.run = rows'[s.dir].run =>
                    s.run = rows[s.dir].run /\ RowsOf(s.dir)' = RowsOf(s.dir)
  <2>1. Vouched(s) /\ s.dir \in Dirs
    BY <1>1 DEF GatherInv
  <2>2. CASE s.dir = d
    <3>1. s.run \in Int /\ s.run <= rows[d].run /\ 0 < s.run
          /\ (s.run = rows[d].run => summaries[d].run = s.run)
      BY <1>1, <2>1, <2>2 DEF Vouched
    <3>2. s.run <= rows'[d].run /\ s.run # rows'[d].run
      <4>1. rows[d].run \in Int /\ rows'[d].run \in Int /\ summaries[d].run \in Int
        BY <1>1
      <4> QED
        BY <3>1, <4>1
    <3> QED
      BY <2>1, <2>2, <3>1, <3>2 DEF Vouched
  <2>3. CASE s.dir # d
    <3>1. rows'[s.dir] = rows[s.dir] /\ summaries'[s.dir] = summaries[s.dir]
      BY <2>1, <2>3
    <3> QED
      BY <2>1, <3>1 DEF Vouched, RowsOf
  <2> QED
    BY <2>2, <2>3
<1>4. \A e \in Dirs : summaries'[e].run <= rows'[e].run
  BY DEF GatherInv
<1>5. \A s \in sources' \cup poolSources' : Vouched(s)'
  BY <1>2, <1>3
<1>6. /\ \A s \in poolSources : Gathered(s, poolRows) => Gathered(s, poolRows)'
      /\ \A s \in sources : Gathered(s, collected) => Gathered(s, collected)'
      /\ \A s \in poolSources : Again(s) => Again(s)'
  BY <1>2, <1>3 DEF Gathered, Again
<1> QED
  BY <1>2, <1>4, <1>5, <1>6 DEF GatherInv

LEMMA GatherStays ==
    ASSUME GatherInv, UNCHANGED <<runFiles, poolFiles, poolVars>>
    PROVE  GatherInv'
<1>1. UNCHANGED <<rows, summaries, poolRows, poolSources, poolPc, todo, sources, collected>>
  BY DEF runFiles, poolFiles, poolVars
<1> QED
  BY <1>1 DEF GatherInv, Vouched, Gathered, Again, RowsOf

LEMMA GatherExecutor ==
    ASSUME QueueInv, QueueInv', GatherInv, ExecutorWorks \/ ExecutorStops
    PROVE  GatherInv'
<1>1. /\ TypeOK /\ Marked /\ Evaluating /\ runs \in Int
      /\ rows' \in [Dirs -> RowFiles] /\ summaries' \in [Dirs -> Summaries]
      /\ \A e \in Dirs : rows[e].run \in Int /\ summaries[e].run \in Int
  BY DEF QueueInv, RunInv, TypeOK, RowFiles, Summaries
<1>2. CASE BeginExecution \/ ReadJobs \/ ReadBatch \/ ExecutorStops
  BY <1>2, GatherStays DEF BeginExecution, ReadJobs, ReadBatch, ExecutorStops
<1>3. CASE Campaign
  <2>1. dir \in Dirs /\ \A e \in Dirs : rows[e].run < runs /\ summaries[e].run < runs
    BY <1>1, <1>3 DEF Campaign, Marked
  <2>2. /\ rows'[dir].run = runs /\ summaries' = summaries
        /\ \A e \in Dirs \ {dir} : rows'[e] = rows[e]
        /\ UNCHANGED <<poolFiles, poolVars>>
    BY <1>1, <1>3, <2>1 DEF Campaign, TypeOK
  <2> QED
    BY <1>1, <2>1, <2>2, GatherFrame
<1>4. CASE WriteRow
  <2>1. dir \in Dirs /\ rows[dir].run = runs /\ summaries[dir].run < runs
    BY <1>1, <1>4 DEF WriteRow, Marked, Evaluating
  <2>2. /\ rows'[dir].run = runs /\ summaries' = summaries
        /\ \A e \in Dirs \ {dir} : rows'[e] = rows[e]
        /\ UNCHANGED <<poolFiles, poolVars>>
    <3>1. /\ summaries' = summaries /\ UNCHANGED <<poolFiles, poolVars>>
          /\ \A e \in Dirs \ {dir} : rows'[e] = rows[e]
      BY <1>1, <1>4, <2>1 DEF WriteRow, TypeOK
    <3>2. rows'[dir].run = rows[dir].run
      BY <1>1, <1>4, <2>1 DEF WriteRow, TypeOK, RowFiles
    <3> QED
      BY <2>1, <3>1, <3>2
  <2> QED
    BY <1>1, <2>1, <2>2, GatherFrame
<1>5. CASE WriteSummary
  <2>1. dir \in Dirs /\ rows[dir].run = runs /\ summaries[dir].run < runs
    BY <1>1, <1>5 DEF WriteSummary, Marked, Evaluating
  <2>2. /\ rows' = rows /\ summaries'[dir].run = runs
        /\ \A e \in Dirs \ {dir} : summaries'[e] = summaries[e]
        /\ UNCHANGED <<poolFiles, poolVars>>
    BY <1>1, <1>5, <2>1 DEF WriteSummary, TypeOK
  <2> QED
    BY <1>1, <2>1, <2>2, GatherFrame
<1> QED
  BY <1>2, <1>3, <1>4, <1>5 DEF ExecutorWorks

LEMMA GatherForgets ==
    ASSUME GatherInv, PoolForgets,
           UNCHANGED <<rows, summaries, poolRows, poolSources>>
    PROVE  GatherInv'
BY DEF GatherInv, PoolForgets, Vouched, Gathered, RowsOf

\* A directory is taken for what its summary says.
LEMMA GatherScan ==
    ASSUME QueueInv, GatherInv, ScanDir
    PROVE  GatherInv'
<1>1. PICK d \in Next1(todo) :
          /\ todo' = todo \ {d}
          /\ sources' = IF TakesDir(d)
                        THEN sources \cup {[dir |-> d, batch |-> summaries[d].batch,
                                            run |-> summaries[d].run]}
                        ELSE sources
  BY DEF ScanDir
<1>2. /\ UNCHANGED <<rows, summaries, poolRows, poolSources, poolPc, collected>>
      /\ poolPc = "scan"
  BY DEF ScanDir, runFiles, poolFiles
<1>3. d \in Dirs /\ poolSources \subseteq Sources
  BY DEF QueueInv, TypeOK, Next1
<1> DEFINE found == [dir |-> d, batch |-> summaries[d].batch, run |-> summaries[d].run]
<1>4. TakesDir(d) => Vouched(found)
  <2>1. summaries[d].run \in Int /\ summaries[d].run <= rows[d].run
    BY <1>3 DEF GatherInv, QueueInv, TypeOK, Summaries
  <2> QED
    BY <2>1 DEF TakesDir, Vouched
<1>5. \A s \in sources' \cup poolSources' : Vouched(s)'
  BY <1>1, <1>2, <1>4 DEF GatherInv, Vouched
<1>6. ASSUME NEW s \in poolSources, s.dir \notin todo' PROVE Again(s)'
  <2>1. CASE s.dir = d
    <3> SUFFICES ASSUME s.run = rows[d].run PROVE s \in sources'
      BY <1>2, <2>1 DEF Again
    <3>1. /\ 0 < s.run /\ summaries[d].run = s.run /\ summaries[d].batch = s.batch
          /\ summaries[d].outcome \in Passed
      BY <2>1 DEF GatherInv, Vouched
    <3>2. TakesDir(d) /\ s = found
      BY <1>3, <2>1, <3>1 DEF TakesDir, Sources
    <3> QED
      BY <1>1, <3>2
  <2>2. CASE s.dir # d
    BY <1>1, <1>2, <1>6, <2>2 DEF GatherInv, Again
  <2> QED
    BY <2>1, <2>2
<1>7. \A s \in poolSources' : Gathered(s, poolRows)'
  BY <1>2 DEF GatherInv, Gathered, RowsOf
<1> QED
  BY <1>2, <1>5, <1>6, <1>7 DEF GatherInv

LEMMA GatherCombine ==
    ASSUME QueueInv, GatherInv, CombineDir
    PROVE  GatherInv'
<1>1. PICK d \in Next1(todo) :
          IF Collides(d)
          THEN PoolForgets
          ELSE /\ collected' = collected \cup RowsOf(d)
               /\ todo' = todo \ {d}
               /\ UNCHANGED <<poolPc, batchRows, sources>>
  BY DEF CombineDir
<1>2. poolPc = "combine" /\ UNCHANGED <<rows, summaries, poolRows, poolSources>>
  BY DEF CombineDir, runFiles, poolFiles
<1>3. CASE Collides(d)
  BY <1>1, <1>2, <1>3, GatherForgets
<1>4. CASE ~Collides(d)
  <2>1. /\ collected' = collected \cup RowsOf(d) /\ todo' = todo \ {d} /\ d \in todo
        /\ UNCHANGED <<poolPc, sources>>
    BY <1>1, <1>4 DEF Next1
  <2>2. /\ \A r \in RowsOf(d) : r.dir = d
        /\ \A r \in collected : r.dir \notin todo
    BY <1>2 DEF RowsOf, GatherInv
  <2>3. \A r \in collected' : r.dir \notin todo'
    BY <2>1, <2>2
  <2>4. ASSUME NEW s \in sources, s.dir \notin todo' PROVE Gathered(s, collected)'
    <3>1. CASE s.dir = d
      <4>1. {r \in collected' : r.dir = d} = RowsOf(d)
        BY <2>1, <2>2
      <4> QED
        BY <1>2, <3>1, <4>1 DEF Gathered, RowsOf
    <3>2. CASE s.dir # d
      <4>1. {r \in collected' : r.dir = s.dir} = {r \in collected : r.dir = s.dir}
        BY <2>1, <2>2, <3>2
      <4>2. Gathered(s, collected)
        BY <1>2, <2>1, <2>4, <3>2 DEF GatherInv
      <4> QED
        BY <1>2, <4>1, <4>2 DEF Gathered, RowsOf
    <3> QED
      BY <3>1, <3>2
  <2>5. /\ \A s \in poolSources' : Gathered(s, poolRows)' /\ Again(s)'
        /\ \A s \in sources' \cup poolSources' : Vouched(s)'
    BY <1>2, <2>1 DEF GatherInv, Gathered, RowsOf, Again, Vouched
  <2> QED
    BY <1>2, <2>1, <2>3, <2>4, <2>5 DEF GatherInv
<1> QED
  BY <1>3, <1>4

LEMMA GatherPool ==
    ASSUME QueueInv, GatherInv, PoolWorks \/ PoolStops
    PROVE  GatherInv'
<1>1. /\ rows' = rows /\ summaries' = summaries
      /\ \A s \in poolSources : s.dir \in Dirs
  BY DEF PoolWorks, PoolStops, BeginPool, ScanDir, EndScan, CombineDir, WritePool,
         WritePoolSummary, runFiles, QueueInv, TypeOK, Sources
<1>2. CASE BeginPool
  <2>1. /\ UNCHANGED <<poolRows, poolSources, sources, collected>> /\ todo' = Dirs
        /\ poolPc = "idle" /\ poolPc' = "scan"
    BY <1>2 DEF BeginPool, poolFiles
  <2> QED
    BY <1>1, <2>1 DEF GatherInv, Vouched, Gathered, RowsOf
<1>3. CASE EndScan
  <2>1. /\ UNCHANGED <<poolRows, poolSources, sources, collected>> /\ todo = {}
        /\ todo' = {s.dir : s \in sources} /\ poolPc = "scan" /\ poolPc' = "combine"
    BY <1>3 DEF EndScan, poolFiles
  <2> QED
    BY <1>1, <2>1 DEF GatherInv, Vouched, Gathered, RowsOf, Again
<1>4. CASE WritePool
  <2>1. /\ poolRows' = collected /\ poolSources' = sources /\ UNCHANGED <<sources, collected>>
        /\ todo = {} /\ poolPc = "combine" /\ poolPc' = "summary"
    BY <1>4 DEF WritePool
  <2> QED
    BY <1>1, <2>1 DEF GatherInv, Vouched, Gathered, RowsOf
<1>5. CASE WritePoolSummary \/ PoolStops
  BY <1>1, <1>5, GatherForgets DEF WritePoolSummary, PoolStops, poolFiles
<1> QED
  BY <1>2, <1>3, <1>4, <1>5, GatherScan, GatherCombine DEF PoolWorks

LEMMA GatherNext ==
    QueueInv /\ QueueInv' /\ GatherInv /\ [Next]_vars => GatherInv'
<1> SUFFICES ASSUME QueueInv, QueueInv', GatherInv, [Next]_vars PROVE GatherInv'
  OBVIOUS
<1>1. CASE UNCHANGED vars \/ Download \/ BuilderWorks \/ BuilderStops
  <2>1. UNCHANGED <<runFiles, poolFiles, poolVars>>
    BY <1>1 DEF vars, Download, BuilderWorks, BuilderStops, BeginBuild, WriteMatrixRow, BeginJobs,
                WriteJobRow, BeginBatches, WriteBatchRow, EndBuild
  <2> QED
    BY <2>1, GatherStays
<1> QED
  BY <1>1, GatherExecutor, GatherPool DEF Next

LEMMA GatherInit == Init => GatherInv
BY DEF Init, GatherInv

\* What a directory holds, read as pool rows and put together again.
LEMMA PooledIsRows ==
    ASSUME QueueInv, NEW s \in poolSources, {r \in poolRows : r.dir = s.dir} = RowsOf(s.dir)
    PROVE  Pooled(s) = rows[s.dir].results
<1> DEFINE f == rows[s.dir].results
           mine == RowsOf(s.dir)
<1>1. PICK S \in SUBSET Jobs : f \in [S -> Statuses]
  <2>1. s.dir \in Dirs /\ rows \in [Dirs -> RowFiles]
    BY DEF QueueInv, TypeOK, Sources
  <2>2. f \in Results
    BY <2>1 DEF RowFiles
  <2> HIDE DEF f
  <2> QED
    BY <2>2 DEF Results
<1>2. \A r \in mine : r.job \in S /\ r.status = f[r.job]
  BY <1>1 DEF RowsOf
<1>3. ASSUME NEW j \in S PROVE \E r \in mine : r.job = j
  <2> DEFINE row == [dir |-> s.dir, run |-> rows[s.dir].run, batch |-> rows[s.dir].batch,
                     job |-> j, status |-> rows[s.dir].results[j]]
  <2>1. row \in mine
    BY <1>1 DEF RowsOf
  <2> QED
    BY <2>1
<1> DEFINE Joined(R) == [j \in {r.job : r \in R} |-> (CHOOSE r \in R : r.job = j).status]
<1>4. Pooled(s) = Joined({r \in poolRows : r.dir = s.dir})
  BY DEF Pooled
<1> HIDE DEF mine, f
<1>5. Pooled(s) = [j \in S |-> (CHOOSE r \in mine : r.job = j).status]
  <2>1. Pooled(s) = Joined(mine)
    <3> HIDE DEF Joined
    <3> QED
      BY <1>4 DEF mine
  <2>2. {r.job : r \in mine} = S
    BY <1>2, <1>3
  <2> QED
    BY <2>1, <2>2
<1>6. \A j \in S : (CHOOSE r \in mine : r.job = j).status = f[j]
  BY <1>2, <1>3
<1>7. Pooled(s) = [j \in S |-> f[j]]
  BY <1>5, <1>6
<1> QED
  BY <1>1, <1>7 DEF f

-----------------------------------------------------------------------------
(* A finished build *)

LEMMA TimesMonotone ==
    ASSUME NEW b \in Nat, NEW p \in Int, NEW q \in Int, p <= q
    PROVE  b * p <= b * q
<1> DEFINE d == q - p
<1>1. d \in Nat /\ q = p + d
  OBVIOUS
<1>2. b * d \in Nat
  BY <1>1
<1> HIDE DEF d
<1>3. b * q = b * p + b * d
  BY <1>1
<1> QED
  BY <1>2, <1>3

\* What makes a number the quotient.
LEMMA QuotientIs ==
    ASSUME NEW a \in Nat, NEW b \in Nat \ {0}, NEW q \in Int
    PROVE  a \div b = q <=> b * q <= a /\ a < b * q + b
<1> DEFINE p == a \div b
<1>1. p \in Int /\ b * p <= a /\ a < b * p + b
  OBVIOUS
<1> HIDE DEF p
<1>2. ASSUME b * q <= a, a < b * q + b PROVE p = q
  <2>1. CASE p < q
    <3>1. b * (p + 1) <= b * q
      BY <1>1, <2>1, TimesMonotone
    <3>2. b * (p + 1) = b * p + b
      BY <1>1
    <3> QED
      BY <1>1, <1>2, <3>1, <3>2
  <2>2. CASE q < p
    <3>1. b * (q + 1) <= b * p
      BY <1>1, <2>2, TimesMonotone
    <3>2. b * (q + 1) = b * q + b
      OBVIOUS
    <3> QED
      BY <1>1, <1>2, <3>1, <3>2
  <2> QED
    BY <1>1, <2>1, <2>2
<1> QED
  BY <1>1, <1>2 DEF p

\* The place of a matrix in the plan.
Rank(plan, m) == Cardinality({n \in plan : n < m})

LEMMA RankRises ==
    ASSUME NEW plan \in SUBSET Matrices, NEW m \in plan, NEW n \in plan, m < n
    PROVE  Rank(plan, m) < Rank(plan, n)
<1> DEFINE low == {k \in plan : k < m}
           high == {k \in plan : k < n}
<1>1. plan \subseteq Nat /\ IsFiniteSet(plan)
  BY IndexAssumption, FS_Subset
<1>2. IsFiniteSet(low) /\ IsFiniteSet(high) /\ m \notin low /\ low \cup {m} \subseteq high
  <2>1. m \in Nat /\ n \in Nat /\ \A k \in plan : k \in Nat
    BY <1>1
  <2>2. m \notin low /\ low \cup {m} \subseteq high
    <3>1. ~(m < m)
      BY <2>1
    <3>2. \A k \in plan : k < m => k < n
      BY <2>1
    <3> QED
      BY <3>1, <3>2
  <2>3. low \subseteq plan /\ high \subseteq plan
    OBVIOUS
  <2> QED
    BY <1>1, <2>2, <2>3, FS_Subset
<1> HIDE DEF low, high
<1>3. /\ Cardinality(low \cup {m}) = Cardinality(low) + 1
      /\ Cardinality(low \cup {m}) <= Cardinality(high)
      /\ Cardinality(low) \in Nat /\ Cardinality(high) \in Nat
  BY <1>2, FS_AddElement, FS_Subset, FS_CardinalityType
<1> QED
  BY <1>3 DEF Rank, low, high

\* Every place is taken, once.
LEMMA RankIsBijection ==
    ASSUME NEW plan \in SUBSET Matrices
    PROVE  /\ Cardinality(plan) \in Nat
           /\ \A m \in plan : Rank(plan, m) \in 0 .. Cardinality(plan) - 1
           /\ \A m, n \in plan : Rank(plan, m) = Rank(plan, n) => m = n
           /\ \A k \in 0 .. Cardinality(plan) - 1 : \E m \in plan : Rank(plan, m) = k
<1> DEFINE c == Cardinality(plan)
           places == 0 .. c - 1
           f == [m \in plan |-> Rank(plan, m)]
<1>1. plan \subseteq Nat /\ IsFiniteSet(plan) /\ c \in Nat
  BY IndexAssumption, FS_Subset, FS_CardinalityType
<1>2. ASSUME NEW m \in plan PROVE Rank(plan, m) \in places
  <2> DEFINE low == {k \in plan : k < m}
  <2>1. low \subseteq plan \ {m}
    BY <1>1
  <2>2. IsFiniteSet(plan \ {m}) /\ Cardinality(plan \ {m}) = c - 1
    BY <1>1, FS_RemoveElement
  <2>3. Cardinality(low) <= c - 1 /\ Cardinality(low) \in Nat
    BY <2>1, <2>2, FS_Subset, FS_CardinalityType
  <2> QED
    BY <1>1, <2>3 DEF Rank
<1>3. ASSUME NEW m \in plan, NEW n \in plan, Rank(plan, m) = Rank(plan, n) PROVE m = n
  <2>1. m \in Nat /\ n \in Nat /\ Rank(plan, m) \in Int /\ Rank(plan, n) \in Int
    BY <1>1, <1>2
  <2>2. ~(m < n) /\ ~(n < m)
    BY <1>3, <2>1, RankRises
  <2> QED
    BY <2>1, <2>2
<1>4. f \in Injection(plan, places)
  BY <1>2, <1>3 DEF Injection, IsInjective
<1>5. IsFiniteSet(places) /\ Cardinality(places) = c
  <2>1. c - 1 \in Int
    BY <1>1
  <2> QED
    BY <1>1, <2>1, FS_Interval
<1>6. f \in Surjection(plan, places)
  <2> HIDE DEF f, places
  <2> QED
    BY <1>4, <1>5, FS_Injection
<1>7. \A k \in places : \E m \in plan : Rank(plan, m) = k
  BY <1>6 DEF Surjection
<1> QED
  BY <1>1, <1>2, <1>3, <1>7

Members(plan, b) == {n \in plan : BatchOf(plan, n) = b}

\* A batch is an interval of places.
LEMMA MembersAre ==
    ASSUME NEW plan \in SUBSET Matrices, NEW m \in plan, NEW b \in Nat
    PROVE  BatchOf(plan, m) = b <=>
               /\ BatchSize * (b - 1) <= Rank(plan, m)
               /\ Rank(plan, m) < BatchSize * (b - 1) + BatchSize
<1>1. Rank(plan, m) \in Nat /\ BatchSize \in Nat \ {0} /\ b - 1 \in Int
  <2>1. Rank(plan, m) \in 0 .. Cardinality(plan) - 1 /\ Cardinality(plan) \in Nat
    BY RankIsBijection
  <2> QED
    BY <2>1, BatchSizeAssumption
<1>2. BatchOf(plan, m) = Rank(plan, m) \div BatchSize + 1
  BY DEF BatchOf, Rank
<1>3. Rank(plan, m) \div BatchSize \in Int
  BY <1>1
<1>4. BatchOf(plan, m) = b <=> Rank(plan, m) \div BatchSize = b - 1
  BY <1>2, <1>3
<1> QED
  BY <1>1, <1>4, QuotientIs

\* No batch is larger than a batch may be, and all but the last are full.
LEMMA MembersCount ==
    ASSUME NEW plan \in SUBSET Matrices, NEW b \in Nat
    PROVE  /\ Cardinality(Members(plan, b)) <= BatchSize
           /\ \A m \in plan : BatchOf(plan, m) > b /\ b > 0 => Cardinality(Members(plan, b)) = BatchSize
<1> DEFINE first == BatchSize * (b - 1)
           places == first .. first + BatchSize - 1
           members == Members(plan, b)
           f == [m \in members |-> Rank(plan, m)]
<1>1. BatchSize \in Nat \ {0} /\ first \in Int /\ first + BatchSize - 1 \in Int
  BY BatchSizeAssumption
<1>2. /\ Cardinality(plan) \in Nat
      /\ \A m \in plan : Rank(plan, m) \in 0 .. Cardinality(plan) - 1
      /\ \A m, n \in plan : Rank(plan, m) = Rank(plan, n) => m = n
      /\ \A k \in 0 .. Cardinality(plan) - 1 : \E m \in plan : Rank(plan, m) = k
  BY RankIsBijection
<1>3. \A m \in members : m \in plan /\ Rank(plan, m) \in places
  <2> SUFFICES ASSUME NEW m \in members PROVE m \in plan /\ Rank(plan, m) \in places
    OBVIOUS
  <2>1. m \in plan /\ BatchOf(plan, m) = b
    BY DEF Members
  <2>2. first <= Rank(plan, m) /\ Rank(plan, m) < first + BatchSize
    BY <2>1, MembersAre
  <2>3. Rank(plan, m) \in Int
    BY <1>2, <2>1
  <2> HIDE DEF first
  <2> QED
    BY <1>1, <2>1, <2>2, <2>3
<1>4. f \in Injection(members, places)
  BY <1>2, <1>3 DEF Injection, IsInjective
<1>5. IsFiniteSet(places) /\ Cardinality(places) = BatchSize
  <2> HIDE DEF first
  <2> QED
    BY <1>1, FS_Interval
<1>6. /\ Cardinality(members) <= BatchSize
      /\ Cardinality(members) = BatchSize <=> f \in Surjection(members, places)
  <2> HIDE DEF f, places, members
  <2> QED
    BY <1>4, <1>5, FS_Injection
<1>7. ASSUME NEW m \in plan, BatchOf(plan, m) > b, b > 0
      PROVE  f \in Surjection(members, places)
  <2> DEFINE q == BatchOf(plan, m)
  <2>1. q \in Nat /\ q > b
    BY <1>7, BatchOfType DEF BatchIds
  <2>2. BatchSize * (q - 1) <= Rank(plan, m)
    BY <2>1, MembersAre
  <2>3. BatchSize * b <= BatchSize * (q - 1)
    BY <1>1, <2>1, TimesMonotone
  <2>4. BatchSize * b = first + BatchSize
    BY <1>1
  <2>5. 0 <= first
    <3>1. b - 1 \in Nat
      BY <1>7
    <3> QED
      BY <1>1, <3>1
  <2>6. \A k \in places : k \in 0 .. Cardinality(plan) - 1
    <3>1. first + BatchSize <= Cardinality(plan) - 1
      <4>1. Rank(plan, m) <= Cardinality(plan) - 1 /\ Rank(plan, m) \in Int
        BY <1>2
      <4>2. BatchSize * (q - 1) \in Int /\ BatchSize * b \in Int
        BY <1>1, <2>1
      <4> HIDE DEF first, q
      <4> QED
        BY <1>1, <1>2, <2>2, <2>3, <2>4, <4>1, <4>2
    <3> HIDE DEF first
    <3> QED
      BY <1>1, <1>2, <2>5, <3>1
  <2>7. ASSUME NEW k \in places PROVE \E n \in members : f[n] = k
    <3>1. PICK n \in plan : Rank(plan, n) = k
      BY <1>2, <2>6
    <3>2. first <= Rank(plan, n) /\ Rank(plan, n) < first + BatchSize
      <4> HIDE DEF first
      <4> QED
        BY <1>1, <3>1
    <3>3. n \in members
      BY <3>1, <3>2, MembersAre DEF Members
    <3> QED
      BY <3>1, <3>3
  <2> QED
    BY <1>4, <2>7 DEF Injection, Surjection
<1> QED
  BY <1>6, <1>7

\* The numbers have no gap, and rise with the index.
LEMMA BatchesInOrder ==
    ASSUME NEW plan \in SUBSET Matrices
    PROVE  /\ \A m, n \in plan : m <= n => BatchOf(plan, m) <= BatchOf(plan, n)
           /\ \A m \in plan : \A b \in 1 .. BatchOf(plan, m) : \E n \in plan : BatchOf(plan, n) = b
<1>1. /\ Cardinality(plan) \in Nat /\ BatchSize \in Nat \ {0} /\ plan \subseteq Nat
      /\ \A m \in plan : Rank(plan, m) \in 0 .. Cardinality(plan) - 1
      /\ \A k \in 0 .. Cardinality(plan) - 1 : \E m \in plan : Rank(plan, m) = k
  BY RankIsBijection, BatchSizeAssumption, IndexAssumption
<1>2. ASSUME NEW m \in plan
      PROVE  /\ BatchOf(plan, m) \in Nat \ {0} /\ Rank(plan, m) \in Nat
             /\ BatchSize * (BatchOf(plan, m) - 1) <= Rank(plan, m)
             /\ Rank(plan, m) < BatchSize * (BatchOf(plan, m) - 1) + BatchSize
  <2>1. BatchOf(plan, m) \in Nat \ {0}
    BY BatchOfType DEF BatchIds
  <2> QED
    BY <1>1, <2>1, MembersAre
<1>3. ASSUME NEW m \in plan, NEW n \in plan, m <= n, BatchOf(plan, n) < BatchOf(plan, m)
      PROVE  FALSE
  <2> DEFINE low == BatchOf(plan, n)
             high == BatchOf(plan, m)
  <2>1. Rank(plan, m) <= Rank(plan, n)
    <3>1. m < n \/ m = n
      BY <1>1, <1>3
    <3> QED
      BY <1>2, <3>1, RankRises
  <2>2. low \in Nat /\ high \in Nat /\ low <= high - 1
    BY <1>2, <1>3
  <2>3. BatchSize * low <= BatchSize * (high - 1)
    BY <1>1, <2>2, TimesMonotone
  <2>4. BatchSize * low = BatchSize * (low - 1) + BatchSize
    BY <1>1, <2>2
  <2>5. BatchSize * (low - 1) \in Int /\ BatchSize * (high - 1) \in Int
    BY <1>1, <2>2
  <2>6. /\ Rank(plan, n) < BatchSize * (low - 1) + BatchSize
        /\ BatchSize * (high - 1) <= Rank(plan, m)
        /\ Rank(plan, m) \in Nat /\ Rank(plan, n) \in Nat
    BY <1>2
  <2> HIDE DEF low, high
  <2> QED
    BY <1>1, <2>1, <2>3, <2>4, <2>5, <2>6
<1>4. ASSUME NEW m \in plan, NEW b \in 1 .. BatchOf(plan, m)
      PROVE  \E n \in plan : BatchOf(plan, n) = b
  <2> DEFINE place == BatchSize * (b - 1)
  <2>1. b \in Nat /\ b - 1 \in Nat /\ b - 1 <= BatchOf(plan, m) - 1
    BY <1>2
  <2>2. place <= BatchSize * (BatchOf(plan, m) - 1)
    <3>1. BatchSize \in Nat /\ b - 1 \in Int /\ BatchOf(plan, m) - 1 \in Int
      BY <1>1, <1>2, <2>1
    <3> QED
      BY <2>1, <3>1, TimesMonotone
  <2>3. place \in Nat
    BY <1>1, <2>1
  <2>4. BatchSize * (BatchOf(plan, m) - 1) \in Int
    BY <1>1, <1>2
  <2>5. place \in 0 .. Cardinality(plan) - 1
    <3> HIDE DEF place
    <3> QED
      BY <1>1, <1>2, <2>2, <2>3, <2>4
  <2>6. PICK n \in plan : Rank(plan, n) = place
    BY <1>1, <2>5
  <2>7. place <= Rank(plan, n) /\ Rank(plan, n) < place + BatchSize
    <3> HIDE DEF place
    <3> QED
      BY <1>1, <2>3, <2>6
  <2> QED
    BY <2>1, <2>7, MembersAre
<1>5. ASSUME NEW m \in plan, NEW n \in plan, m <= n PROVE BatchOf(plan, m) <= BatchOf(plan, n)
  BY <1>2, <1>3, <1>5
<1> QED
  BY <1>4, <1>5

\* What a batch row counts is what the other files hold of the batch.
LEMMA RowsCount ==
    ASSUME NEW plan \in SUBSET Matrices, NEW b \in Nat
    PROVE  /\ Cardinality({s \in MatrixRowsOf(plan) : s.batch = b}) = Cardinality(Members(plan, b))
           /\ Cardinality({s \in JobRowsOf(plan) : s.batch = b})
                  = Cardinality(Members(plan, b) \X Candidates)
<1> DEFINE members == Members(plan, b)
           ofMatrices == {s \in MatrixRowsOf(plan) : s.batch = b}
           ofJobs == {s \in JobRowsOf(plan) : s.batch = b}
           f == [m \in members |-> [matrix |-> m, batch |-> b]]
           g == [j \in members \X Candidates |-> [job |-> j, batch |-> b]]
<1>1. IsFiniteSet(members) /\ IsFiniteSet(members \X Candidates)
  <2>1. IsFiniteSet(members)
    BY IndexAssumption, FS_Subset DEF Members
  <2> QED
    BY <2>1, FS_Product, CandidatesAssumption
<1>2. f \in Bijection(members, ofMatrices)
  <2>1. \A m \in members : f[m] \in ofMatrices /\ f[m].matrix = m
    BY DEF Members, MatrixRowsOf
  <2>2. ASSUME NEW s \in ofMatrices PROVE \E m \in members : f[m] = s
    <3>1. PICK m \in plan : s = [matrix |-> m, batch |-> BatchOf(plan, m)]
      BY DEF MatrixRowsOf
    <3>2. m \in members /\ f[m] = s
      BY <3>1 DEF Members
    <3> QED
      BY <3>2
  <2>3. f \in [members -> ofMatrices] /\ \A m, n \in members : f[m] = f[n] => m = n
    <3>1. \A m, n \in members : f[m] = f[n] => m = n
      BY <2>1
    <3>2. DOMAIN f = members /\ f = [m \in members |-> f[m]]
      OBVIOUS
    <3> HIDE DEF f, members, ofMatrices
    <3> QED
      BY <2>1, <3>1, <3>2
  <2> HIDE DEF f, members, ofMatrices
  <2> QED
    BY <2>2, <2>3 DEF Bijection, Injection, Surjection, IsInjective
<1>3. g \in Bijection(members \X Candidates, ofJobs)
  <2>1. \A j \in members \X Candidates : g[j] \in ofJobs /\ g[j].job = j
    <3> SUFFICES ASSUME NEW j \in members \X Candidates
                 PROVE  [job |-> j, batch |-> b] \in ofJobs
      OBVIOUS
    <3>1. j \in plan \X Candidates /\ BatchOf(plan, j[1]) = b
      BY DEF Members
    <3> QED
      BY <3>1 DEF JobRowsOf
  <2>2. ASSUME NEW s \in ofJobs PROVE \E j \in members \X Candidates : g[j] = s
    <3>1. PICK j \in plan \X Candidates : s = [job |-> j, batch |-> BatchOf(plan, j[1])]
      BY DEF JobRowsOf
    <3>2. j \in members \X Candidates /\ g[j] = s
      <4>1. BatchOf(plan, j[1]) = b
        BY <3>1
      <4>2. j \in members \X Candidates
        BY <4>1 DEF Members
      <4> QED
        BY <3>1, <4>1, <4>2
    <3> QED
      BY <3>2
  <2>3. g \in [members \X Candidates -> ofJobs]
        /\ \A j, k \in members \X Candidates : g[j] = g[k] => j = k
    <3>1. \A j, k \in members \X Candidates : g[j] = g[k] => j = k
      BY <2>1
    <3>2. DOMAIN g = members \X Candidates /\ g = [j \in members \X Candidates |-> g[j]]
      OBVIOUS
    <3> HIDE DEF g, members, ofJobs
    <3> QED
      BY <2>1, <3>1, <3>2
  <2> HIDE DEF g, members, ofJobs
  <2> QED
    BY <2>2, <2>3 DEF Bijection, Injection, Surjection, IsInjective
<1> HIDE DEF members, ofMatrices, ofJobs, f, g
<1>4. ExistsBijection(members, ofMatrices) /\ ExistsBijection(members \X Candidates, ofJobs)
  BY <1>2, <1>3 DEF ExistsBijection
<1>5. /\ Cardinality(ofMatrices) = Cardinality(members)
      /\ Cardinality(ofJobs) = Cardinality(members \X Candidates)
  BY <1>1, <1>4, FS_Bijection
<1> QED
  BY <1>5 DEF members, ofMatrices, ofJobs

LEMMA FinishedBuild ==
    ASSUME TypeOK, BuildInv, builderPc = "batches", BatchRowsOf(queued) \subseteq batchFile
    PROVE  BatchesPartitionQueue
<1>1. /\ queued \in SUBSET Matrices /\ matrixFile = MatrixRowsOf(queued)
      /\ jobFile = JobRowsOf(queued) /\ batchFile = BatchRowsOf(queued)
  BY DEF TypeOK, BuildInv
<1>2. \A m \in queued : BatchOf(queued, m) \in Nat \ {0}
  BY <1>1, BatchOfType DEF BatchIds
<1>3. /\ \A r \in matrixFile : r.matrix \in queued /\ r.batch = BatchOf(queued, r.matrix)
      /\ \A m \in queued : \E r \in matrixFile : r.matrix = m /\ r.batch = BatchOf(queued, m)
  <2>1. /\ \A r \in matrixFile :
               \E m \in queued : r = [matrix |-> m, batch |-> BatchOf(queued, m)]
        /\ \A m \in queued : [matrix |-> m, batch |-> BatchOf(queued, m)] \in matrixFile
    BY <1>1 DEF MatrixRowsOf
  <2>2. ASSUME NEW r \in matrixFile
        PROVE  r.matrix \in queued /\ r.batch = BatchOf(queued, r.matrix)
    BY <2>1
  <2>3. ASSUME NEW m \in queued
        PROVE  \E r \in matrixFile : r.matrix = m /\ r.batch = BatchOf(queued, m)
    <3> DEFINE row == [matrix |-> m, batch |-> BatchOf(queued, m)]
    <3>1. row \in matrixFile /\ row.matrix = m /\ row.batch = BatchOf(queued, m)
      BY <2>1
    <3> HIDE DEF row
    <3> QED
      BY <3>1
  <2> QED
    BY <2>2, <2>3
<1>4. {r.matrix : r \in matrixFile} = queued
  <2>1. \A r \in matrixFile : r.matrix \in queued
    BY <1>3
  <2>2. \A m \in queued : \E r \in matrixFile : r.matrix = m
    BY <1>3
  <2> QED
    BY <2>1, <2>2
<1>5. ASSUME NEW r \in batchFile
      PROVE  /\ \E m \in queued : BatchOf(queued, m) = r.batch
             /\ r = BatchRow(Members(queued, r.batch), r.batch)
             /\ r.batch \in Nat \ {0}
             /\ r.matrices = Cardinality(Members(queued, r.batch))
             /\ r.jobs = Cardinality(Members(queued, r.batch) \X Candidates)
  <2>1. PICK b \in {BatchOf(queued, m) : m \in queued} : r = BatchRow(Members(queued, b), b)
    BY <1>1 DEF BatchRowsOf, Members
  <2>2. r.batch = b
    BY <2>1 DEF BatchRow
  <2> QED
    BY <1>2, <2>1, <2>2 DEF BatchRow
<1>6. ASSUME NEW r \in batchFile
      PROVE  /\ r.matrices = Cardinality({s \in matrixFile : s.batch = r.batch})
             /\ r.jobs = Cardinality({s \in jobFile : s.batch = r.batch})
             /\ r.matrices <= BatchSize
             /\ \A q \in batchFile : q.batch > r.batch => r.matrices = BatchSize
  <2>1. /\ Cardinality({s \in matrixFile : s.batch = r.batch})
                = Cardinality(Members(queued, r.batch))
        /\ Cardinality({s \in jobFile : s.batch = r.batch})
                = Cardinality(Members(queued, r.batch) \X Candidates)
    BY <1>1, <1>5, RowsCount
  <2>2. Cardinality(Members(queued, r.batch)) <= BatchSize
    BY <1>1, <1>5, MembersCount
  <2>3. ASSUME NEW q \in batchFile, q.batch > r.batch
        PROVE  Cardinality(Members(queued, r.batch)) = BatchSize
    <3>1. PICK m \in queued : BatchOf(queued, m) = q.batch
      BY <1>5
    <3>2. r.batch \in Nat \ {0}
      BY <1>5
    <3>3. r.batch \in Nat /\ r.batch > 0
      BY <3>2
    <3> QED
      BY <1>1, <2>3, <3>1, <3>3, MembersCount
  <2> QED
    BY <1>5, <2>1, <2>2, <2>3
<1>7. \A m \in queued : \E r \in batchFile : r.batch = BatchOf(queued, m)
  <2> SUFFICES ASSUME NEW m \in queued PROVE \E r \in batchFile : r.batch = BatchOf(queued, m)
    OBVIOUS
  <2> DEFINE row == BatchRow(Members(queued, BatchOf(queued, m)), BatchOf(queued, m))
  <2>1. row \in batchFile
    BY <1>1 DEF BatchRowsOf, Members
  <2>2. row.batch = BatchOf(queued, m)
    BY DEF BatchRow
  <2> HIDE DEF row
  <2> QED
    BY <2>1, <2>2
<1>8. {r.batch : r \in matrixFile} = {r.batch : r \in batchFile}
  <2>1. \A r \in matrixFile : \E q \in batchFile : q.batch = r.batch
    BY <1>7, <1>3
  <2>2. ASSUME NEW q \in batchFile PROVE \E r \in matrixFile : r.batch = q.batch
    <3>1. PICK m \in queued : BatchOf(queued, m) = q.batch
      BY <1>5
    <3>2. \E r \in matrixFile : r.matrix = m /\ r.batch = BatchOf(queued, m)
      BY <1>3
    <3> QED
      BY <3>1, <3>2
  <2> QED
    BY <2>1, <2>2
<1>9. \A r, q \in matrixFile : r.matrix <= q.matrix => r.batch <= q.batch
  <2>1. \A m, n \in queued : m <= n => BatchOf(queued, m) <= BatchOf(queued, n)
    BY <1>1, BatchesInOrder
  <2> QED
    BY <1>3, <2>1
<1>10. ASSUME NEW b \in 1 .. Cardinality(batchFile) PROVE \E r \in batchFile : r.batch = b
  <2> SUFFICES ASSUME \A r \in batchFile : r.batch # b PROVE FALSE
    OBVIOUS
  <2> DEFINE f == [r \in batchFile |-> r.batch]
  <2>1. b \in Int /\ 1 <= b /\ b <= Cardinality(batchFile)
    OBVIOUS
  <2>2. ASSUME NEW r \in batchFile PROVE r.batch \in 1 .. b - 1
    <3>1. PICK m \in queued : BatchOf(queued, m) = r.batch
      BY <1>5
    <3>2. ~(b <= r.batch)
      <4> SUFFICES ASSUME b <= r.batch PROVE FALSE
        OBVIOUS
      <4>1. b \in 1 .. BatchOf(queued, m)
        BY <1>2, <2>1, <3>1
      <4>2. PICK n \in queued : BatchOf(queued, n) = b
        BY <1>1, <4>1, BatchesInOrder
      <4> QED
        BY <1>7, <4>2
    <3>3. r.batch \in Nat \ {0}
      BY <1>5
    <3> QED
      BY <2>1, <3>2, <3>3
  <2>3. \A r, q \in batchFile : r.batch = q.batch => r = q
    BY <1>5
  <2>4. f \in Injection(batchFile, 1 .. b - 1)
    BY <2>2, <2>3 DEF Injection, IsInjective
  <2>5. IsFiniteSet(1 .. b - 1) /\ Cardinality(1 .. b - 1) <= b - 1
    <3>1. 1 \in Int /\ b - 1 \in Int
      BY <2>1
    <3>2. /\ IsFiniteSet(1 .. b - 1)
          /\ Cardinality(1 .. b - 1) = IF 1 > b - 1 THEN 0 ELSE b - 1 - 1 + 1
      BY <3>1, FS_Interval
    <3> QED
      BY <2>1, <3>2
  <2>6. Cardinality(batchFile) <= Cardinality(1 .. b - 1) /\ IsFiniteSet(batchFile)
    <3> HIDE DEF f
    <3> QED
      BY <2>4, <2>5, FS_Injection
  <2>7. Cardinality(batchFile) \in Nat /\ Cardinality(1 .. b - 1) \in Nat
    BY <2>5, <2>6, FS_CardinalityType
  <2> QED
    BY <2>1, <2>5, <2>6, <2>7
<1> QED
  BY <1>4, <1>6, <1>8, <1>9, <1>10 DEF BatchesPartitionQueue

LEMMA BuildNext == BuildInv /\ [Next]_vars => BuildInv'
<1> SUFFICES ASSUME BuildInv, [Next]_vars PROVE BuildInv'
  OBVIOUS
<1>1. CASE UNCHANGED <<queueFiles, builderVars>>
  BY <1>1 DEF BuildInv, queueFiles, builderVars
<1>2. CASE BuilderWorks \/ BuilderStops
  BY <1>2 DEF BuildInv, BuilderWorks, BuilderStops, BeginBuild, WriteMatrixRow, BeginJobs,
              WriteJobRow, BeginBatches, WriteBatchRow, EndBuild, builderVars, queueFiles
<1>3. CASE UNCHANGED vars \/ Download \/ ExecutorWorks \/ ExecutorStops \/ PoolWorks \/ PoolStops
  <2>1. UNCHANGED <<queueFiles, builderVars>>
    BY <1>3 DEF vars, Download, ExecutorWorks, ExecutorStops, BeginExecution, ReadJobs, ReadBatch,
                Campaign, WriteRow, WriteSummary, PoolWorks, PoolStops, BeginPool, ScanDir,
                EndScan, CombineDir, WritePool, WritePoolSummary
  <2> QED
    BY <1>1, <2>1
<1> QED
  BY <1>2, <1>3 DEF Next

-----------------------------------------------------------------------------
(* The directories as registers *)

LEMMA RegisterStart == Init => Register!RegisterInit
<1> SUFFICES ASSUME Init PROVE Register!RegisterInit
  OBVIOUS
<1>1. \A d \in Dirs : summaries[d].outcome \notin Passed
  BY DEF Init, Passed
<1> QED
  BY <1>1 DEF Init, Register!RegisterInit, Shown, Phase

\* While an execution writes its rows, its directory shows nothing.
LEMMA NothingShownBefore ==
    ASSUME QueueInv, execPc = "rows"
    PROVE  dir \in Dirs /\ Shown[dir] = Nothing
<1>1. /\ dir \in Dirs /\ rows[dir].run = runs /\ summaries[dir].run < runs
      /\ runs \in Int /\ summaries[dir].run \in Int
  BY DEF QueueInv, TypeOK, RunInv, Marked, Evaluating, Summaries
<1> QED
  BY <1>1 DEF Shown

\* The same, once a step has led there.
LEMMA NothingShownNext ==
    ASSUME QueueInv', execPc' = "rows"
    PROVE  dir' \in Dirs /\ Shown'[dir'] = Nothing
<1>1. /\ dir' \in Dirs /\ rows'[dir'].run = runs' /\ summaries'[dir'].run < runs'
      /\ runs' \in Int /\ summaries'[dir'].run \in Int
  BY DEF QueueInv, TypeOK, RunInv, Marked, Evaluating, Summaries
<1> QED
  BY <1>1 DEF Shown

LEMMA RegisterExecutor ==
    ASSUME QueueInv, QueueInv', ExecutorWorks \/ ExecutorStops
    PROVE  [Register!RegisterNext]_(Register!registerVars)
<1> USE DEF Register!RegisterNext, Register!registerVars
<1>1. CASE BeginExecution
  <2>1. /\ execPc = "idle" /\ execPc' = "jobs" /\ runs < MaxRuns /\ runs' = runs + 1
        /\ dir' \in Dirs /\ Shown' = Shown
    BY <1>1 DEF BeginExecution, Shown, runFiles
  <2> QED
    BY <2>1 DEF Register!Begin, Phase
<1>2. ASSUME ExecutorForgets, execPc # "idle", UNCHANGED <<rows, summaries, runs>>
      PROVE  Register!Abandon
  <2>1. Shown' = Shown /\ execPc' = "idle" /\ dir' = 0
    BY <1>2 DEF Shown, ExecutorForgets
  <2>2. Phase # "none" /\ Phase' = "none"
    BY <1>2, <2>1 DEF Phase
  <2> QED
    BY <1>2, <2>1, <2>2 DEF Register!Abandon
<1>3. CASE ReadJobs \/ ReadBatch
  <2>1. UNCHANGED <<rows, summaries, runs>> /\ execPc \in {"jobs", "batches"}
    BY <1>3 DEF ReadJobs, ReadBatch, runFiles
  <2>2. CASE ExecutorForgets
    <3>1. Register!Abandon
      BY <1>2, <2>1, <2>2
    <3> QED
      BY <3>1
  <2>3. CASE execPc' \in {"batches", "campaign"} /\ dir' = dir
    <3>1. rows' = rows /\ summaries' = summaries /\ runs' = runs
      BY <2>1
    <3>2. Shown' = Shown
      BY <3>1 DEF Shown
    <3>3. Phase = "reading" /\ Phase' = "reading"
      BY <2>1, <2>3 DEF Phase
    <3> QED
      BY <2>3, <3>1, <3>2, <3>3
  <2>4. ExecutorForgets \/ (execPc' \in {"batches", "campaign"} /\ dir' = dir)
    BY <1>3 DEF ReadJobs, ReadBatch
  <2> QED
    BY <2>2, <2>3, <2>4
<1>4. CASE Campaign
  <2>1. /\ execPc = "campaign" /\ execPc' = "rows" /\ UNCHANGED <<runs, dir, summaries>>
        /\ dir \in Dirs /\ rows \in [Dirs -> RowFiles]
        /\ rows' = [rows EXCEPT ![dir] = [batch |-> batchId, run |-> runs,
                                          results |-> NoResults]]
    BY <1>4 DEF Campaign, QueueInv, TypeOK, RunInv, Marked
  <2>2. Shown'[dir] = Nothing
    BY <2>1, NothingShownNext
  <2>3. Shown' = [Shown EXCEPT ![dir] = Nothing]
    BY <2>1, <2>2 DEF Shown
  <2> QED
    BY <2>1, <2>3 DEF Register!Withdraw, Phase
<1>5. CASE WriteRow
  <2>1. /\ execPc = "rows" /\ UNCHANGED <<runs, dir, execPc, summaries>>
        /\ rows \in [Dirs -> RowFiles]
        /\ \A d \in Dirs : d # dir => rows'[d] = rows[d]
    BY <1>5 DEF WriteRow, execVars, QueueInv, TypeOK
  <2>2. Shown[dir] = Nothing /\ Shown'[dir] = Nothing
    BY <2>1, NothingShownBefore, NothingShownNext
  <2>3. Shown' = Shown
    BY <2>1, <2>2 DEF Shown
  <2> QED
    BY <2>1, <2>3 DEF Phase
<1>6. CASE WriteSummary
  <2>1. /\ execPc = "rows" /\ execPc' = "idle" /\ dir' = 0 /\ UNCHANGED <<runs, rows>>
        /\ dir \in Dirs /\ rows[dir].run = runs /\ rows[dir] \in RowFiles
        /\ summaries \in [Dirs -> Summaries]
        /\ summaries' = [summaries EXCEPT ![dir] = [batch |-> batchId, run |-> runs,
                                                    outcome |-> outcome]]
    BY <1>6 DEF WriteSummary, ExecutorForgets, QueueInv, TypeOK, RunInv, Marked, Evaluating
  <2>2. Shown' = [Shown EXCEPT ![dir] = IF outcome \in Passed THEN rows[dir] ELSE Nothing]
    BY <2>1 DEF Shown
  <2>3. CASE outcome \in Passed
    <3>1. Whole(rows[dir].results)
      <4>1. summaries'[dir].outcome \in Passed /\ summaries'[dir].run = rows'[dir].run
        BY <2>1, <2>3
      <4>2. Whole(rows'[dir].results)
        BY <2>1, <4>1 DEF QueueInv, RunInv, PassedRunIsWhole
      <4> QED
        BY <2>1, <4>2
    <3>2. rows[dir] \in {file \in RowFiles : Whole(file.results)}
      BY <2>1, <3>1
    <3> QED
      BY <2>1, <2>2, <2>3, <3>2 DEF Register!Publish, Phase
  <2>4. CASE outcome \notin Passed
    <3>1. Shown[dir] = Nothing
      BY <2>1, NothingShownBefore
    <3>2. Shown' = Shown
      BY <2>1, <2>2, <2>4, <3>1 DEF Shown
    <3> QED
      BY <2>1, <3>2 DEF Register!Abandon, Phase
  <2> QED
    BY <2>3, <2>4
<1>7. CASE ExecutorStops
  BY <1>2, <1>7 DEF ExecutorStops, runFiles
<1> QED
  BY <1>1, <1>3, <1>4, <1>5, <1>6, <1>7 DEF ExecutorWorks

LEMMA RegisterStep ==
    ASSUME QueueInv, QueueInv', [Next]_vars
    PROVE  [Register!RegisterNext]_(Register!registerVars)
<1>1. CASE ExecutorWorks \/ ExecutorStops
  BY <1>1, RegisterExecutor
<1>2. CASE ~(ExecutorWorks \/ ExecutorStops)
  <2>1. UNCHANGED <<rows, summaries, runs, execPc, dir>>
    BY <1>2 DEF Next, vars, Download, BuilderWorks, BuilderStops, BeginBuild, WriteMatrixRow,
                BeginJobs, WriteJobRow, BeginBatches, WriteBatchRow, EndBuild, PoolWorks,
                PoolStops, BeginPool, ScanDir, EndScan, CombineDir, WritePool, WritePoolSummary,
                runFiles, execVars
  <2> QED
    BY <2>1 DEF Register!registerVars, Shown, Phase
<1> QED
  BY <1>1, <1>2

-----------------------------------------------------------------------------
(* The theorems *)

LEMMA InitInv ==
    Init => QueueInv
<1> SUFFICES ASSUME Init PROVE QueueInv
  OBVIOUS
<1>1. NoResults \in Results /\ DOMAIN NoResults = {}
  BY NothingTyped DEF NoResults
<1>2. 0 \in 0 .. MaxBuilds /\ 0 \in 0 .. MaxRuns /\ 0 \in 0 .. MaxPools
  BY BoundsAssumption
<1>3. TypeOK
  <2>1. rows \in [Dirs -> RowFiles]
    BY <1>1, <1>2 DEF Init, RowFiles
  <2>2. summaries \in [Dirs -> Summaries]
    BY <1>2 DEF Init, Summaries, Outcomes
  <2> QED
    BY <1>1, <1>2, <2>1, <2>2 DEF Init, TypeOK, Outcomes
<1>4. PoolInv
  BY DEF Init, PoolInv, KeysUnique
<1>5. RunInv
  BY <1>1 DEF Init, RunInv, Named, Marked, Evaluating, PassedRunIsWhole, Passed
<1> QED
  BY <1>3, <1>4, <1>5 DEF QueueInv

LEMMA NextInv ==
    QueueInv /\ [Next]_vars => QueueInv'
<1> SUFFICES ASSUME QueueInv, [Next]_vars PROVE QueueInv'
  OBVIOUS
<1>1. CASE UNCHANGED vars
  <2>1. UNCHANGED <<present, queueFiles, runFiles, poolFiles, builderVars, execVars, poolVars>>
    BY <1>1 DEF vars
  <2>2. UNCHANGED <<matrixFile, jobFile, batchFile, builds, builderPc, queued>>
    BY <2>1 DEF queueFiles, builderVars
  <2> QED
    BY <2>1, <2>2, BuilderFrame DEF QueueInv, TypeOK, RunInv
<1>2. CASE Download
  BY <1>2, DownloadInv
<1>3. CASE BuilderWorks \/ BuilderStops
  BY <1>3, BuilderInv
<1>4. CASE ExecutorWorks
  BY <1>4, ReadsInv, CampaignInv, WriteRowInv, WriteSummaryInv DEF ExecutorWorks
<1>5. CASE ExecutorStops
  BY <1>5, ForgetsInv DEF ExecutorStops
<1>6. CASE PoolWorks \/ PoolStops
  BY <1>6, PoolInvHolds
<1> QED
  BY <1>1, <1>2, <1>3, <1>4, <1>5, <1>6 DEF Next

\* Files and what was read from them stay apart by their marks.
THEOREM InvHolds == Spec => []QueueInv
BY InitInv, NextInv, PTL DEF Spec

\* Every file and variable keeps its type: there is no batch beyond the index.
THEOREM TypeCorrect == Spec => []TypeOK
<1>1. QueueInv => TypeOK
  BY DEF QueueInv
<1> QED
  BY <1>1, InvHolds, PTL

\* A passed summary beside its own rows speaks of a batch run to its end.
THEOREM PassedHolds == Spec => []PassedRunIsWhole
<1>1. QueueInv => PassedRunIsWhole
  BY DEF QueueInv, RunInv
<1> QED
  BY <1>1, InvHolds, PTL

\* The pool has at most one row for a matrix, a context and a candidate.
THEOREM KeysHold == Spec => []PoolKeysAreUnique
<1>1. QueueInv => PoolKeysAreUnique
  BY DEF QueueInv, PoolInv, KeysUnique, PoolKeysAreUnique
<1> QED
  BY <1>1, InvHolds, PTL

\* The pool and the directories that it was taken from stay in step.
THEOREM GatherHolds == Spec => []GatherInv
BY InitInv, NextInv, GatherInit, GatherNext, PTL DEF Spec

\* What the pool has of a batch is all of it, as long as the executor has not been
\* started in its directory again.
THEOREM PooledHolds == Spec => []PooledBatchIsWhole
<1>1. QueueInv /\ GatherInv => PooledBatchIsWhole
  <2> SUFFICES ASSUME QueueInv, GatherInv, NEW s \in poolSources, rows[s.dir].run = s.run
               PROVE  Whole(Pooled(s))
    BY DEF PooledBatchIsWhole
  <2>1. s.dir \in Dirs
    BY DEF QueueInv, TypeOK, Sources
  <2>2. Vouched(s) /\ {r \in poolRows : r.dir = s.dir} = RowsOf(s.dir)
    BY DEF GatherInv, Gathered
  <2>3. Whole(rows[s.dir].results)
    BY <2>1, <2>2 DEF QueueInv, RunInv, PassedRunIsWhole, Vouched
  <2> QED
    BY <2>2, <2>3, PooledIsRows
<1> QED
  BY <1>1, InvHolds, GatherHolds, PTL

\* The pool drops no row of a batch that has not been executed again.
THEOREM RowsHold == Spec => RowsLeaveOnlyByExecution
<1> DEFINE Leaves == \A r \in poolRows \ poolRows' :
                         \/ rows[r.dir].run # r.run
                         \/ \A s \in poolSources : s.dir = r.dir => s.run # r.run
<1>1. QueueInv /\ GatherInv /\ [Next]_vars => [Leaves]_vars
  <2> SUFFICES ASSUME QueueInv, GatherInv, Next,
                      NEW r \in poolRows \ poolRows', rows[r.dir].run = r.run,
                      NEW s \in poolSources, s.dir = r.dir, s.run = r.run
               PROVE  FALSE
    OBVIOUS
  <2>1. WritePool
    <3>1. poolRows' # poolRows
      OBVIOUS
    <3> QED
      BY <3>1 DEF Next, Download, BuilderWorks, BuilderStops, BeginBuild, WriteMatrixRow,
                  BeginJobs, WriteJobRow, BeginBatches, WriteBatchRow, EndBuild, ExecutorWorks,
                  ExecutorStops, BeginExecution, ReadJobs, ReadBatch, Campaign, WriteRow,
                  WriteSummary, PoolWorks, PoolStops, BeginPool, ScanDir, EndScan, CombineDir,
                  WritePoolSummary, poolFiles
  <2>2. s \in sources /\ poolRows' = collected /\ todo = {}
    BY <2>1 DEF WritePool, GatherInv, Again
  <2>3. /\ {q \in poolRows : q.dir = s.dir} = RowsOf(s.dir)
        /\ {q \in collected : q.dir = s.dir} = RowsOf(s.dir)
    BY <2>1, <2>2 DEF WritePool, GatherInv, Gathered
  <2> QED
    BY <2>2, <2>3
<1> QED
  BY <1>1, InvHolds, GatherHolds, PTL DEF Spec, RowsLeaveOnlyByExecution

\* A finished build cuts the queue into consecutive batches, all of them full but
\* the last, and its three files say the same.
THEOREM PartitionHolds == Spec => []BatchesPartitionQueue
<1>1. Init => BuildInv
  BY DEF Init, BuildInv
<1>2. TypeOK /\ BuildInv => BatchesPartitionQueue
  BY FinishedBuild DEF BatchesPartitionQueue
<1> QED
  BY <1>1, <1>2, BuildNext, TypeCorrect, PTL DEF Spec

\* The directories implement BatchEvidence: each shows nothing or the whole batch of one
\* execution, which no execution but itself has put there and the next one takes back
\* before it writes anything.
THEOREM ImplementsEvidence == Spec => KeepsEvidence
<1>1. Init /\ [][Next]_vars /\ []QueueInv =>
          Register!RegisterInit /\ [][Register!RegisterNext]_(Register!registerVars)
  BY RegisterStart, RegisterStep, PTL
<1> QED
  BY <1>1, InvHolds, PTL DEF Spec, KeepsEvidence, Register!RegisterSpec
=============================================================================
