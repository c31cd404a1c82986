# A TLA+ model of TransSolveStack

TransSolveStack picks a GPU solver and a preconditioner for a sparse linear
system. It solves `A x = b` with Krylov methods written in Taichi, profiles the
candidates on SuiteSparse matrices, learns a ranking from the profiles, and lets
the learned choice run only behind a guard. The modules here model what can go
wrong between those parts: a chain of fallbacks under a time budget, a planner
that reads files which other programs are rewriting, solver loops whose numbers
may be about an older `x`, a profiling queue run by hand-started scripts, the
evidence on which a learned model is accepted, and some eighty stages whose
manifests are to tell which of their artifacts are out of date.

TLC checks each model on a small instance. TLAPS proves the safety properties
that matter most for every value of the constants.

Paths below are relative to `src/transsolvestack/`, unless they start with
`scripts/`, `tests/` or `README.md`, which are relative to `src/`.

## 1. The system

The parts hand data to each other, almost always through files:

    SuiteSparse archives
          |  dataset layer (index, download, import)
          v
    queue builder --> batch executor --> training pool          QueuePipeline
     (batches)        (rows, summary)    (selector rows)
                           | runs every candidate on every matrix
                           v
                  Taichi CSR solver methods                     KrylovSolve
          |
          v  csr_selector_rows.jsonl
    ranker training --> predictions, summary --> quality gate   (writers in
          |                          |                           GuardedAutoSolve)
          |                          v
          |    replay, artifact, guarded solve, acceptance,     ModelLifecycle
          |    submission; the same for a checkpoint from outside (intake)
          v
    auto_solve_csr_guarded                                      GuardedAutoSolve
       artifact selector + learned guard -> chain of plans      CsrArtifactSelector
          |
          v
    execute_with_fallback_guard                                 GuardedFallback
          |                                                     FallbackContract
          v
    one solve per attempt (KrylovSolve)

    around all of it: one artifact directory per script, with a
    manifest of hashes, and an audit that compares them         ArtifactAudit,
                                                                ArtifactCatalogue

Every file is written by `profiling/artifacts.py`: opened for writing (so
truncated), filled row by row, with no lock, temporary file or rename.

### Components

For each part: the state it keeps, its operations, what is hard, and what makes
it correct.

**Guarded fallback executor** (`runtime/guarded_fallback.py`). State of a call:
the attempt records, the last result object (mutable, and rewritten after it was
recorded), the last exception, the clock. Operations: start an attempt, take its
result or exception, accept, give up, go on to the next plan, hand back. Hard:
budgets are looked at only between attempts, an answer may come late, exceptions
and failed results mix, the budget may be gone before anything ran. Correct
when: plans are tried in order and once, a success is handed back exactly when
the last attempt was acceptable, "exhausted" is only said when it is true, and the
call ends.

**CSR artifact selector** (`policies/csr_artifact_selector.py`). No state: from
the selector rows it picks the fastest profiled success for a matrix, with the
matrix's other successes as fallbacks. For a matrix without a success it takes
the configured fallback candidate if that succeeded anywhere, else the fastest
success of all, with every other success of the file behind it. Correct when:
every plan of a chain was profiled with success, and the head is the fastest of
its matrix.

**Learned guard and guarded auto-solve** (`policies/csr_learned_guard.py`,
`api.py`). State of a call: the rows, the gate and the prediction as they were
read, the decision, the chain. Operations: read the three files one by one,
decide between the modes `artifact_only`, `shadow_only` and `promote_if_safe`,
execute. Hard: the files belong to other programs and may be of different
epochs, half written or missing. Correct when: a promotion rests on a gate, a
confidence and a profile; without a promotion the artifact plan runs; an
enforced chain tries each candidate once.

**Ranker and quality gate** (`scripts/tss_csr_transformer_ranker.py`,
`policies/csr_selector_model_eval.py`,
`scripts/tss_csr_transformer_quality_gate.py`). They write predictions, then the
summary; the gate reads both and writes its own summary. Correct when: a verdict
is about the training whose predictions it releases (it is not tied to it: see
Findings).

**Taichi CSR solver methods** (`operators/taichi_csr.py`,
`runtime/plan_resolver.py`, `runtime/engine.py`, `backends/registry.py`). State:
device vectors, the residual history, iteration and restart counters, breakdown.
Operations: CG, PCG, BiCGSTAB, GMRES, Richardson, Chebyshev, plain or under
symmetric or row-column equilibration. Hard: breakdowns in the middle of an
iteration that already moved `x`; a stopping test in one norm and a verdict in
another; restarts beyond `n`, or beyond what is left of `max_iter`.
Correct when: success means a measured residual of the `x` handed back, the
failure class names the true cause, and every solve ends.

**Queue builder** (`profiling/csr_full_dataset_queue.py`,
`scripts/tss_csr_full_dataset_queue.py`). State: three queue files. It queues
the matrices that are on the disk and have no base rows, numbers batches by
position, and writes matrices, jobs and batches. Correct when: a finished build
partitions the queue.

**Batch executor** (`profiling/csr_queue_batch_execution.py`,
`profiling/csr_micro_campaign.py`, `scripts/tss_csr_queue_batch_execute.py`).
State: a directory with selector rows and a summary. It reads the queue files,
imports the matrices, runs every job, writes the rows and then the summary.
Hard: the queue may be rebuilt while it reads; it may be killed between rows and
summary; it may be run again into the same directory. Correct when: `passed`
means that every candidate was run on every matrix of the batch.

**Training pool** (`profiling/csr_queue_training_pool.py`,
`scripts/tss_csr_queue_training_pool.py`). State: pooled rows, sources, summary.
It scans the execution directories, takes the rows of those that passed, refuses
duplicates, and reports completed and pending batches. Correct when: what it
pools is whole and free of duplicates.

**Model life cycle and intake** (`policies/csr_transformer_model_replay.py`,
`policies/csr_policy_model_*.py`, `policies/csr_external_model_*.py`, their
scripts and the two smokes). State: in the workspace, and again in the directory
of an intake, the model, its predictions, and the summaries of replay, gate,
artifact, guard, acceptance and submission; the summary of the guarded solve is
in the workspace only. Operations: one per script, and the intake, which runs
the same steps in one process for a checkpoint that is handed in. Hard: every
verdict rests on files that other steps left, which may be of another model; the
files name it by an id that all trainings share; the acceptance reads the gate
and the model several times. Correct when: the evidence of an intake is about
the checkpoint, and a verdict that lets a model run rests on evidence that does.

**Artifact manifests and verification** (`profiling/provenance.py`,
`profiling/campaign.py`, `scripts/tss_verify_artifacts.py`, and every script
with an artifact directory). State: the files of each directory and its
manifest, which hashes a fixed tuple of tracked files. Operations: run a stage,
edit a source, audit the workspace. Hard: manifests are made at the end of a
run; a run may be killed between two files; a run that fails has written
everything before it says so; some stages only take the hash of what they read;
checksums are handed on from stage to stage; the audit stops at the first bad
stage and looks at some stages before those that they depend on. Correct when: a
pass vouches for what the manifests cover, and running again what is named ends
in a pass.

**Parts that are modelled as stages only.** Selector rows, learning data and
training packages, the blocked-gap and promotion coverage pipelines, the dataset
layer, the Phase-1 diffusion path, the public smokes and the release hygiene are
in the catalogue: which files each stage reads, writes (in order) and tracks,
which of them the audit opens, and which carries the stage's status. What they
compute is left out (section 8).

## 2. Modules

| Module | What it is |
|---|---|
| `FallbackContract` | what the guard promises: an abstract specification without clocks, budgets or objects |
| `GuardedFallback` | the guard's loop in full; refines `FallbackContract` |
| `CsrArtifactSelector` | the artifact selector, as sets of the selections it may return for a file |
| `GuardedAutoSolve` | one guarded call, composed of the selector, the planner, the writers of its three files and the guard (by its contract) |
| `KrylovSolve` | one solve, for all methods |
| `BatchEvidence` | what the executor's directories promise: an abstract specification without files, rows or verdicts |
| `QueuePipeline` | builder, executor and pool, run concurrently over shared files; the executor's directories refine `BatchEvidence` |
| `ModelLifecycle` | training, evidence, acceptance and submission of a model, in the workspace and in an intake |
| `ArtifactAudit` | runs, edits, kills and audits over any catalogue of stages |
| `ArtifactFiles`, `CatalogueMatrices`, `CatalogueSelector`, `CatalogueModel`, `CatalogueGuard` | the files of every stage of the workspace, in four parts |
| `ArtifactCatalogue` | the stages made of them, in the order of the audit |
| `*Proofs` | theorems about the module in front |
| `QueueDisciplineProofs` | theorems about `QueuePipeline` under two rules its users may keep |
| `MC*` | instances for TLC |

### GuardedFallback

`clock` is `time.monotonic() - total_start` at its last reading; an attempt
takes any time of `Delays`. `records` are the `GuardedAttemptRecord`s, `results`
the `SolveResult` objects. The two differ because `_mark_result_failed` rewrites
an object after it was recorded. The configuration, the length of the chain and
the budgets are free. One action per exit of an attempt: `AttemptRaises`,
`ReturnTooSlow`, `ReturnAccepted`, `ReturnRejected`; `BreakOnTotalBudget` and
`EndOfPlans` leave the loop. `_finalize` is the operator `Finalize`, part of
each action that hands back.

### CsrArtifactSelector, GuardedAutoSolve

The planner's three reads are three actions (`ReadSelector`, `ReadGate`,
`ReadPrediction`). Between any two, an export may truncate the selector file and
add a row (`BeginExport`, `ExportRow`), a training may truncate and write its
files (`BeginTraining`, `WritePredictions`, `WriteSummary`), and the gate may
read them (`EvaluateGate`) and write (`WriteGate`). A read of a file that is not
there, or has no row to use, raises as in the code. `Decide` is the mode logic
with the chain check; `Execute` runs the chain under `FallbackContract`'s
actions, so the proof that `GuardedFallback` implements the contract carries
over. Ties in Python's `sorted` and `min` are resolved as in the code, by
candidate id and then by the position in the file.

### KrylovSolve

Every `x` has a version, and every number the host keeps is paired with the
version of `x` it was computed for and one of three sizes: within tolerance,
above it, or not finite. The size a kernel produces is a free choice, so every
residual curve is covered; the control flow around it is the code's. One family
of actions per method: `Cg…`, `Bicgstab…`, `Stationary…` (Richardson and
Chebyshev) and the cycle actions of GMRES, with `Setup`, `Finish` and `Refuse`
shared. `Equilibrated` says when the original residual decides.

### QueuePipeline

Three processes, one per script, each with a program counter, and `Download`,
which puts an archive on the disk at any time. Writing is row by row; a script
may stop anywhere (`BuilderStops`, `ExecutorStops`, `PoolStops` model both a kill and an
exception: the local state is gone and the files stay as they are). `run` and
`build` marks on rows and summaries are history: they let properties tell an old
file from a new one, and no action reads them to decide anything.

`BatchEvidence` sees a directory as a register. The executor empties it, and
fills it at a stroke with the whole batch of one execution; the register is
never changed in place. `Register` maps the files to it: a directory shows its
rows when a passed summary of the same execution lies beside them, and nothing
otherwise. A reader who has the files alone cannot compare executions. That is
the difference between what a directory shows and what the pool takes from it,
and why `PooledBatchIsWhole` has a condition.

### ModelLifecycle

Most variables hold one file for each of two places, `workspace` and `intake`. A
file is reduced to the verdict that others read and the model it is really
about; the latter is history, as the code compares at most the `model_id`
(`IdOf`). Each script is an action: `Train` and `WriteTrained` (three files, one
after the other), `Replay`, `EvaluateGate`, `BuildArtifact`, `TryGuard`,
`SmokeSolve`, `Submit`. The acceptance is taken apart into `ReadEvidence`, one
`PlanMatrix` for each of its two matrices and `Decide`, because each plan reads
the gate and the model again. The intake is `BeginIntake`, `Adapt`, the same
actions at their turn, and `Conclude`; `Interrupt` is a stage that raises, or a
kill. In the workspace the scripts come in any order.

### ArtifactAudit and the catalogue

`Stage` is a script with its directory: `reads`, `writes` (the sequence, the
manifest last), `status`, `tracks` (the tuple that the manifest hashes),
`opens` (the files that the audit's `_verify_*` function opens), `parses` (the
part of `reads` of which it takes more than the hash) and `sums` (the files whose
checksums it writes down). The `Catalogue*` modules give three definitions per
stage, `...Run`, `...Files` and `...Audit`, taken from the script, from
`profiling/provenance.py` and from `scripts/tss_verify_artifacts.py`, and
`...Parses` and `...Sums` for the four that take checksums: the handoff bundle
writes down those of its sources, the training package copies them into its
manifest, its consumer compares these with the files, and the audit compares
those of the submission. `ArtifactAudit` is about any catalogue that satisfies
`CatalogueAssumption`.

Contents and hashes are kept as sets. `fresh[s]` is the set of tracked files
whose recorded hash is the present one; `loaded[s]`, of a running stage, is what
is still as the run read it; `sums[s]` is the set of files of which `s` has
written down the present checksum. `torn` are the files that are cut and do not
parse, `failed` those that parse but carry a verdict other than `passed` or, when
a kill came between two rows, lack rows. Some sets are not in the program and say
what a reader of an artifact wants to know: `seen[s]`, the inputs of the last
finished run that have not changed since; `quiet`, whether nothing changed since
the audit began; `raced` and `killed`, which remember two kinds of run.

The actions are `Edit`, `Start`, `Raise` (a bad input, before anything is
written), `Finish`, `FinishFailing` (everything is written, then the script
exits with an error), `Kill` (at any file), `BeginAudit` and `VerifyStage`.
`blame` holds the stages whose bad files a run has parsed: a run that fails over
them names one of them, and that is the stage its owner runs next. A run is
`tripped` when it parses a torn file; over a torn file that it only hashes it
comes out well. A consumer that finds a checksum which is not that of the file is
`mixed`: it fails, each time, and names nobody.

`MCArtifactAudit` takes eight stages out of the catalogue. Five of its
assumptions are evaluated by TLC: `KeptIsPartOfCatalogue`, and on the whole
catalogue `WorkspaceIsOrdered` (no file has two writers, and no stage depends on
itself, over however many others), `WorkspaceIsCovered` (which reads no
manifest covers, exactly), `HashedFilesAreParsed` (a file that one audited stage
hashes and another writes is parsed and hashed by some audited stage, or opened
by the audit) and `ChecksumsAreHashed` (the hypotheses of `CirclesNeedARace`).

## 3. Runs

| Run | Instance | Shows |
|---|---|---|
| `fallback` | chains of up to 3 plans, delays {0, 2} ms, budgets {1, 3} ms or none, every configuration | ChainOrder, SuccessIsLastAttempt, VerdictMatchesResult, ExhaustedMeansExhausted, AssertsOnlyBeforeFirstAttempt, OneAttemptOverrun, Termination, and the refinement of the contract |
| `fallback_assert` | the same | violation: the assertion after the loop fails (Findings 1) |
| `auto_solve` | 3 matrices, 3 candidates, 4 selector files, 1 export and the first training running during the call | what runs was profiled with success; without promotion the artifact runs; enforced chains try each candidate once; a chain is blocked only without a success or with duplicate rows |
| `auto_solve_training` | 1 selector file, 2 models, 2 trainings | PromotedIsSafe, and the call ends |
| `auto_solve_stale` | the same | violation: a gate of an earlier training promotes a later one (Findings 2) |
| `krylov` | `max_iter` 4, 3 rows, restarts 0, 1, 2, 3, 9 | all properties of a solve, and it ends |
| `queue_build_execute` | 3 matrices, 2 candidates, batches of 2, 2 builds, 1 execution | a passed batch is whole although the queue is rebuilt under it; a finished build partitions the queue |
| `queue_execute_pool` | 1 matrix, 1 candidate, 2 directories, 3 executions, 2 pools | what the pool takes is whole and without duplicates, when rows may leave it, and the refinement of `BatchEvidence` (`KeepsEvidence`) |
| `queue_resume` | one script at a time, uninterrupted | violation: "completed" names a batch that was never run (Findings 3) |
| `queue_append_only` | one script at a time, uninterrupted | violation: pooled rows are lost (Findings 4) |
| `audit_repair` | 8 stages of the catalogue, 2 running at a time, 2 faults | a pass vouches for what the manifests cover, it finds cut files that are parsed, repairs are not undone (`RepairsAreKept`), and repairing what is named ends in a pass, unless a stage is stuck (Findings 8) |
| `model_lifecycle` | 2 models of the workspace, 1 from outside, 1 training, 2 scripts, 1 intake | what the evidence of an intake is about, and what an accepted or promoted model rests on (Findings 5 and 6) |

**Why the bounds are enough.** Three plans make a first, a middle and a last
one: a result may be followed by an exception and by a budget that runs out.
Delays of 0 and 2 against budgets of 1 and 3 reach in time, too slow, and total
budget gone after one or two attempts. `max_iter` 4 with restarts up to 3 has
two full cycles and a cut one; 9 is clamped to the rows, and 0 is refused. The
files of `auto_solve` hold ties, a candidate that did not succeed every time, two
rows for one candidate, screened rows, and matrices without a success.

Three matrices in batches of two make a full batch and a rest, and a download in
front of them moves the numbers. Two pools are what it takes to drop rows that
were pooled. Three executions of one matrix into two directories let a directory
be executed again while the other one is filled, or the same one twice: the pool
may take the rows of a second execution under the summary of the first, before
the second comes out failed, which is why `RowsLeaveOnlyByExecution` has its
second condition. The same run with two candidates has 18.9 million states and
no error, and takes four minutes.

The eight stages of `audit_repair` run from the blocked-gap training data over
the augmented ranker, the handoff bundle and the training package to its
consumer, with the submission and the intake that the consumer reads but the
audit looks at later, and the campaign report that compares manifests itself: a
chain, a join, dependencies against the order of the audit, and a reporter. The
kept files have the tensors, which the ranker parses and the handoff only hashes,
the rows and the package manifest with their checksums, and the submission's own.
Two faults make a kill beside an edit, a run that overlaps an edit of its inputs,
or two unprovoked runs that overlap; the last two reach a stage that is stuck.
There are 34,485 states, also some in which the audit passes quietly over a file
without its last rows, or over a cut one that is only hashed.

In `model_lifecycle`, two models with one id and a third with another are what
the comparison of ids can confuse and tell apart. One training and two further
scripts change two pieces of evidence between any two steps of an intake or an
acceptance. The workspace begins settled, so that no script is spent on getting
there: every step has run for one model, which the gate holds back or does not.
The two models of the workspace are symmetric.

**Deadlock.** Checked everywhere except in the queue's runs and in
`model_lifecycle`: there the scripts are started by hand and the bounds on
starts are used up, so the system may stop. The
models of a single call stutter once the call is over.

**Fairness.** `fallback`: weak fairness of the guard's steps, as each attempt
ends (the solver loops are bounded by `max_iter`, which `SolveEnds` checks).
`auto_solve`: weak fairness of the call's steps only. The writers are unfair: a
file may stay half written for ever, and the call ends all the same. `krylov`: weak fairness
of the host's steps. `audit_repair`: weak
fairness of the runs' ends, of the audit and its steps, and of starting the
stage that was named, which stands for a maintainer who does what the audit
says; edits, kills, failures and unprovoked runs are unfair and bounded. The
queue and the life cycle assume none and state no liveness.

Every property of a passing run has a mutant in `PROJECT.json`: a plausible bug
in one mapped definition, defined next to it, that TLC finds with that property
under the same configuration.

## 4. Proofs

All theorems hold for every value of the constants under the named assumptions
of the modules: the numbers are naturals, `None` is no other value, chains,
rows and batch sizes are not empty, and the index and the templates are finite.
No other fact is assumed, but for what a theorem says itself: `EvidenceWithOwnIds`
and those of `QueueDisciplineProofs` have a rule of use as a hypothesis, which TLC's
counterexamples break, and `RepairsGrow` speaks of stages that keep a manifest.

**GuardedFallbackProofs.** `GuardInv` joins the type invariant and the properties
with two parts. `InFlight` says that the loop has one record for each plan it is
done with, and that an attempt under way is of the chain. `LastSeen` says what
the last result and the last exception are about: recorded attempts, at least
one of them set once there is a record, and, while the guard watches for
timeouts, a last result that came too late already marked as such. The
properties are not inductive without it, because what is handed back after the
loop is built from the object of a plan that may be several attempts old.
`ContractStep` maps every step to a step of `FallbackContract` or a stutter;
`ImplementsContract` is the safety part of the refinement.

`OneAttemptOverrun` sums the wall times of the records. `Tally(t)` says that `t`
is such a sum. `TallyInv` says that there is one, and that every one is made of
times that have passed, and within the total budget but for the last attempt. `SpentIsTally` leads from there to
`Spent`: a recursion that has a solution is solved by `Spent`, so no induction
over sequences is needed.

`EveryStepCounts`, here and in `KrylovSolveProofs`, and `EveryCallStepCounts` in
`GuardedAutoSolveProofs` are the safety half of termination. A measure in the
natural numbers (a pair of them for the guarded call) goes down with every step
of the call, and is zero just when the call is over. What is left to TLC is that
a step is always possible until then, and is taken.

**GuardedAutoSolveProofs.** `SolveInv` says for each phase of the call what was
read, and that the plan under construction is sound for the rows that were read:
every plan of the chain is a success of the matrix (or of any matrix, when it has
none), the artifact's head is the fastest, and no fallback repeats the head's
candidate. The lemmas on the selector
(`ChainShape`, `SortedIsInjective`, `BestIsFastest`, `ArtifactIsSound`,
`PromotionIsSound`) carry the argument; the steps of the writers keep it because
nothing in it mentions the disk once a file has been read.

`EvidenceWithOwnIds` is about the stale gate (Findings 2). It assumes that each
training run has a model id of its own, and that the prediction files carry them. Then the
gate behind a promotion was evaluated for the run whose prediction is promoted,
for any number of trainings. `ReadInv` and `LabelInv` follow the ids through the
gate that is being written and the one that was read.

**KrylovSolveProofs.** `SolveInv = TypeOK /\ Shape /\ Growth /\ Tracking /\
Accounting /\ CyclesAreFull /\ Promises`. `Shape` ties the program counter to
what may be set; `Growth` bounds the versions of `x` by the iterations (two in an
iteration of BiCGSTAB); `Tracking` says which version the kept residual is of;
`Accounting` relates history and iterations; and `CyclesAreFull` needs `Accounting` inside
a cycle to hold at its end. One lemma per family of actions.

**QueuePipelineProofs.** `QueueInv = TypeOK /\ PoolInv /\ RunInv`. The reason
that a passed batch is whole, although its three files may be of different
builds, is a counting argument. In every batch row ever written, jobs are
matrices times templates (`Counted`). The executor demands as many matrices and
jobs as the row says; the evaluated jobs are among matrices times templates; so they
are all of it (`PassedIsWhole`, with the library's facts on the cardinality of
products and subsets). `Marked` keeps the runs of rows and summaries apart, and
`Evaluating` follows the jobs through the campaign.

`GatherInv` is about the pool on file and the one being gathered. Each source is
vouched for by a passed summary, and as long as the executor was not started in
its directory again, the rows that lie there are the rows that were taken. With
it, `PooledBatchIsWhole` follows from `PassedRunIsWhole`, and
`RowsLeaveOnlyByExecution` from the fact that the next scan finds such a
directory again. `BuildInv` says what the builder has written of its plan. That
the plan cuts the queue into full, consecutive batches (`BatchesPartitionQueue`)
rests on the rank of a matrix, a bijection between the queue and
`0 .. Cardinality(queue) - 1` (`RankIsBijection`): the members of a batch are as
many as the ranks in an interval (`MembersCount`).

`ImplementsEvidence` is the refinement of `BatchEvidence`. Rows are marked with
the execution under way, whose number is above that of every summary (`Marked`),
so a directory shows nothing from the first truncation of its rows to the
summary (`NothingShownBefore`, `NothingShownNext`), and the rows that go in
between are stutters. What the summary publishes is whole by `PassedRunIsWhole`.

**QueueDisciplineProofs.** Two findings are violations that need certain habits
of the users. The theorems say which. `NewDirectories`: no execution begins in a
directory that has rows. `OneQueue`: the queue is built once. With the first,
rows and summary of a directory are of one execution for good, and so is what
the pool has of it (`OnceInv`); then `RowsLeaveOnlyByExecution` becomes
`PoolIsAppendOnly`. With both, every file and everything that was read is of one
plan (`PlanInv`), and `CompletedBatchesAreProfiled` holds. The scripts may still run at
the same time, be killed, and run any number of times, while archives arrive.

**ArtifactAuditProofs.** `IInv = TypeOK /\ SeenInv /\ TornInv /\ AuditInv /\
SumsInv`, for any catalogue. `SeenInv` has one part per way in which a hash
vouches for an input: a recorded hash of a file that still holds says that the
file has not changed since the run that recorded it, and one of a manifest says
the same of its stage, because a run that ends always renews its manifest.
`TornInv` says that a torn file is hashed by no stage that has parsed it,
`AuditInv` that the stages behind the audit are as it found them while nothing
changes, and `SumsInv` that a run, and a stage without a race, knows the present
checksum of every file of which it has the present hash. No order on the stages
is needed.

Four theorems are the safety half of `RepairConverges`. A stage is `InOrder` when
no hash, no checksum that the audit compares and no file of it is bad and nobody
is about to name it; a set of stages is closed when it has the makers of all that
its members hash. `RepairsHold` says that a closed set of stages in order stays
so until the next fault, whatever else runs, fails or is named meanwhile.
`RepairsGrow` says that a stage that is run when all that it reads, hashes and
checks is in order ends well and joins them, unless a run that had read its files
before names it, or unless it is `Stuck`: a checker over an old checksum, although
the stage it has the checksum from is in order with all that it hashes.
`StuckIsForGood` says that it then stays stuck until the next fault, and
`CirclesNeedARace` that this takes a run of one of the two stages which handed the
checksum on, with an input that changed under it. These hold for any catalogue, with any order of
the audit; `CirclesNeedARace` asks in addition that the manifests hash what has a
checksum.

**ModelLifecycleProofs.** `IInv = TypeOK /\ FilesInv /\ VerdictInv /\ SmokesInv
/\ AcceptanceInv`. `FilesInv` follows the intake stage by stage and says which of
its files are about the checkpoint by then, and that the gate is closed once the
guard's stage has passed; `VerdictInv` carries this through acceptance and
submission to the summary. `SmokesInv` follows a guarded solve from its own
summary into the evidence of every acceptance, with the gate it was held back by.

**Only model-checked:** everything under fairness (`Termination`, `CallEnds`,
`SolveEnds`, `RepairConverges`, the liveness half of `Refinement`), which is out
of the prover's reach, so that only the step measures and the four theorems on
repairs are proved of it; and the assumptions on the whole catalogue, which TLC
evaluates.

## 5. Findings

1. **`fallback_assert`.** When the total budget is gone before the first
   attempt, the loop ends with neither result nor exception, and the assertion
   at `runtime/guarded_fallback.py:153` fails instead of an exhausted result
   being returned. `AssertionHolds` proves that this is the only case, and
   `AssertionNeedsBudget` that it takes a total budget.
2. **`auto_solve_stale`.** `README.md:99` demands model evaluation evidence
   before runtime eligibility. Gate and prediction are compared by a model id
   that every default training shares, so a retrained model runs under the
   verdict on its predecessor. An id for each training would be enough
   (`EvidenceWithOwnIds`).
3. **`queue_resume`.** The queue is called resumable (`api.py:849`), but batch
   numbers are positions in a queue that changes with every download, and the
   pool remembers completed batches by number only. A matrix that was never run
   may lie in a "completed" batch. `CompletedHolds` proves that this takes a second
   build of the queue or a second execution in a directory.
4. **`queue_append_only`.** The pool is called append-only
   (`profiling/csr_queue_training_pool.py:27`), but it is recomputed from the
   directories that pass now. A batch that fails when run again takes its rows
   out, and so does another batch in the same default `--out`. With a new directory
   for each execution it is append-only (`AppendOnlyHolds`).

5. **`model_lifecycle`, `PassedIntakeIsBlocked`.** The intake has a field that
   says whether its model may be promoted, and it can never be true: the guard's
   stage passes only when the quality gate blocks
   (`policies/csr_external_model_intake.py:345`), and promotion wants the gate
   open. A model that satisfies the gate fails the intake. The acceptance has
   the same knot: a promotion there needs a guarded solve made under another
   gate or model id (`PromotionIsOnOtherEvidence`).
6. **`model_lifecycle`, `OutsiderHasNoSmoke`.** `README.md:82-84` promises guarded
   shadow checks for an external checkpoint. The intake gives its acceptance the
   guarded solve of the workspace, which is of the model that was trained there.
7. **`audit_repair`, `WorkspaceIsCovered`.** The audit is to verify that artifacts
   are current (`scripts/tss_verify_artifacts.py:1`). The benchmark report and
   its evaluation have no manifest, and the candidate coverage tracks none of the
   batch results it reads: after these change, the audit passes over them.
   `AuditedIsCurrent` is stated, and proved, for the covered reads.
8. **`audit_repair`, `RepairConverges`.** The handoff bundle writes down checksums
   of its inputs as it reads them, the training package copies these, and the
   manifests of both hash the files at the end of the run. Let the audit name the
   training integration after an edit, and somebody run the handoff beside it: the
   handoff reads the old tensors, the integration rewrites them, the handoff ends
   and hashes the new ones. Every manifest is fresh and the package, made next,
   holds an old checksum. No verifier compares it with the file. The consumer fails
   with `package_input_checksum_mismatch` in every run
   (`profiling/csr_transformer_package_consumer_dry_run.py:232`), and the audit
   names the consumer, each time: who follows it goes round in circles, until
   somebody runs the handoff unasked. The handoff beside the package does the same.
   `RepairConverges` therefore allows for a stage that is `Stuck`;
   `StuckIsForGood` and `CirclesNeedARace` say how long and whence.

In 1 to 4 TLC finds a documented property violated. In 5 to 8 a property that
holds is at odds with what the documents or the audit say.

Smaller observations, without a run of their own:

- With `fallback_on_timeout` and `fallback_on_failed_status` both off, a result
  that came too late goes back with status `success` beside a guard status
  `failed` (`VerdictMatchesResult` has the condition for this reason).
- When an exception is followed by the end of the total budget, the synthetic
  result carries the plan after the last one that ran
  (`runtime/guarded_fallback.py:154`).
- A blocked chain is executed all the same, and `blocked_fallback_chain`
  replaces the status `shadow_only`. Two scripts expect this
  (`scripts/tss_csr_guarded_promotion_coverage_exec.py:333`,
  `scripts/tss_csr_guarded_non_success_fallback_integration.py:623`).
- The gate joins rates from the ranker's summary with oracle counts from its
  predictions (`policies/csr_selector_model_eval.py:267-290`), which may be of
  two trainings.
- The failure class `zero_omega` cannot occur: an omega that small has ended its
  iteration before (`FailureNamesCause` includes this).
- After a breakdown in the middle of a BiCGSTAB step, the reported residual is
  of the former `x` (`StaleOnlyAfterBreakdown` says when).
- The consumer of the package hashes files in the directory of the intake that its
  manifest does not track, among them the submission manifest and the adapted
  model, and nobody parses them: cut by a kill, they pass the audit.
- A solver exception ends the whole batch, although the queue's state announces
  `record_failed_job` (`profiling/csr_full_dataset_queue.py:631-633`).

## 6. Abstractions

- **Solver numbers.** Norms are size classes; recomputing the residual of the
  same `x` gives the same class, so rounding drift between a recurrence residual
  and a true one is not visible. CG, BiCGSTAB, Richardson and Chebyshev decide on the
  recurrence residual.
- **Guarded call.** One request for one matrix in one context. Predictions come
  from the predictions file; the sources `saved model` and `model artifact`
  (`policies/csr_learned_guard.py:230-269`) are not modelled. The ranker's scores are a free
  choice of candidate and confidence.
- **Queue files.** An absent file is an empty one; a torn last line is a reader
  that stops. A summary is written in one step, as are the pool's rows, sources
  and membership before its summary. `--max-queue-matrices` and the state, schema and report
  files are left out, as no script reads them back.
- **Campaign.** Screens, residual limits and repeats end in a free choice of a
  job's status. Templates are named by their place, since symmetric and general
  matrices have as many; the default relative tolerance is assumed. Oracle rows
  are there exactly when a job succeeded.
- **Artifacts.** A file that changes never gets a former content back, so the
  comparison of hashes is a set of files; manifests carry the time they were made
  and change with each run. A run writes its files and its manifest in one step
  unless it is killed, and no stage starts during an audit. Of what the audit
  asks of a file, the model keeps whether it is cut or carries a failing verdict,
  and whether the checksums of a submission are right. A file of rows that a kill
  has cut between two rows is no torn file: its readers may go on or fail, and the
  audit may notice, as it counts the rows of some files only. A checksum is right or
  not; a run that takes checksums over from such a file may take any of those that
  are missing there from the files themselves.
  The code that a stage runs is what its tuple names: an import that is in no
  tuple is not a read. Paths within the package are given without its prefix.
  `TornInputsAreFound` leaves out the campaign report, which reads and tracks
  manifests that the audit reads itself, and files that a stage only hashes.
- **Model life cycle.** Scores, confidences, the outcome of solves and the
  completeness of packages are free choices, so every outcome is covered. The
  statuses of the artifact and of the guard smoke are not kept, as nobody reads
  them outside the intake. A summary that is half written raises in its reader,
  which is `Interrupt` in the intake and no step in the workspace; so a script
  reads and writes in one step, but for the acceptance and the training.

## 7. How to run

    tlc -workers 2 -config MCKrylovSolve.cfg MCKrylovSolve
    tlapm QueuePipelineProofs.tla

Each `MC*.cfg` belongs to the `MC*` module whose name it starts with.
`PROJECT.json` lists runs, properties, mutants, theorems, the hazards they
answer to, and for every definition the source lines it models.

## 8. Not modelled

- **Kernels, ILU0, eigenvalue estimates and floating-point error.** Neither TLC
  nor the provers have floating-point numbers; the control around them is in
  `KrylovSolve`.
- **Features, tensors and ranker scores** (`policies/csr_learning.py`,
  `policies/csr_tensor_export.py`, `policies/csr_linear_ranker.py`,
  `policies/csr_transformer_ranker.py`): arithmetic within one call. What they
  write, and when, is in the catalogue, `GuardedAutoSolve` and `ModelLifecycle`.
- **Oracle labels and the averaging of repeats** (`policies/csr_selector_data.py`,
  `profiling/repeats.py`): one function over rows in memory; the modules that use
  selector rows take any rows.
- **Screening in the blocked-gap and coverage pipelines**
  (`profiling/csr_blocked_gap_*.py`): which candidate is screened out or probed is
  decided by comparing measurements. Their files are in the catalogue.
- **Matrix Market parsing, CSR construction, archive headers** (`datasets/`):
  conversion of data, reached by unit tests.
- **Diffusion CG and the numerical baseline** (`operators/taichi_diffusion2d.py`):
  loops of the shape that `KrylovSolve` covers, for one method without restarts.
- **The contents that the audit pins** (`scripts/tss_verify_artifacts.py`): more
  than a thousand comparisons with counts of the committed artifacts, without state
  or order.
- **Saved models as a source of predictions**
  (`policies/csr_learned_guard.py:230-269`): they end in the same prediction record.
- **Configuration, registries, resource limits, report text, the text scan of the
  release hygiene, the download monitor**: declarations, single comparisons and
  output.
