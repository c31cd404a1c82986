---- MODULE ArtifactAudit ----
(* The life of the artifacts in the workspace. Every stage is a script that reads files, writes
   the files of its artifact directory one after the other, then hashes the files of a fixed tuple
   (its tracked files) into the manifest of the directory, and exits with an error when its own
   status is not "passed". The audit goes through the stages in a fixed order, stops at the first
   one whose manifest no longer matches the workspace or whose files do not hold what they should,
   and otherwise says "artifact verification: passed". Meanwhile sources are edited, stages are
   run again, also two at a time, killed between two writes, or come out with a failing verdict.

   A hash is only ever compared with the hash of the same path, and a manifest carries the time it
   was made, so contents are kept as sets: fresh[s] is the set of tracked files whose hash in the
   manifest of s is the hash of the present file. A file that changes never gets a former content
   back. Some stages also write down checksums of files, taken when they read them or copied from
   another stage, and the package consumer fails when one of those is not that of the file: sums[s]
   is the set of files of which s has written down the present one. Two variables are not in the
   program and only say what a reader of an artifact wants to know: seen[s], the files that the last
   finished run of s read and that have not changed since, and quiet, whether nothing has changed
   since the audit began. *)
EXTENDS Integers, Sequences, FiniteSets

CONSTANTS
  Stages,       \* the stages
  Files,        \* the files of the workspace
  Reads,        \* of each stage, the files it reads to make its outputs
  Parses,       \* of each stage, those of them that it parses; of the others it takes the hash only
  RowFiles,     \* the files of one row per line: cut between two rows, they still parse
  Tracks,       \* of each stage, the files its manifest hashes
  Writes,       \* of each stage, the sequence of files it writes
  Manifests,    \* of each stage, its manifest; not among its writes when it has none
  Status,       \* of each stage, the file that carries its verdict
  Opens,        \* of each stage, the files the audit opens besides the manifest
  AuditOrder,   \* the sequence of stages of the audit
  Reporters,    \* the stages that repeat the hash comparison for the stages they report on
  Sums,         \* of each stage, the files whose checksums it writes down
  SumsIn,       \* of each stage, the output in which it writes them down
  SumsOf,       \* of each stage, the stage whose checksums it takes over, "none" if it does not
  Checkers,     \* the stages that fail when a checksum they take over is not that of the file
  Rehashed,     \* the stages whose checksums the audit compares with the files
  MaxRunning,   \* bound: stages running at the same time
  MaxFaults     \* bound: edits, kills, failing verdicts and unprovoked runs

Outputs(s) == {Writes[s][i] : i \in DOMAIN Writes[s]}
Sources == Files \ UNION {Outputs(s) : s \in Stages}
Audited == {AuditOrder[i] : i \in DOMAIN AuditOrder}
Owner(f) == CHOOSE s \in Stages : f \in Outputs(s)

\* No two stages write the same file, no stage reads or tracks what it writes itself. A stage that
\* writes checksums down has read the files itself, or takes the checksums over and does not.
ASSUME CatalogueAssumption ==
  /\ Reads \in [Stages -> SUBSET Files]
  /\ Tracks \in [Stages -> SUBSET Files]
  /\ Opens \in [Stages -> SUBSET Files]
  /\ Writes \in [Stages -> Seq(Files)]
  /\ AuditOrder \in Seq(Stages) /\ AuditOrder # <<>>
  /\ Reporters \subseteq Stages /\ Checkers \subseteq Stages /\ Rehashed \subseteq Stages
  /\ Parses \in [Stages -> SUBSET Files] /\ \A s \in Stages : Parses[s] \subseteq Reads[s]
  /\ Sums \in [Stages -> SUBSET Files]
  /\ SumsOf \in [Stages -> Stages \cup {"none"}]
  /\ \A s \in Stages : Sums[s] # {} => SumsIn[s] \in Outputs(s)
  /\ \A s \in Stages : Sums[s] \cap Outputs(s) = {}
  /\ \A s \in Stages :
       IF SumsOf[s] = "none" THEN Sums[s] \subseteq Reads[s] \cup Tracks[s]
       ELSE Sums[s] \cap (Reads[s] \cup Tracks[s]) = Sums[s] \ Sums[SumsOf[s]]
  /\ \A s \in Checkers : SumsOf[s] # "none"
  /\ \A s \in Rehashed : SumsOf[s] = "none"
  /\ \A s, t \in Stages : s # t => Outputs(s) \cap Outputs(t) = {}
  /\ \A s \in Stages : (Reads[s] \cup Tracks[s]) \cap Outputs(s) = {}
  /\ MaxRunning \in Nat /\ MaxFaults \in Nat
  /\ "none" \notin Stages /\ "passed" \notin Stages

VARIABLES
  fresh,     \* of each stage, the tracked files whose recorded hash is the present one
  seen,      \* of each stage, the files its last finished run read, unchanged since
  sums,      \* of each stage, the files of which it has written down the present checksum
  loaded,    \* of each running stage, its inputs that are as they were when it read them, and the
             \* files of which it has taken over the present checksum
  running,   \* the stages whose script is running
  blame,     \* of each running stage, the stages whose bad or stale files it has read
  tripped,   \* the running stages that cannot come out well
  mixed,     \* the running stages that have found a checksum which is not that of the file
  raced,     \* the stages whose last finished run had an input changed under it
  killed,    \* the stages killed since their last finished run
  torn,      \* the files that are cut in the middle and do not parse
  failed,    \* the files that parse, with a failing verdict or with rows missing
  audit,     \* the position of the audit in its order, 0 when none is running
  verdict,   \* "none", "passed", or the stage that has to be run again
  quiet,     \* no file has changed since the audit began
  faults     \* the number of faults so far
files == <<fresh, seen, sums, torn, failed>>
runs == <<loaded, running, blame, tripped, mixed>>
ghosts == <<raced, killed, quiet>>
vars == <<files, runs, ghosts, audit, verdict, faults>>
bad == torn \cup failed

TypeOK ==
  /\ fresh \in [Stages -> SUBSET Files] /\ \A s \in Stages : fresh[s] \subseteq Tracks[s]
  /\ seen \in [Stages -> SUBSET Files] /\ \A s \in Stages : seen[s] \subseteq Reads[s]
  /\ sums \in [Stages -> SUBSET Files] /\ \A s \in Stages : sums[s] \subseteq Sums[s]
  /\ loaded \in [Stages -> SUBSET Files]
  /\ running \subseteq Stages /\ \A s \in Stages \ running : loaded[s] = {}
  /\ blame \in [Stages -> SUBSET Stages]
  /\ tripped \subseteq running /\ mixed \subseteq running
  /\ raced \subseteq Stages /\ killed \subseteq Stages
  /\ bad \subseteq Files \ Sources
  /\ audit \in 0 .. Len(AuditOrder) /\ (audit > 0 => running = {})
  /\ verdict \in Stages \cup {"none", "passed"}
  /\ quiet \in BOOLEAN
  /\ faults \in 0 .. MaxFaults

-------------------------------------------------------------------------------
(* The committed workspace: every stage has run on the present files, and the audit has passed. *)
Init ==
  /\ fresh = Tracks
  /\ seen = Reads /\ sums = Sums
  /\ loaded = [s \in Stages |-> {}]
  /\ running = {} /\ tripped = {} /\ mixed = {}
  /\ blame = [s \in Stages |-> {}]
  /\ raced = {} /\ killed = {} /\ torn = {} /\ failed = {}
  /\ audit = 0 /\ verdict = "passed" /\ quiet = FALSE
  /\ faults = 0

Fault == faults < MaxFaults /\ faults' = faults + 1

\* Mutant: stale only when no recorded hash matches any more.
StaleAltogether(s) == (fresh[s] = {} /\ Tracks[s] # {}) \/ Manifests[s] \in torn

\* verify_manifest_hashes names a tracked file that is not as it was; a cut manifest is no JSON.
Stale(s) == fresh[s] # Tracks[s] \/ Manifests[s] \in torn

Without(sets, changed) == [s \in Stages |-> sets[s] \ changed]

\* A source, configuration or document is edited, or the external data is replaced.
Edit(f) ==
  /\ Fault
  /\ fresh' = Without(fresh, {f})
  /\ seen' = Without(seen, {f})
  /\ sums' = Without(sums, {f})
  /\ loaded' = Without(loaded, {f})
  /\ quiet' = FALSE
  /\ UNCHANGED <<torn, failed, running, blame, tripped, mixed, raced, killed, audit, verdict>>

\* What a run may trip over: the stages whose files it parses and finds torn or failed; and the
\* campaign report compares the manifests of its stages with the workspace itself.
BadInputs(s) == {Owner(f) : f \in bad \cap Parses[s]}
StaleInputs(s) ==
  IF s \in Reporters THEN {t \in Stages : Manifests[t] \in Reads[s] /\ Stale(t)} ELSE {}

\* The files of which a run can have the present checksum from the stage whose checksums it takes
\* over. When rows are missing there, it may have taken the checksum of some of the files itself.
Copies(s) ==
  IF SumsOf[s] = "none" THEN {{}}
  ELSE LET q == SumsOf[s]
           here == Sums[s] \cap Sums[q]
       IN {C \in SUBSET here : sums[q] \cap here \subseteq C
                             /\ (C = sums[q] \cap here \/ SumsIn[q] \in failed)}

\* A checksum that the stage takes over is not that of the file.
Mismatched(s) == s \in Checkers /\ sums[SumsOf[s]] # Sums[SumsOf[s]]

\* Mutant: a reader that skips what it cannot parse.
StartLenient(s) ==
  /\ audit = 0
  /\ s \notin running /\ Cardinality(running) < MaxRunning
  /\ running' = running \cup {s}
  /\ \E C \in Copies(s) : loaded' = [loaded EXCEPT ![s] = Reads[s] \cup Tracks[s] \cup C]
  /\ mixed' = mixed \cup {t \in {s} : Mismatched(t)}
  /\ \/ verdict = s /\ verdict' = "none" /\ UNCHANGED faults
     \/ verdict # s /\ Fault /\ UNCHANGED verdict
  /\ UNCHANGED <<files, ghosts, blame, tripped, audit>>

\* Mutant: a run that finds bad files names the stages of all that it reads.
StartBlamingAll(s) ==
  /\ audit = 0
  /\ s \notin running /\ Cardinality(running) < MaxRunning
  /\ running' = running \cup {s}
  /\ \E C \in Copies(s) : loaded' = [loaded EXCEPT ![s] = Reads[s] \cup Tracks[s] \cup C]
  /\ blame' = [blame EXCEPT ![s] = IF BadInputs(s) \cup StaleInputs(s) = {} THEN {}
                                   ELSE {q \in Stages : Reads[s] \cap Outputs(q) # {}}]
  /\ tripped' = tripped \cup {t \in {s} : torn \cap Parses[t] # {} \/ StaleInputs(t) # {}}
  /\ mixed' = mixed \cup {t \in {s} : Mismatched(t)}
  /\ \/ verdict = s /\ verdict' = "none" /\ UNCHANGED faults
     \/ verdict # s /\ Fault /\ UNCHANGED verdict
  /\ UNCHANGED <<files, ghosts, audit>>

\* A script starts and reads its inputs: after the audit named it, or unprovoked. With a torn file
\* to parse, a stale stage to report on or a checksum that is not that of the file, it cannot come
\* out well; a failed input may not matter, and a torn one that it only hashes does not.
Start(s) ==
  /\ audit = 0
  /\ s \notin running /\ Cardinality(running) < MaxRunning
  /\ running' = running \cup {s}
  /\ \E C \in Copies(s) : loaded' = [loaded EXCEPT ![s] = Reads[s] \cup Tracks[s] \cup C]
  /\ blame' = [blame EXCEPT ![s] = BadInputs(s) \cup StaleInputs(s)]
  /\ tripped' = tripped \cup {t \in {s} : torn \cap Parses[t] # {} \/ StaleInputs(t) # {}}
  /\ mixed' = mixed \cup {t \in {s} : Mismatched(t)}
  /\ \/ verdict = s /\ verdict' = "none" /\ UNCHANGED faults
     \/ verdict # s /\ Fault /\ UNCHANGED verdict
  /\ UNCHANGED <<files, ghosts, audit>>

\* The run of s is over.
Over(s, changed) ==
  /\ s \in running
  /\ running' = running \ {s} /\ tripped' = tripped \ {s} /\ mixed' = mixed \ {s}
  /\ loaded' = [Without(loaded, changed) EXCEPT ![s] = {}]
  /\ blame' = [blame EXCEPT ![s] = {}]

\* A bad input raises before anything is written. The campaign report catches that.
Raise(s) ==
  /\ s \notin Reporters
  /\ Over(s, {})
  /\ verdict' \in blame[s]
  /\ UNCHANGED <<files, ghosts, audit, faults>>

\* The checksums that a run writes down are of the files as it has read them, or as it has taken
\* them over. The file that carries them changes with them.
Taken(s) == loaded[s] \cap Sums[s]
NewSums(s) == IF Taken(s) = sums[s] THEN {} ELSE {SumsIn[s]}

\* The files that a whole run changes: its manifest, what was bad, and what comes out differently.
Changes(s) ==
  {W \in SUBSET Outputs(s) :
     (bad \cup {Manifests[s]} \cup NewSums(s)) \cap Outputs(s) \subseteq W}

\* Mutant: a manifest that exists keeps the hashes it has.
WriteOutputsOldHashes(s, W) ==
  /\ Over(s, W)
  /\ fresh' = Without(fresh, W)
  /\ seen' = [Without(seen, W) EXCEPT ![s] = loaded[s] \cap Reads[s]]
  /\ sums' = [Without(sums, W) EXCEPT ![s] = Taken(s)]
  /\ torn' = torn \ Outputs(s)
  /\ raced' = (raced \ {s}) \cup {t \in {s} : ~(Reads[t] \cup Tracks[t] \subseteq loaded[t])}
  /\ killed' = killed \ {s}
  /\ quiet' = FALSE
  /\ UNCHANGED audit

\* A run writes its files and its manifest, whose hashes are of the files as they are now.
WriteOutputs(s, W) ==
  /\ Over(s, W)
  /\ fresh' = [Without(fresh, W) EXCEPT ![s] = Tracks[s]]
  /\ seen' = [Without(seen, W) EXCEPT ![s] = loaded[s] \cap Reads[s]]
  /\ sums' = [Without(sums, W) EXCEPT ![s] = Taken(s)]
  /\ torn' = torn \ Outputs(s)
  /\ raced' = (raced \ {s}) \cup {t \in {s} : ~(Reads[t] \cup Tracks[t] \subseteq loaded[t])}
  /\ killed' = killed \ {s}
  /\ quiet' = FALSE
  /\ UNCHANGED audit

Finish(s) ==
  /\ s \notin tripped \cup mixed
  /\ \E W \in Changes(s) : WriteOutputs(s, W)
  /\ failed' = failed \ Outputs(s)
  /\ UNCHANGED <<verdict, faults>>

\* The status is not "passed": everything is written all the same, and the script exits with an
\* error. Only the campaign report gets so far with torn inputs. A checksum that is not that of the
\* file names nobody. A stage with sound inputs fails for a reason of its own, which is a fault.
FinishFailing(s) ==
  /\ Status[s] \in Outputs(s)
  /\ s \in tripped => s \in Reporters
  /\ \E W \in Changes(s) : Status[s] \in W /\ WriteOutputs(s, W)
  /\ failed' = (failed \ Outputs(s)) \cup {Status[s]}
  /\ \/ verdict' \in blame[s] /\ UNCHANGED faults
     \/ blame[s] = {} /\ s \in mixed /\ UNCHANGED <<verdict, faults>>
     \/ blame[s] = {} /\ s \notin mixed /\ Fault /\ UNCHANGED verdict

\* A run is killed while it writes its k-th file: the files before it are whole, and this one is
\* cut, so that it does not parse, or between two rows.
Kill(s, k) ==
  LET whole == {Writes[s][i] : i \in 1 .. k - 1}
      cut == Writes[s][k]
  IN /\ Fault
     /\ s \in tripped => s \in Reporters
     /\ \E W \in SUBSET whole, short \in SUBSET ({cut} \cap RowFiles) :
          LET changed == W \cup ((bad \cup NewSums(s)) \cap whole) \cup {cut}
          IN /\ Over(s, changed)
             /\ fresh' = Without(fresh, changed)
             /\ seen' = Without(seen, changed)
             /\ sums' = [Without(sums, changed) EXCEPT
                           ![s] = IF SumsIn[s] \in whole \cup {cut} THEN Taken(s) ELSE sums[s]]
             /\ torn' = (torn \ whole) \cup ({cut} \ short)
             /\ failed' = (failed \ changed) \cup short
     /\ killed' = killed \cup {s}
     /\ quiet' = FALSE
     /\ UNCHANGED <<raced, audit, verdict>>

\* The audit begins when nothing is running and no stage is named for another run.
BeginAudit ==
  /\ audit = 0 /\ running = {} /\ verdict \notin Stages
  /\ audit' = 1 /\ verdict' = "none" /\ quiet' = TRUE
  /\ UNCHANGED <<files, runs, raced, killed, faults>>

BadOpened(s) == {Owner(f) : f \in bad \cap Opens[s]}
OldSums(s) == {t \in {s} \cap Rehashed : sums[t] # Sums[t]}

\* Of a row file with rows missing the audit may not see that, when it does not count the rows.
LooksRight(s) ==
  ~Stale(s) /\ torn \cap Opens[s] = {} /\ failed \cap Opens[s] \subseteq RowFiles /\ OldSums(s) = {}

\* Mutant: the audit goes on after the last stage.
VerifyStagePastEnd ==
  /\ audit > 0
  /\ LET s == AuditOrder[audit]
     IN \/ Stale(s) /\ verdict' = s /\ audit' = 0
        \/ ~Stale(s) /\ verdict' \in BadOpened(s) \cup OldSums(s) /\ audit' = 0
        \/ LooksRight(s) /\ audit' = audit + 1 /\ UNCHANGED verdict
  /\ UNCHANGED <<files, runs, ghosts, faults>>

\* One stage of the audit: its manifest first, then the files it opens, and the checksums in them.
VerifyStage ==
  /\ audit > 0
  /\ LET s == AuditOrder[audit]
     IN \/ Stale(s) /\ verdict' = s /\ audit' = 0
        \/ ~Stale(s) /\ verdict' \in BadOpened(s) \cup OldSums(s) /\ audit' = 0
        \/ LooksRight(s) /\ audit < Len(AuditOrder) /\ audit' = audit + 1 /\ UNCHANGED verdict
        \/ LooksRight(s) /\ audit = Len(AuditOrder) /\ audit' = 0 /\ verdict' = "passed"
  /\ UNCHANGED <<files, runs, ghosts, faults>>

Next ==
  \/ \E f \in Sources : Edit(f)
  \/ \E s \in Stages : Start(s) \/ Raise(s) \/ Finish(s) \/ FinishFailing(s)
  \/ \E s \in Stages : \E k \in DOMAIN Writes[s] : Kill(s, k)
  \/ BeginAudit \/ VerifyStage

\* Whoever keeps the workspace starts the stage that was named, runs end, and audits are repeated.
Ends(s) == Raise(s) \/ Finish(s) \/ FinishFailing(s)
Fairness ==
  /\ \A s \in Stages : WF_vars(verdict = s /\ Start(s)) /\ WF_vars(Ends(s))
  /\ WF_vars(BeginAudit) /\ WF_vars(VerifyStage)
Spec == Init /\ [][Next]_vars /\ Fairness
-------------------------------------------------------------------------------
(* What the audit vouches for. A file that a stage reads is covered when the manifest of the stage
   hashes it; when that manifest hashes the manifest of an audited stage that hashes it, or that
   hashes one that does; or when it hashes the manifest of the stage that writes it, unless that
   stage was killed after it wrote the file and before it renewed its manifest. *)
Vouched(s) == {q \in Audited : Manifests[q] \in Tracks[s] \cap Outputs(q)}
ByItself(s) == Tracks[s]
ByOneManifest(s) == UNION {Tracks[q] : q \in Vouched(s)}
ByTwoManifests(s) == UNION {UNION {Tracks[r] : r \in Vouched(q)} : q \in Vouched(s)}
ByItsOwner(s) == UNION {Outputs(q) : q \in Vouched(s) \ killed}
Covered(s) ==
  Reads[s] \cap (ByItself(s) \cup ByOneManifest(s) \cup ByTwoManifests(s) \cup ByItsOwner(s))

\* When the audit passes and nothing changes while it looks, the artifacts of every audited stage
\* were made from the covered inputs as they are now, however many stages ran again, failed or
\* were killed since; except when an input changed while that run was under way, as its manifest
\* hashes the files at the end of the run (provenance.build_artifact_manifest).
AuditedIsCurrent ==
  verdict = "passed" /\ quiet => \A s \in Audited \ raced : Covered(s) \subseteq seen[s]

\* After such a pass no audited stage parses and tracks a file that a kill has left unreadable: its
\* own next run would raise on it. Files that are only hashed are left out, as a stage runs well
\* over a cut one; so is the campaign report: what it reads and tracks are manifests, which the
\* audit reads itself.
TornInputsAreFound ==
  verdict = "passed" /\ quiet =>
    \A s \in Audited \ (raced \cup Reporters) : torn \cap Parses[s] \cap Tracks[s] = {}

\* A stage is in order when no hash, no checksum that the audit compares and no file of it is bad,
\* and it is neither running, nor named, nor about to be named by a run that has read a bad file.
InOrder ==
  {s \in Stages \ (running \cup {verdict} \cup UNION {blame[t] : t \in running}) :
     ~Stale(s) /\ OldSums(s) = {} /\ bad \cap Outputs(s) = {}}

\* Sets of stages that have every stage whose files the audit compares with a hash of one of them.
Makers(F) == {q \in Stages : F \cap Outputs(q) # {}}
Hashed(s) == Tracks[s] \cup UNION {Sums[t] : t \in {s} \cap Rehashed}
ClosedSets == {D \in SUBSET Stages : \A s \in D : Makers(Hashed(s)) \subseteq D}

\* Repairing is never undone: until the next fault, a stage that is in order falls out of it only
\* when a stage whose files it hashes, over however many others, was not in order to begin with;
\* whatever else is stale, runs again, or fails over its inputs meanwhile
\* (tss_verify_artifacts.main).
RepairsAreKept ==
  [][faults' = faults =>
       LET before == InOrder
           after == InOrder'
       IN \A s \in before \ after : \A D \in SUBSET before : D \in ClosedSets => s \notin D]_vars

\* A stage that fails in every run although everything it reads is in order: the checksums that it
\* compares were taken from a file before that file changed, and the manifests that hash the file
\* after it changed are right (_input_checks of csr_transformer_package_consumer_dry_run.py).
Stuck(s) ==
  /\ Mismatched(s)
  /\ LET order == InOrder
     IN SumsOf[s] \in order /\ \E D \in SUBSET order : D \in ClosedSets /\ SumsOf[s] \in D

\* When faults end and the stage that an audit or a failed run names is run again each time, the
\* audit passes at last, although it looks at some stages before the stages they depend on
\* (tss_verify_artifacts.main). Only a stage that is stuck can send its reader round in circles.
RepairConverges ==
  []<>(verdict = "passed") \/ <>[](\E s \in Stages : Stuck(s))
====
