-------------------------- MODULE ArtifactAuditProofs --------------------------
(***************************************************************************)
(* Theorems about ArtifactAudit, for every catalogue of stages in which no *)
(* two stages write the same file and none reads or tracks its own.  The   *)
(* argument needs no order on the stages: a recorded hash that is still    *)
(* the present one says that the file has not changed since the run, and a *)
(* recorded hash of a manifest says the same of the stage it belongs to,   *)
(* as a run that ends always changes its manifest.                         *)
(***************************************************************************)
EXTENDS ArtifactAudit, TLAPS

HasManifest(q) == Manifests[q] \in Outputs(q)

\* What the hashes of s, of a manifest hashed by s, and of one hashed by that one vouch for.
SeenDirectly ==
    \A s \in Stages \ raced : \A f \in Reads[s] : f \in fresh[s] => f \in seen[s]
SeenByOne ==
    \A s \in Stages \ raced, q \in Stages : \A f \in Reads[s] :
        HasManifest(q) /\ Manifests[q] \in fresh[s] /\ f \in fresh[q] => f \in seen[s]
SeenByTwo ==
    \A s \in Stages \ raced, q, r \in Stages : \A f \in Reads[s] :
        /\ HasManifest(q) /\ Manifests[q] \in fresh[s]
        /\ HasManifest(r) /\ Manifests[r] \in fresh[q]
        /\ f \in fresh[r]
        => f \in seen[s]
SeenByOwner ==
    \A s \in Stages \ raced, q \in Stages \ killed : \A f \in Reads[s] :
        HasManifest(q) /\ Manifests[q] \in fresh[s] /\ f \in Outputs(q) => f \in seen[s]
SeenInv == SeenDirectly /\ SeenByOne /\ SeenByTwo /\ SeenByOwner

\* A torn file is hashed by no stage that has parsed it.
TornInv ==
    /\ \A s \in running \ tripped : torn \cap loaded[s] \cap Parses[s] = {}
    /\ \A s \in Stages \ (raced \cup Reporters) : torn \cap Parses[s] \cap fresh[s] = {}

\* The stages that the audit has passed are not stale while nothing changes.
PassedStages == IF verdict = "passed" THEN Audited ELSE {AuditOrder[i] : i \in 1 .. audit - 1}
AuditInv ==
    /\ audit > 0 => verdict = "none"
    /\ quiet => \A s \in PassedStages : fresh[s] = Tracks[s]

\* A run knows the present checksums of what is still as it was when it began, of the files
\* themselves and of those that it takes over; and so does the stage that it leaves behind, as far
\* as its manifest, hashed at the end of the run, says that nothing has changed.
KeptByRuns ==
    \A s \in running :
        /\ fresh[s] \subseteq loaded[s]
        /\ SumsOf[s] # "none" /\ SumsIn[SumsOf[s]] \in loaded[s]
             => sums[SumsOf[s]] \cap Sums[s] \subseteq loaded[s]
KeptByHashes ==
    \A s \in Stages \ raced :
        /\ fresh[s] \cap Sums[s] \subseteq sums[s]
        /\ SumsOf[s] # "none" /\ SumsIn[SumsOf[s]] \in fresh[s]
             => sums[SumsOf[s]] \cap Sums[s] \subseteq sums[s]
SumsInv == KeptByRuns /\ KeptByHashes

IInv == TypeOK /\ SeenInv /\ TornInv /\ AuditInv /\ SumsInv

-----------------------------------------------------------------------------
(* The catalogue *)

LEMMA OwnerIsStage ==
    ASSUME NEW f \in Files \ Sources
    PROVE  Owner(f) \in Stages /\ f \in Outputs(Owner(f))
<1>1. PICK s \in Stages : f \in Outputs(s)
  BY DEF Sources
<1> QED
  BY <1>1 DEF Owner

LEMMA WritesAreFiles ==
    ASSUME NEW s \in Stages, NEW k \in DOMAIN Writes[s]
    PROVE  Writes[s][k] \in Outputs(s) /\ Writes[s][k] \in Files \ Sources
<1>1. Writes[s] \in Seq(Files)
  BY CatalogueAssumption
<1>2. Writes[s][k] \in Files
  BY <1>1
<1> QED
  BY <1>2 DEF Outputs, Sources

LEMMA OutputsAreFiles ==
    ASSUME NEW s \in Stages
    PROVE  Outputs(s) \subseteq Files \ Sources
BY WritesAreFiles DEF Outputs

LEMMA WrittenAreOutputs ==
    ASSUME NEW s \in Stages, NEW k \in DOMAIN Writes[s]
    PROVE  {Writes[s][i] : i \in 1 .. k - 1} \cup {Writes[s][k]} \subseteq Outputs(s)
<1>1. Len(Writes[s]) \in Nat /\ DOMAIN Writes[s] = 1 .. Len(Writes[s])
  BY CatalogueAssumption
<1>2. k \in 1 .. Len(Writes[s])
  BY CatalogueAssumption
<1>3. 1 .. k - 1 \subseteq DOMAIN Writes[s]
  BY <1>1, <1>2
<1> QED
  BY <1>3 DEF Outputs

LEMMA PositionIsStage ==
    ASSUME NEW i \in 1 .. Len(AuditOrder)
    PROVE  AuditOrder[i] \in Stages /\ AuditOrder[i] \in Audited
<1>1. AuditOrder \in Seq(Stages)
  BY CatalogueAssumption
<1> QED
  BY <1>1 DEF Audited

LEMMA AuditedAreStages == Audited \subseteq Stages
<1>1. AuditOrder \in Seq(Stages)
  BY CatalogueAssumption
<1> QED
  BY <1>1 DEF Audited

LEMMA CopiesAreSums ==
    ASSUME NEW s \in Stages, NEW C \in Copies(s)
    PROVE  C \subseteq Sums[s]
BY DEF Copies

-----------------------------------------------------------------------------
(* Types *)

LEMMA TypeInit == Init => TypeOK
<1> SUFFICES ASSUME Init PROVE TypeOK
  OBVIOUS
<1>1. Len(AuditOrder) \in Nat
  BY CatalogueAssumption
<1> QED
  <2>1. /\ fresh \in [Stages -> SUBSET Files] /\ seen \in [Stages -> SUBSET Files]
        /\ sums \in [Stages -> SUBSET Files]
        /\ \A s \in Stages :
             fresh[s] \subseteq Tracks[s] /\ seen[s] \subseteq Reads[s] /\ sums[s] \subseteq Sums[s]
    BY CatalogueAssumption DEF Init
  <2>2. /\ loaded \in [Stages -> SUBSET Files] /\ \A s \in Stages \ running : loaded[s] = {}
        /\ blame \in [Stages -> SUBSET Stages]
    BY DEF Init
  <2>3. MaxFaults \in Nat
    BY CatalogueAssumption
  <2>4. faults \in 0 .. MaxFaults /\ audit \in 0 .. Len(AuditOrder)
    BY <1>1, <2>3 DEF Init
  <2> QED
    BY <2>1, <2>2, <2>4 DEF Init, TypeOK, bad

LEMMA TypeOfOver ==
    ASSUME TypeOK, NEW s \in Stages, NEW W, Over(s, W)
    PROVE  /\ loaded' \in [Stages -> SUBSET Files]
           /\ running' \subseteq Stages /\ \A t \in Stages \ running' : loaded'[t] = {}
           /\ blame' \in [Stages -> SUBSET Stages]
           /\ tripped' \subseteq running' /\ mixed' \subseteq running'
           /\ audit = 0
BY DEF TypeOK, Over, Without

LEMMA TypeOfWrites ==
    ASSUME TypeOK, NEW s \in Stages, NEW W \in SUBSET Outputs(s), WriteOutputs(s, W)
    PROVE  /\ fresh' \in [Stages -> SUBSET Files] /\ \A t \in Stages : fresh'[t] \subseteq Tracks[t]
           /\ seen' \in [Stages -> SUBSET Files] /\ \A t \in Stages : seen'[t] \subseteq Reads[t]
           /\ sums' \in [Stages -> SUBSET Files] /\ \A t \in Stages : sums'[t] \subseteq Sums[t]
           /\ torn' \subseteq Files \ Sources
           /\ raced' \subseteq Stages /\ killed' \subseteq Stages
           /\ quiet' \in BOOLEAN
           /\ audit' = audit
BY CatalogueAssumption DEF TypeOK, WriteOutputs, Without, Taken, bad

\* What a kill does to the files, with the files that change.
KilledWriting(s, k, changed) ==
    LET whole == {Writes[s][i] : i \in 1 .. k - 1}
        cut == Writes[s][k]
    IN /\ cut \in changed /\ NewSums(s) \cap (whole \cup {cut}) \subseteq changed
       /\ Over(s, changed)
       /\ fresh' = Without(fresh, changed)
       /\ seen' = Without(seen, changed)
       /\ sums' = [Without(sums, changed) EXCEPT
                     ![s] = IF SumsIn[s] \in whole \cup {cut} THEN Taken(s) ELSE sums[s]]
       /\ torn' \subseteq torn \cup {cut}
       /\ failed' \subseteq failed \cup {cut}

LEMMA KillWrites ==
    ASSUME NEW s \in Stages, NEW k \in DOMAIN Writes[s], Kill(s, k)
    PROVE  \E changed \in SUBSET ({Writes[s][i] : i \in 1 .. k - 1} \cup {Writes[s][k]}) :
             KilledWriting(s, k, changed)
<1> DEFINE whole == {Writes[s][i] : i \in 1 .. k - 1}
           cut == Writes[s][k]
<1>1. PICK W \in SUBSET whole, short \in SUBSET ({cut} \cap RowFiles) :
        LET changed == W \cup ((bad \cup NewSums(s)) \cap whole) \cup {cut}
        IN /\ Over(s, changed)
           /\ fresh' = Without(fresh, changed)
           /\ seen' = Without(seen, changed)
           /\ sums' = [Without(sums, changed) EXCEPT
                         ![s] = IF SumsIn[s] \in whole \cup {cut} THEN Taken(s) ELSE sums[s]]
           /\ torn' = (torn \ whole) \cup ({cut} \ short)
           /\ failed' = (failed \ changed) \cup short
  BY Zenon DEF Kill
<1> HIDE DEF whole, cut
<1> DEFINE changed == W \cup ((bad \cup NewSums(s)) \cap whole) \cup {cut}
<1>2. changed \in SUBSET (whole \cup {cut})
  OBVIOUS
<1>3. cut \in changed /\ NewSums(s) \cap (whole \cup {cut}) \subseteq changed
  OBVIOUS
<1>4. torn' \subseteq torn \cup {cut} /\ failed' \subseteq failed \cup {cut}
  BY <1>1
<1>5. /\ Over(s, changed)
      /\ fresh' = Without(fresh, changed)
      /\ seen' = Without(seen, changed)
      /\ sums' = [Without(sums, changed) EXCEPT
                    ![s] = IF SumsIn[s] \in whole \cup {cut} THEN Taken(s) ELSE sums[s]]
  BY <1>1
<1> HIDE DEF changed
<1>6. KilledWriting(s, k, changed)
  BY <1>3, <1>4, <1>5 DEF KilledWriting, whole, cut
<1> QED
  BY <1>2, <1>6 DEF whole, cut

LEMMA TypeNext == TypeOK /\ [Next]_vars => TypeOK'
<1> SUFFICES ASSUME TypeOK, [Next]_vars PROVE TypeOK'
  OBVIOUS
<1> USE CatalogueAssumption
<1>0. Len(AuditOrder) \in Nat \ {0}
  OBVIOUS
<1>1. ASSUME NEW f \in Sources, Edit(f) PROVE TypeOK'
  <2>1. /\ fresh' \in [Stages -> SUBSET Files] /\ \A s \in Stages : fresh'[s] \subseteq Tracks[s]
        /\ seen' \in [Stages -> SUBSET Files] /\ \A s \in Stages : seen'[s] \subseteq Reads[s]
        /\ sums' \in [Stages -> SUBSET Files] /\ \A s \in Stages : sums'[s] \subseteq Sums[s]
    BY <1>1 DEF TypeOK, Edit, Without
  <2>2. loaded' \in [Stages -> SUBSET Files] /\ \A s \in Stages \ running' : loaded'[s] = {}
    BY <1>1 DEF TypeOK, Edit, Without
  <2>3. faults' \in 0 .. MaxFaults
    BY <1>1 DEF TypeOK, Edit, Fault
  <2> QED
    BY <1>1, <2>1, <2>2, <2>3 DEF TypeOK, Edit, bad
<1>2. ASSUME NEW s \in Stages, Start(s) PROVE TypeOK'
  <2>1. BadInputs(s) \subseteq Stages
    BY OwnerIsStage DEF BadInputs, TypeOK
  <2>2. StaleInputs(s) \subseteq Stages
    BY DEF StaleInputs
  <2>3. verdict' \in Stages \cup {"none", "passed"} /\ faults' \in 0 .. MaxFaults
    BY <1>2 DEF Start, Fault, TypeOK
  <2>4. loaded' \in [Stages -> SUBSET Files] /\ blame' \in [Stages -> SUBSET Stages]
    <3>1. PICK C \in Copies(s) : loaded' = [loaded EXCEPT ![s] = Reads[s] \cup Tracks[s] \cup C]
      BY <1>2 DEF Start
    <3> QED
      BY <1>2, <2>1, <2>2, <3>1, CopiesAreSums DEF Start, TypeOK
  <2>5. running' \subseteq Stages /\ (\A t \in Stages \ running' : loaded'[t] = {})
        /\ tripped' \subseteq running' /\ mixed' \subseteq running'
    BY <1>2 DEF Start, TypeOK
  <2> QED
    BY <1>2, <2>3, <2>4, <2>5 DEF Start, TypeOK, files, ghosts, bad
<1>3. ASSUME NEW s \in Stages, Raise(s) PROVE TypeOK'
  <2>1. verdict' \in Stages
    BY <1>3 DEF Raise, TypeOK
  <2> QED
    BY <1>3, <2>1, TypeOfOver DEF Raise, TypeOK, files, ghosts, bad
<1>4. ASSUME NEW s \in Stages, Finish(s) PROVE TypeOK'
  <2>1. PICK W \in Changes(s) : WriteOutputs(s, W)
    BY <1>4 DEF Finish
  <2>2. W \in SUBSET Outputs(s) /\ Over(s, W)
    BY <2>1 DEF Changes, WriteOutputs
  <2> QED
    BY <1>4, <2>1, <2>2, TypeOfOver, TypeOfWrites DEF Finish, TypeOK, bad
<1>5. ASSUME NEW s \in Stages, FinishFailing(s) PROVE TypeOK'
  <2>1. PICK W \in Changes(s) : WriteOutputs(s, W)
    BY <1>5 DEF FinishFailing
  <2>2. W \in SUBSET Outputs(s) /\ Over(s, W)
    BY <2>1 DEF Changes, WriteOutputs
  <2>3. failed' \subseteq Files \ Sources
    BY <1>5, OutputsAreFiles DEF FinishFailing, TypeOK, bad
  <2>4. verdict' \in Stages \cup {"none", "passed"} /\ faults' \in 0 .. MaxFaults
    BY <1>5 DEF FinishFailing, Fault, TypeOK
  <2> QED
    BY <1>5, <2>1, <2>2, <2>3, <2>4, TypeOfOver, TypeOfWrites DEF TypeOK, bad
<1>6. ASSUME NEW s \in Stages, NEW k \in DOMAIN Writes[s], Kill(s, k) PROVE TypeOK'
  <2> DEFINE whole == {Writes[s][i] : i \in 1 .. k - 1}
  <2>1. PICK changed \in SUBSET (whole \cup {Writes[s][k]}) : KilledWriting(s, k, changed)
    BY <1>6, KillWrites
  <2>2. bad' \subseteq Files \ Sources
    BY <2>1, WritesAreFiles DEF KilledWriting, TypeOK, bad
  <2>3. /\ fresh' \in [Stages -> SUBSET Files] /\ \A t \in Stages : fresh'[t] \subseteq Tracks[t]
        /\ seen' \in [Stages -> SUBSET Files] /\ \A t \in Stages : seen'[t] \subseteq Reads[t]
        /\ sums' \in [Stages -> SUBSET Files] /\ \A t \in Stages : sums'[t] \subseteq Sums[t]
    BY <2>1 DEF KilledWriting, TypeOK, Without, Taken
  <2>4. /\ loaded' \in [Stages -> SUBSET Files]
        /\ running' \subseteq Stages /\ \A t \in Stages \ running' : loaded'[t] = {}
        /\ blame' \in [Stages -> SUBSET Stages]
        /\ tripped' \subseteq running' /\ mixed' \subseteq running'
        /\ audit = 0
    BY <2>1, TypeOfOver DEF KilledWriting
  <2>5. /\ faults' \in 0 .. MaxFaults /\ killed' \subseteq Stages
        /\ quiet' = FALSE /\ UNCHANGED <<raced, audit, verdict>>
    BY <1>6 DEF Kill, Fault, TypeOK
  <2>6. /\ raced' \subseteq Stages
        /\ audit' \in 0 .. Len(AuditOrder) /\ (audit' > 0 => running' = {})
        /\ verdict' \in Stages \cup {"none", "passed"}
    BY <2>4, <2>5 DEF TypeOK
  <2> HIDE DEF whole
  <2> QED
    BY <2>2, <2>3, <2>4, <2>5, <2>6 DEF TypeOK
<1>7. ASSUME BeginAudit PROVE TypeOK'
  BY <1>0, <1>7 DEF BeginAudit, TypeOK, files, runs, bad
<1>8. ASSUME VerifyStage PROVE TypeOK'
  <2>1. audit \in 1 .. Len(AuditOrder)
    BY <1>8, <1>0 DEF VerifyStage, TypeOK
  <2>2. AuditOrder[audit] \in Stages
    BY <2>1, PositionIsStage
  <2>3. BadOpened(AuditOrder[audit]) \cup OldSums(AuditOrder[audit]) \subseteq Stages
    BY <2>2, OwnerIsStage DEF BadOpened, OldSums, TypeOK
  <2>4. /\ verdict' \in Stages \cup {"none", "passed"}
        /\ audit' \in 0 .. Len(AuditOrder)
    BY <1>0, <1>8, <2>1, <2>2, <2>3 DEF VerifyStage, TypeOK
  <2> QED
    BY <1>8, <2>1, <2>4 DEF VerifyStage, TypeOK, files, runs, ghosts, bad
<1>9. CASE UNCHANGED vars
  BY <1>9 DEF vars, files, runs, ghosts, TypeOK, bad
<1> QED
  BY <1>1, <1>2, <1>3, <1>4, <1>5, <1>6, <1>7, <1>8, <1>9 DEF Next

-----------------------------------------------------------------------------
(* What was read has not changed *)

\* Files change that no stage wrote but those that were killed.
LEMMA SeenWhenFilesChange ==
    ASSUME TypeOK, SeenInv, NEW changed,
           fresh' = Without(fresh, changed), seen' = Without(seen, changed),
           raced' = raced, killed \subseteq killed',
           \A q \in Stages \ killed' : changed \cap Outputs(q) = {}
    PROVE  SeenInv'
<1>1. \A s \in Stages : fresh'[s] = fresh[s] \ changed /\ seen'[s] = seen[s] \ changed
  BY DEF Without
<1>2. SeenDirectly'
  BY <1>1 DEF SeenInv, SeenDirectly
<1>3. SeenByOne'
  BY <1>1 DEF SeenInv, SeenByOne
<1>4. SeenByTwo'
  BY <1>1 DEF SeenInv, SeenByTwo
<1>5. SeenByOwner'
  BY <1>1 DEF SeenInv, SeenByOwner
<1> QED
  BY <1>2, <1>3, <1>4, <1>5 DEF SeenInv

\* A run that ends has seen what it read, unless something changed under it; and as its manifest
\* changes, no other stage vouches for its files any more.
LEMMA SeenWhenRunEnds ==
    ASSUME TypeOK, SeenInv, NEW p \in Stages, NEW W \in Changes(p), WriteOutputs(p, W)
    PROVE  SeenInv'
<1>1. \A s \in Stages \ {p} : fresh'[s] = fresh[s] \ W /\ seen'[s] = seen[s] \ W
  BY DEF TypeOK, WriteOutputs, Without
<1>2. p \notin raced' => seen'[p] = Reads[p]
  BY CatalogueAssumption DEF TypeOK, WriteOutputs, Without
<1>3. raced \ {p} \subseteq raced' /\ killed \ {p} \subseteq killed'
  BY DEF WriteOutputs
<1>4. HasManifest(p) => Manifests[p] \in W
  BY DEF Changes, HasManifest
<1>5. W \subseteq Outputs(p)
  BY DEF Changes
<1>6. \A q \in Stages \ {p} : W \cap Outputs(q) = {}
  BY <1>5, CatalogueAssumption
<1>7. HasManifest(p) => \A s \in Stages \ {p} : Manifests[p] \notin fresh'[s]
  BY <1>1, <1>4
<1>8. SeenDirectly'
  BY <1>1, <1>2, <1>3 DEF SeenInv, SeenDirectly
<1>9. SeenByOne'
  <2> SUFFICES ASSUME NEW s \in Stages \ raced', NEW q \in Stages, NEW f \in Reads[s],
                      HasManifest(q), Manifests[q] \in fresh'[s], f \in fresh'[q]
               PROVE  f \in seen'[s]
    BY DEF SeenByOne, HasManifest
  <2>1. CASE s = p
    BY <1>2, <2>1
  <2>2. CASE s # p
    <3>1. q # p
      BY <1>7, <2>2
    <3> QED
      BY <1>1, <1>3, <2>2, <3>1 DEF SeenInv, SeenByOne
  <2> QED
    BY <2>1, <2>2
<1>10. SeenByTwo'
  <2> SUFFICES ASSUME NEW s \in Stages \ raced', NEW q \in Stages, NEW r \in Stages,
                      NEW f \in Reads[s],
                      HasManifest(q), Manifests[q] \in fresh'[s],
                      HasManifest(r), Manifests[r] \in fresh'[q], f \in fresh'[r]
               PROVE  f \in seen'[s]
    BY DEF SeenByTwo, HasManifest
  <2>1. CASE s = p
    BY <1>2, <2>1
  <2>2. CASE s # p
    <3>1. q # p
      BY <1>7, <2>2
    <3>2. r # p
      BY <1>7, <3>1
    <3> QED
      BY <1>1, <1>3, <2>2, <3>1, <3>2 DEF SeenInv, SeenByTwo
  <2> QED
    BY <2>1, <2>2
<1>11. SeenByOwner'
  <2> SUFFICES ASSUME NEW s \in Stages \ raced', NEW q \in Stages \ killed', NEW f \in Reads[s],
                      HasManifest(q), Manifests[q] \in fresh'[s], f \in Outputs(q)
               PROVE  f \in seen'[s]
    BY DEF SeenByOwner, HasManifest
  <2>1. CASE s = p
    BY <1>2, <2>1
  <2>2. CASE s # p
    <3>1. q # p
      BY <1>7, <2>2
    <3> QED
      BY <1>1, <1>3, <1>6, <2>2, <3>1 DEF SeenInv, SeenByOwner
  <2> QED
    BY <2>1, <2>2
<1> QED
  BY <1>8, <1>9, <1>10, <1>11 DEF SeenInv

LEMMA SeenNext == TypeOK /\ SeenInv /\ [Next]_vars => SeenInv'
<1> SUFFICES ASSUME TypeOK, SeenInv, [Next]_vars PROVE SeenInv'
  OBVIOUS
<1>1. ASSUME UNCHANGED <<fresh, seen, raced, killed>> PROVE SeenInv'
  BY <1>1 DEF SeenInv, SeenDirectly, SeenByOne, SeenByTwo, SeenByOwner, HasManifest
<1>2. ASSUME NEW f \in Sources, Edit(f) PROVE SeenInv'
  <2>1. \A q \in Stages : {f} \cap Outputs(q) = {}
    BY DEF Sources
  <2> QED
    BY <1>2, <2>1, SeenWhenFilesChange DEF Edit
<1>3. ASSUME NEW s \in Stages, Start(s) \/ Raise(s) PROVE SeenInv'
  BY <1>1, <1>3 DEF Start, Raise, files, ghosts
<1>4. ASSUME NEW s \in Stages, Finish(s) \/ FinishFailing(s) PROVE SeenInv'
  <2>1. PICK W \in Changes(s) : WriteOutputs(s, W)
    BY <1>4 DEF Finish, FinishFailing
  <2> QED
    BY <2>1, SeenWhenRunEnds
<1>5. ASSUME NEW s \in Stages, NEW k \in DOMAIN Writes[s], Kill(s, k) PROVE SeenInv'
  <2> DEFINE whole == {Writes[s][i] : i \in 1 .. k - 1}
  <2>1. PICK changed \in SUBSET (whole \cup {Writes[s][k]}) : KilledWriting(s, k, changed)
    BY <1>5, KillWrites
  <2>2. whole \cup {Writes[s][k]} \subseteq Outputs(s)
    BY WrittenAreOutputs
  <2>3. raced' = raced /\ killed' = killed \cup {s}
    BY <1>5 DEF Kill
  <2>4. \A q \in Stages \ killed' : changed \cap Outputs(q) = {}
    BY <2>2, <2>3, CatalogueAssumption
  <2> QED
    BY <2>1, <2>3, <2>4, SeenWhenFilesChange DEF KilledWriting
<1>6. ASSUME BeginAudit \/ VerifyStage PROVE SeenInv'
  BY <1>1, <1>6 DEF BeginAudit, VerifyStage, files, ghosts
<1>7. CASE UNCHANGED vars
  BY <1>1, <1>7 DEF vars, files, ghosts
<1> QED
  BY <1>2, <1>3, <1>4, <1>5, <1>6, <1>7 DEF Next

-----------------------------------------------------------------------------
(* Torn files *)

LEMMA TornWhenRunEnds ==
    ASSUME TypeOK, TornInv, NEW p \in Stages, NEW W, WriteOutputs(p, W),
           p \in tripped => p \in Reporters
    PROVE  TornInv'
<1>1. /\ \A s \in Stages \ {p} : fresh'[s] = fresh[s] \ W /\ loaded'[s] = loaded[s] \ W
      /\ p \in running /\ running' = running \ {p} /\ tripped' = tripped \ {p}
      /\ torn' \subseteq torn
  BY DEF TypeOK, WriteOutputs, Over, Without
<1>2. \A s \in running' \ tripped' : torn' \cap loaded'[s] \cap Parses[s] = {}
  BY <1>1 DEF TornInv, TypeOK
<1>3. p \notin raced' \cup Reporters => torn \cap Parses[p] = {}
  BY <1>1, CatalogueAssumption DEF TornInv, WriteOutputs
<1>4. \A s \in Stages \ (raced' \cup Reporters) : torn' \cap Parses[s] \cap fresh'[s] = {}
  BY <1>1, <1>3 DEF TornInv, WriteOutputs
<1> QED
  BY <1>2, <1>4 DEF TornInv

LEMMA TornNext == TypeOK /\ TornInv /\ [Next]_vars => TornInv'
<1> SUFFICES ASSUME TypeOK, TornInv, [Next]_vars PROVE TornInv'
  OBVIOUS
<1>1. ASSUME NEW f \in Sources, Edit(f) PROVE TornInv'
  BY <1>1 DEF Edit, TornInv, TypeOK, Without
<1>2. ASSUME NEW s \in Stages, Start(s) PROVE TornInv'
  <2>1. s \notin tripped' => torn \cap Parses[s] = {}
    BY <1>2 DEF Start
  <2>2. /\ \A t \in Stages \ {s} : loaded'[t] = loaded[t]
        /\ running' = running \cup {s} /\ tripped \subseteq tripped'
        /\ fresh' = fresh /\ torn' = torn /\ raced' = raced
    BY <1>2 DEF Start, TypeOK, files, ghosts
  <2> QED
    BY <2>1, <2>2 DEF TornInv, TypeOK
<1>3. ASSUME NEW s \in Stages, Raise(s) PROVE TornInv'
  BY <1>3 DEF Raise, Over, TornInv, TypeOK, Without, files, ghosts
<1>4. ASSUME NEW s \in Stages, Finish(s) \/ FinishFailing(s) PROVE TornInv'
  <2>1. \E W : WriteOutputs(s, W)
    BY <1>4 DEF Finish, FinishFailing
  <2>2. s \in tripped => s \in Reporters
    BY <1>4 DEF Finish, FinishFailing
  <2> QED
    BY <2>1, <2>2, TornWhenRunEnds
<1>5. ASSUME NEW s \in Stages, NEW k \in DOMAIN Writes[s], Kill(s, k) PROVE TornInv'
  <2> DEFINE whole == {Writes[s][i] : i \in 1 .. k - 1}
             cut == Writes[s][k]
  <2>1. PICK changed \in SUBSET (whole \cup {cut}) : KilledWriting(s, k, changed)
    BY <1>5, KillWrites
  <2>2. raced' = raced
    BY <1>5 DEF Kill
  <2> HIDE DEF whole, cut
  <2>3. /\ \A t \in Stages : fresh'[t] \subseteq fresh[t] \ {cut}
        /\ \A t \in Stages \ {s} : loaded'[t] \subseteq loaded[t] \ {cut}
        /\ running' = running \ {s} /\ tripped' = tripped \ {s}
    BY <2>1 DEF KilledWriting, Over, Without, TypeOK, cut
  <2>4. torn' \subseteq torn \cup {cut}
    BY <2>1 DEF KilledWriting, cut
  <2> QED
    BY <2>2, <2>3, <2>4 DEF TornInv, TypeOK
<1>6. ASSUME BeginAudit \/ VerifyStage PROVE TornInv'
  BY <1>6 DEF BeginAudit, VerifyStage, TornInv, files, runs, ghosts
<1>7. CASE UNCHANGED vars
  BY <1>7 DEF vars, TornInv, files, runs, ghosts
<1> QED
  BY <1>1, <1>2, <1>3, <1>4, <1>5, <1>6, <1>7 DEF Next

-----------------------------------------------------------------------------
(* The audit *)

LEMMA AuditNext == TypeOK /\ AuditInv /\ [Next]_vars => AuditInv'
<1> SUFFICES ASSUME TypeOK, AuditInv, [Next]_vars PROVE AuditInv'
  OBVIOUS
<1>0. Len(AuditOrder) \in Nat \ {0} /\ audit \in 0 .. Len(AuditOrder)
  BY CatalogueAssumption DEF TypeOK
<1>1. ASSUME quiet' = FALSE, audit' = 0 \/ UNCHANGED <<audit, verdict>> PROVE AuditInv'
  BY <1>1 DEF AuditInv
<1>2. ASSUME audit' = 0, verdict' # "passed" PROVE AuditInv'
  <2>1. \A i \in 1 .. audit' - 1 : FALSE
    BY <1>2
  <2> QED
    BY <1>2, <2>1 DEF AuditInv, PassedStages
<1>3. ASSUME NEW f \in Sources, Edit(f) PROVE AuditInv'
  BY <1>1, <1>3 DEF Edit
<1>4. ASSUME NEW s \in Stages, Start(s) PROVE AuditInv'
  <2>1. CASE verdict' = "passed"
    BY <1>4, <2>1 DEF Start, AuditInv, PassedStages, files, ghosts
  <2>2. CASE verdict' # "passed"
    BY <1>2, <1>4, <2>2 DEF Start
  <2> QED
    BY <2>1, <2>2
<1>5. ASSUME NEW s \in Stages, Raise(s) PROVE AuditInv'
  <2>1. audit = 0
    BY <1>5, TypeOfOver DEF Raise
  <2>2. verdict' \in Stages
    BY <1>5 DEF Raise, TypeOK
  <2> QED
    BY <1>2, <1>5, <2>1, <2>2, CatalogueAssumption DEF Raise
<1>6. ASSUME NEW s \in Stages, Finish(s) \/ FinishFailing(s) PROVE AuditInv'
  <2>1. PICK W : WriteOutputs(s, W)
    BY <1>6 DEF Finish, FinishFailing
  <2>2. quiet' = FALSE /\ audit' = audit /\ Over(s, W)
    BY <2>1 DEF WriteOutputs
  <2> QED
    BY <1>1, <2>2, TypeOfOver
<1>7. ASSUME NEW s \in Stages, NEW k \in DOMAIN Writes[s], Kill(s, k) PROVE AuditInv'
  BY <1>1, <1>7 DEF Kill
<1>8. ASSUME BeginAudit PROVE AuditInv'
  <2>1. \A i \in 1 .. audit' - 1 : FALSE
    BY <1>8 DEF BeginAudit
  <2> QED
    BY <1>8, <2>1 DEF BeginAudit, AuditInv, PassedStages
<1>9. ASSUME VerifyStage PROVE AuditInv'
  <2> DEFINE s == AuditOrder[audit]
  <2>1. s \in Stages /\ audit \in 1 .. Len(AuditOrder)
    BY <1>0, <1>9, PositionIsStage DEF VerifyStage
  <2>2. CASE audit' = 0 /\ verdict' \in Stages
    BY <1>2, <2>2, CatalogueAssumption
  <2>3. CASE ~Stale(s) /\ audit' = audit + 1 /\ UNCHANGED verdict
    <3>1. fresh[s] = Tracks[s] /\ verdict = "none"
      BY <1>9, <2>3 DEF Stale, AuditInv, VerifyStage
    <3>2. \A i \in 1 .. audit' - 1 : i \in 1 .. audit - 1 \/ i = audit
      BY <1>0, <2>3
    <3>3. UNCHANGED <<fresh, quiet>>
      BY <1>9 DEF VerifyStage, files, ghosts
    <3> QED
      BY <2>3, <3>1, <3>2, <3>3 DEF AuditInv, PassedStages
  <2>4. CASE ~Stale(s) /\ audit = Len(AuditOrder) /\ audit' = 0 /\ verdict' = "passed"
    <3>1. fresh[s] = Tracks[s] /\ verdict = "none"
      BY <1>9, <2>4 DEF Stale, AuditInv, VerifyStage
    <3>2. \A i \in DOMAIN AuditOrder : i \in 1 .. audit - 1 \/ i = audit
      BY <1>0, <2>4, CatalogueAssumption
    <3>3. UNCHANGED <<fresh, quiet>>
      BY <1>9 DEF VerifyStage, files, ghosts
    <3>4. \A t \in Audited : t = s \/ t \in {AuditOrder[i] : i \in 1 .. audit - 1}
      BY <3>2 DEF Audited
    <3> QED
      BY <2>4, <3>1, <3>3, <3>4 DEF AuditInv, PassedStages
  <2>5. BadOpened(s) \cup OldSums(s) \subseteq Stages
    BY <2>1, OwnerIsStage DEF BadOpened, OldSums, TypeOK
  <2> HIDE DEF s
  <2>6. \/ audit' = 0 /\ verdict' \in Stages
        \/ ~Stale(s) /\ audit' = audit + 1 /\ UNCHANGED verdict
        \/ ~Stale(s) /\ audit = Len(AuditOrder) /\ audit' = 0 /\ verdict' = "passed"
    BY <1>9, <2>1, <2>5 DEF VerifyStage, LooksRight, s
  <2> QED
    BY <2>2, <2>3, <2>4, <2>6
<1>10. CASE UNCHANGED vars
  BY <1>10 DEF vars, AuditInv, PassedStages, files, ghosts
<1> QED
  BY <1>3, <1>4, <1>5, <1>6, <1>7, <1>8, <1>9, <1>10 DEF Next

-----------------------------------------------------------------------------
(* Repairs *)

\* Files change that no stage in order has written or hashed; nobody new is named.
LEMMA OrderFrame ==
    ASSUME NEW D \in ClosedSets, D \subseteq InOrder,
           NEW W, \A q \in D : W \cap (Hashed(q) \cup Outputs(q)) = {},
           \A q \in D : fresh'[q] = fresh[q] \ W /\ sums'[q] = sums[q] \ W,
           torn' \subseteq torn \cup W, failed' \subseteq failed \cup W,
           \A q \in D : Manifests[q] \in torn' => Manifests[q] \in torn,
           D \cap running' = {}, verdict' \notin D,
           \A t \in running' : blame'[t] \cap D = {}
    PROVE  D \subseteq InOrder'
<1> SUFFICES ASSUME NEW q \in D PROVE q \in InOrder'
  OBVIOUS
<1>1. /\ q \in Stages /\ fresh[q] = Tracks[q] /\ Manifests[q] \notin torn
      /\ (torn \cup failed) \cap Outputs(q) = {}
      /\ q \in Rehashed => sums[q] = Sums[q]
  BY DEF InOrder, Stale, OldSums, bad
<1>2. fresh'[q] = Tracks[q] /\ Manifests[q] \notin torn'
  BY <1>1 DEF Hashed
<1>3. (torn' \cup failed') \cap Outputs(q) = {}
  BY <1>1
<1>4. q \notin running' \cup {verdict'} \cup UNION {blame'[t] : t \in running'}
  OBVIOUS
<1>5. OldSums(q)' = {}
  <2>1. q \in Rehashed => W \cap Sums[q] = {}
    BY DEF Hashed
  <2>2. q \in Rehashed => sums'[q] = Sums[q]
    BY <1>1, <2>1
  <2> QED
    BY <2>2 DEF OldSums
<1> QED
  BY <1>1, <1>2, <1>3, <1>4, <1>5 DEF InOrder, Stale, bad

\* A stage in order has not written a bad file, and does not write what another one hashes.
LEMMA OrderFacts ==
    ASSUME TypeOK, NEW D \in ClosedSets, D \subseteq InOrder
    PROVE  /\ D \subseteq Stages /\ D \cap running = {} /\ verdict \notin D
           /\ \A t \in running : blame[t] \cap D = {}
           /\ \A q \in D : ~Stale(q) /\ OldSums(q) = {}
           /\ \A f \in bad : Owner(f) \notin D
           /\ \A p \in Stages \ D, q \in D : Outputs(p) \cap (Hashed(q) \cup Outputs(q)) = {}
<1>1. /\ D \subseteq Stages /\ D \cap running = {} /\ verdict \notin D
      /\ \A t \in running : blame[t] \cap D = {}
      /\ \A q \in D : ~Stale(q) /\ OldSums(q) = {}
  BY DEF InOrder
<1>2. \A f \in bad : Owner(f) \notin D
  BY OwnerIsStage DEF TypeOK, InOrder
<1>3. ASSUME NEW p \in Stages \ D, NEW q \in D
      PROVE  Outputs(p) \cap (Hashed(q) \cup Outputs(q)) = {}
  <2>1. Makers(Hashed(q)) \subseteq D
    BY DEF ClosedSets
  <2>2. Outputs(p) \cap Hashed(q) = {}
    BY <2>1 DEF Makers
  <2>3. Outputs(p) \cap Outputs(q) = {}
    BY <1>1, CatalogueAssumption
  <2> QED
    BY <2>2, <2>3
<1> QED
  BY <1>1, <1>2, <1>3

LEMMA OrderWhenRunEnds ==
    ASSUME TypeOK, NEW D \in ClosedSets, D \subseteq InOrder,
           NEW p \in Stages, NEW W \in Changes(p), WriteOutputs(p, W),
           failed' \subseteq failed \cup W, verdict' \notin D
    PROVE  D \subseteq InOrder'
<1>1. p \in running /\ W \subseteq Outputs(p)
  BY DEF WriteOutputs, Over, Changes
<1>2. p \in Stages \ D /\ D \subseteq Stages
  BY <1>1, OrderFacts
<1>3. \A q \in D : Outputs(p) \cap (Hashed(q) \cup Outputs(q)) = {}
  BY <1>2, OrderFacts
<1>4. \A q \in D : fresh'[q] = fresh[q] \ W /\ sums'[q] = sums[q] \ W
  BY <1>2 DEF WriteOutputs, Without, TypeOK
<1>5. \A q \in D : W \cap (Hashed(q) \cup Outputs(q)) = {}
  BY <1>1, <1>3
<1>6. torn' \subseteq torn /\ running' = running \ {p}
  BY DEF WriteOutputs, Over
<1>7. \A t \in running' : blame'[t] = blame[t]
  BY <1>6 DEF WriteOutputs, Over, TypeOK
<1>8. D \cap running' = {} /\ \A t \in running' : blame'[t] \cap D = {}
  BY <1>6, <1>7, OrderFacts
<1>9. /\ torn' \subseteq torn \cup W /\ failed' \subseteq failed \cup W
  BY <1>6
<1>10. \A q \in D : Manifests[q] \in torn' => Manifests[q] \in torn
  BY <1>6
<1> QED
  BY <1>4, <1>5, <1>8, <1>9, <1>10, OrderFrame

LEMMA OrderNext ==
    ASSUME TypeOK, NEW D \in ClosedSets, D \subseteq InOrder, [Next]_vars, faults' = faults
    PROVE  D \subseteq InOrder'
<1>0. ~Fault
  <2>1. faults \in Nat
    BY CatalogueAssumption DEF TypeOK
  <2> QED
    BY <2>1 DEF Fault
<1>f. /\ D \subseteq Stages /\ D \cap running = {} /\ verdict \notin D
      /\ \A t \in running : blame[t] \cap D = {}
      /\ \A q \in D : ~Stale(q) /\ OldSums(q) = {}
      /\ \A f \in bad : Owner(f) \notin D
  BY OrderFacts
<1>n. "none" \notin D /\ "passed" \notin D
  BY <1>f, CatalogueAssumption
<1>1. ASSUME UNCHANGED files, D \cap running' = {}, verdict' \notin D,
             \A t \in running' : blame'[t] \cap D = {}
      PROVE  D \subseteq InOrder'
  BY <1>1, OrderFrame DEF files
<1>2. ASSUME NEW p \in Stages, Start(p) PROVE D \subseteq InOrder'
  <2>1. verdict = p /\ verdict' = "none"
    BY <1>0, <1>2 DEF Start
  <2>2. blame'[p] = BadInputs(p) \cup StaleInputs(p)
        /\ \A t \in Stages \ {p} : blame'[t] = blame[t]
    BY <1>2 DEF Start, TypeOK
  <2>3. blame'[p] \cap D = {}
    BY <1>f, <2>2 DEF BadInputs, StaleInputs
  <2>4. running' = running \cup {p} /\ p \notin D /\ running \subseteq Stages
    BY <1>2, <1>f, <2>1 DEF Start, TypeOK
  <2>5. \A t \in running' : blame'[t] \cap D = {}
    BY <1>f, <2>2, <2>3, <2>4
  <2> QED
    BY <1>1, <1>2, <1>f, <1>n, <2>1, <2>4, <2>5 DEF Start
<1>3. ASSUME NEW p \in Stages, Raise(p) PROVE D \subseteq InOrder'
  <2>1. p \in running /\ running' = running \ {p} /\ verdict' \in blame[p] /\ UNCHANGED files
        /\ \A t \in Stages \ {p} : blame'[t] = blame[t]
    BY <1>3 DEF Raise, Over, TypeOK
  <2>2. running \subseteq Stages
    BY DEF TypeOK
  <2> QED
    BY <1>1, <1>f, <2>1, <2>2
<1>4. ASSUME NEW p \in Stages, Finish(p) \/ FinishFailing(p) PROVE D \subseteq InOrder'
  <2>1. PICK W \in Changes(p) : WriteOutputs(p, W) /\ failed' \subseteq failed \cup W
    BY <1>4 DEF Finish, FinishFailing
  <2>2. p \in running
    BY <2>1 DEF WriteOutputs, Over
  <2>3. verdict' \notin D
    BY <1>0, <1>4, <1>f, <2>2 DEF Finish, FinishFailing
  <2> QED
    BY <2>1, <2>3, OrderWhenRunEnds
<1>5. ASSUME BeginAudit PROVE D \subseteq InOrder'
  BY <1>1, <1>5, <1>f, <1>n DEF BeginAudit, runs
<1>6. ASSUME VerifyStage PROVE D \subseteq InOrder'
  <2>1. UNCHANGED <<files, running, blame>>
    BY <1>6 DEF VerifyStage, runs
  <2>2. verdict' \notin D
    <3>1. \/ verdict' = verdict \/ verdict' = "passed" \/ Stale(verdict')
          \/ verdict' \in BadOpened(AuditOrder[audit]) \cup OldSums(AuditOrder[audit])
      BY <1>6 DEF VerifyStage
    <3>2. PICK v : v = verdict'
      OBVIOUS
    <3>3. \/ v = verdict \/ v = "passed" \/ Stale(v) \/ v \in BadOpened(AuditOrder[audit])
          \/ v \in OldSums(v)
      BY <3>1, <3>2 DEF OldSums
    <3>4. v \notin D
      BY <1>f, <1>n, <3>3 DEF BadOpened
    <3> QED
      BY <3>2, <3>4
  <2> QED
    BY <1>1, <1>f, <2>1, <2>2
<1>7. CASE UNCHANGED vars
  BY <1>1, <1>7, <1>f DEF vars, runs
<1> QED
  BY <1>0, <1>2, <1>3, <1>4, <1>5, <1>6, <1>7 DEF Next, Edit, Kill

\* A run that has found nothing bad and no old checksum and whose own checksums, if the audit
\* compares them, are right; and a stage that nobody has named or will name.
SoundRun(s) ==
    /\ s \in running \ (tripped \cup mixed) /\ blame[s] = {}
    /\ s \in Rehashed => Sums[s] \subseteq loaded[s]
Unnamed(s) == s # verdict /\ \A t \in running : s \notin blame[t]

\* While the stages it depends on are in order, a run starts sound, or it is stuck,
LEMMA SoundStart ==
    ASSUME TypeOK, NEW D \in ClosedSets, D \subseteq InOrder,
           NEW s \in Stages, Makers(Reads[s]) \subseteq D,
           \A t \in Stages : Manifests[t] \in Reads[s] => HasManifest(t),
           s \in Checkers => SumsOf[s] \in D,
           Start(s)
    PROVE  SoundRun(s)' \/ Stuck(s)
<1>1. /\ s \in running' /\ blame'[s] = BadInputs(s) \cup StaleInputs(s)
      /\ tripped' = tripped \cup {t \in {s} : torn \cap Parses[t] # {} \/ StaleInputs(t) # {}}
      /\ mixed' = mixed \cup {t \in {s} : Mismatched(t)}
      /\ s \notin tripped \cup mixed
  BY DEF Start, TypeOK
<1>2. bad \cap Parses[s] = {}
  <2> SUFFICES ASSUME NEW f \in bad \cap Parses[s] PROVE FALSE
    OBVIOUS
  <2>1. Owner(f) \in Makers(Reads[s])
    BY OwnerIsStage, CatalogueAssumption DEF TypeOK, Makers
  <2> QED
    BY <2>1, OrderFacts
<1>3. StaleInputs(s) = {}
  <2> SUFFICES ASSUME NEW t \in Stages, Manifests[t] \in Reads[s], Stale(t) PROVE FALSE
    BY DEF StaleInputs
  <2>1. t \in Makers(Reads[s])
    BY DEF HasManifest, Makers
  <2> QED
    BY <2>1, OrderFacts
<1>4. s \in Rehashed => Sums[s] \subseteq loaded'[s]
  <2>1. PICK C : loaded' = [loaded EXCEPT ![s] = Reads[s] \cup Tracks[s] \cup C]
    BY DEF Start
  <2>2. s \in Rehashed => Sums[s] \subseteq Reads[s] \cup Tracks[s]
    BY CatalogueAssumption
  <2> QED
    BY <2>1, <2>2 DEF TypeOK
<1>5. CASE Mismatched(s)
  <2>1. SumsOf[s] \in D
    BY <1>5 DEF Mismatched
  <2> QED
    BY <1>5, <2>1 DEF Stuck
<1>6. CASE ~Mismatched(s)
  BY <1>1, <1>2, <1>3, <1>4, <1>6 DEF SoundRun, BadInputs, bad
<1> QED
  BY <1>5, <1>6

\* and a sound run can only end well, which puts its stage in order as well.
LEMMA SoundEnd ==
    ASSUME TypeOK, NEW D \in ClosedSets, D \subseteq InOrder, [Next]_vars, faults' = faults,
           NEW s \in Stages, Makers(Hashed(s)) \subseteq D, HasManifest(s), SoundRun(s)
    PROVE  SoundRun(s)' \/ (Unnamed(s)' => D \cup {s} \subseteq InOrder')
<1>0. ~Fault
  <2>1. faults \in Nat
    BY CatalogueAssumption DEF TypeOK
  <2> QED
    BY <2>1 DEF Fault
<1>1. ASSUME UNCHANGED runs PROVE SoundRun(s)'
  BY <1>1 DEF runs, SoundRun
<1>2. ASSUME NEW p \in Stages, Start(p) PROVE SoundRun(s)'
  <2>1. p # s
    BY <1>2 DEF Start, SoundRun
  <2>2. \E C : loaded' = [loaded EXCEPT ![p] = Reads[p] \cup Tracks[p] \cup C]
    BY <1>2 DEF Start
  <2> QED
    BY <1>2, <2>1, <2>2 DEF Start, SoundRun, TypeOK
<1>3. ASSUME NEW p \in Stages, p # s, NEW W \in SUBSET Outputs(p), Over(p, W) PROVE SoundRun(s)'
  <2>1. p \in Stages \ D
    BY <1>3, OrderFacts DEF Over
  <2>2. s \in Rehashed => W \cap Sums[s] = {}
    BY <2>1 DEF Makers, Hashed
  <2>3. loaded'[s] = loaded[s] \ W /\ blame'[s] = blame[s]
    BY <1>3 DEF Over, Without, TypeOK
  <2>4. running' = running \ {p} /\ tripped' = tripped \ {p} /\ mixed' = mixed \ {p}
    BY <1>3 DEF Over
  <2> QED
    BY <1>3, <2>2, <2>3, <2>4 DEF SoundRun
<1>4. ~Raise(s) /\ ~FinishFailing(s)
  BY <1>0 DEF Raise, FinishFailing, SoundRun
<1>5. ASSUME Finish(s) PROVE Unnamed(s)' => D \cup {s} \subseteq InOrder'
  <2>1. PICK W \in Changes(s) : WriteOutputs(s, W)
    BY <1>5 DEF Finish
  <2>2. s \notin running' /\ fresh'[s] = Tracks[s]
        /\ torn' = torn \ Outputs(s) /\ failed' = failed \ Outputs(s)
    BY <1>5, <2>1 DEF Finish, WriteOutputs, Over, Without
  <2>3. ~Stale(s)' /\ bad' \cap Outputs(s) = {}
    BY <2>2 DEF Stale, HasManifest, bad
  <2>4. D \subseteq InOrder'
    BY OrderNext
  <2>5. sums'[s] = Taken(s)
    BY <2>1 DEF WriteOutputs, Without
  <2>6. s \in Rehashed => Taken(s) = Sums[s]
    BY DEF SoundRun, Taken
  <2>7. OldSums(s)' = {}
    BY <2>5, <2>6 DEF OldSums
  <2>8. Unnamed(s)' => s \in InOrder'
    BY <2>2, <2>3, <2>7 DEF Unnamed, InOrder
  <2> QED
    BY <2>4, <2>8
<1>6. ASSUME NEW p \in Stages, p # s, Raise(p) \/ Finish(p) \/ FinishFailing(p)
      PROVE  SoundRun(s)'
  <2>1. \E W \in SUBSET Outputs(p) : Over(p, W)
    BY <1>6 DEF Raise, Finish, FinishFailing, WriteOutputs, Changes
  <2> QED
    BY <1>6, <2>1, <1>3
<1>7. ASSUME BeginAudit \/ VerifyStage \/ UNCHANGED vars PROVE SoundRun(s)'
  BY <1>1, <1>7 DEF BeginAudit, VerifyStage, vars
<1> QED
  BY <1>0, <1>2, <1>4, <1>5, <1>6, <1>7 DEF Next, Edit, Kill

-----------------------------------------------------------------------------
(* Checksums *)

\* The checksums of s lose those of the files that change, or are those that its run takes.
SumsLoseOrTake(s, changed) ==
    \/ sums'[s] = sums[s] \ changed
    \/ s \in running /\ sums'[s] = Taken(s) /\ changed \cap Sums[s] = {}

\* Files change, and every set of files that are as they were loses them.
LEMMA SumsWhenFilesChange ==
    ASSUME TypeOK, SumsInv, NEW changed,
           running' \subseteq running, raced' = raced,
           \A s \in Stages : fresh'[s] = fresh[s] \ changed,
           \A s \in running' : loaded'[s] = loaded[s] \ changed,
           \A s \in Stages \ raced' : SumsLoseOrTake(s, changed),
           \A r \in Stages : sums'[r] \subseteq sums[r] \ changed \/ SumsIn[r] \in changed
    PROVE  SumsInv'
<1>0. SumsOf \in [Stages -> Stages \cup {"none"}]
  BY CatalogueAssumption
<1>1. KeptByRuns'
  <2> SUFFICES ASSUME NEW s \in running'
               PROVE  /\ fresh'[s] \subseteq loaded'[s]
                      /\ SumsOf[s] # "none" /\ SumsIn[SumsOf[s]] \in loaded'[s]
                           => sums'[SumsOf[s]] \cap Sums[s] \subseteq loaded'[s]
    BY DEF KeptByRuns
  <2>1. s \in running /\ s \in Stages
    BY DEF TypeOK
  <2>2. fresh'[s] \subseteq loaded'[s]
    BY <2>1 DEF SumsInv, KeptByRuns
  <2>3. ASSUME NEW r \in Stages, SumsOf[s] = r, SumsOf[s] # "none", SumsIn[r] \in loaded'[s]
        PROVE  sums'[r] \cap Sums[s] \subseteq loaded'[s]
    BY <2>1, <2>3 DEF SumsInv, KeptByRuns
  <2> QED
    BY <1>0, <2>1, <2>2, <2>3
<1>2. KeptByHashes'
  <2> SUFFICES ASSUME NEW s \in Stages \ raced'
               PROVE  /\ fresh'[s] \cap Sums[s] \subseteq sums'[s]
                      /\ SumsOf[s] # "none" /\ SumsIn[SumsOf[s]] \in fresh'[s]
                           => sums'[SumsOf[s]] \cap Sums[s] \subseteq sums'[s]
    BY DEF KeptByHashes
  <2>1. fresh'[s] \cap Sums[s] \subseteq sums'[s]
    BY DEF SumsInv, KeptByHashes, KeptByRuns, SumsLoseOrTake, Taken
  <2>2. ASSUME NEW r \in Stages, SumsOf[s] = r, SumsOf[s] # "none", SumsIn[r] \in fresh'[s]
        PROVE  sums'[r] \cap Sums[s] \subseteq sums'[s]
    <3>1. sums'[r] \subseteq sums[r] \ changed /\ SumsIn[r] \in fresh[s]
      BY <2>2
    <3>2. CASE sums'[s] = sums[s] \ changed
      BY <2>2, <3>1, <3>2 DEF SumsInv, KeptByHashes
    <3>3. CASE s \in running /\ sums'[s] = Taken(s) /\ changed \cap Sums[s] = {}
      BY <2>2, <3>1, <3>3 DEF SumsInv, KeptByRuns, Taken
    <3> QED
      BY <3>2, <3>3 DEF SumsLoseOrTake
  <2> QED
    BY <1>0, <2>1, <2>2
<1> QED
  BY <1>1, <1>2 DEF SumsInv

\* The file that carries the checksums of p changes when they do.
LEMMA NewSumsShow ==
    ASSUME TypeOK, NEW p \in Stages, NEW changed \in SUBSET Outputs(p),
           SumsIn[p] \in Outputs(p) => NewSums(p) \subseteq changed
    PROVE  Taken(p) \subseteq sums[p] \ changed \/ SumsIn[p] \in changed
<1>1. Taken(p) \subseteq Sums[p] /\ sums[p] \subseteq Sums[p]
  BY DEF Taken, TypeOK
<1>2. Sums[p] \cap changed = {} /\ (Sums[p] # {} => SumsIn[p] \in Outputs(p))
  BY CatalogueAssumption
<1> QED
  BY <1>1, <1>2 DEF NewSums

LEMMA SumsWhenRunEnds ==
    ASSUME TypeOK, SumsInv, NEW p \in Stages, NEW W \in Changes(p), WriteOutputs(p, W)
    PROVE  SumsInv'
<1>0. SumsOf \in [Stages -> Stages \cup {"none"}]
  BY CatalogueAssumption
<1>1. \A s \in Stages \ {p} : /\ fresh'[s] = fresh[s] \ W /\ loaded'[s] = loaded[s] \ W
                              /\ sums'[s] = sums[s] \ W
  BY DEF TypeOK, WriteOutputs, Over, Without
<1>2. /\ p \in running /\ running' = running \ {p} /\ raced \ {p} \subseteq raced'
      /\ fresh'[p] = Tracks[p] /\ sums'[p] = Taken(p)
      /\ p \notin raced' => Tracks[p] \subseteq loaded[p]
  BY DEF TypeOK, WriteOutputs, Over, Without
<1>3. W \subseteq Outputs(p) /\ NewSums(p) \cap Outputs(p) \subseteq W
  BY DEF Changes
<1>4. \A r \in Stages : sums'[r] \subseteq sums[r] \ W \/ SumsIn[r] \in W
  <2>1. NewSums(p) \subseteq {SumsIn[p]}
    BY DEF NewSums
  <2>2. Taken(p) \subseteq sums[p] \ W \/ SumsIn[p] \in W
    BY <1>3, <2>1, NewSumsShow
  <2> QED
    BY <1>1, <1>2, <2>2
<1>5. KeptByRuns'
  <2> SUFFICES ASSUME NEW s \in running'
               PROVE  /\ fresh'[s] \subseteq loaded'[s]
                      /\ SumsOf[s] # "none" /\ SumsIn[SumsOf[s]] \in loaded'[s]
                           => sums'[SumsOf[s]] \cap Sums[s] \subseteq loaded'[s]
    BY DEF KeptByRuns
  <2>1. s \in running /\ s \in Stages \ {p}
    BY <1>2 DEF TypeOK
  <2>2. fresh'[s] \subseteq loaded'[s]
    BY <1>1, <2>1 DEF SumsInv, KeptByRuns
  <2>3. ASSUME NEW r \in Stages, SumsOf[s] = r, SumsOf[s] # "none", SumsIn[r] \in loaded'[s]
        PROVE  sums'[r] \cap Sums[s] \subseteq loaded'[s]
    BY <1>1, <1>4, <2>1, <2>3 DEF SumsInv, KeptByRuns
  <2> QED
    BY <1>0, <2>1, <2>2, <2>3
<1>6. ASSUME NEW s \in Stages \ raced'
      PROVE  /\ fresh'[s] \cap Sums[s] \subseteq sums'[s]
             /\ SumsOf[s] # "none" /\ SumsIn[SumsOf[s]] \in fresh'[s]
                  => sums'[SumsOf[s]] \cap Sums[s] \subseteq sums'[s]
  <2>1. CASE s # p
    <3>1. fresh'[s] \cap Sums[s] \subseteq sums'[s]
      BY <1>1, <1>2, <1>6, <2>1 DEF SumsInv, KeptByHashes
    <3>2. ASSUME NEW r \in Stages, SumsOf[s] = r, SumsOf[s] # "none", SumsIn[r] \in fresh'[s]
          PROVE  sums'[r] \cap Sums[s] \subseteq sums'[s]
      BY <1>1, <1>2, <1>4, <1>6, <2>1, <3>2 DEF SumsInv, KeptByHashes
    <3> QED
      BY <1>0, <3>1, <3>2
  <2>2. CASE s = p
    <3>1. fresh'[p] \cap Sums[p] \subseteq sums'[p]
      BY <1>2, <1>6, <2>2 DEF Taken
    <3>2. ASSUME NEW r \in Stages, SumsOf[p] = r, SumsOf[p] # "none", SumsIn[r] \in fresh'[p]
          PROVE  sums'[r] \cap Sums[p] \subseteq sums'[p]
      <4>1. sums[r] \cap Sums[p] \subseteq loaded[p]
        BY <1>2, <1>6, <2>2, <3>2 DEF SumsInv, KeptByRuns
      <4>2. r # p => sums'[r] \subseteq sums[r]
        BY <1>1
      <4> QED
        BY <1>2, <4>1, <4>2 DEF Taken
    <3> QED
      BY <1>0, <2>2, <3>1, <3>2
  <2> QED
    BY <2>1, <2>2
<1> QED
  BY <1>5, <1>6 DEF SumsInv, KeptByHashes

LEMMA SumsNext == TypeOK /\ SumsInv /\ [Next]_vars => SumsInv'
<1> SUFFICES ASSUME TypeOK, SumsInv, [Next]_vars PROVE SumsInv'
  OBVIOUS
<1>0. SumsOf \in [Stages -> Stages \cup {"none"}]
  BY CatalogueAssumption
<1>1. ASSUME NEW f \in Sources, Edit(f) PROVE SumsInv'
  <2>1. /\ running' \subseteq running /\ raced' = raced
        /\ \A s \in Stages : /\ fresh'[s] = fresh[s] \ {f} /\ loaded'[s] = loaded[s] \ {f}
                             /\ sums'[s] = sums[s] \ {f}
    BY <1>1 DEF Edit, Without
  <2>2. \A s \in running' : s \in Stages
    BY <2>1 DEF TypeOK
  <2>3. \A s \in Stages \ raced' : SumsLoseOrTake(s, {f})
    BY <2>1 DEF SumsLoseOrTake
  <2>4. \A r \in Stages : sums'[r] \subseteq sums[r] \ {f} \/ SumsIn[r] \in {f}
    BY <2>1
  <2>5. \A s \in running' : loaded'[s] = loaded[s] \ {f}
    BY <2>1, <2>2
  <2> QED
    BY <2>1, <2>3, <2>4, <2>5, SumsWhenFilesChange
<1>2. ASSUME NEW p \in Stages, Start(p) PROVE SumsInv'
  <2>1. UNCHANGED <<fresh, sums, raced>> /\ running' = running \cup {p} /\ p \notin running
    BY <1>2 DEF Start, files, ghosts
  <2>2. PICK C \in Copies(p) : loaded' = [loaded EXCEPT ![p] = Reads[p] \cup Tracks[p] \cup C]
    BY <1>2 DEF Start
  <2>3. loaded'[p] = Reads[p] \cup Tracks[p] \cup C
        /\ \A s \in Stages \ {p} : loaded'[s] = loaded[s]
    BY <2>2 DEF TypeOK
  <2>4. fresh[p] \subseteq loaded'[p]
    BY <2>3 DEF TypeOK
  <2>5. ASSUME NEW r \in Stages, SumsOf[p] = r, SumsOf[p] # "none"
        PROVE  sums[r] \cap Sums[p] \subseteq loaded'[p]
    BY <2>3, <2>5 DEF Copies, TypeOK
  <2>6. \A s \in running : s \in Stages \ {p}
    BY <2>1 DEF TypeOK
  <2>7. KeptByRuns'
    BY <1>0, <2>1, <2>3, <2>4, <2>5, <2>6 DEF SumsInv, KeptByRuns
  <2>8. KeptByHashes'
    BY <2>1 DEF SumsInv, KeptByHashes
  <2> QED
    BY <2>7, <2>8 DEF SumsInv
<1>3. ASSUME NEW p \in Stages, Raise(p) PROVE SumsInv'
  <2>1. UNCHANGED <<fresh, sums, raced>> /\ running' \subseteq running
        /\ \A s \in running' : loaded'[s] = loaded[s]
    BY <1>3 DEF Raise, Over, Without, TypeOK, files, ghosts
  <2> QED
    BY <2>1 DEF SumsInv, KeptByRuns, KeptByHashes
<1>4. ASSUME NEW p \in Stages, Finish(p) \/ FinishFailing(p) PROVE SumsInv'
  <2>1. PICK W \in Changes(p) : WriteOutputs(p, W)
    BY <1>4 DEF Finish, FinishFailing
  <2> QED
    BY <2>1, SumsWhenRunEnds
<1>5. ASSUME NEW p \in Stages, NEW k \in DOMAIN Writes[p], Kill(p, k) PROVE SumsInv'
  <2> DEFINE written == {Writes[p][i] : i \in 1 .. k - 1} \cup {Writes[p][k]}
  <2>1. PICK changed \in SUBSET written : KilledWriting(p, k, changed)
    BY <1>5, KillWrites
  <2>2. written \subseteq Outputs(p)
    BY WrittenAreOutputs
  <2>3. raced' = raced
    BY <1>5 DEF Kill
  <2>4. /\ NewSums(p) \cap written \subseteq changed /\ Over(p, changed)
        /\ fresh' = Without(fresh, changed)
        /\ sums' = [Without(sums, changed) EXCEPT
                      ![p] = IF SumsIn[p] \in written THEN Taken(p) ELSE sums[p]]
    BY <2>1 DEF KilledWriting
  <2> HIDE DEF written
  <2>5. /\ p \in running /\ running' = running \ {p}
        /\ \A s \in Stages : fresh'[s] = fresh[s] \ changed
        /\ \A s \in running' : loaded'[s] = loaded[s] \ changed
    BY <2>4 DEF Over, Without, TypeOK
  <2>6. Sums[p] \cap changed = {} /\ sums[p] = sums[p] \ changed
    BY <2>2, CatalogueAssumption DEF TypeOK
  <2>7. /\ \A s \in Stages \ {p} : sums'[s] = sums[s] \ changed
        /\ SumsIn[p] \in written => sums'[p] = Taken(p)
        /\ SumsIn[p] \notin written => sums'[p] = sums[p] \ changed
    BY <2>4, <2>6 DEF Without, TypeOK
  <2>8. SumsIn[p] \in written => Taken(p) \subseteq sums[p] \ changed \/ SumsIn[p] \in changed
    <3>1. NewSums(p) \subseteq {SumsIn[p]}
      BY DEF NewSums
    <3> QED
      BY <2>2, <2>4, <3>1, NewSumsShow
  <2>9. \A r \in Stages : sums'[r] \subseteq sums[r] \ changed \/ SumsIn[r] \in changed
    BY <2>7, <2>8
  <2>10. \A s \in Stages \ raced' : SumsLoseOrTake(s, changed)
    BY <2>5, <2>6, <2>7 DEF SumsLoseOrTake
  <2>11. running' \subseteq running
    BY <2>5
  <2> QED
    BY <2>3, <2>5, <2>9, <2>10, <2>11, SumsWhenFilesChange
<1>6. ASSUME BeginAudit \/ VerifyStage \/ UNCHANGED vars PROVE SumsInv'
  BY <1>6 DEF BeginAudit, VerifyStage, vars, files, runs, ghosts, SumsInv, KeptByRuns, KeptByHashes
<1> QED
  BY <1>1, <1>2, <1>3, <1>4, <1>5, <1>6 DEF Next

\* Once a stage has failed over an old checksum with all it reads in order, its next run does too.
LEMMA StuckNext ==
    ASSUME TypeOK, [Next]_vars, faults' = faults, NEW s \in Stages, Stuck(s)
    PROVE  Stuck(s)'
<1> DEFINE q == SumsOf[s]
<1>1. PICK D \in SUBSET InOrder : D \in ClosedSets /\ q \in D
  BY DEF Stuck
<1>2. D \subseteq InOrder'
  BY <1>1, OrderNext
<1>3. q \in Stages \ running /\ s \in Checkers
  BY <1>1 DEF InOrder, Stuck, Mismatched
<1>4. sums'[q] \subseteq sums[q]
  <2>1. ASSUME NEW p \in Stages, NEW W, Over(p, W), \A t \in Stages \ {p} : sums'[t] = sums[t] \ W
        PROVE  sums'[q] \subseteq sums[q]
    BY <1>3, <2>1 DEF Over
  <2>2. ASSUME NEW p \in Stages, Finish(p) \/ FinishFailing(p) PROVE sums'[q] \subseteq sums[q]
    <3>1. PICK W : WriteOutputs(p, W)
      BY <2>2 DEF Finish, FinishFailing
    <3> QED
      BY <2>1, <3>1 DEF WriteOutputs, Without, TypeOK
  <2>3. ASSUME NEW p \in Stages, NEW k \in DOMAIN Writes[p], Kill(p, k)
        PROVE  sums'[q] \subseteq sums[q]
    <3>1. PICK W : KilledWriting(p, k, W)
      BY <2>3, KillWrites
    <3> QED
      BY <2>1, <3>1 DEF KilledWriting, Without, TypeOK
  <2>4. ASSUME NEW f \in Sources, Edit(f) PROVE sums'[q] \subseteq sums[q]
    BY <1>3, <2>4 DEF Edit, Without
  <2>5. ASSUME UNCHANGED sums PROVE sums'[q] \subseteq sums[q]
    BY <2>5
  <2> QED
    BY <2>2, <2>3, <2>4, <2>5 DEF Next, Start, Raise, BeginAudit, VerifyStage, vars, files
<1>5. sums[q] # Sums[q] /\ sums[q] \subseteq Sums[q]
  BY <1>3 DEF Stuck, Mismatched, TypeOK
<1>6. Mismatched(s)'
  BY <1>3, <1>4, <1>5 DEF Mismatched
<1> QED
  BY <1>1, <1>2, <1>6 DEF Stuck

-----------------------------------------------------------------------------
(* Theorems *)

LEMMA InitIInv == Init => IInv
<1> SUFFICES ASSUME Init PROVE IInv
  OBVIOUS
<1>1. TypeOK
  BY TypeInit
<1>2. SeenInv
  BY DEF Init, SeenInv, SeenDirectly, SeenByOne, SeenByTwo, SeenByOwner
<1>3. TornInv
  BY DEF Init, TornInv
<1>4. AuditInv
  BY DEF Init, AuditInv
<1>5. SumsInv
  <2>1. SumsOf \in [Stages -> Stages \cup {"none"}]
    BY CatalogueAssumption
  <2> QED
    BY <2>1 DEF Init, SumsInv, KeptByRuns, KeptByHashes
<1> QED
  BY <1>1, <1>2, <1>3, <1>4, <1>5 DEF IInv

\* Every variable of the audit keeps its type, in every catalogue.
THEOREM TypeCorrect == Spec => []TypeOK
<1>1. Init => TypeOK
  BY TypeInit
<1>2. TypeOK /\ [Next]_vars => TypeOK'
  BY TypeNext
<1> QED
  BY <1>1, <1>2, PTL DEF Spec

\* The inductive invariant: the hashes that are still right vouch for what was read, directly,
\* through one or two manifests, or through the manifest of the stage that writes the file.
THEOREM InvHolds == Spec => []IInv
<1>1. IInv /\ [Next]_vars => IInv'
  BY TypeNext, SeenNext, TornNext, AuditNext, SumsNext DEF IInv
<1> QED
  BY InitIInv, <1>1, PTL DEF Spec

\* A pass of the audit says that the artifacts were made from the present covered inputs
\* (verify_manifest_hashes for every stage of tss_verify_artifacts.main).
THEOREM CurrentHolds == Spec => []AuditedIsCurrent
<1>1. IInv => AuditedIsCurrent
  <2> SUFFICES ASSUME IInv, verdict = "passed", quiet,
                      NEW s \in Audited \ raced, NEW f \in Covered(s)
               PROVE  f \in seen[s]
    BY DEF AuditedIsCurrent
  <2>1. \A t \in Audited : t \in Stages /\ fresh[t] = Tracks[t]
    BY AuditedAreStages DEF IInv, AuditInv, PassedStages
  <2>2. f \in Reads[s] /\ s \in Stages \ raced /\ fresh[s] = Tracks[s]
    BY <2>1 DEF Covered
  <2>3. \A t \in Audited : \A q \in Vouched(t) :
          q \in Audited /\ HasManifest(q) /\ Manifests[q] \in fresh[t]
    BY <2>1 DEF Vouched, HasManifest
  <2>4. CASE f \in ByItself(s)
    BY <2>2, <2>4 DEF ByItself, IInv, SeenInv, SeenDirectly
  <2>5. CASE f \in ByOneManifest(s)
    <3>1. PICK q \in Vouched(s) : f \in Tracks[q]
      BY <2>5 DEF ByOneManifest
    <3> QED
      BY <2>1, <2>2, <2>3, <3>1 DEF IInv, SeenInv, SeenByOne
  <2>6. CASE f \in ByTwoManifests(s)
    <3>1. PICK q \in Vouched(s) : \E r \in Vouched(q) : f \in Tracks[r]
      BY <2>6 DEF ByTwoManifests
    <3>2. PICK r \in Vouched(q) : f \in Tracks[r]
      BY <3>1
    <3>3. q \in Audited /\ r \in Audited
      BY <2>3
    <3> QED
      BY <2>1, <2>2, <2>3, <3>2, <3>3 DEF IInv, SeenInv, SeenByTwo
  <2>7. CASE f \in ByItsOwner(s)
    <3>1. PICK q \in Vouched(s) \ killed : f \in Outputs(q)
      BY <2>7 DEF ByItsOwner
    <3> QED
      BY <2>1, <2>2, <2>3, <3>1 DEF IInv, SeenInv, SeenByOwner
  <2> QED
    BY <2>4, <2>5, <2>6, <2>7 DEF Covered
<1> QED
  BY <1>1, InvHolds, PTL

\* A pass of the audit leaves no torn file among what an audited stage parses and tracks.
THEOREM TornHolds == Spec => []TornInputsAreFound
<1>1. IInv => TornInputsAreFound
  BY AuditedAreStages DEF IInv, TornInv, AuditInv, PassedStages, TornInputsAreFound
<1> QED
  BY <1>1, InvHolds, PTL

\* Repairs are kept, in every catalogue: stages in order along with all that they hash are not
\* named again, and nothing that runs beside them makes them stale, until the next fault.
THEOREM RepairsHold == Spec => RepairsAreKept
<1>1. TypeOK /\ [Next]_vars =>
        [faults' = faults =>
           LET before == InOrder
               after == InOrder'
           IN \A s \in before \ after : \A D \in SUBSET before : D \in ClosedSets => s \notin D]_vars
  BY OrderNext
<1> QED
  BY <1>1, TypeCorrect, PTL DEF Spec, RepairsAreKept

\* Repairs grow, in every catalogue: a stage that is run again when all that it reads and hashes
\* is in order is stuck, or it ends well and joins them, unless somebody has named it meanwhile who
\* had read its files before.  With RepairsHold, this is why going round by what the audit names
\* gets somewhere.
THEOREM RepairsGrow ==
    ASSUME NEW s \in Stages, NEW D \in ClosedSets,
           Makers(Reads[s]) \cup Makers(Hashed(s)) \subseteq D,
           s \in Checkers => SumsOf[s] \in D,
           HasManifest(s), \A t \in Stages : Manifests[t] \in Reads[s] => HasManifest(t)
    PROVE  Spec => [][D \subseteq InOrder /\ faults' = faults =>
                        /\ Start(s) => SoundRun(s)' \/ Stuck(s)
                        /\ SoundRun(s) =>
                               SoundRun(s)' \/ (Unnamed(s)' => D \cup {s} \subseteq InOrder')]_vars
<1>1. TypeOK /\ [Next]_vars =>
        [D \subseteq InOrder /\ faults' = faults =>
           /\ Start(s) => SoundRun(s)' \/ Stuck(s)
           /\ SoundRun(s) => SoundRun(s)' \/ (Unnamed(s)' => D \cup {s} \subseteq InOrder')]_vars
  BY SoundStart, SoundEnd
<1> QED
  BY <1>1, TypeCorrect, PTL DEF Spec

\* A stage that is stuck stays so until the next fault, in every catalogue: whatever runs again
\* meanwhile, the stages that would have to are in order, and nobody names them.
THEOREM StuckIsForGood ==
    Spec => [][\A s \in Stages : Stuck(s) /\ faults' = faults => Stuck(s)']_vars
<1>1. TypeOK /\ [Next]_vars =>
        [\A s \in Stages : Stuck(s) /\ faults' = faults => Stuck(s)']_vars
  BY StuckNext
<1> QED
  BY <1>1, TypeCorrect, PTL DEF Spec

\* A stage is stuck only over checksums of a stage whose last finished run, or whose source's last
\* finished run, had an input changed under it; if the manifests hash what has a checksum
\* (csr_transformer_training_package takes its checksums over from csr_transformer_handoff_bundle,
\* and the dry run compares them).
THEOREM CirclesNeedARace ==
    ASSUME NEW s \in Stages, NEW q \in Stages, NEW r \in Stages,
           SumsOf[s] = q, SumsOf[q] = r, SumsIn[r] \in Tracks[q],
           Sums[q] \ Sums[r] \subseteq Tracks[q], Sums[q] \cap Sums[r] \subseteq Tracks[r]
    PROVE  Spec => [](Stuck(s) => q \in raced \/ r \in raced)
<1>1. ASSUME IInv, Stuck(s), q \notin raced, r \notin raced PROVE FALSE
  <2>1. PICK D \in SUBSET InOrder : D \in ClosedSets /\ q \in D
    BY <1>1 DEF Stuck
  <2>2. \A t \in D : t \in Stages /\ fresh[t] = Tracks[t]
    BY DEF InOrder, Stale
  <2>3. Sums[q] \ Sums[r] \subseteq sums[q]
    BY <1>1, <2>1, <2>2 DEF IInv, SumsInv, KeptByHashes
  <2>4. sums[r] \cap Sums[q] \subseteq sums[q]
    <3>1. q # "none" /\ r # "none"
      BY CatalogueAssumption
    <3> QED
      BY <1>1, <2>1, <2>2, <3>1 DEF IInv, SumsInv, KeptByHashes
  <2>5. Sums[q] \cap Sums[r] \subseteq sums[r]
    <3>1. CASE Sums[r] = {}
      BY <3>1
    <3>2. CASE Sums[r] # {}
      <4>1. SumsIn[r] \in Outputs(r)
        BY <3>2, CatalogueAssumption
      <4>2. r \in Makers(Hashed(q))
        BY <4>1 DEF Makers, Hashed
      <4>3. r \in D
        BY <2>1, <4>2 DEF ClosedSets
      <4> QED
        BY <1>1, <2>2, <4>3 DEF IInv, SumsInv, KeptByHashes
    <3> QED
      BY <3>1, <3>2
  <2>6. sums[q] = Sums[q]
    BY <1>1, <2>3, <2>4, <2>5 DEF IInv, TypeOK
  <2> QED
    BY <1>1, <2>6 DEF Stuck, Mismatched
<1>2. IInv => (Stuck(s) => q \in raced \/ r \in raced)
  BY <1>1
<1> QED
  BY <1>2, InvHolds, PTL
=============================================================================
