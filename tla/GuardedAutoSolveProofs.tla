----------------------- MODULE GuardedAutoSolveProofs -----------------------
(***************************************************************************)
(* Proofs about a guarded CSR solve, for every selector file, every        *)
(* request and every interleaving with the programs that write the files.  *)
(*                                                                         *)
(* First what the artifact selector's chains look like (Shape), whichever  *)
(* branch built them; then the invariant SolveInv, which carries the shape *)
(* of the planned chain, and the judgement that chose it, from the reads   *)
(* of the planner to the attempts of the guard.                            *)
(***************************************************************************)
EXTENDS GuardedAutoSolve, FiniteSetTheorems, TLAPS

\* The plans p of a chain taken from the rows I: never empty, only the first one
\* of the first one's candidate.
Shape(rows, I, p) ==
    /\ p \in Seq(I)
    /\ p # <<>>
    /\ 1 \in DOMAIN p
    /\ \A k \in DOMAIN p : p[k] \in I
    /\ \A k \in DOMAIN p : k # 1 => rows[p[k]].candidate # rows[p[1]].candidate

\* No row is there twice.
Injective(p) == \A a, b \in DOMAIN p : a # b => p[a] # p[b]

\* The rows that a chain for the matrix is taken from.
Pool(rows, matrix) ==
    IF Feasible(rows, matrix) # {} THEN Feasible(rows, matrix) ELSE Successes(rows)

\* A selection that select or select_candidate returns for the matrix.
Sound(rows, matrix, selection) ==
    /\ selection \in Selections
    /\ Shape(rows, Pool(rows, matrix), selection.plans)
    /\ Feasible(rows, matrix) # {} => Injective(selection.plans)

HeadIsBest(rows, matrix, selection) ==
    \A i \in Feasible(rows, matrix) : rows[selection.plans[1]].time <= rows[i].time

-----------------------------------------------------------------------------
\* A row is a record of numbers that can be compared.
LEMMA RowFacts ==
    ASSUME NEW rows \in Seq(Row), NEW i \in DOMAIN rows
    PROVE  rows[i].time \in Int /\ rows[i].candidate \in Int /\ i \in Nat
  <1>1. rows[i] \in Row /\ DOMAIN rows \subseteq Nat
    OBVIOUS
  <1>2. ASSUME NEW r \in Row PROVE r.time \in Nat /\ r.candidate \in Candidates
    BY DEF Row
  <1>3. rows[i].time \in Nat /\ rows[i].candidate \in Candidates
    BY <1>1, <1>2
  <1>4. i \in Nat
    BY <1>1
  <1>5. rows[i].candidate \in Int
    BY <1>3, CandidatesAssumption
  <1> QED
    BY <1>3, <1>4, <1>5

\* Successes and their subsets are sets of positions in the file.
LEMMA SuccessFacts ==
    ASSUME NEW rows \in Seq(Row), NEW matrix
    PROVE  /\ Successes(rows) \subseteq DOMAIN rows
           /\ Feasible(rows, matrix) \subseteq Successes(rows)
           /\ Pool(rows, matrix) \subseteq Successes(rows)
           /\ DOMAIN rows \subseteq Nat
  BY DEF Successes, Feasible, Pool

\* A sequence that enumerates a set of rows is a sequence, of a natural length.
LEMMA EnumerationFacts ==
    ASSUME NEW rows \in Seq(Row), NEW I \in SUBSET DOMAIN rows,
           NEW s \in [1 .. Cardinality(I) -> I]
    PROVE  s \in Seq(I) /\ Len(s) \in Nat /\ DOMAIN s = 1 .. Len(s)
  <1>1. IsFiniteSet(DOMAIN rows)
    <2>1. Len(rows) \in Nat /\ DOMAIN rows = 1 .. Len(rows)
      OBVIOUS
    <2>2. IsFiniteSet(1 .. Len(rows))
      BY <2>1, FS_Interval
    <2> QED
      BY <2>1, <2>2
  <1>2. IsFiniteSet(I)
    BY <1>1, FS_Subset
  <1>3. Cardinality(I) \in Nat
    BY <1>2, FS_CardinalityType
  <1> QED
    BY <1>3

\* A head and an enumeration of its others make a chain of the right shape.
LEMMA ChainShape ==
    ASSUME NEW rows \in Seq(Row), NEW I \in SUBSET DOMAIN rows, NEW head \in I,
           NEW rest \in [1 .. Cardinality(Others(rows, I, head)) -> Others(rows, I, head)]
    PROVE  /\ Shape(rows, I, <<head>> \o rest)
           /\ (<<head>> \o rest)[1] = head
           /\ Injective(rest) => Injective(<<head>> \o rest)
  <1> DEFINE J == Others(rows, I, head)
             p == <<head>> \o rest
  <1>1. J \in SUBSET I /\ J \in SUBSET DOMAIN rows
    BY DEF Others
  <1>2. rest \in Seq(J) /\ Len(rest) \in Nat /\ DOMAIN rest = 1 .. Len(rest)
    BY <1>1, EnumerationFacts
  <1>3. /\ p \in Seq(I)
        /\ Len(p) = Len(rest) + 1
        /\ DOMAIN p = 1 .. (Len(rest) + 1)
        /\ p[1] = head
        /\ \A k \in DOMAIN p : k # 1 => k - 1 \in DOMAIN rest /\ p[k] = rest[k - 1]
    BY <1>1, <1>2
  <1>4. \A k \in DOMAIN p : k # 1 => p[k] \in J
    BY <1>2, <1>3
  <1>5. \A k \in DOMAIN p : k # 1 => rows[p[k]].candidate # rows[head].candidate
    BY <1>4 DEF Others
  <1>6. Shape(rows, I, p)
    <2>1. 1 \in DOMAIN p
      BY <1>2, <1>3
    <2>2. p # <<>>
      BY <1>2, <1>3
    <2> QED
      BY <1>3, <1>5, <2>1, <2>2 DEF Shape
  <1>7. Injective(rest) => Injective(p)
    <2> SUFFICES ASSUME Injective(rest), NEW a \in DOMAIN p, NEW b \in DOMAIN p, a # b
                 PROVE  p[a] # p[b]
      BY DEF Injective
    <2>1. CASE a = 1
      BY <2>1, <1>3, <1>5
    <2>2. CASE b = 1
      BY <2>2, <1>3, <1>5
    <2>3. CASE a # 1 /\ b # 1
      <3>1. a - 1 \in DOMAIN rest /\ b - 1 \in DOMAIN rest /\ a - 1 # b - 1
        BY <2>3, <1>2, <1>3
      <3> QED
        BY <3>1, <2>3, <1>3 DEF Injective
    <2> QED
      BY <2>1, <2>2, <2>3
  <1> QED
    BY <1>3, <1>6, <1>7

\* A sorted enumeration has no row twice: no row sorts before itself.
LEMMA SortedIsInjective ==
    ASSUME NEW rows \in Seq(Row), NEW I \in SUBSET DOMAIN rows, NEW s \in Sorted(rows, I)
    PROVE  Injective(s)
  <1>1. s \in [1 .. Cardinality(I) -> I]
    BY DEF Sorted
  <1>2. s \in Seq(I) /\ Len(s) \in Nat /\ DOMAIN s = 1 .. Len(s)
    BY <1>1, EnumerationFacts
  <1>3. \A i \in DOMAIN rows : ~SortsBefore(rows, i, i)
    BY RowFacts DEF SortsBefore
  <1>4. \A a, b \in DOMAIN s : a < b => SortsBefore(rows, s[a], s[b])
    BY DEF Sorted
  <1>5. \A a \in DOMAIN s : s[a] \in DOMAIN rows
    BY <1>2
  <1>6. \A a, b \in DOMAIN s : a < b => s[a] # s[b]
    BY <1>3, <1>4, <1>5
  <1>7. \A a, b \in DOMAIN s : a # b => a < b \/ b < a
    BY <1>2
  <1> QED
    BY <1>6, <1>7 DEF Injective

\* The best row of a set is no slower than any other.
LEMMA BestIsFastest ==
    ASSUME NEW rows \in Seq(Row), NEW I \in SUBSET DOMAIN rows, NEW head \in Best(rows, I)
    PROVE  head \in I /\ \A i \in I : rows[head].time <= rows[i].time
  <1>1. head \in I /\ \A i \in I \ {head} : SortsBefore(rows, head, i)
    BY DEF Best
  <1>2. \A i \in I : rows[i].time \in Int
    BY RowFacts
  <1>3. \A i \in I \ {head} : rows[head].time <= rows[i].time
    BY <1>1, <1>2 DEF SortsBefore
  <1> QED
    BY <1>1, <1>2, <1>3

\* What Selection makes of a chain with the right shape.
LEMMA SelectionFacts ==
    ASSUME NEW rows \in Seq(Row), NEW I \in SUBSET DOMAIN rows, NEW head, NEW rest,
           Shape(rows, I, <<head>> \o rest),
           NEW reason \in {"profiled_success", "fallback_no_profile", "learned_guard_promoted"}
    PROVE  /\ Selection(head, rest, reason) \in Selections
           /\ Selection(head, rest, reason).plans = <<head>> \o rest
  <1>1. I \subseteq Nat
    BY SuccessFacts
  <1>2. <<head>> \o rest \in Seq(Nat)
    BY <1>1 DEF Shape
  <1> QED
    BY <1>2 DEF Selection, Selections

\* select returns a sound selection, and its head is the fastest success.
LEMMA ArtifactIsSound ==
    ASSUME NEW rows \in Seq(Row), NEW matrix, NEW fallback,
           NEW selection \in ArtifactSelections(rows, matrix, fallback)
    PROVE  Sound(rows, matrix, selection) /\ HeadIsBest(rows, matrix, selection)
  <1>1. CASE Feasible(rows, matrix) # {}
    <2> DEFINE F == Feasible(rows, matrix)
    <2>a. PICK head \in Best(rows, F) :
             \E r \in Sorted(rows, Others(rows, F, head)) :
                selection = Selection(head, r, "profiled_success")
      BY <1>1 DEF ArtifactSelections
    <2>1. PICK rest \in Sorted(rows, Others(rows, F, head)) :
             selection = Selection(head, rest, "profiled_success")
      BY <2>a
    <2>2. F \in SUBSET DOMAIN rows /\ Others(rows, F, head) \in SUBSET DOMAIN rows
      BY SuccessFacts DEF Others
    <2>3. head \in F /\ \A i \in F : rows[head].time <= rows[i].time
      BY <2>2, BestIsFastest
    <2>4. rest \in [1 .. Cardinality(Others(rows, F, head)) -> Others(rows, F, head)]
      BY DEF Sorted
    <2>5. Injective(rest)
      BY <2>2, SortedIsInjective
    <2>6. /\ Shape(rows, F, <<head>> \o rest)
          /\ (<<head>> \o rest)[1] = head
          /\ Injective(<<head>> \o rest)
      BY <2>2, <2>3, <2>4, <2>5, ChainShape
    <2>7. selection \in Selections /\ selection.plans = <<head>> \o rest
      BY <2>1, <2>2, <2>6, SelectionFacts
    <2> QED
      BY <1>1, <2>3, <2>6, <2>7 DEF Sound, HeadIsBest, Pool
  <1>2. CASE Feasible(rows, matrix) = {}
    <2> DEFINE F == Successes(rows)
    <2>a. PICK head \in FallbackProfile(rows, fallback) :
             \E r \in InFileOrder(Others(rows, F, head)) :
                selection = Selection(head, r, "fallback_no_profile")
      BY <1>2 DEF ArtifactSelections
    <2>1. PICK rest \in InFileOrder(Others(rows, F, head)) :
             selection = Selection(head, rest, "fallback_no_profile")
      BY <2>a
    <2>2. F \in SUBSET DOMAIN rows
      BY SuccessFacts
    <2>3. head \in F
      BY DEF FallbackProfile, FirstInFile, Best
    <2>4. rest \in [1 .. Cardinality(Others(rows, F, head)) -> Others(rows, F, head)]
      BY DEF InFileOrder
    <2>5. Shape(rows, F, <<head>> \o rest)
      BY <2>2, <2>3, <2>4, ChainShape
    <2>6. selection \in Selections /\ selection.plans = <<head>> \o rest
      BY <2>1, <2>2, <2>5, SelectionFacts
    <2> QED
      BY <1>2, <2>5, <2>6 DEF Sound, HeadIsBest, Pool
  <1> QED
    BY <1>1, <1>2

\* select_candidate returns a sound selection that begins with the candidate.
LEMMA PromotionIsSound ==
    ASSUME NEW rows \in Seq(Row), NEW matrix, NEW candidate,
           NEW selection \in Promotions(rows, matrix, candidate)
    PROVE  /\ Sound(rows, matrix, selection)
           /\ \E i \in Feasible(rows, matrix) :
                 rows[i].candidate = candidate /\ selection.plans[1] = i
  <1> DEFINE F == Feasible(rows, matrix)
  <1>a. PICK head \in FirstInFile({i \in F : rows[i].candidate = candidate}) :
           \E r \in Sorted(rows, Others(rows, F, head)) :
              selection = Selection(head, r, "learned_guard_promoted")
    BY DEF Promotions
  <1>1. PICK rest \in Sorted(rows, Others(rows, F, head)) :
           selection = Selection(head, rest, "learned_guard_promoted")
    BY <1>a
  <1>2. F \in SUBSET DOMAIN rows /\ Others(rows, F, head) \in SUBSET DOMAIN rows
    BY SuccessFacts DEF Others
  <1>3. head \in F /\ rows[head].candidate = candidate
    BY DEF FirstInFile
  <1>4. rest \in [1 .. Cardinality(Others(rows, F, head)) -> Others(rows, F, head)]
    BY DEF Sorted
  <1>5. Injective(rest)
    BY <1>2, SortedIsInjective
  <1>6. /\ Shape(rows, F, <<head>> \o rest)
        /\ (<<head>> \o rest)[1] = head
        /\ Injective(<<head>> \o rest)
    BY <1>2, <1>3, <1>4, <1>5, ChainShape
  <1>7. selection \in Selections /\ selection.plans = <<head>> \o rest
    BY <1>1, <1>2, <1>6, SelectionFacts
  <1> QED
    BY <1>3, <1>6, <1>7 DEF Sound, Pool

-----------------------------------------------------------------------------
\* What the planned chain is once there is one, and what the attempts and the
\* decision say about it.
PlanInv ==
    LET matrix    == request.matrix
        selection == decision.selection
    IN
    /\ Sound(rowsRead, matrix, artifact)
    /\ HeadIsBest(rowsRead, matrix, artifact)
    /\ Sound(rowsRead, matrix, selection)
    /\ chain = Len(selection.plans)
    /\ Len(attempts) <= chain
    /\ decision.status # "promoted" => decision.source = "artifact" /\ selection = artifact
    /\ decision.status = "promoted" =>
           /\ request.mode = "promote_if_safe"
           /\ GateEligible(gateRead[1], predictionRead.model)
           /\ predictionRead.confident
           /\ \E i \in Feasible(rowsRead, matrix) :
                  /\ rowsRead[i].candidate = predictionRead.candidate
                  /\ selection.plans[1] = i
    /\ decision.enforced => ChainIsEnforced(rowsRead, selection)
    /\ decision.status = "blocked_fallback_chain" =>
           \/ Feasible(rowsRead, matrix) = {}
           \/ DuplicateRows

\* Before the decision there is no chain and no attempt; from the selector on,
\* there is the artifact's selection.
SolveInv ==
    /\ TypeOK
    /\ pc \in {"selector", "gate", "prediction", "decide"} => decision.selection.plans = <<>>
    /\ pc \in {"execute", "returned"} => decision.selection.plans # <<>>
    /\ pc \in {"gate", "prediction", "decide"} =>
           /\ Sound(rowsRead, request.matrix, artifact)
           /\ HeadIsBest(rowsRead, request.matrix, artifact)
    /\ decision.selection.plans = <<>> => attempts = <<>>
    /\ decision.selection.plans # <<>> => PlanInv

\* The initial states satisfy the invariant.
LEMMA InitInv == Init => SolveInv
  <1> SUFFICES ASSUME Init PROVE SolveInv
    OBVIOUS
  <1>1. TypeOK
    <2>1. <<>> \in Seq(Row) /\ <<>> \in Seq({"acceptable", "unacceptable"}) /\ <<>> \in Seq(Nat)
      OBVIOUS
    <2>2. NoSelection \in Selections
      BY <2>1 DEF NoSelection, Selections
    <2>3. decision \in Decisions
      BY <2>2 DEF Init, Decisions, GuardStatuses
    <2>4. gate \in AtMostOneGate /\ evaluated \in AtMostOneGate /\ gateRead \in AtMostOneGate
      BY DEF Init, AtMostOneGate
    <2>5. summary \in Summaries
      BY BoundsAssumption DEF Init, Summaries, Predictions
    <2>6. selectorRows \in Seq(Row)
      BY FilesAssumption DEF Init
    <2> QED
      BY <2>1, <2>2, <2>3, <2>4, <2>5, <2>6, BoundsAssumption DEF Init, TypeOK
  <1> QED
    BY <1>1 DEF Init, SolveInv, NoSelection

-----------------------------------------------------------------------------
\* The export appends rows of a file; what is left of it is one.
LEMMA ExportKeepsRows ==
    ASSUME TypeOK, BeginExport \/ ExportRow
    PROVE  selectorRows' \in Seq(Row) /\ toWrite' \in Seq(Row)
  <1>1. CASE BeginExport
    BY <1>1, FilesAssumption DEF BeginExport
  <1>2. CASE ExportRow
    <2>1. toWrite \in Seq(Row) /\ toWrite # <<>> /\ selectorRows \in Seq(Row)
      BY <1>2 DEF TypeOK, ExportRow
    <2>2. Head(toWrite) \in Row /\ Tail(toWrite) \in Seq(Row)
      BY <2>1
    <2>3. Append(selectorRows, Head(toWrite)) \in Seq(Row)
      BY <2>1, <2>2
    <2> QED
      BY <1>2, <2>2, <2>3 DEF ExportRow
  <1> QED
    BY <1>1, <1>2

\* A step of the other programs leaves the call alone, and the files well typed.
LEMMA PipelineKeepsInv == SolveInv /\ Pipeline => SolveInv'
  <1> SUFFICES ASSUME SolveInv, Pipeline PROVE SolveInv'
    OBVIOUS
  <1>1. UNCHANGED <<request, pc, plan, guard>>
    BY DEF Pipeline, BeginExport, ExportRow, BeginTraining, WritePredictions, WriteSummary,
           EvaluateGate, WriteGate, Elsewhere
  <1>2. TypeOK
    BY DEF SolveInv
  <1>3. selectorRows' \in Seq(Row) /\ toWrite' \in Seq(Row) /\ rebuilds' \in 0 .. MaxRebuilds
    <2>1. CASE BeginExport
      BY <1>2, <2>1, ExportKeepsRows, BoundsAssumption DEF TypeOK, BeginExport
    <2>2. CASE ExportRow
      BY <1>2, <2>2, ExportKeepsRows DEF TypeOK, ExportRow
    <2>3. CASE BeginTraining \/ WritePredictions \/ WriteSummary \/ EvaluateGate \/ WriteGate
      BY <1>2, <2>3 DEF TypeOK, BeginTraining, WritePredictions, WriteSummary, EvaluateGate,
                        WriteGate
    <2> QED
      BY <2>1, <2>2, <2>3 DEF Pipeline
  <1>4. predictions' \in Predictions
    <2>1. CASE BeginTraining
      <3>1. PICK model \in Models :
               predictions' = [model |-> model, run |-> predictions.run + 1,
                               written |-> FALSE, candidate |-> None, confident |-> FALSE]
        BY <2>1 DEF BeginTraining
      <3>2. predictions.run \in 1 .. MaxRuns /\ predictions.run < MaxRuns
        BY <1>2, <2>1 DEF TypeOK, BeginTraining, Predictions
      <3>3. predictions.run + 1 \in 1 .. MaxRuns
        BY <3>2, BoundsAssumption
      <3> HIDE DEF TypeOK
      <3> QED
        BY <3>1, <3>3 DEF Predictions
    <2>2. CASE WritePredictions
      BY <1>2, <2>2 DEF TypeOK, WritePredictions, Predictions
    <2>3. CASE BeginExport \/ ExportRow \/ WriteSummary \/ EvaluateGate \/ WriteGate
      BY <1>2, <2>3 DEF TypeOK, BeginExport, ExportRow, WriteSummary, EvaluateGate, WriteGate
    <2> QED
      BY <2>1, <2>2, <2>3 DEF Pipeline
  <1>5. summary' \in Summaries
    <2>1. CASE WriteSummary
      BY <1>2, <2>1 DEF TypeOK, WriteSummary, Predictions, Summaries
    <2>2. CASE ~WriteSummary
      BY <1>2, <2>2 DEF TypeOK, Pipeline, BeginExport, ExportRow, BeginTraining,
                        WritePredictions, EvaluateGate, WriteGate
    <2> QED
      BY <2>1, <2>2
  <1>6. gate' \in AtMostOneGate /\ evaluated' \in AtMostOneGate
    <2>1. CASE EvaluateGate
      BY <1>2, <2>1 DEF TypeOK, EvaluateGate, Summaries, AtMostOneGate, Gates
    <2>2. CASE WriteGate
      BY <1>2, <2>2 DEF TypeOK, WriteGate, AtMostOneGate
    <2>3. CASE ~EvaluateGate /\ ~WriteGate
      BY <1>2, <2>3 DEF TypeOK, Pipeline, BeginExport, ExportRow, BeginTraining,
                        WritePredictions, WriteSummary
    <2> QED
      BY <2>1, <2>2, <2>3
  <1>7. TypeOK'
    BY <1>1, <1>2, <1>3, <1>4, <1>5, <1>6 DEF TypeOK, plan, guard
  <1>8. PlanInv => PlanInv'
    BY <1>1 DEF PlanInv, plan, guard, DuplicateRows
  <1> QED
    BY <1>1, <1>7, <1>8 DEF SolveInv, plan, guard

-----------------------------------------------------------------------------
\* The planner's reads: no attempt, no chain, and nothing known yet changes.
LEMMA RaiseKeepsInv ==
    ASSUME SolveInv, pc \in {"selector", "gate", "prediction"}, Raise,
           UNCHANGED <<gateRead, predictionRead, artifact, decision>>,
           rowsRead' \in Seq(Row)
    PROVE  SolveInv'
  <1>1. decision.selection.plans = <<>> /\ attempts = <<>>
    BY DEF SolveInv
  <1>2. TypeOK'
    BY DEF SolveInv, TypeOK, Raise, disk, guard
  <1> QED
    BY <1>1, <1>2 DEF SolveInv, Raise, guard

LEMMA ReadSelectorKeepsInv == SolveInv /\ ReadSelector => SolveInv'
  <1> SUFFICES ASSUME SolveInv, ReadSelector PROVE SolveInv'
    OBVIOUS
  <1>1. rowsRead' = selectorRows /\ rowsRead' \in Seq(Row) /\ pc = "selector"
    BY DEF SolveInv, TypeOK, ReadSelector
  <1>2. CASE /\ artifact' \in ArtifactSelections(rowsRead', request.matrix, request.fallback)
             /\ pc' = "gate"
             /\ UNCHANGED <<disk, request, gateRead, predictionRead, decision, guard>>
    <2>1. Sound(rowsRead', request.matrix, artifact') /\ HeadIsBest(rowsRead', request.matrix, artifact')
      BY <1>1, <1>2, ArtifactIsSound
    <2>2. artifact' \in Selections
      BY <2>1 DEF Sound
    <2>3. decision.selection.plans = <<>> /\ attempts = <<>>
      BY <1>1 DEF SolveInv
    <2>4. TypeOK'
      BY <1>1, <1>2, <2>2 DEF SolveInv, TypeOK, disk, guard
    <2> QED
      BY <1>2, <2>1, <2>3, <2>4 DEF SolveInv, guard
  <1>3. CASE Raise /\ UNCHANGED <<gateRead, predictionRead, artifact, decision>>
    BY <1>1, <1>3, RaiseKeepsInv
  <1> QED
    BY <1>2, <1>3 DEF ReadSelector

LEMMA ReadGateKeepsInv == SolveInv /\ ReadGate => SolveInv'
  <1> SUFFICES ASSUME SolveInv, ReadGate PROVE SolveInv'
    OBVIOUS
  <1>1. CASE /\ gateRead' = gate
             /\ pc' = "prediction"
             /\ UNCHANGED <<disk, request, rowsRead, predictionRead, artifact, decision, guard>>
    <2>1. TypeOK'
      BY <1>1 DEF SolveInv, TypeOK, disk, guard
    <2>2. decision.selection.plans = <<>> /\ attempts = <<>> /\ pc = "gate"
      BY DEF SolveInv, ReadGate
    <2> QED
      BY <1>1, <2>1, <2>2 DEF SolveInv, guard
  <1>2. CASE Raise /\ UNCHANGED plan
    <2>1. rowsRead' \in Seq(Row)
      BY <1>2 DEF SolveInv, TypeOK, plan
    <2> QED
      BY <1>2, <2>1, RaiseKeepsInv DEF ReadGate, plan
  <1> QED
    BY <1>1, <1>2 DEF ReadGate

LEMMA ReadPredictionKeepsInv == SolveInv /\ ReadPrediction => SolveInv'
  <1> SUFFICES ASSUME SolveInv, ReadPrediction PROVE SolveInv'
    OBVIOUS
  <1>1. predictionRead' \in {p \in Predictions : p.candidate # None} \cup {None}
    BY DEF SolveInv, TypeOK, ReadPrediction
  <1>2. TypeOK'
    BY <1>1 DEF SolveInv, TypeOK, ReadPrediction, disk, guard
  <1>3. decision.selection.plans = <<>> /\ attempts = <<>>
    BY DEF SolveInv, ReadPrediction
  <1> QED
    BY <1>2, <1>3 DEF SolveInv, ReadPrediction, guard

\* The chain of a matrix with a success is blocked only by two rows for one of
\* its candidates.
LEMMA BlockedByDuplicates ==
    ASSUME NEW STATE selection, Sound(rowsRead, request.matrix, selection),
           ~ChainIsEnforced(rowsRead, selection)
    PROVE  Feasible(rowsRead, request.matrix) = {} \/ DuplicateRows
  <1> SUFFICES ASSUME Feasible(rowsRead, request.matrix) # {} PROVE DuplicateRows
    OBVIOUS
  <1> DEFINE p == selection.plans
  <1>1. PICK a \in DOMAIN p, b \in DOMAIN p :
           a # b /\ rowsRead[p[a]].candidate = rowsRead[p[b]].candidate
    BY DEF ChainIsEnforced, CandidateIds
  <1>2. p[a] # p[b]
    BY <1>1 DEF Sound, Injective
  <1>3. p[a] \in Feasible(rowsRead, request.matrix) /\ p[b] \in Feasible(rowsRead, request.matrix)
    BY DEF Sound, Shape, Pool
  <1>4. /\ p[a] \in DOMAIN rowsRead /\ p[b] \in DOMAIN rowsRead
        /\ rowsRead[p[a]].matrix = rowsRead[p[b]].matrix
    BY <1>3 DEF Feasible, Successes
  <1> QED
    BY <1>1, <1>2, <1>4 DEF DuplicateRows

\* The decision establishes what is then kept: PlanInv.
LEMMA DecideKeepsInv == SolveInv /\ Decide => SolveInv'
  <1> SUFFICES ASSUME SolveInv, Decide PROVE SolveInv'
    OBVIOUS
  <1> DEFINE candidates == IF Judgement = "promoted"
                           THEN Promotions(rowsRead, request.matrix, predictionRead.candidate)
                           ELSE {artifact}
  <1>1. PICK selection \in candidates : decision' = Decided(Judgement, selection)
    BY DEF Decide
  <1>2. /\ pc = "decide" /\ pc' = "execute"
        /\ chain' = Len(decision'.selection.plans)
        /\ UNCHANGED <<disk, request, rowsRead, gateRead, predictionRead, artifact,
                       attempts, verdict>>
    BY DEF Decide
  <1>3. /\ rowsRead \in Seq(Row)
        /\ attempts = <<>>
        /\ Sound(rowsRead, request.matrix, artifact)
        /\ HeadIsBest(rowsRead, request.matrix, artifact)
    BY <1>2 DEF SolveInv, TypeOK
  <1>4. Judgement \in GuardStatuses
    BY DEF Judgement, GuardStatuses
  <1>5. Judgement = "promoted" =>
           /\ request.mode = "promote_if_safe"
           /\ GateEligible(gateRead[1], predictionRead.model)
           /\ predictionRead.confident
    <2>1. request.mode \in {"shadow", "promote_if_safe"}
      BY DEF SolveInv, TypeOK, Requests
    <2> QED
      BY <2>1 DEF Judgement
  <1>6. /\ Sound(rowsRead, request.matrix, selection)
        /\ Judgement # "promoted" => selection = artifact
        /\ Judgement = "promoted" =>
               \E i \in Feasible(rowsRead, request.matrix) :
                  /\ rowsRead[i].candidate = predictionRead.candidate
                  /\ selection.plans[1] = i
    BY <1>3, PromotionIsSound
  <1>7. CASE ChainIsEnforced(rowsRead, selection)
    <2>1. decision' = [status |-> Judgement,
                       source |-> IF Judgement = "promoted" THEN "learned" ELSE "artifact",
                       enforced |-> TRUE, selection |-> selection]
      BY <1>1, <1>7 DEF Decided
    <2>2. /\ decision'.status = Judgement
          /\ decision'.selection = selection
          /\ decision'.enforced = TRUE
          /\ decision'.source = IF Judgement = "promoted" THEN "learned" ELSE "artifact"
      BY <2>1
    <2>3. selection \in Selections
      BY <1>6 DEF Sound
    <2>4. decision' \in Decisions
      BY <1>4, <2>1, <2>3 DEF Decisions
    <2>5. Judgement # "blocked_fallback_chain"
      BY DEF Judgement
    <2>6. selection.plans # <<>> /\ Len(selection.plans) \in Nat
      BY <1>6 DEF Sound, Shape
    <2>7. TypeOK'
      BY <1>2, <2>2, <2>4, <2>6 DEF SolveInv, TypeOK, disk
    <2>8. PlanInv'
      BY <1>2, <1>3, <1>5, <1>6, <1>7, <2>2, <2>5, <2>6 DEF PlanInv, DuplicateRows
    <2> QED
      BY <1>2, <2>2, <2>6, <2>7, <2>8 DEF SolveInv
  <1>8. CASE ~ChainIsEnforced(rowsRead, selection)
    <2>1. decision' = [status |-> "blocked_fallback_chain", source |-> "artifact",
                       enforced |-> FALSE, selection |-> artifact]
      BY <1>1, <1>8 DEF Decided
    <2>2. /\ decision'.status = "blocked_fallback_chain"
          /\ decision'.selection = artifact
          /\ decision'.enforced = FALSE
          /\ decision'.source = "artifact"
      BY <2>1
    <2>3. artifact \in Selections
      BY <1>3 DEF Sound
    <2>4. decision' \in Decisions
      BY <2>1, <2>3 DEF Decisions, GuardStatuses
    <2>5. Feasible(rowsRead, request.matrix) = {} \/ DuplicateRows
      BY <1>6, <1>8, BlockedByDuplicates
    <2>6. artifact.plans # <<>> /\ Len(artifact.plans) \in Nat
      BY <1>3 DEF Sound, Shape
    <2>7. TypeOK'
      BY <1>2, <2>2, <2>4, <2>6 DEF SolveInv, TypeOK, disk
    <2>8. PlanInv'
      BY <1>2, <1>3, <2>2, <2>5, <2>6 DEF PlanInv, DuplicateRows
    <2> QED
      BY <1>2, <2>2, <2>6, <2>7, <2>8 DEF SolveInv
  <1> QED
    BY <1>7, <1>8

\* The guard tries at most the plans of the chain.
LEMMA ExecuteKeepsInv == SolveInv /\ Execute => SolveInv'
  <1> SUFFICES ASSUME SolveInv, Execute PROVE SolveInv'
    OBVIOUS
  <1>1. /\ pc = "execute" /\ UNCHANGED <<disk, request, plan>>
        /\ decision.selection.plans # <<>> /\ PlanInv
    BY DEF Execute, SolveInv
  <1>2. /\ chain' = chain /\ chain \in Nat
        /\ attempts' \in Seq({"acceptable", "unacceptable"})
        /\ verdict' \in {"open", "accepted", "refused"}
        /\ Len(attempts') <= chain
    <2>1. /\ attempts \in Seq({"acceptable", "unacceptable"}) /\ chain \in Nat
          /\ Len(attempts) <= chain
      BY <1>1 DEF SolveInv, TypeOK, PlanInv
    <2>2. CASE Fallback!Accept
      BY <2>1, <2>2 DEF Fallback!Accept, Fallback!Attempt
    <2>3. CASE Fallback!Reject
      BY <2>1, <2>3 DEF Fallback!Reject, Fallback!Attempt
    <2>4. CASE Fallback!GiveUp
      BY <2>1, <2>4 DEF Fallback!GiveUp
    <2> QED
      BY <2>2, <2>3, <2>4 DEF Execute, Fallback!ContractNext
  <1>3. pc' \in {"execute", "raised", "returned"}
    BY DEF Execute
  <1>4. TypeOK'
    BY <1>1, <1>2, <1>3 DEF SolveInv, TypeOK, disk, plan
  <1>5. PlanInv'
    BY <1>1, <1>2 DEF PlanInv, DuplicateRows, plan
  <1> QED
    BY <1>1, <1>3, <1>4, <1>5 DEF SolveInv, plan

LEMMA StutterKeepsInv == SolveInv /\ UNCHANGED vars => SolveInv'
  BY DEF vars, disk, plan, guard, SolveInv, TypeOK, PlanInv, DuplicateRows

LEMMA NextKeepsInv == SolveInv /\ [Next]_vars => SolveInv'
  <1> SUFFICES ASSUME SolveInv, [Next]_vars PROVE SolveInv'
    OBVIOUS
  <1>1. CASE SelectorReadRaises
    <2>1. rowsRead' \in Seq(Row)
      BY <1>1 DEF SelectorReadRaises, plan, SolveInv, TypeOK
    <2> QED
      BY <1>1, <2>1, RaiseKeepsInv DEF SelectorReadRaises, plan
  <1>2. CASE ReadSelector
    BY <1>2, ReadSelectorKeepsInv
  <1>3. CASE ReadGate
    BY <1>3, ReadGateKeepsInv
  <1>4. CASE ReadPrediction
    BY <1>4, ReadPredictionKeepsInv
  <1>5. CASE PredictionReadRaises
    <2>1. rowsRead' \in Seq(Row)
      BY <1>5 DEF PredictionReadRaises, plan, SolveInv, TypeOK
    <2> QED
      BY <1>5, <2>1, RaiseKeepsInv DEF PredictionReadRaises, plan
  <1>6. CASE Decide
    BY <1>6, DecideKeepsInv
  <1>7. CASE Execute
    BY <1>7, ExecuteKeepsInv
  <1>8. CASE Pipeline
    BY <1>8, PipelineKeepsInv
  <1>9. CASE UNCHANGED vars
    BY <1>9, StutterKeepsInv
  <1> QED
    BY <1>1, <1>2, <1>3, <1>4, <1>5, <1>6, <1>7, <1>8, <1>9
       DEF Next, CallStep, Finished

-----------------------------------------------------------------------------
\* The invariant holds in every reachable state.
THEOREM InvHolds == Spec => []SolveInv
  BY InitInv, NextKeepsInv, PTL DEF Spec

\* Every variable keeps its type: the call always knows what it has read.
THEOREM TypeCorrect == Spec => []TypeOK
  <1>1. SolveInv => TypeOK
    BY DEF SolveInv
  <1> QED
    BY <1>1, InvHolds, PTL

\* The plan of attempt k was built from a row of the chain's pool.
LEMMA ExecutedRow ==
    ASSUME SolveInv, NEW k \in DOMAIN Executed
    PROVE  /\ decision.selection.plans # <<>> /\ PlanInv
           /\ k \in DOMAIN decision.selection.plans
           /\ Executed[k] = rowsRead[decision.selection.plans[k]]
           /\ decision.selection.plans[k] \in Pool(rowsRead, request.matrix)
  <1>1. k \in DOMAIN attempts /\ Executed[k] = rowsRead[decision.selection.plans[k]]
    BY DEF Executed
  <1>2. attempts \in Seq({"acceptable", "unacceptable"}) /\ attempts # <<>>
    BY <1>1 DEF SolveInv, TypeOK
  <1>3. decision.selection.plans # <<>> /\ PlanInv
    BY <1>2 DEF SolveInv
  <1>4. decision.selection.plans \in Seq(Pool(rowsRead, request.matrix))
    BY <1>3 DEF PlanInv, Sound, Shape
  <1>5. Len(attempts) <= Len(decision.selection.plans)
    BY <1>3 DEF PlanInv
  <1>6. k \in DOMAIN decision.selection.plans
    BY <1>1, <1>2, <1>4, <1>5
  <1> QED
    BY <1>1, <1>3, <1>4, <1>6

\* What runs was profiled as a success, on the call's matrix if any was: the
\* learned policy and the fallback chain never bypass the selector rows.
THEOREM ExecutedHolds == Spec => []ExecutedAreProfiledSuccesses
  <1>1. SolveInv => ExecutedAreProfiledSuccesses
    <2> SUFFICES ASSUME SolveInv, NEW k \in DOMAIN Executed
                 PROVE  /\ IsSuccess(Executed[k])
                        /\ (Executed[k].matrix = request.matrix)
                              \/ (Feasible(rowsRead, request.matrix) = {})
      BY DEF ExecutedAreProfiledSuccesses
    <2>1. /\ Executed[k] = rowsRead[decision.selection.plans[k]]
          /\ decision.selection.plans[k] \in Pool(rowsRead, request.matrix)
      BY ExecutedRow
    <2> QED
      BY <2>1 DEF Pool, Feasible, Successes
  <1> QED
    BY <1>1, InvHolds, PTL

\* Once a chain is planned, the invariant speaks of it.
LEMMA PlannedHasPlan ==
    ASSUME SolveInv, Planned PROVE PlanInv
  BY DEF SolveInv, Planned, Done

\* A learned candidate runs first only with an eligible gate for its model,
\* confidence, and a success of its own on the matrix.
THEOREM PromotionHolds == Spec => []PromotedIsSafe
  <1>1. SolveInv => PromotedIsSafe
    <2> SUFFICES ASSUME SolveInv, Planned, decision.source = "learned"
                 PROVE  /\ decision.status = "promoted"
                        /\ request.mode = "promote_if_safe"
                        /\ gateRead[1].passed /\ gateRead[1].eligible
                        /\ gateRead[1].model = predictionRead.model
                        /\ predictionRead.confident
                        /\ \E i \in Feasible(rowsRead, request.matrix) :
                               /\ rowsRead[i].candidate = predictionRead.candidate
                               /\ decision.selection.plans[1] = i
      BY DEF PromotedIsSafe
    <2>1. PlanInv
      BY PlannedHasPlan
    <2>2. decision.status = "promoted"
      BY <2>1 DEF PlanInv
    <2> QED
      BY <2>1, <2>2 DEF PlanInv, GateEligible
  <1> QED
    BY <1>1, InvHolds, PTL

\* Without a promotion the chain is the artifact's, fastest success first.
THEOREM UnpromotedHolds == Spec => []UnpromotedRunsArtifact
  <1>1. SolveInv => UnpromotedRunsArtifact
    BY PlannedHasPlan DEF UnpromotedRunsArtifact, PlanInv, HeadIsBest
  <1> QED
    BY <1>1, InvHolds, PTL

\* An enforced chain tries no candidate twice, and no chain its first one.
THEOREM EnforcedHolds == Spec => []EnforcedTriesEachOnce
  <1>1. ASSUME SolveInv, decision.enforced, NEW a \in DOMAIN Executed, NEW b \in DOMAIN Executed,
               a # b
        PROVE  Executed[a].candidate # Executed[b].candidate
    <2>1. ChainIsEnforced(rowsRead, decision.selection)
      BY <1>1, ExecutedRow DEF PlanInv
    <2>2. /\ a \in DOMAIN decision.selection.plans /\ b \in DOMAIN decision.selection.plans
          /\ Executed[a] = rowsRead[decision.selection.plans[a]]
          /\ Executed[b] = rowsRead[decision.selection.plans[b]]
      BY <1>1, ExecutedRow
    <2> QED
      BY <1>1, <2>1, <2>2 DEF ChainIsEnforced, CandidateIds
  <1>2. ASSUME SolveInv, NEW a \in DOMAIN Executed, a # 1
        PROVE  Executed[a].candidate # Executed[1].candidate
    <2>1. /\ a \in DOMAIN decision.selection.plans
          /\ Executed[a] = rowsRead[decision.selection.plans[a]]
          /\ Sound(rowsRead, request.matrix, decision.selection)
      BY <1>2, ExecutedRow DEF PlanInv
    <2>2. 1 \in DOMAIN Executed
      BY <1>2 DEF Executed, SolveInv, TypeOK
    <2>3. Executed[1] = rowsRead[decision.selection.plans[1]]
      BY <2>2 DEF Executed
    <2> QED
      BY <1>2, <2>1, <2>3 DEF Sound, Shape
  <1>3. SolveInv => EnforcedTriesEachOnce
    BY <1>1, <1>2 DEF EnforcedTriesEachOnce
  <1> QED
    BY <1>3, InvHolds, PTL

\* A blocked chain means a matrix without a success, or duplicate rows.
THEOREM BlockedHolds == Spec => []BlockedOnlyWithoutProfile
  <1>1. SolveInv => BlockedOnlyWithoutProfile
    BY PlannedHasPlan DEF BlockedOnlyWithoutProfile, PlanInv
  <1> QED
    BY <1>1, InvHolds, PTL

-----------------------------------------------------------------------------
(***************************************************************************)
(* What PromotionHasEvidence lacks.  The gate is compared with the         *)
(* prediction by model id alone, and the ranker's script gives every       *)
(* training run the same one unless it is told otherwise.  With ids that   *)
(* tell the runs apart the comparison is enough.                           *)
(***************************************************************************)
Labelled(ModelOf, file) == file.model = ModelOf[file.run]

\* Every file, and what the call has read of it, has the model id of its run.
LabelInv(ModelOf) ==
    /\ Labelled(ModelOf, summary)
    /\ gate # <<>> => Labelled(ModelOf, gate[1])
    /\ evaluated # <<>> => Labelled(ModelOf, evaluated[1])
    /\ gateRead # <<>> => Labelled(ModelOf, gateRead[1])
    /\ predictionRead # None => Labelled(ModelOf, predictionRead)

\* A promotion is about a gate and a prediction that were read.
ReadInv ==
    /\ pc \in {"prediction", "decide"} => gateRead # <<>>
    /\ decision.status = "promoted" => gateRead # <<>> /\ predictionRead # None
    /\ decision.status = "promoted" => pc \in {"execute", "returned", "raised"}

LEMMA ReadStep == ReadInv /\ [Next]_vars => ReadInv'
  <1> SUFFICES ASSUME ReadInv, [Next]_vars PROVE ReadInv'
    OBVIOUS
  <1> USE DEF ReadInv
  <1>1. CASE UNCHANGED <<pc, gateRead, predictionRead, decision>>
    BY <1>1
  <1>2. CASE ReadSelector \/ SelectorReadRaises \/ ReadGate \/ PredictionReadRaises
             \/ ReadPrediction
    BY <1>2 DEF ReadSelector, SelectorReadRaises, ReadGate, PredictionReadRaises,
                ReadPrediction, Raise, plan
  <1>3. CASE Decide
    <2>1. PICK selection : decision' = Decided(Judgement, selection)
      BY <1>3 DEF Decide
    <2>2. decision'.status = "promoted" => Judgement = "promoted"
      BY <2>1 DEF Decided
    <2>3. Judgement = "promoted" => predictionRead # None
      BY DEF Judgement
    <2> QED
      BY <1>3, <2>2, <2>3 DEF Decide
  <1>4. CASE Execute
    BY <1>4 DEF Execute, plan
  <1>5. ASSUME Pipeline \/ UNCHANGED vars
        PROVE  UNCHANGED <<pc, gateRead, predictionRead, decision>>
    BY <1>5 DEF Pipeline, BeginExport, ExportRow, BeginTraining, WritePredictions, WriteSummary,
                EvaluateGate, WriteGate, Elsewhere, vars, plan
  <1> QED
    BY <1>1, <1>2, <1>3, <1>4, <1>5 DEF Next, CallStep, Finished

LEMMA LabelInit ==
    ASSUME NEW ModelOf, Init, Labelled(ModelOf, predictions) PROVE LabelInv(ModelOf)
  <1>1. /\ predictions.run = 1
        /\ summary.model = predictions.model /\ summary.run = 1
        /\ evaluated = <<>> /\ gateRead = <<>> /\ predictionRead = None
    BY DEF Init
  <1>2. PICK g \in Gates : g.run = 1 /\ g.model = summary.model /\ gate = <<g>>
    BY DEF Init
  <1> QED
    BY <1>1, <1>2 DEF LabelInv, Labelled

LEMMA LabelStep ==
    ASSUME NEW ModelOf, TypeOK, LabelInv(ModelOf), Labelled(ModelOf, predictions),
           [Next]_vars
    PROVE  LabelInv(ModelOf)'
  <1> USE DEF LabelInv, Labelled
  <1>1. CASE UNCHANGED <<summary, gate, evaluated, gateRead, predictionRead>>
    BY <1>1
  <1>2. CASE WriteSummary
    BY <1>2 DEF WriteSummary, Elsewhere, plan
  <1>3. CASE EvaluateGate
    <2>1. PICK passed \in BOOLEAN, eligible \in BOOLEAN :
              evaluated' = <<[passed |-> passed, eligible |-> eligible,
                              model |-> summary.model, run |-> summary.run]>>
      BY <1>3 DEF EvaluateGate
    <2> QED
      BY <1>3, <2>1 DEF EvaluateGate, Elsewhere, plan
  <1>4. CASE WriteGate
    BY <1>4 DEF WriteGate, Elsewhere, plan
  <1>5. CASE ReadGate
    BY <1>5 DEF ReadGate, Raise, disk, plan
  <1>6. CASE ReadPrediction
    BY <1>6 DEF ReadPrediction, disk
  <1>7. ASSUME \/ BeginExport \/ ExportRow \/ BeginTraining \/ WritePredictions
               \/ SelectorReadRaises \/ ReadSelector \/ PredictionReadRaises \/ Decide
               \/ Execute \/ UNCHANGED vars
        PROVE  UNCHANGED <<summary, gate, evaluated, gateRead, predictionRead>>
    BY <1>7 DEF BeginExport, ExportRow, BeginTraining, WritePredictions, SelectorReadRaises,
                ReadSelector, PredictionReadRaises, Decide, Execute, Raise, Elsewhere, vars,
                disk, plan
  <1> QED
    BY <1>1, <1>2, <1>3, <1>4, <1>5, <1>6, <1>7 DEF Next, CallStep, Pipeline, Finished

\* Two training runs that never share a model id: then a promoted prediction is
\* one of the very run that the gate evaluated, whatever the files do meanwhile.
THEOREM EvidenceWithOwnIds ==
    ASSUME NEW ModelOf,
           \A i, j \in 1 .. MaxRuns : ModelOf[i] = ModelOf[j] => i = j
    PROVE  Spec /\ []Labelled(ModelOf, predictions) => []PromotionHasEvidence
  <1>1. ASSUME SolveInv, ReadInv, LabelInv(ModelOf),
               Planned, decision.status = "promoted"
        PROVE  gateRead[1].run = predictionRead.run
    <2>1. gateRead # <<>> /\ predictionRead # None
      BY <1>1 DEF ReadInv
    <2>2. /\ gateRead[1].run \in 1 .. MaxRuns
          /\ predictionRead.run \in 1 .. MaxRuns
      BY <1>1, <2>1 DEF SolveInv, TypeOK, AtMostOneGate, Gates, Predictions
    <2>3. gateRead[1].model = predictionRead.model
      BY <1>1, PlannedHasPlan DEF PlanInv, GateEligible
    <2> QED
      BY <1>1, <2>1, <2>2, <2>3 DEF LabelInv, Labelled
  <1>2. SolveInv /\ ReadInv /\ LabelInv(ModelOf) => PromotionHasEvidence
    BY <1>1 DEF PromotionHasEvidence
  <1>3. Init => ReadInv
    BY DEF Init, ReadInv
  <1>4. SolveInv => TypeOK
    BY DEF SolveInv
  <1> QED
    BY <1>2, <1>3, <1>4, InvHolds, ReadStep, LabelInit, LabelStep, PTL DEF Spec

-----------------------------------------------------------------------------
(***************************************************************************)
(* How far the call has come: its phase, and within the last phase the     *)
(* plans of the chain that it has not attempted.                           *)
(***************************************************************************)
PhasesLeft ==
    CASE pc = "selector"   -> 5
      [] pc = "gate"       -> 4
      [] pc = "prediction" -> 3
      [] pc = "decide"     -> 2
      [] pc = "execute"    -> 1
      [] OTHER             -> 0

PlansLeft == chain - Len(attempts)

\* A step of the call leaves a phase for good, or attempts a plan of the chain.
Advances ==
    \/ PhasesLeft' < PhasesLeft
    \/ PhasesLeft' = PhasesLeft /\ PlansLeft' < PlansLeft

LEMMA PhaseCases ==
    /\ pc = "selector" => PhasesLeft = 5
    /\ pc = "gate" => PhasesLeft = 4
    /\ pc = "prediction" => PhasesLeft = 3
    /\ pc = "decide" => PhasesLeft = 2
    /\ pc = "execute" => PhasesLeft = 1
    /\ Done => PhasesLeft = 0
    /\ pc' = "gate" => PhasesLeft' = 4
    /\ pc' = "prediction" => PhasesLeft' = 3
    /\ pc' = "decide" => PhasesLeft' = 2
    /\ pc' = "execute" => PhasesLeft' = 1
    /\ pc' \in {"returned", "raised"} => PhasesLeft' = 0
  BY DEF PhasesLeft, Done

LEMMA CallStepAdvances == SolveInv /\ CallStep => Advances
  <1> SUFFICES ASSUME SolveInv, CallStep PROVE Advances
    OBVIOUS
  <1> USE PhaseCases DEF Advances
  <1>1. CASE SelectorReadRaises \/ ReadSelector \/ ReadGate \/ PredictionReadRaises
             \/ ReadPrediction \/ Decide
    BY <1>1 DEF SelectorReadRaises, ReadSelector, ReadGate, PredictionReadRaises,
                ReadPrediction, Decide, Raise
  <1>2. CASE Execute
    <2>1. pc = "execute" /\ pc' \in {"execute", "returned", "raised"}
      BY <1>2 DEF Execute
    <2>2. CASE pc' # "execute"
      BY <2>1, <2>2
    <2>3. CASE pc' = "execute"
      <3>1. verdict' = "open" /\ Fallback!ContractNext
        BY <1>2, <2>3 DEF Execute
      <3>2. PICK q \in {"acceptable", "unacceptable"} :
                attempts' = Append(attempts, q) /\ chain' = chain
        BY <3>1 DEF Fallback!ContractNext, Fallback!Accept, Fallback!Reject,
                    Fallback!GiveUp, Fallback!Attempt
      <3>3. attempts \in Seq({"acceptable", "unacceptable"}) /\ chain \in Nat
        BY DEF SolveInv, TypeOK
      <3>4. Len(attempts') = Len(attempts) + 1 /\ Len(attempts) \in Nat
        BY <3>2, <3>3
      <3> QED
        BY <2>1, <2>3, <3>2, <3>3, <3>4 DEF PlansLeft
    <2> QED
      BY <2>2, <2>3
  <1> QED
    BY <1>1, <1>2 DEF CallStep

\* Every step of the call brings it nearer to its end, along a measure that is a
\* pair of natural numbers once the chain is planned and that the programs
\* writing the files cannot touch: they neither hold the call up nor send it back.
THEOREM EveryCallStepCounts ==
    Spec => /\ []( /\ PhasesLeft = 0 <=> Done
                   /\ pc = "execute" => PlansLeft \in Nat )
            /\ [][(CallStep /\ Advances) \/ UNCHANGED <<pc, chain, attempts>>]_vars
  <1>1. ASSUME SolveInv
        PROVE  /\ PhasesLeft = 0 <=> Done
               /\ pc = "execute" => PlansLeft \in Nat
    <2>1. pc \in {"selector", "gate", "prediction", "decide", "execute"} \/ Done
      BY <1>1 DEF SolveInv, TypeOK, Done
    <2>2. PhasesLeft = 0 <=> Done
      BY <2>1 DEF PhasesLeft, Done
    <2>3. ASSUME pc = "execute" PROVE PlansLeft \in Nat
      <3>1. PlanInv
        BY <1>1, <2>3 DEF SolveInv
      <3>2. Len(attempts) <= chain
        BY <3>1 DEF PlanInv
      <3>3. attempts \in Seq({"acceptable", "unacceptable"}) /\ chain \in Nat
        BY <1>1 DEF SolveInv, TypeOK
      <3> QED
        BY <3>2, <3>3 DEF PlansLeft
    <2> QED
      BY <2>2, <2>3
  <1>2. Pipeline => UNCHANGED <<pc, chain, attempts>>
    BY DEF Pipeline, BeginExport, ExportRow, BeginTraining, WritePredictions, WriteSummary,
           EvaluateGate, WriteGate, Elsewhere, guard
  <1>3. SolveInv /\ [Next]_vars =>
            [(CallStep /\ Advances) \/ UNCHANGED <<pc, chain, attempts>>]_vars
    BY <1>2, CallStepAdvances DEF Next, Finished
  <1> QED
    BY <1>1, <1>3, InvHolds, PTL DEF Spec
=============================================================================
