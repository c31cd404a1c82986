-------------------------- MODULE GuardedAutoSolve --------------------------
(***************************************************************************)
(* One call of auto_solve_csr_guarded (transsolvestack/api.py): it plans   *)
(* with plan_csr_with_learned_guard (policies/csr_learned_guard.py) over   *)
(* CsrArtifactPolicySelector (policies/csr_artifact_selector.py), then     *)
(* runs the planned chain under the runtime fallback guard, taken here by  *)
(* its contract (FallbackContract, which GuardedFallback implements).      *)
(*                                                                         *)
(* The planner reads three files, one after the other: the selector rows,  *)
(* the quality gate's summary and the learned predictions.  They are       *)
(* written by other programs, which truncate a file and fill it again and  *)
(* take no lock, so a read may fall between any two of their steps.        *)
(*                                                                         *)
(* The request is one matrix in one context; predictions are kept as far   *)
(* as they are about it.                                                   *)
(***************************************************************************)
EXTENDS CsrArtifactSelector

CONSTANTS
    Matrices,       \* (matrix_id, context_id) pairs
    Candidates,     \* candidate ids
    SelectorFiles,  \* the row sequences that an export can leave in the file
    Models,         \* model ids
    MaxRebuilds,    \* exports of the selector rows during the call
    MaxRuns,        \* training runs of the ranker, the first one included
    None            \* Python's None

Row == [matrix : Matrices, candidate : Candidates,
        status : {"success", "fallback_success", "screened_out", "not_profiled"},
        everyTime : BOOLEAN, time : Nat]

ASSUME CandidatesAssumption == Candidates \subseteq Int
ASSUME FilesAssumption      == SelectorFiles \subseteq Seq(Row) /\ SelectorFiles # {}
ASSUME BoundsAssumption     == MaxRebuilds \in Nat /\ MaxRuns \in Nat \ {0}
ASSUME NoneAssumption       == None \notin Candidates

VARIABLES
    selectorRows,   \* csr_selector_rows.jsonl, as far as it is written
    toWrite,        \* rows its export has still to write
    rebuilds,       \* exports started
    predictions,    \* csr_transformer_ranker_predictions.jsonl
    summary,        \* csr_transformer_ranker_summary.json
    gate,           \* csr_transformer_quality_gate_summary.json, a sequence of
                    \*   one summary, or of none while the file is empty
    evaluated,      \* the summary its evaluation has still to write
    request,        \* the arguments of the call
    pc,             \* where the call is
    rowsRead,       \* the profiles of the call's selector
    gateRead,       \* quality_gate_summary, read into a sequence
    predictionRead, \* learned_prediction, as it stands in the file
    artifact,       \* artifact_selection
    decision,       \* the CsrLearnedGuardDecision
    chain,          \* the guard's contract: number of plans,
    attempts,       \*   how the attempts so far went,
    verdict         \*   what the caller gets

disk   == <<selectorRows, toWrite, rebuilds, predictions, summary, gate, evaluated>>
guard  == <<chain, attempts, verdict>>
plan   == <<rowsRead, gateRead, predictionRead, artifact, decision>>
vars   == <<disk, request, pc, plan, guard>>

Fallback == INSTANCE FallbackContract

Requests == [matrix : Matrices, mode : {"shadow", "promote_if_safe"},
             fallback : Candidates \cup {None}]

\* What the file says of the call's matrix: the candidate that the ranker of a
\* training run selects, None when it says nothing, and whether its confidence
\* reaches min_confidence.
Predictions == [model : Models, run : 1 .. MaxRuns, written : BOOLEAN,
                candidate : Candidates \cup {None}, confident : BOOLEAN]

Summaries == [model : Models, run : 1 .. MaxRuns]

\* challenger_runtime_eligible holds exactly when runtime_selected_model_id is
\* the challenger's; runtime_selector_changed is always False.
Gates == [passed : BOOLEAN, eligible : BOOLEAN, model : Models, run : 1 .. MaxRuns]

AtMostOneGate == {<<>>} \cup {<<g>> : g \in Gates}

\* A CsrCandidateSelection: the rows its plans were built from, the plan to
\* start with first.
Selections == [plans : Seq(Nat), reason : {"profiled_success", "fallback_no_profile",
                                           "learned_guard_promoted"}]

GuardStatuses == {"shadow_only", "blocked_no_prediction", "blocked_quality_gate",
                  "blocked_confidence", "blocked_non_success_candidate", "promoted",
                  "blocked_fallback_chain"}

Decisions == [status : GuardStatuses, source : {"artifact", "learned"},
              enforced : BOOLEAN, selection : Selections]

-----------------------------------------------------------------------------
TypeOK ==
    /\ selectorRows \in Seq(Row)
    /\ toWrite \in Seq(Row)
    /\ rebuilds \in 0 .. MaxRebuilds
    /\ predictions \in Predictions
    /\ summary \in Summaries
    /\ gate \in AtMostOneGate
    /\ evaluated \in AtMostOneGate
    /\ request \in Requests
    /\ pc \in {"selector", "gate", "prediction", "decide", "execute", "returned", "raised"}
    /\ rowsRead \in Seq(Row)
    /\ gateRead \in AtMostOneGate
    /\ predictionRead \in {p \in Predictions : p.candidate # None} \cup {None}
    /\ artifact \in Selections
    /\ decision \in Decisions
    /\ chain \in Nat
    /\ attempts \in Seq({"acceptable", "unacceptable"})
    /\ verdict \in {"open", "accepted", "refused"}

NoSelection == [plans |-> <<>>, reason |-> "fallback_no_profile"]

\* One training run is done, and evaluated; the call has not read anything.
Init ==
    /\ selectorRows \in SelectorFiles
    /\ toWrite = <<>>
    /\ rebuilds = 0
    /\ predictions \in {p \in Predictions : p.run = 1 /\ p.written}
    /\ summary = [model |-> predictions.model, run |-> 1]
    /\ gate \in {<<g>> : g \in {h \in Gates : h.run = 1 /\ h.model = summary.model}}
    /\ evaluated = <<>>
    /\ request \in Requests
    /\ pc = "selector"
    /\ rowsRead = <<>>
    /\ gateRead = <<>>
    /\ predictionRead = None
    /\ artifact = NoSelection
    /\ decision = [status |-> "shadow_only", source |-> "artifact", enforced |-> FALSE,
                   selection |-> NoSelection]
    /\ chain = 0
    /\ attempts = <<>>
    /\ verdict = "open"

(* The programs that write the files.                                      *)

Elsewhere == UNCHANGED <<request, pc, plan, guard>>

\* tss_export_csr_selector_rows truncates the file, then writes row by row.
BeginExport ==
    /\ rebuilds < MaxRebuilds
    /\ toWrite = <<>>
    /\ toWrite' \in SelectorFiles
    /\ selectorRows' = <<>>
    /\ rebuilds' = rebuilds + 1
    /\ UNCHANGED <<predictions, summary, gate, evaluated>> /\ Elsewhere

ExportRow ==
    /\ toWrite # <<>>
    /\ selectorRows' = Append(selectorRows, Head(toWrite))
    /\ toWrite' = Tail(toWrite)
    /\ UNCHANGED <<rebuilds, predictions, summary, gate, evaluated>> /\ Elsewhere

\* tss_csr_transformer_ranker truncates the predictions of the last run ...
BeginTraining ==
    /\ predictions.run < MaxRuns
    /\ summary.run = predictions.run
    /\ \E model \in Models :
           predictions' = [model |-> model, run |-> predictions.run + 1,
                           written |-> FALSE, candidate |-> None, confident |-> FALSE]
    /\ UNCHANGED <<selectorRows, toWrite, rebuilds, summary, gate, evaluated>> /\ Elsewhere

\* ... writes its own, which may say nothing of the call's matrix ...
WritePredictions ==
    /\ ~predictions.written
    /\ \E candidate \in Candidates \cup {None}, confident \in BOOLEAN :
           predictions' = [predictions EXCEPT !.written = TRUE, !.candidate = candidate,
                                              !.confident = confident]
    /\ UNCHANGED <<selectorRows, toWrite, rebuilds, summary, gate, evaluated>> /\ Elsewhere

\* ... and then its summary.
WriteSummary ==
    /\ predictions.written
    /\ summary.run # predictions.run
    /\ summary' = [model |-> predictions.model, run |-> predictions.run]
    /\ UNCHANGED <<selectorRows, toWrite, rebuilds, predictions, gate, evaluated>> /\ Elsewhere

\* tss_csr_transformer_quality_gate takes the model and its rates from the
\* summary; without predictions it has no request to pass with.  Then it
\* truncates the file of its last summary ...
EvaluateGate ==
    /\ evaluated = <<>>
    /\ \E passed \in BOOLEAN, eligible \in BOOLEAN :
           /\ passed => predictions.written
           /\ evaluated' = <<[passed |-> passed, eligible |-> eligible,
                              model |-> summary.model, run |-> summary.run]>>
    /\ gate' = <<>>
    /\ UNCHANGED <<selectorRows, toWrite, rebuilds, predictions, summary>> /\ Elsewhere

\* ... and writes the new one.
WriteGate ==
    /\ evaluated # <<>>
    /\ gate' = evaluated
    /\ evaluated' = <<>>
    /\ UNCHANGED <<selectorRows, toWrite, rebuilds, predictions, summary>> /\ Elsewhere

-----------------------------------------------------------------------------
(* The call.                                                               *)

Raise ==
    /\ pc' = "raised"
    /\ UNCHANGED <<disk, request, guard>>

\* An export in flight may leave a row cut in two, which is no JSON.
SelectorReadRaises ==
    /\ pc = "selector"
    /\ toWrite # <<>>
    /\ Raise
    /\ UNCHANGED plan

\* from_selector_rows and select, on the rows that are there.  The selector
\* raises when it does not know the configured fallback candidate or when it
\* has no success to fall back on.
ReadSelector ==
    /\ pc = "selector"
    /\ rowsRead' = selectorRows
    /\ LET known == {rowsRead'[i].candidate : i \in DOMAIN rowsRead'} IN
       \/ /\ request.fallback \in known \cup {None}
          /\ artifact' \in ArtifactSelections(rowsRead', request.matrix, request.fallback)
          /\ pc' = "gate"
          /\ UNCHANGED <<disk, request, gateRead, predictionRead, decision, guard>>
       \/ /\ \/ request.fallback \notin known \cup {None}
             \/ Successes(rowsRead') = {}
          /\ Raise
          /\ UNCHANGED <<gateRead, predictionRead, artifact, decision>>

\* Mutant of ReadGate: it waits until the file is there.
ReadGateWaits ==
    /\ pc = "gate"
    /\ gate # <<>>
    /\ gateRead' = gate
    /\ pc' = "prediction"
    /\ UNCHANGED <<disk, request, rowsRead, predictionRead, artifact, decision, guard>>

\* An empty file is no JSON.
ReadGate ==
    /\ pc = "gate"
    /\ \/ /\ gate # <<>>
          /\ gateRead' = gate
          /\ pc' = "prediction"
          /\ UNCHANGED <<disk, request, rowsRead, predictionRead, artifact, decision, guard>>
       \/ /\ gate = <<>>
          /\ Raise
          /\ UNCHANGED plan

\* Mutant of ReadPrediction: it takes what is there for a prediction.
ReadPredictionUnchecked ==
    /\ pc = "prediction"
    /\ predictionRead' = predictions
    /\ pc' = "decide"
    /\ UNCHANGED <<disk, request, rowsRead, gateRead, artifact, decision, guard>>

\* A file without a row for the request, an empty one included, is no error.
ReadPrediction ==
    /\ pc = "prediction"
    /\ predictionRead' = IF predictions.candidate = None THEN None ELSE predictions
    /\ pc' = "decide"
    /\ UNCHANGED <<disk, request, rowsRead, gateRead, artifact, decision, guard>>

\* Predictions cut in two by a training run in flight are no JSON.
PredictionReadRaises ==
    /\ pc = "prediction"
    /\ ~predictions.written
    /\ Raise
    /\ UNCHANGED plan

\* Mutant of GateEligible: the gate may be about another model.
GateEligibleForAny(summaryRead, model) == summaryRead.passed /\ summaryRead.eligible

\* _quality_gate_runtime_eligible
GateEligible(summaryRead, model) ==
    /\ summaryRead.passed
    /\ summaryRead.eligible
    /\ summaryRead.model = model

\* The decision before its fallback chain is looked at.
Judgement ==
    IF request.mode = "shadow" THEN "shadow_only"
    ELSE IF predictionRead = None THEN "blocked_no_prediction"
    ELSE IF ~GateEligible(gateRead[1], predictionRead.model) THEN "blocked_quality_gate"
    ELSE IF ~predictionRead.confident THEN "blocked_confidence"
    ELSE IF Promotions(rowsRead, request.matrix, predictionRead.candidate) = {}
         THEN "blocked_non_success_candidate"
    ELSE "promoted"

\* Mutant of Decided: the promoted selection is not taken back.
DecidedKeepsSelection(status, selection) ==
    IF ChainIsEnforced(rowsRead, selection)
    THEN [status |-> status, source |-> IF status = "promoted" THEN "learned" ELSE "artifact",
          enforced |-> TRUE, selection |-> selection]
    ELSE [status |-> "blocked_fallback_chain", source |-> "artifact",
          enforced |-> FALSE, selection |-> selection]

\* The selection to run, and the decision that names it: a chain that is not
\* enforced gives way to the artifact's selection, whatever that chain is.
Decided(status, selection) ==
    IF ChainIsEnforced(rowsRead, selection)
    THEN [status |-> status, source |-> IF status = "promoted" THEN "learned" ELSE "artifact",
          enforced |-> TRUE, selection |-> selection]
    ELSE [status |-> "blocked_fallback_chain", source |-> "artifact",
          enforced |-> FALSE, selection |-> artifact]

Decide ==
    /\ pc = "decide"
    /\ \E selection \in IF Judgement = "promoted"
                        THEN Promotions(rowsRead, request.matrix, predictionRead.candidate)
                        ELSE {artifact} :
           decision' = Decided(Judgement, selection)
    /\ chain' = Len(decision'.selection.plans)
    /\ pc' = "execute"
    /\ UNCHANGED <<disk, request, rowsRead, gateRead, predictionRead, artifact,
                   attempts, verdict>>

\* execute_with_fallback_guard over the plans of the selection: plan k is run by
\* the k-th attempt.  Given up before any attempt, the guard's assertion fails.
Execute ==
    /\ pc = "execute"
    /\ Fallback!ContractNext
    /\ pc' = IF verdict' = "open" THEN "execute"
             ELSE IF attempts' = <<>> THEN "raised" ELSE "returned"
    /\ UNCHANGED <<disk, request, plan>>

CallStep == SelectorReadRaises \/ ReadSelector \/ ReadGate
            \/ PredictionReadRaises \/ ReadPrediction \/ Decide \/ Execute

Pipeline == BeginExport \/ ExportRow \/ BeginTraining \/ WritePredictions \/ WriteSummary
            \/ EvaluateGate \/ WriteGate

Done == pc \in {"returned", "raised"}

\* Once the call has read the last file, the others' steps change nothing for
\* it: the model leaves them out.
Reading == pc \in {"selector", "gate", "prediction"}

Finished == Done /\ UNCHANGED vars

Next == CallStep \/ (Pipeline /\ Reading) \/ Finished

\* The call is one thread that is never blocked; nothing is asked of the other
\* programs.
Spec == Init /\ [][Next]_vars /\ WF_vars(CallStep)

-----------------------------------------------------------------------------
Planned == pc = "execute" \/ (Done /\ decision.selection.plans # <<>>)

\* The rows whose plans were attempted so far, in order.
Executed == [k \in DOMAIN attempts |-> rowsRead[decision.selection.plans[k]]]

\* Whatever the learned policy says and whatever the chain, a plan that runs was
\* built from a row of a success that the call has read; and the row is one of
\* the call's matrix, or no row of a success was.
ExecutedAreProfiledSuccesses ==
    \A k \in DOMAIN Executed :
        /\ IsSuccess(Executed[k])
        /\ (Executed[k].matrix = request.matrix) \/ (Feasible(rowsRead, request.matrix) = {})

\* A learned candidate is run first only in promote_if_safe, with a gate that
\* passed for the model of the prediction, enough confidence, and a success of
\* that candidate on the call's matrix.
PromotedIsSafe ==
    (Planned /\ decision.source = "learned") =>
        /\ decision.status = "promoted"
        /\ request.mode = "promote_if_safe"
        /\ gateRead[1].passed /\ gateRead[1].eligible
        /\ gateRead[1].model = predictionRead.model
        /\ predictionRead.confident
        /\ \E i \in Feasible(rowsRead, request.matrix) :
               /\ rowsRead[i].candidate = predictionRead.candidate
               /\ decision.selection.plans[1] = i

\* Without a promotion the learned policy changes nothing: the chain is the
\* artifact's own, and its first plan is no slower than any success of the
\* matrix.
UnpromotedRunsArtifact ==
    (Planned /\ decision.status # "promoted") =>
        /\ decision.source = "artifact"
        /\ decision.selection = artifact
        /\ \A i \in Feasible(rowsRead, request.matrix) :
               rowsRead[decision.selection.plans[1]].time <= rowsRead[i].time

\* Where the decision says that the chain is enforced, no candidate is tried
\* twice; and a result of a fallback is never one of the candidate that the
\* decision names, enforced or not.
EnforcedTriesEachOnce ==
    /\ decision.enforced =>
           \A a, b \in DOMAIN Executed : a # b => Executed[a].candidate # Executed[b].candidate
    /\ \A a \in DOMAIN Executed : a # 1 => Executed[a].candidate # Executed[1].candidate

DuplicateRows ==
    \E i, j \in DOMAIN rowsRead :
        /\ i # j
        /\ rowsRead[i].matrix = rowsRead[j].matrix
        /\ rowsRead[i].candidate = rowsRead[j].candidate

\* A chain is blocked only on a matrix without a success, where the chain is
\* every success of the file, or when the file has two rows for one candidate
\* on one matrix.
BlockedOnlyWithoutProfile ==
    (Planned /\ decision.status = "blocked_fallback_chain") =>
        Feasible(rowsRead, request.matrix) = {} \/ DuplicateRows

\* The call ends, whatever the other programs do to the files.
CallEnds == <>Done

\* "Offline quality gate: require model evaluation evidence before runtime
\* eligibility" (README.md): a promoted prediction is one of the training run
\* that the gate evaluated.
PromotionHasEvidence ==
    (Planned /\ decision.status = "promoted") => gateRead[1].run = predictionRead.run
=============================================================================
