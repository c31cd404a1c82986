---- MODULE ModelLifecycle ----
(* The way of a ranker model from its training to a package that says what it may be used for. In
   the workspace every step is a script of its own, run whenever its owner likes: training, replay,
   quality gate, model artifact, guard smoke, guarded solve on the GPU, acceptance, submission. An
   intake runs the same steps in one process, in a directory of its own, for a checkpoint that
   somebody hands in, except that the guarded solve it counts is the one of the workspace.

   A step takes its evidence from the files that the others left; they carry a status and a model
   id, which every training shares unless told otherwise, and here also, so that properties can
   tell, the model they are really about. What numbers decide (whether an evaluation comes out
   well, a confidence is high enough, a solve converges, a package is complete) may go either way
   at each step. Only the acceptance is taken apart, as it reads the gate and the model again and
   again: every other script reads and writes in one step. *)
EXTENDS Integers, Sequences, FiniteSets

CONSTANTS
  Models,        \* the trained models, told apart by what they predict
  External,      \* those that are not trained in the workspace
  IdOf,          \* the model_id of each
  MaxTrainings,  \* bound: trainings in the workspace
  MaxRuns,       \* bound: runs of the other scripts in the workspace
  MaxIntakes     \* bound: intakes

ASSUME ModelsAssumption == External \subseteq Models /\ Models \ External # {}
ASSUME BoundsAssumption == MaxTrainings \in Nat /\ MaxRuns \in Nat /\ MaxIntakes \in Nat

Places == {"workspace", "intake"}

VARIABLES
  model,        \* of each place, the saved model
  predictions,  \* the model whose predictions are in the file
  ranked,       \* the model that the ranker summary is about
  unwritten,    \* the files that a training has still to write
  trained,      \* the model of that training
  replay,       \* the replay summary
  gate,         \* the quality gate summary
  artifact,     \* the model that the policy model artifact is of; nobody reads its status
  guarded,      \* the model that the guard smoke is of; nobody reads its status either
  smoke,        \* the summary of the guarded solve, in the workspace only
  accepting,    \* the places where an acceptance is under way
  evidence,     \* what it has read
  planned,      \* how many of the two acceptance matrices it has planned
  changed,      \* whether the guard let the model change the plan of one
  acceptance,   \* the acceptance summary
  submission,   \* the submission summary and its packaged model
  stage,        \* where the intake is
  checkpoint,   \* the model that was handed in
  clean,        \* whether every stage so far has passed
  intake,       \* the intake summary
  trainings, scripts, intakes  \* how many there were
training == <<model, predictions, ranked, unwritten, trained>>
summaries == <<replay, gate, artifact, guarded, smoke>>
accept == <<accepting, evidence, planned, changed, acceptance>>
intaking == <<checkpoint, intake, intakes>>
progress == <<stage, clean, scripts>>
vars == <<training, summaries, accept, submission, intaking, progress, trainings>>

Gates == [passed : BOOLEAN, eligible : BOOLEAN, model : Models, scored : Models]
Replays == [exact : BOOLEAN, model : Models]
Smokes == [passed : BOOLEAN, model : Models, gate : Gates]
Evidences == [model : Models, gate : Gates, replay : Replays, smoke : Smokes]
Acceptances == [shadow : BOOLEAN, promotion : BOOLEAN, evidence : Evidences]
RankerFiles == {"model", "predictions", "ranked"}

\* The stages of an intake, each with the one after it.
After == [adapter |-> "replay", replay |-> "quality_gate",
          quality_gate |-> "policy_model_artifact", policy_model_artifact |-> "learned_guard",
          learned_guard |-> "acceptance", acceptance |-> "submission",
          submission |-> "summary", summary |-> "done"]
Stages == DOMAIN After

TypeOK ==
  /\ model \in [Places -> Models] /\ predictions \in [Places -> Models]
  /\ ranked \in [Places -> Models]
  /\ unwritten \in Seq(RankerFiles) /\ trained \in Models
  /\ replay \in [Places -> Replays]
  /\ gate \in [Places -> Gates]
  /\ artifact \in [Places -> Models] /\ guarded \in [Places -> Models]
  /\ smoke \in Smokes
  /\ accepting \subseteq Places /\ ("intake" \in accepting => stage = "acceptance")
  /\ evidence \in [Places -> Evidences]
  /\ planned \in [Places -> 0 .. 2] /\ changed \in [Places -> BOOLEAN]
  /\ acceptance \in [Places -> Acceptances]
  /\ submission \in [Places -> [ready : BOOLEAN, promotion : BOOLEAN, model : Models]]
  /\ stage \in Stages \cup {"done", "stopped"}
  /\ checkpoint \in Models /\ clean \in BOOLEAN
  /\ intake \in [passed : BOOLEAN, promotion : BOOLEAN]
  /\ trainings \in 0 .. MaxTrainings /\ scripts \in 0 .. MaxRuns /\ intakes \in 0 .. MaxIntakes

-------------------------------------------------------------------------------
\* A workspace where every step has run in its turn for one model, as in the committed one, where
\* the gate holds the model back, and an intake of that model. Where the gate does not hold it
\* back, the guarded solve, the acceptance and the submission fail.
Settled(m, held) ==
  LET scores == [passed |-> TRUE, eligible |-> ~held, model |-> m, scored |-> m]
      exact == [exact |-> TRUE, model |-> m]
      solved == [passed |-> held, model |-> m, gate |-> scores]
      all == [model |-> m, gate |-> scores, replay |-> exact, smoke |-> solved]
      Everywhere(file) == [p \in Places |-> file]
  IN /\ model = Everywhere(m) /\ predictions = Everywhere(m) /\ ranked = Everywhere(m)
     /\ unwritten = <<>> /\ trained = m
     /\ replay = Everywhere(exact) /\ gate = Everywhere(scores)
     /\ artifact = Everywhere(m) /\ guarded = Everywhere(m)
     /\ smoke = solved
     /\ accepting = {} /\ evidence = Everywhere(all)
     /\ planned = Everywhere(2) /\ changed = Everywhere(FALSE)
     /\ acceptance = Everywhere([shadow |-> held, promotion |-> FALSE, evidence |-> all])
     /\ submission = Everywhere([ready |-> held, promotion |-> FALSE, model |-> m])
     /\ stage = "done" /\ checkpoint = m /\ clean = held
     /\ intake = [passed |-> held, promotion |-> FALSE]
     /\ trainings = 0 /\ scripts = 0 /\ intakes = 0

Init == \E m \in Models \ External, held \in BOOLEAN : Settled(m, held)

\* The training script has trained a model; the file it writes first is the model.
Train ==
  /\ unwritten = <<>> /\ trainings < MaxTrainings
  /\ trained' \in Models \ External
  /\ unwritten' = <<"model", "predictions", "ranked">>
  /\ trainings' = trainings + 1
  /\ UNCHANGED <<model, predictions, ranked, summaries, accept, submission, intaking, progress>>

WriteTrained ==
  /\ unwritten # <<>> /\ unwritten' = Tail(unwritten)
  /\ LET Written(name, file) ==
           IF Head(unwritten) = name THEN [file EXCEPT !["workspace"] = trained] ELSE file
     IN /\ model' = Written("model", model)
        /\ predictions' = Written("predictions", predictions)
        /\ ranked' = Written("ranked", ranked)
  /\ UNCHANGED <<trained, summaries, accept, submission, intaking, progress, trainings>>

\* A step is taken by its script in the workspace, and by the intake when it is there; an intake
\* goes on to the next stage whatever the status, and remembers it.
Turn(p, s) ==
  \/ p = "intake" /\ stage = s
  \/ p = "workspace" /\ scripts < MaxRuns
Over(p, s, passed) ==
  \/ /\ p = "intake" /\ stage' = After[s]
     /\ clean' = (clean /\ passed)
     /\ UNCHANGED scripts
  \/ p = "workspace" /\ scripts' = scripts + 1 /\ UNCHANGED <<stage, clean>>

\* The saved model is applied to the present tensors and compared with the predictions on file.
Replay(p) ==
  /\ Turn(p, "replay")
  /\ \E exact, valid \in BOOLEAN :
       /\ exact => predictions[p] = model[p]
       /\ replay' = [replay EXCEPT ![p] = [exact |-> exact, model |-> model[p]]]
       /\ Over(p, "replay", exact /\ valid)
  /\ UNCHANGED <<training, gate, artifact, guarded, smoke, accept, submission, intaking, trainings>>

\* Mutant: every gate counts the predictions of the workspace.
EvaluateGateOfWorkspace(p) ==
  /\ Turn(p, "quality_gate")
  /\ \E passed, eligible \in BOOLEAN :
       /\ gate' = [gate EXCEPT ![p] = [passed |-> passed, eligible |-> eligible,
                                       model |-> ranked[p], scored |-> predictions["workspace"]]]
       /\ Over(p, "quality_gate", passed)
  /\ UNCHANGED <<training, replay, artifact, guarded, smoke, accept, submission, intaking,
                 trainings>>

\* Rates and model id are those of the ranker summary, oracle counts those of the predictions.
EvaluateGate(p) ==
  /\ Turn(p, "quality_gate")
  /\ \E passed, eligible \in BOOLEAN :
       /\ gate' = [gate EXCEPT ![p] = [passed |-> passed, eligible |-> eligible,
                                       model |-> ranked[p], scored |-> predictions[p]]]
       /\ Over(p, "quality_gate", passed)
  /\ UNCHANGED <<training, replay, artifact, guarded, smoke, accept, submission, intaking,
                 trainings>>

\* The artifact is written, and loaded by the others, whether it is ready or not.
BuildArtifact(p) ==
  /\ Turn(p, "policy_model_artifact")
  /\ artifact' = [artifact EXCEPT ![p] = model[p]]
  /\ \E ready \in BOOLEAN :
       (ready => replay[p].exact) /\ Over(p, "policy_model_artifact", ready)
  /\ UNCHANGED <<training, replay, gate, guarded, smoke, accept, submission, intaking, trainings>>

\* Past this, the guard asks for a confident prediction of a profiled success.
GateOpen(g, m) == g.passed /\ g.eligible /\ IdOf[g.model] = IdOf[m]

\* Mutant: the guard smoke passes when nothing is promoted.
TryGuardUnpromoted(p) ==
  /\ Turn(p, "learned_guard")
  /\ \E passed \in BOOLEAN :
       Over(p, "learned_guard", passed)
  /\ guarded' = [guarded EXCEPT ![p] = model[p]]
  /\ UNCHANGED <<training, replay, gate, artifact, smoke, accept, submission, intaking, trainings>>

\* The guard smoke passes only when the gate is what holds the model back.
TryGuard(p) ==
  /\ Turn(p, "learned_guard")
  /\ \E passed \in BOOLEAN :
       (passed => ~GateOpen(gate[p], model[p])) /\ Over(p, "learned_guard", passed)
  /\ guarded' = [guarded EXCEPT ![p] = model[p]]
  /\ UNCHANGED <<training, replay, gate, artifact, smoke, accept, submission, intaking, trainings>>

\* Mutant: the guarded solves count as passed when the learned model is promoted, too.
SmokeSolvePromoted ==
  /\ Turn("workspace", "none")
  /\ \E passed \in BOOLEAN :
       smoke' = [passed |-> passed, model |-> model["workspace"], gate |-> gate["workspace"]]
  /\ Over("workspace", "none", TRUE)
  /\ UNCHANGED <<training, replay, gate, artifact, guarded, accept, submission, intaking, trainings>>

\* The solves of the smoke count only when the gate holds the model back.
SmokeSolve ==
  /\ Turn("workspace", "none")
  /\ \E passed \in BOOLEAN :
       /\ passed => ~GateOpen(gate["workspace"], model["workspace"])
       /\ smoke' = [passed |-> passed, model |-> model["workspace"], gate |-> gate["workspace"]]
  /\ Over("workspace", "none", TRUE)
  /\ UNCHANGED <<training, replay, gate, artifact, guarded, accept, submission, intaking, trainings>>

\* Acceptance reads every summary and the model once; of the guard smoke it looks only at the
\* flags, which are always set, and its guarded solve is the one of the workspace.
ReadEvidence(p) ==
  /\ p \notin accepting /\ Turn(p, "acceptance")
  /\ accepting' = accepting \cup {p}
  /\ evidence' = [evidence EXCEPT ![p] = [model |-> model[p], gate |-> gate[p],
                                          replay |-> replay[p], smoke |-> smoke]]
  /\ planned' = [planned EXCEPT ![p] = 0] /\ changed' = [changed EXCEPT ![p] = FALSE]
  /\ scripts' = IF p = "workspace" THEN scripts + 1 ELSE scripts
  /\ UNCHANGED <<training, summaries, acceptance, submission, intaking, stage, clean, trainings>>

\* Mutant: one matrix more than the acceptance has.
PlanMatrixMore(p) ==
  /\ p \in accepting /\ planned[p] <= 2
  /\ planned' = [planned EXCEPT ![p] = @ + 1]
  /\ \E promoted \in BOOLEAN :
       /\ promoted => GateOpen(gate[p], model[p])
       /\ changed' = [changed EXCEPT ![p] = @ \/ promoted]
  /\ UNCHANGED <<training, summaries, accepting, evidence, acceptance, submission, intaking,
                 progress, trainings>>

\* For each matrix, the guard reads the gate and the model again, as they are now.
PlanMatrix(p) ==
  /\ p \in accepting /\ planned[p] < 2
  /\ planned' = [planned EXCEPT ![p] = @ + 1]
  /\ \E promoted \in BOOLEAN :
       /\ promoted => GateOpen(gate[p], model[p])
       /\ changed' = [changed EXCEPT ![p] = @ \/ promoted]
  /\ UNCHANGED <<training, summaries, accepting, evidence, acceptance, submission, intaking,
                 progress, trainings>>

\* Mutant: the status of the guarded solve is not looked at.
DecideWithoutSmoke(p) ==
  /\ p \in accepting /\ planned[p] = 2
  /\ LET e == evidence[p]
         sound == e.gate.passed /\ e.replay.exact /\ ~changed[p]
     IN \E shadow \in BOOLEAN :
          /\ shadow => sound
          /\ acceptance' = [acceptance EXCEPT ![p] =
               [shadow |-> shadow, promotion |-> shadow /\ e.gate.eligible, evidence |-> e]]
          /\ IF p = "workspace"
             THEN UNCHANGED progress
             ELSE Over(p, "acceptance", shadow)
  /\ accepting' = accepting \ {p}
  /\ UNCHANGED <<training, summaries, evidence, planned, changed, submission, intaking, trainings>>

\* Shadow use takes all of the evidence; promotion takes the gate's word as well.
Decide(p) ==
  /\ p \in accepting /\ planned[p] = 2
  /\ LET e == evidence[p]
         sound == e.gate.passed /\ e.replay.exact /\ e.smoke.passed /\ ~changed[p]
     IN \E shadow \in BOOLEAN :
          /\ shadow => sound
          /\ acceptance' = [acceptance EXCEPT ![p] =
               [shadow |-> shadow, promotion |-> shadow /\ e.gate.eligible, evidence |-> e]]
          /\ IF p = "workspace"
             THEN UNCHANGED progress
             ELSE Over(p, "acceptance", shadow)
  /\ accepting' = accepting \ {p}
  /\ UNCHANGED <<training, summaries, evidence, planned, changed, submission, intaking, trainings>>

\* The package holds the model as it is now, and the word of the acceptance on file.
Submit(p) ==
  /\ Turn(p, "submission")
  /\ \E ready \in BOOLEAN :
       /\ ready => acceptance[p].shadow
       /\ submission' = [submission EXCEPT ![p] =
            [ready |-> ready, promotion |-> ready /\ acceptance[p].promotion, model |-> model[p]]]
       /\ Over(p, "submission", ready)
  /\ UNCHANGED <<training, summaries, accept, intaking, trainings>>

BeginIntake ==
  /\ stage \in {"done", "stopped"} /\ intakes < MaxIntakes
  /\ checkpoint' \in Models /\ stage' = "adapter" /\ clean' = TRUE
  /\ intakes' = intakes + 1
  /\ UNCHANGED <<training, summaries, accept, submission, intake, scripts, trainings>>

\* The adapter makes the files of a training out of the checkpoint.
Adapt ==
  /\ stage = "adapter"
  /\ model' = [model EXCEPT !["intake"] = checkpoint]
  /\ predictions' = [predictions EXCEPT !["intake"] = checkpoint]
  /\ ranked' = [ranked EXCEPT !["intake"] = checkpoint]
  /\ \E passed \in BOOLEAN : Over("intake", "adapter", passed)
  /\ UNCHANGED <<unwritten, trained, summaries, accept, submission, intaking, trainings>>

Conclude ==
  /\ stage = "summary" /\ stage' = "done"
  /\ intake' = [passed |-> clean, promotion |-> clean /\ submission["intake"].promotion]
  /\ UNCHANGED <<training, summaries, accept, submission, checkpoint, clean, scripts, intakes,
                 trainings>>

\* A stage raises, or the intake is killed; what its directory holds stays there.
Interrupt ==
  /\ stage \in Stages /\ stage' = "stopped"
  /\ accepting' = accepting \ {"intake"}
  /\ UNCHANGED <<training, summaries, evidence, planned, changed, acceptance, submission, intaking,
                 clean, scripts, trainings>>

Next ==
  \/ Train \/ WriteTrained \/ SmokeSolve
  \/ \E p \in Places : Replay(p) \/ EvaluateGate(p) \/ BuildArtifact(p) \/ TryGuard(p)
                       \/ ReadEvidence(p) \/ PlanMatrix(p) \/ Decide(p) \/ Submit(p)
  \/ BeginIntake \/ Adapt \/ Conclude \/ Interrupt
Spec == Init /\ [][Next]_vars

-------------------------------------------------------------------------------
\* Whatever happens in the workspace meanwhile, all that a completed intake has on file, but for
\* the guarded solve, is about the checkpoint that was handed in
\* (csr_external_model_intake.py:70-214).
IntakeIsOfOneModel ==
  stage = "done" =>
    /\ {f["intake"] : f \in {model, predictions, ranked, artifact, guarded}} = {checkpoint}
    /\ {gate["intake"].model, gate["intake"].scored} = {checkpoint}
    /\ {f["intake"].model : f \in {replay, submission}} = {checkpoint}
    /\ acceptance["intake"].evidence.gate = gate["intake"]

\* No intake says that its model may be promoted, and it passes only a model that the gate holds
\* back: the stage of the guard wants the gate to block (_build_learned_guard_checks,
\* csr_external_model_intake.py), and promotion wants it open.
PassedIntakeIsBlocked ==
  /\ ~intake.promotion
  /\ stage = "done" /\ intake.passed => ~gate["intake"].eligible

\* An acceptance for promotion counts a guarded solve made under another gate or another model id
\* than its own: the solve passes only where its own gate is closed
\* (csr_policy_model_acceptance.py:188-293).
PromotionIsOnOtherEvidence ==
  \A p \in Places :
    LET e == acceptance[p].evidence
    IN acceptance[p].promotion =>
         e.smoke.gate # e.gate \/ IdOf[e.smoke.model] # IdOf[e.gate.model]

\* What is handed in from outside passes without its own model ever having run on the GPU: the
\* guarded solve that the acceptance counts is of a model that was trained in the workspace.
OutsiderHasNoSmoke ==
  stage = "done" /\ intake.passed /\ checkpoint \in External =>
    /\ acceptance["intake"].evidence.smoke.passed
    /\ acceptance["intake"].evidence.smoke.model \in Models \ External
====
