---- MODULE ModelLifecycleProofs ----
(* That the invariants of the life cycle hold for any models, ids and bounds. The intake is
   followed stage by stage: each stage that lies behind it has left a file about the checkpoint,
   and nothing but the intake writes to its directory. A guarded solve carries the gate and the
   model it was made with, from the summary into the evidence and on into the acceptance. *)
EXTENDS ModelLifecycle, TLAPS

\* The intake has a stage behind it when it is neither there nor before it, and was not stopped.
Behind(stages) == stage \notin stages \cup {"stopped"}
ToReplay == {"adapter", "replay"}
ToGate == ToReplay \cup {"quality_gate"}
ToArtifact == ToGate \cup {"policy_model_artifact"}
ToGuard == ToArtifact \cup {"learned_guard"}
ToAcceptance == ToGuard \cup {"acceptance"}
ToSubmission == ToAcceptance \cup {"submission"}

\* What the stages behind the intake have left.
FilesInv ==
  /\ Behind({"adapter"}) => /\ model["intake"] = checkpoint /\ predictions["intake"] = checkpoint
                            /\ ranked["intake"] = checkpoint
  /\ Behind(ToReplay) => replay["intake"].model = checkpoint
  /\ Behind(ToGate) => /\ gate["intake"].model = checkpoint /\ gate["intake"].scored = checkpoint
                       /\ clean => gate["intake"].passed
  /\ Behind(ToArtifact) => artifact["intake"] = checkpoint
  /\ Behind(ToGuard) => guarded["intake"] = checkpoint /\ (clean => ~gate["intake"].eligible)
  /\ "intake" \in accepting => evidence["intake"].gate = gate["intake"]

\* And what the last ones have.
VerdictInv ==
  /\ Behind(ToAcceptance) => /\ acceptance["intake"].evidence.gate = gate["intake"]
                             /\ clean => acceptance["intake"].shadow
  /\ Behind(ToSubmission) =>
       /\ submission["intake"].model = checkpoint
       /\ submission["intake"].promotion => acceptance["intake"].promotion
  /\ stage = "done" => (intake.passed => clean)
  /\ ~intake.promotion

\* A guarded solve is of a model of the workspace, and passed under a gate that held it back.
SoundSmoke(s) ==
  s.model \in Models \ External /\ (s.passed => ~GateOpen(s.gate, s.model))

SmokesInv ==
  /\ model["workspace"] \in Models \ External /\ trained \in Models \ External
  /\ SoundSmoke(smoke)
  /\ \A p \in Places : SoundSmoke(evidence[p].smoke) /\ SoundSmoke(acceptance[p].evidence.smoke)

\* An acceptance says what its evidence allows.
AcceptanceInv ==
  \A p \in Places :
    LET a == acceptance[p]
    IN /\ a.shadow => a.evidence.gate.passed /\ a.evidence.smoke.passed
       /\ a.promotion => a.shadow /\ a.evidence.gate.eligible

IInv == TypeOK /\ FilesInv /\ VerdictInv /\ SmokesInv /\ AcceptanceInv

-------------------------------------------------------------------------------
USE DEF Places, Gates, Replays, Smokes, Evidences, Acceptances, RankerFiles, After, Stages

LEMMA InitInv == Init => IInv
<1> SUFFICES ASSUME Init PROVE IInv
  OBVIOUS
<1> USE ModelsAssumption, BoundsAssumption
<1>1. TypeOK
  BY DEF Init, Settled, TypeOK
<1>2. PICK m \in Models \ External, held \in BOOLEAN : Settled(m, held)
  BY DEF Init
<1> USE <1>2 DEF Settled
<1>3. FilesInv
  BY DEF FilesInv, Behind, ToReplay, ToGate, ToArtifact, ToGuard
<1>4. VerdictInv
  BY DEF VerdictInv, Behind, ToReplay, ToGate, ToArtifact, ToGuard, ToAcceptance, ToSubmission
<1>5. SmokesInv
  <2>1. SoundSmoke(smoke)
    BY DEF SoundSmoke, GateOpen
  <2>2. \A p \in Places : evidence[p].smoke = smoke /\ acceptance[p].evidence.smoke = smoke
    OBVIOUS
  <2> QED
    BY <2>1, <2>2 DEF SmokesInv
<1>6. AcceptanceInv
  BY DEF AcceptanceInv
<1> QED
  BY <1>1, <1>3, <1>4, <1>5, <1>6 DEF IInv

\* Every step keeps the types.
LEMMA TypeStep == TypeOK /\ [Next]_vars => TypeOK'
<1> SUFFICES ASSUME TypeOK, [Next]_vars PROVE TypeOK'
  OBVIOUS
<1> USE ModelsAssumption, BoundsAssumption
<1> USE DEF TypeOK
<1>1. CASE Train
  BY <1>1 DEF Train, Turn, Over, training, summaries, accept, intaking, progress
<1>2. CASE WriteTrained
  BY <1>2 DEF WriteTrained, Turn, Over, training, summaries, accept, intaking, progress
<1>3. CASE SmokeSolve
  BY <1>3 DEF SmokeSolve, Turn, Over, training, summaries, accept, intaking, progress
<1>4. ASSUME NEW p \in Places, Replay(p) PROVE TypeOK'
  BY <1>4 DEF Replay, Turn, Over, training, summaries, accept, intaking, progress
<1>5. ASSUME NEW p \in Places, EvaluateGate(p) PROVE TypeOK'
  BY <1>5 DEF EvaluateGate, Turn, Over, training, summaries, accept, intaking, progress
<1>6. ASSUME NEW p \in Places, BuildArtifact(p) PROVE TypeOK'
  BY <1>6 DEF BuildArtifact, Turn, Over, training, summaries, accept, intaking, progress
<1>7. ASSUME NEW p \in Places, TryGuard(p) PROVE TypeOK'
  BY <1>7 DEF TryGuard, Turn, Over, training, summaries, accept, intaking, progress
<1>8. ASSUME NEW p \in Places, ReadEvidence(p) PROVE TypeOK'
  BY <1>8 DEF ReadEvidence, Turn, Over, training, summaries, accept, intaking, progress
<1>9. ASSUME NEW p \in Places, PlanMatrix(p) PROVE TypeOK'
  BY <1>9 DEF PlanMatrix, Turn, Over, training, summaries, accept, intaking, progress
<1>10. ASSUME NEW p \in Places, Decide(p) PROVE TypeOK'
  BY <1>10 DEF Decide, Turn, Over, training, summaries, accept, intaking, progress
<1>11. ASSUME NEW p \in Places, Submit(p) PROVE TypeOK'
  BY <1>11 DEF Submit, Turn, Over, training, summaries, accept, intaking, progress
<1>12. CASE BeginIntake
  BY <1>12 DEF BeginIntake, Turn, Over, training, summaries, accept, intaking, progress
<1>13. CASE Adapt
  BY <1>13 DEF Adapt, Turn, Over, training, summaries, accept, intaking, progress
<1>14. CASE Conclude
  BY <1>14 DEF Conclude, Turn, Over, training, summaries, accept, intaking, progress
<1>15. CASE Interrupt
  BY <1>15 DEF Interrupt, Turn, Over, training, summaries, accept, intaking, progress
<1>16. CASE UNCHANGED vars
  BY <1>16 DEF vars, training, summaries, accept, intaking, progress
<1> QED
  BY <1>1, <1>2, <1>3, <1>4, <1>5, <1>6, <1>7, <1>8, <1>9,
     <1>10, <1>11, <1>12, <1>13, <1>14, <1>15, <1>16 DEF Next

\* A stage of the intake reads what the stages behind it have left about the checkpoint.
LEMMA FilesStep == TypeOK /\ FilesInv /\ [Next]_vars => FilesInv'
<1> SUFFICES ASSUME TypeOK /\ FilesInv, [Next]_vars PROVE FilesInv'
  OBVIOUS
<1> USE DEF TypeOK, FilesInv, GateOpen, Behind, ToReplay, ToGate, ToArtifact, ToGuard
<1>1. CASE Train
  BY <1>1 DEF Train, Turn, Over, training, summaries, accept, intaking, progress
<1>2. CASE WriteTrained
  BY <1>2 DEF WriteTrained, Turn, Over, training, summaries, accept, intaking, progress
<1>3. CASE SmokeSolve
  BY <1>3 DEF SmokeSolve, Turn, Over, training, summaries, accept, intaking, progress
<1>4. ASSUME NEW p \in Places, Replay(p) PROVE FilesInv'
  BY <1>4 DEF Replay, Turn, Over, training, summaries, accept, intaking, progress
<1>5. ASSUME NEW p \in Places, EvaluateGate(p) PROVE FilesInv'
  BY <1>5 DEF EvaluateGate, Turn, Over, training, summaries, accept, intaking, progress
<1>6. ASSUME NEW p \in Places, BuildArtifact(p) PROVE FilesInv'
  BY <1>6 DEF BuildArtifact, Turn, Over, training, summaries, accept, intaking, progress
<1>7. ASSUME NEW p \in Places, TryGuard(p) PROVE FilesInv'
  BY <1>7 DEF TryGuard, Turn, Over, training, summaries, accept, intaking, progress
<1>8. ASSUME NEW p \in Places, ReadEvidence(p) PROVE FilesInv'
  BY <1>8 DEF ReadEvidence, Turn, Over, training, summaries, accept, intaking, progress
<1>9. ASSUME NEW p \in Places, PlanMatrix(p) PROVE FilesInv'
  BY <1>9 DEF PlanMatrix, Turn, Over, training, summaries, accept, intaking, progress
<1>10. ASSUME NEW p \in Places, Decide(p) PROVE FilesInv'
  BY <1>10 DEF Decide, Turn, Over, training, summaries, accept, intaking, progress
<1>11. ASSUME NEW p \in Places, Submit(p) PROVE FilesInv'
  BY <1>11 DEF Submit, Turn, Over, training, summaries, accept, intaking, progress
<1>12. CASE BeginIntake
  BY <1>12 DEF BeginIntake, Turn, Over, training, summaries, accept, intaking, progress
<1>13. CASE Adapt
  BY <1>13 DEF Adapt, Turn, Over, training, summaries, accept, intaking, progress
<1>14. CASE Conclude
  BY <1>14 DEF Conclude, Turn, Over, training, summaries, accept, intaking, progress
<1>15. CASE Interrupt
  BY <1>15 DEF Interrupt, Turn, Over, training, summaries, accept, intaking, progress
<1>16. CASE UNCHANGED vars
  BY <1>16 DEF vars, training, summaries, accept, intaking, progress
<1> QED
  BY <1>1, <1>2, <1>3, <1>4, <1>5, <1>6, <1>7, <1>8, <1>9,
     <1>10, <1>11, <1>12, <1>13, <1>14, <1>15, <1>16 DEF Next

\* The summary of an intake wants the gate closed and open to say that its model may be promoted.
LEMMA VerdictStep == TypeOK /\ FilesInv /\ VerdictInv /\ AcceptanceInv /\ [Next]_vars => VerdictInv'
<1> SUFFICES ASSUME TypeOK /\ FilesInv /\ VerdictInv /\ AcceptanceInv, [Next]_vars PROVE VerdictInv'
  OBVIOUS
<1> USE DEF TypeOK, FilesInv, VerdictInv, AcceptanceInv, Behind, ToReplay, ToGate, ToArtifact,
            ToGuard, ToAcceptance, ToSubmission
<1>1. CASE Train
  BY <1>1 DEF Train, Turn, Over, training, summaries, accept, intaking, progress
<1>2. CASE WriteTrained
  BY <1>2 DEF WriteTrained, Turn, Over, training, summaries, accept, intaking, progress
<1>3. CASE SmokeSolve
  BY <1>3 DEF SmokeSolve, Turn, Over, training, summaries, accept, intaking, progress
<1>4. ASSUME NEW p \in Places, Replay(p) PROVE VerdictInv'
  BY <1>4 DEF Replay, Turn, Over, training, summaries, accept, intaking, progress
<1>5. ASSUME NEW p \in Places, EvaluateGate(p) PROVE VerdictInv'
  BY <1>5 DEF EvaluateGate, Turn, Over, training, summaries, accept, intaking, progress
<1>6. ASSUME NEW p \in Places, BuildArtifact(p) PROVE VerdictInv'
  BY <1>6 DEF BuildArtifact, Turn, Over, training, summaries, accept, intaking, progress
<1>7. ASSUME NEW p \in Places, TryGuard(p) PROVE VerdictInv'
  BY <1>7 DEF TryGuard, Turn, Over, training, summaries, accept, intaking, progress
<1>8. ASSUME NEW p \in Places, ReadEvidence(p) PROVE VerdictInv'
  BY <1>8 DEF ReadEvidence, Turn, Over, training, summaries, accept, intaking, progress
<1>9. ASSUME NEW p \in Places, PlanMatrix(p) PROVE VerdictInv'
  BY <1>9 DEF PlanMatrix, Turn, Over, training, summaries, accept, intaking, progress
<1>10. ASSUME NEW p \in Places, Decide(p) PROVE VerdictInv'
  BY <1>10 DEF Decide, Turn, Over, training, summaries, accept, intaking, progress
<1>11. ASSUME NEW p \in Places, Submit(p) PROVE VerdictInv'
  BY <1>11 DEF Submit, Turn, Over, training, summaries, accept, intaking, progress
<1>12. CASE BeginIntake
  BY <1>12 DEF BeginIntake, Turn, Over, training, summaries, accept, intaking, progress
<1>13. CASE Adapt
  BY <1>13 DEF Adapt, Turn, Over, training, summaries, accept, intaking, progress
<1>14. CASE Conclude
  BY <1>14 DEF Conclude, Turn, Over, training, summaries, accept, intaking, progress
<1>15. CASE Interrupt
  BY <1>15 DEF Interrupt, Turn, Over, training, summaries, accept, intaking, progress
<1>16. CASE UNCHANGED vars
  BY <1>16 DEF vars, training, summaries, accept, intaking, progress
<1> QED
  BY <1>1, <1>2, <1>3, <1>4, <1>5, <1>6, <1>7, <1>8, <1>9,
     <1>10, <1>11, <1>12, <1>13, <1>14, <1>15, <1>16 DEF Next

\* A guarded solve travels with its gate and its model.
LEMMA SmokesStep == TypeOK /\ SmokesInv /\ [Next]_vars => SmokesInv'
<1> SUFFICES ASSUME TypeOK /\ SmokesInv, [Next]_vars PROVE SmokesInv'
  OBVIOUS
<1> USE DEF TypeOK, SmokesInv, SoundSmoke, GateOpen
<1>1. CASE Train
  BY <1>1 DEF Train, Turn, Over, training, summaries, accept, intaking, progress
<1>2. CASE WriteTrained
  BY <1>2 DEF WriteTrained, Turn, Over, training, summaries, accept, intaking, progress
<1>3. CASE SmokeSolve
  BY <1>3 DEF SmokeSolve, Turn, Over, training, summaries, accept, intaking, progress
<1>4. ASSUME NEW p \in Places, Replay(p) PROVE SmokesInv'
  BY <1>4 DEF Replay, Turn, Over, training, summaries, accept, intaking, progress
<1>5. ASSUME NEW p \in Places, EvaluateGate(p) PROVE SmokesInv'
  BY <1>5 DEF EvaluateGate, Turn, Over, training, summaries, accept, intaking, progress
<1>6. ASSUME NEW p \in Places, BuildArtifact(p) PROVE SmokesInv'
  BY <1>6 DEF BuildArtifact, Turn, Over, training, summaries, accept, intaking, progress
<1>7. ASSUME NEW p \in Places, TryGuard(p) PROVE SmokesInv'
  BY <1>7 DEF TryGuard, Turn, Over, training, summaries, accept, intaking, progress
<1>8. ASSUME NEW p \in Places, ReadEvidence(p) PROVE SmokesInv'
  BY <1>8 DEF ReadEvidence, Turn, Over, training, summaries, accept, intaking, progress
<1>9. ASSUME NEW p \in Places, PlanMatrix(p) PROVE SmokesInv'
  BY <1>9 DEF PlanMatrix, Turn, Over, training, summaries, accept, intaking, progress
<1>10. ASSUME NEW p \in Places, Decide(p) PROVE SmokesInv'
  BY <1>10 DEF Decide, Turn, Over, training, summaries, accept, intaking, progress
<1>11. ASSUME NEW p \in Places, Submit(p) PROVE SmokesInv'
  BY <1>11 DEF Submit, Turn, Over, training, summaries, accept, intaking, progress
<1>12. CASE BeginIntake
  BY <1>12 DEF BeginIntake, Turn, Over, training, summaries, accept, intaking, progress
<1>13. CASE Adapt
  BY <1>13 DEF Adapt, Turn, Over, training, summaries, accept, intaking, progress
<1>14. CASE Conclude
  BY <1>14 DEF Conclude, Turn, Over, training, summaries, accept, intaking, progress
<1>15. CASE Interrupt
  BY <1>15 DEF Interrupt, Turn, Over, training, summaries, accept, intaking, progress
<1>16. CASE UNCHANGED vars
  BY <1>16 DEF vars, training, summaries, accept, intaking, progress
<1> QED
  BY <1>1, <1>2, <1>3, <1>4, <1>5, <1>6, <1>7, <1>8, <1>9,
     <1>10, <1>11, <1>12, <1>13, <1>14, <1>15, <1>16 DEF Next

\* An acceptance is decided on the evidence that it keeps.
LEMMA AcceptanceStep == TypeOK /\ AcceptanceInv /\ [Next]_vars => AcceptanceInv'
<1> SUFFICES ASSUME TypeOK /\ AcceptanceInv, [Next]_vars PROVE AcceptanceInv'
  OBVIOUS
<1> USE DEF TypeOK, AcceptanceInv
<1>1. CASE Train
  BY <1>1 DEF Train, Turn, Over, training, summaries, accept, intaking, progress
<1>2. CASE WriteTrained
  BY <1>2 DEF WriteTrained, Turn, Over, training, summaries, accept, intaking, progress
<1>3. CASE SmokeSolve
  BY <1>3 DEF SmokeSolve, Turn, Over, training, summaries, accept, intaking, progress
<1>4. ASSUME NEW p \in Places, Replay(p) PROVE AcceptanceInv'
  BY <1>4 DEF Replay, Turn, Over, training, summaries, accept, intaking, progress
<1>5. ASSUME NEW p \in Places, EvaluateGate(p) PROVE AcceptanceInv'
  BY <1>5 DEF EvaluateGate, Turn, Over, training, summaries, accept, intaking, progress
<1>6. ASSUME NEW p \in Places, BuildArtifact(p) PROVE AcceptanceInv'
  BY <1>6 DEF BuildArtifact, Turn, Over, training, summaries, accept, intaking, progress
<1>7. ASSUME NEW p \in Places, TryGuard(p) PROVE AcceptanceInv'
  BY <1>7 DEF TryGuard, Turn, Over, training, summaries, accept, intaking, progress
<1>8. ASSUME NEW p \in Places, ReadEvidence(p) PROVE AcceptanceInv'
  BY <1>8 DEF ReadEvidence, Turn, Over, training, summaries, accept, intaking, progress
<1>9. ASSUME NEW p \in Places, PlanMatrix(p) PROVE AcceptanceInv'
  BY <1>9 DEF PlanMatrix, Turn, Over, training, summaries, accept, intaking, progress
<1>10. ASSUME NEW p \in Places, Decide(p) PROVE AcceptanceInv'
  BY <1>10 DEF Decide, Turn, Over, training, summaries, accept, intaking, progress
<1>11. ASSUME NEW p \in Places, Submit(p) PROVE AcceptanceInv'
  BY <1>11 DEF Submit, Turn, Over, training, summaries, accept, intaking, progress
<1>12. CASE BeginIntake
  BY <1>12 DEF BeginIntake, Turn, Over, training, summaries, accept, intaking, progress
<1>13. CASE Adapt
  BY <1>13 DEF Adapt, Turn, Over, training, summaries, accept, intaking, progress
<1>14. CASE Conclude
  BY <1>14 DEF Conclude, Turn, Over, training, summaries, accept, intaking, progress
<1>15. CASE Interrupt
  BY <1>15 DEF Interrupt, Turn, Over, training, summaries, accept, intaking, progress
<1>16. CASE UNCHANGED vars
  BY <1>16 DEF vars, training, summaries, accept, intaking, progress
<1> QED
  BY <1>1, <1>2, <1>3, <1>4, <1>5, <1>6, <1>7, <1>8, <1>9,
     <1>10, <1>11, <1>12, <1>13, <1>14, <1>15, <1>16 DEF Next

-------------------------------------------------------------------------------
\* The invariant that the others follow from: what each stage leaves, and what each verdict and
\* each guarded solve rest on.
THEOREM InvHolds == Spec => []IInv
<1>1. IInv /\ [Next]_vars => IInv'
  BY TypeStep, FilesStep, VerdictStep, SmokesStep, AcceptanceStep DEF IInv
<1> QED
  BY InitInv, <1>1, PTL DEF Spec

\* Every variable keeps its type, for any models and bounds.
THEOREM TypeCorrect == Spec => []TypeOK
<1>1. IInv => TypeOK
  BY DEF IInv
<1> QED
  BY InvHolds, <1>1, PTL

\* A completed intake is about the checkpoint that was handed in, whatever ran in the workspace.
THEOREM IntakeHolds == Spec => []IntakeIsOfOneModel
<1>1. IInv => IntakeIsOfOneModel
  BY DEF IInv, FilesInv, VerdictInv, IntakeIsOfOneModel, Behind, ToReplay, ToGate, ToArtifact,
         ToGuard, ToAcceptance, ToSubmission
<1> QED
  BY InvHolds, <1>1, PTL

\* No intake says that its model may be promoted, nor passes a model that the gate lets through.
THEOREM BlockedHolds == Spec => []PassedIntakeIsBlocked
<1>1. IInv => PassedIntakeIsBlocked
  BY DEF IInv, FilesInv, VerdictInv, PassedIntakeIsBlocked, Behind, ToReplay, ToGate, ToArtifact,
         ToGuard
<1> QED
  BY InvHolds, <1>1, PTL

\* Promotion rests on a guarded solve under another gate or of another model id.
THEOREM PromotionHolds == Spec => []PromotionIsOnOtherEvidence
<1>1. IInv => PromotionIsOnOtherEvidence
  BY DEF IInv, SmokesInv, AcceptanceInv, SoundSmoke, GateOpen, PromotionIsOnOtherEvidence
<1> QED
  BY InvHolds, <1>1, PTL

\* The guarded solve behind an outside model that passes is never its own.
THEOREM OutsiderHolds == Spec => []OutsiderHasNoSmoke
<1>1. IInv => OutsiderHasNoSmoke
  BY DEF IInv, VerdictInv, SmokesInv, AcceptanceInv, SoundSmoke, OutsiderHasNoSmoke, Behind,
         ToReplay, ToGate, ToArtifact, ToGuard, ToAcceptance
<1> QED
  BY InvHolds, <1>1, PTL
====
