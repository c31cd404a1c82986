CONSTANTS
  r1 = r1
  r2 = r2
  ext = ext
  Models <- Three
  External = {ext}
  IdOf <- Ids
  MaxTrainings = 1
  MaxRuns = 2
  MaxIntakes = 1
SYMMETRY Trained
SPECIFICATION Spec
INVARIANTS TypeOK IntakeIsOfOneModel PassedIntakeIsBlocked PromotionIsOnOtherEvidence OutsiderHasNoSmoke
CHECK_DEADLOCK FALSE
