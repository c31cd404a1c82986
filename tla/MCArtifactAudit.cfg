\* From the blocked-gap training data to the package that is handed over, the submission and the
\* intake that the package checks, and the report. The audit looks at the last two too late.
CONSTANTS
  KeptNames = {"artifact_manifest.json",
               "csr_blocked_gap_training_tensors.json",
               "csr_blocked_gap_training_integration_summary.json",
               "csr_blocked_gap_augmented_ranker_model.json",
               "csr_transformer_handoff_bundle_rows.jsonl",
               "csr_transformer_handoff_bundle_summary.json",
               "csr_transformer_training_package_manifest.json",
               "csr_transformer_training_package_summary.json",
               "csr_transformer_package_consumer_dry_run_summary.json",
               "csr_policy_model_submission_manifest.json",
               "csr_external_model_intake_summary.json",
               "campaign_summary.json"}
  KeptSources = {"csr_queue_training_pool_selector_rows.jsonl", "csr_policy_model_artifact.json"}
  Stages <- Kept
  Files <- PartFiles
  Reads <- PartReads
  Parses <- PartParses
  RowFiles <- PartRowFiles
  Tracks <- PartTracks
  Writes <- PartWrites
  Manifests <- PartManifests
  Status <- PartStatus
  Opens <- PartOpens
  AuditOrder <- PartOrder
  Reporters <- PartReporters
  Sums <- PartSums
  SumsIn <- PartSumsIn
  SumsOf <- PartSumsOf
  Checkers <- PartCheckers
  Rehashed <- PartRehashed
  MaxRunning = 2
  MaxFaults = 2
SPECIFICATION Spec
INVARIANTS TypeOK AuditedIsCurrent TornInputsAreFound
PROPERTIES RepairConverges RepairsAreKept
