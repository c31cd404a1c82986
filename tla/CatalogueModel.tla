---- MODULE CatalogueModel ----
(* The model stages: the blocked-gap pipeline, the hand-off bundle and training package, and the
   life cycle of a ranker from its training data to its acceptance, submission and external intake.
   Of each stage: what its script reads, what it writes into its directory and in which order,
   and the file that carries its status (Run); the files its manifest hashes (Files); and the
   files of the directory that the artifact audit opens besides the manifest (Audit). *)
EXTENDS CatalogueSelector

\* Run blocked CSR candidate-gap CPU-screen integration probe.
CsrBlockedGapProbeOutputs ==
  <<"csr_blocked_gap_matrix_queue.jsonl", "csr_blocked_gap_candidate_queue.jsonl">> \o CsrMicroCampaignOutputs
  \o <<"csr_blocked_gap_probe_summary.json", "csr_blocked_gap_probe_schema.json",
      "csr_blocked_gap_probe_report.md">>
CsrBlockedGapProbeRun ==
  [reads |-> At("csr_queue_batch_00010", {"csr_queue_batch_matrix_queue.jsonl"})
             \cup At("csr_queue_candidate_coverage", {"csr_queue_candidate_coverage_summary.json"})
             \cup External({"matrix_archives"}),
   writes |-> CsrBlockedGapProbeOutputs,
   status |-> "csr_blocked_gap_probe_summary.json"]
CsrBlockedGapProbeFiles ==
  At("csr_queue_batch_00010", {"csr_queue_batch_matrix_queue.jsonl"})
  \cup At("csr_queue_candidate_coverage", {"csr_queue_candidate_coverage_summary.json"})
  \cup Code({"profiling/csr_blocked_gap_probe.py", "profiling/csr_blocked_gap_runtime.py",
           "profiling/csr_blocked_gap_screens.py", "datasets/csr.py", "operators/taichi_csr.py",
           "operators/taichi_diffusion2d.py", "solvers/taichi_cg.py", "solvers/registry.py",
           "backends/registry.py", "runtime/engine.py", "policies/csr_selector_data.py",
           "scripts/tss_csr_blocked_gap_probe.py"})
CsrBlockedGapProbeAudit ==
  {"csr_blocked_gap_matrix_queue.jsonl", "csr_blocked_gap_candidate_queue.jsonl",
    "csr_micro_campaign_results.jsonl", "csr_micro_selector_rows.jsonl",
    "csr_blocked_gap_probe_summary.json", "csr_blocked_gap_probe_schema.json"}

\* Run blocked-gap positive GPU evidence search.
CsrBlockedGapPositiveSearchOutputs ==
  <<"csr_blocked_gap_positive_candidates.jsonl", "csr_blocked_gap_positive_search_rows.jsonl",
      "csr_blocked_gap_positive_results.jsonl", "csr_blocked_gap_positive_search_summary.json",
      "csr_blocked_gap_positive_search_schema.json", "csr_blocked_gap_positive_search_report.md",
      "csr_blocked_gap_positive_diagnostic_rows.jsonl",
      "csr_blocked_gap_positive_selector_rows.jsonl",
      "csr_blocked_gap_positive_selector_summary.json",
      "csr_blocked_gap_positive_selector_schema.json", "csr_blocked_gap_positive_selector_report.md">>
CsrBlockedGapPositiveSearchRun ==
  [reads |-> At("csr_micro_campaign", {"csr_matrices.jsonl"})
             \cup At("csr_queue_batch_00001", {"csr_matrices.jsonl"})
             \cup At("csr_queue_batch_00003", {"csr_matrices.jsonl"})
             \cup At("csr_queue_batch_00004", {"csr_matrices.jsonl"})
             \cup At("csr_queue_batch_00005", {"csr_matrices.jsonl"})
             \cup At("csr_queue_batch_00006", {"csr_matrices.jsonl"})
             \cup At("csr_queue_batch_00007", {"csr_matrices.jsonl"})
             \cup At("csr_queue_batch_00008", {"csr_matrices.jsonl"})
             \cup At("csr_queue_batch_00009", {"csr_matrices.jsonl"})
             \cup At("csr_queue_batch_00010", {"csr_matrices.jsonl"})
             \cup At("suitesparse_csr_import", {"csr_matrices.jsonl"}),
   writes |-> CsrBlockedGapPositiveSearchOutputs,
   status |-> "csr_blocked_gap_positive_search_summary.json"]
CsrBlockedGapPositiveSearchFiles ==
  At("suitesparse_csr_import", {"csr_matrices.jsonl"})
  \cup At("csr_micro_campaign", {"csr_matrices.jsonl"})
  \cup At("csr_queue_batch_00001", {"csr_matrices.jsonl"})
  \cup At("csr_queue_batch_00003", {"csr_matrices.jsonl"})
  \cup At("csr_queue_batch_00004", {"csr_matrices.jsonl"})
  \cup At("csr_queue_batch_00005", {"csr_matrices.jsonl"})
  \cup At("csr_queue_batch_00006", {"csr_matrices.jsonl"})
  \cup At("csr_queue_batch_00007", {"csr_matrices.jsonl"})
  \cup At("csr_queue_batch_00008", {"csr_matrices.jsonl"})
  \cup At("csr_queue_batch_00009", {"csr_matrices.jsonl"})
  \cup At("csr_queue_batch_00010", {"csr_matrices.jsonl"})
  \cup Code({"profiling/csr_blocked_gap_positive_search.py", "profiling/csr_blocked_gap_runtime.py",
           "profiling/csr_blocked_gap_screens.py", "datasets/csr.py", "operators/taichi_csr.py",
           "operators/taichi_diffusion2d.py", "solvers/taichi_cg.py", "solvers/registry.py",
           "backends/registry.py", "runtime/engine.py", "policies/csr_selector_data.py",
           "scripts/tss_csr_blocked_gap_positive_search.py"})
CsrBlockedGapPositiveSearchAudit ==
  {"csr_blocked_gap_positive_candidates.jsonl", "csr_blocked_gap_positive_search_rows.jsonl",
    "csr_blocked_gap_positive_results.jsonl", "csr_blocked_gap_positive_search_summary.json",
    "csr_blocked_gap_positive_search_schema.json",
    "csr_blocked_gap_positive_diagnostic_rows.jsonl",
    "csr_blocked_gap_positive_selector_rows.jsonl",
    "csr_blocked_gap_positive_selector_summary.json"}

\* Build a training-only bundle with blocked-gap positive CSR rows.
CsrBlockedGapTrainingIntegrationOutputs ==
  <<"combined_csr_selector_rows.jsonl", "combined_csr_learning_rows.jsonl",
      "combined_csr_baseline_predictions.jsonl", "combined_csr_learning_summary.json",
      "combined_csr_learning_schema.json", "combined_csr_learning_report.md",
      "csr_blocked_gap_training_model_requests.jsonl",
      "csr_blocked_gap_training_model_targets.jsonl",
      "csr_blocked_gap_training_model_contract_schema.json",
      "csr_blocked_gap_training_model_contract_summary.json",
      "csr_blocked_gap_training_tensors.json", "csr_blocked_gap_training_request_index.jsonl",
      "csr_blocked_gap_training_tensor_summary.json", "csr_blocked_gap_training_tensor_schema.json",
      "csr_blocked_gap_training_tensor_report.md", "csr_blocked_gap_training_sources.jsonl",
      "csr_blocked_gap_training_positive_membership.jsonl",
      "csr_blocked_gap_training_integration_summary.json",
      "csr_blocked_gap_training_integration_schema.json",
      "csr_blocked_gap_training_integration_report.md">>
CsrBlockedGapTrainingIntegrationRun ==
  [reads |-> At("csr_blocked_gap_positive_search", {
                 "csr_blocked_gap_positive_search_summary.json",
                 "csr_blocked_gap_positive_selector_rows.jsonl"})
             \cup At("csr_queue_training_pool", {"csr_queue_training_pool_selector_rows.jsonl",
                      "csr_queue_training_pool_summary.json"}),
   writes |-> CsrBlockedGapTrainingIntegrationOutputs,
   status |-> "csr_blocked_gap_training_integration_summary.json"]
CsrBlockedGapTrainingIntegrationFiles ==
  At("csr_queue_training_pool", {"csr_queue_training_pool_selector_rows.jsonl",
      "csr_queue_training_pool_summary.json", "artifact_manifest.json"})
  \cup At("csr_blocked_gap_positive_search", {"csr_blocked_gap_positive_selector_rows.jsonl",
           "csr_blocked_gap_positive_search_summary.json", "artifact_manifest.json"})
  \cup Code({"policies/csr_transformer_ready.py", "policies/csr_learning.py",
           "policies/csr_model_contract.py", "policies/csr_tensor_export.py",
           "profiling/artifacts.py", "profiling/csr_blocked_gap_training_integration.py",
           "profiling/csr_blocked_gap_training_tensor_bundle.py",
           "scripts/tss_csr_blocked_gap_training_integration.py"})
CsrBlockedGapTrainingIntegrationAudit ==
  {"combined_csr_selector_rows.jsonl", "csr_blocked_gap_training_model_requests.jsonl",
    "csr_blocked_gap_training_model_targets.jsonl", "csr_blocked_gap_training_request_index.jsonl",
    "csr_blocked_gap_training_tensor_summary.json",
    "csr_blocked_gap_training_positive_membership.jsonl",
    "csr_blocked_gap_training_integration_summary.json",
    "csr_blocked_gap_training_integration_schema.json"}

\* Train a shadow ranker on the blocked-gap augmented CSR tensor bundle.
CsrBlockedGapAugmentedRankerOutputs ==
  <<"csr_blocked_gap_augmented_ranker_model.json",
      "csr_blocked_gap_augmented_ranker_predictions.jsonl",
      "csr_blocked_gap_augmented_ranker_summary.json",
      "csr_blocked_gap_augmented_ranker_schema.json", "csr_blocked_gap_augmented_ranker_report.md",
      "csr_blocked_gap_augmented_ranker_positive_predictions.jsonl",
      "csr_blocked_gap_augmented_ranker_summary.json",
      "csr_blocked_gap_augmented_ranker_schema.json", "csr_blocked_gap_augmented_ranker_report.md">>
CsrBlockedGapAugmentedRankerRun ==
  [reads |-> At("csr_blocked_gap_training_integration", {
                 "csr_blocked_gap_training_integration_summary.json",
                 "csr_blocked_gap_training_positive_membership.jsonl",
                 "csr_blocked_gap_training_request_index.jsonl",
                 "csr_blocked_gap_training_tensors.json"}),
   writes |-> CsrBlockedGapAugmentedRankerOutputs,
   status |-> "csr_blocked_gap_augmented_ranker_summary.json"]
CsrBlockedGapAugmentedRankerFiles ==
  At("csr_blocked_gap_training_integration", {"csr_blocked_gap_training_tensors.json",
      "csr_blocked_gap_training_request_index.jsonl",
      "csr_blocked_gap_training_integration_summary.json",
      "csr_blocked_gap_training_positive_membership.jsonl", "artifact_manifest.json"})
  \cup Code({"policies/csr_transformer_ranker.py", "profiling/csr_blocked_gap_augmented_ranker.py",
           "scripts/tss_csr_blocked_gap_augmented_ranker.py"})
CsrBlockedGapAugmentedRankerAudit ==
  {"csr_blocked_gap_augmented_ranker_model.json",
    "csr_blocked_gap_augmented_ranker_predictions.jsonl",
    "csr_blocked_gap_augmented_ranker_summary.json",
    "csr_blocked_gap_augmented_ranker_schema.json",
    "csr_blocked_gap_augmented_ranker_positive_predictions.jsonl"}

\* Replay D20 blocked-gap predictions through the learned runtime guard.
CsrBlockedGapGuardedReplayOutputs ==
  <<"csr_blocked_gap_guarded_replay_blocked_quality_gate.json",
      "csr_blocked_gap_guarded_replay_counterfactual_quality_gate.json",
      "csr_blocked_gap_guarded_replay_rows.jsonl", "csr_blocked_gap_guarded_replay_summary.json",
      "csr_blocked_gap_guarded_replay_schema.json", "csr_blocked_gap_guarded_replay_report.md">>
CsrBlockedGapGuardedReplayRun ==
  [reads |-> At("csr_blocked_gap_augmented_ranker", {
                 "csr_blocked_gap_augmented_ranker_positive_predictions.jsonl",
                 "csr_blocked_gap_augmented_ranker_predictions.jsonl",
                 "csr_blocked_gap_augmented_ranker_summary.json"})
             \cup At("csr_blocked_gap_training_integration", {"combined_csr_selector_rows.jsonl"}),
   writes |-> CsrBlockedGapGuardedReplayOutputs,
   status |-> "csr_blocked_gap_guarded_replay_summary.json"]
CsrBlockedGapGuardedReplayFiles ==
  At("csr_blocked_gap_training_integration", {"combined_csr_selector_rows.jsonl",
      "artifact_manifest.json"})
  \cup At("csr_blocked_gap_augmented_ranker", {"csr_blocked_gap_augmented_ranker_predictions.jsonl",
           "csr_blocked_gap_augmented_ranker_positive_predictions.jsonl",
           "csr_blocked_gap_augmented_ranker_summary.json", "artifact_manifest.json"})
  \cup Code({"policies/csr_artifact_selector.py", "policies/csr_learned_guard.py",
           "profiling/csr_blocked_gap_guarded_replay.py",
           "scripts/tss_csr_blocked_gap_guarded_replay.py"})
CsrBlockedGapGuardedReplayAudit ==
  {"csr_blocked_gap_guarded_replay_blocked_quality_gate.json",
    "csr_blocked_gap_guarded_replay_counterfactual_quality_gate.json",
    "csr_blocked_gap_guarded_replay_rows.jsonl", "csr_blocked_gap_guarded_replay_summary.json",
    "csr_blocked_gap_guarded_replay_schema.json"}

\* Build the CSR Transformer training handoff bundle.
CsrTransformerHandoffBundleOutputs ==
  <<"csr_transformer_handoff_bundle_rows.jsonl", "csr_transformer_handoff_bundle_summary.json",
      "csr_transformer_handoff_bundle_schema.json", "csr_transformer_handoff_training_spec.json",
      "csr_transformer_handoff_guard_contract.json", "csr_transformer_handoff_bundle_report.md">>
CsrTransformerHandoffBundleRun ==
  [reads |-> At("csr_blocked_gap_augmented_ranker", {"artifact_manifest.json",
                 "csr_blocked_gap_augmented_ranker_model.json",
                 "csr_blocked_gap_augmented_ranker_positive_predictions.jsonl",
                 "csr_blocked_gap_augmented_ranker_predictions.jsonl",
                 "csr_blocked_gap_augmented_ranker_summary.json"})
             \cup At("csr_blocked_gap_guarded_replay", {"artifact_manifest.json",
                      "csr_blocked_gap_guarded_replay_blocked_quality_gate.json",
                      "csr_blocked_gap_guarded_replay_counterfactual_quality_gate.json",
                      "csr_blocked_gap_guarded_replay_rows.jsonl",
                      "csr_blocked_gap_guarded_replay_summary.json"})
             \cup At("csr_blocked_gap_training_integration", {"artifact_manifest.json",
                      "combined_csr_selector_rows.jsonl",
                      "csr_blocked_gap_training_integration_summary.json",
                      "csr_blocked_gap_training_model_requests.jsonl",
                      "csr_blocked_gap_training_model_targets.jsonl",
                      "csr_blocked_gap_training_positive_membership.jsonl",
                      "csr_blocked_gap_training_request_index.jsonl",
                      "csr_blocked_gap_training_tensor_summary.json",
                      "csr_blocked_gap_training_tensors.json"})
             \cup At("csr_policy_model_submission", {"csr_policy_model_submission_manifest.json",
                      "csr_policy_model_submission_schema.json",
                      "csr_policy_model_submission_summary.json"})
             \cup Code({"CONTRIBUTOR_LICENSE_AGREEMENT.md", "MODEL_CONTRIBUTION_TERMS.md"}),
   writes |-> CsrTransformerHandoffBundleOutputs,
   status |-> "csr_transformer_handoff_bundle_summary.json"]
\* Of the other files that it reads it only takes the hash, and it writes down the hashes of all.
CsrTransformerHandoffBundleParses ==
  At("csr_blocked_gap_augmented_ranker", {"csr_blocked_gap_augmented_ranker_summary.json"})
  \cup At("csr_blocked_gap_guarded_replay", {"csr_blocked_gap_guarded_replay_rows.jsonl",
           "csr_blocked_gap_guarded_replay_summary.json"})
  \cup At("csr_blocked_gap_training_integration", {
           "csr_blocked_gap_training_integration_summary.json",
           "csr_blocked_gap_training_model_requests.jsonl",
           "csr_blocked_gap_training_model_targets.jsonl",
           "csr_blocked_gap_training_request_index.jsonl",
           "csr_blocked_gap_training_tensor_summary.json"})
  \cup At("csr_policy_model_submission", {"csr_policy_model_submission_summary.json"})
CsrTransformerHandoffBundleSums == CsrTransformerHandoffBundleRun.reads
CsrTransformerHandoffBundleFiles ==
  At("csr_blocked_gap_training_integration", {
      "csr_blocked_gap_training_integration_summary.json",
      "csr_blocked_gap_training_tensor_summary.json", "csr_blocked_gap_training_tensors.json",
      "csr_blocked_gap_training_request_index.jsonl",
      "csr_blocked_gap_training_model_requests.jsonl",
      "csr_blocked_gap_training_model_targets.jsonl", "combined_csr_selector_rows.jsonl",
      "artifact_manifest.json"})
  \cup At("csr_blocked_gap_augmented_ranker", {"csr_blocked_gap_augmented_ranker_summary.json",
           "csr_blocked_gap_augmented_ranker_model.json",
           "csr_blocked_gap_augmented_ranker_predictions.jsonl",
           "csr_blocked_gap_augmented_ranker_positive_predictions.jsonl", "artifact_manifest.json"})
  \cup At("csr_blocked_gap_guarded_replay", {"csr_blocked_gap_guarded_replay_summary.json",
           "csr_blocked_gap_guarded_replay_rows.jsonl",
           "csr_blocked_gap_guarded_replay_blocked_quality_gate.json", "artifact_manifest.json"})
  \cup At("csr_policy_model_submission", {"csr_policy_model_submission_summary.json",
           "csr_policy_model_submission_schema.json", "csr_policy_model_submission_manifest.json"})
  \cup Code({"MODEL_CONTRIBUTION_TERMS.md", "CONTRIBUTOR_LICENSE_AGREEMENT.md",
           "profiling/csr_transformer_handoff_bundle.py",
           "scripts/tss_csr_transformer_handoff_bundle.py"})
CsrTransformerHandoffBundleAudit ==
  {"csr_transformer_handoff_bundle_rows.jsonl", "csr_transformer_handoff_bundle_summary.json",
    "csr_transformer_handoff_bundle_schema.json", "csr_transformer_handoff_training_spec.json",
    "csr_transformer_handoff_guard_contract.json"}

\* Build the minimal external CSR Transformer training package manifest.
CsrTransformerTrainingPackageOutputs ==
  <<"csr_transformer_training_package_manifest.json", "csr_transformer_training_package_rows.jsonl",
      "csr_transformer_training_package_summary.json",
      "csr_transformer_training_package_schema.json", "TRAINING_PACKAGE.md",
      "csr_transformer_training_package_report.md">>
CsrTransformerTrainingPackageRun ==
  [reads |-> At("csr_transformer_handoff_bundle", {"artifact_manifest.json",
                 "csr_transformer_handoff_bundle_rows.jsonl",
                 "csr_transformer_handoff_bundle_schema.json",
                 "csr_transformer_handoff_bundle_summary.json",
                 "csr_transformer_handoff_guard_contract.json",
                 "csr_transformer_handoff_training_spec.json"}),
   writes |-> CsrTransformerTrainingPackageOutputs,
   status |-> "csr_transformer_training_package_summary.json"]
CsrTransformerTrainingPackageParses ==
  At("csr_transformer_handoff_bundle", {"csr_transformer_handoff_bundle_rows.jsonl",
      "csr_transformer_handoff_bundle_summary.json", "csr_transformer_handoff_guard_contract.json",
      "csr_transformer_handoff_training_spec.json"})
\* The inputs of the package. It hashes those of the hand-off itself; the others it does not open,
\* but copies their checksums from the rows of the hand-off.
CsrTransformerTrainingPackageSums ==
  At("csr_blocked_gap_training_integration", {"combined_csr_selector_rows.jsonl",
      "csr_blocked_gap_training_model_requests.jsonl",
      "csr_blocked_gap_training_model_targets.jsonl",
      "csr_blocked_gap_training_request_index.jsonl", "csr_blocked_gap_training_tensors.json"})
  \cup At("csr_transformer_handoff_bundle", {"artifact_manifest.json",
           "csr_transformer_handoff_bundle_schema.json",
           "csr_transformer_handoff_bundle_summary.json",
           "csr_transformer_handoff_guard_contract.json",
           "csr_transformer_handoff_training_spec.json"})
  \cup At("csr_blocked_gap_augmented_ranker", {
           "csr_blocked_gap_augmented_ranker_predictions.jsonl",
           "csr_blocked_gap_augmented_ranker_summary.json"})
  \cup At("csr_blocked_gap_guarded_replay", {"csr_blocked_gap_guarded_replay_summary.json"})
  \cup At("csr_policy_model_submission", {"csr_policy_model_submission_schema.json"})
  \cup Code({"CONTRIBUTOR_LICENSE_AGREEMENT.md", "MODEL_CONTRIBUTION_TERMS.md"})
CsrTransformerTrainingPackageFiles ==
  At("csr_transformer_handoff_bundle", {"csr_transformer_handoff_bundle_summary.json",
      "csr_transformer_handoff_bundle_rows.jsonl", "csr_transformer_handoff_training_spec.json",
      "csr_transformer_handoff_guard_contract.json",
      "csr_transformer_handoff_bundle_schema.json", "artifact_manifest.json"})
  \cup Code({"profiling/csr_transformer_training_package.py",
           "scripts/tss_csr_transformer_training_package.py"})
CsrTransformerTrainingPackageAudit ==
  {"csr_transformer_training_package_manifest.json", "csr_transformer_training_package_rows.jsonl",
    "csr_transformer_training_package_summary.json",
    "csr_transformer_training_package_schema.json", "TRAINING_PACKAGE.md"}

\* Run a consumer-side dry run for the CSR Transformer training package.
CsrTransformerPackageConsumerDryRunOutputs ==
  <<"csr_transformer_package_consumer_dry_run_manifest.json",
      "csr_transformer_package_consumer_dry_run_rows.jsonl",
      "csr_transformer_package_consumer_dry_run_summary.json",
      "csr_transformer_package_consumer_dry_run_schema.json",
      "csr_transformer_package_consumer_dry_run_report.md">>
CsrTransformerPackageConsumerDryRunParses ==
  At("csr_external_model_intake", {"csr_external_model_intake_summary.json",
      "csr_policy_model_acceptance_summary.json", "csr_policy_model_submission_summary.json"})
  \cup At("csr_transformer_training_package", {"csr_transformer_training_package_manifest.json",
           "csr_transformer_training_package_summary.json"})
\* It hashes every input of the package and what an intake is expected to give.
CsrTransformerPackageConsumerDryRunRun ==
  [reads |-> CsrTransformerPackageConsumerDryRunParses
             \cup CsrTransformerTrainingPackageSums
             \cup At("csr_external_model_intake", {"adapted_csr_transformer_ranker_model.json",
                      "adapted_csr_transformer_ranker_predictions.jsonl",
                      "csr_external_model_quality_gate_summary.json",
                      "csr_external_model_replay_summary.json", "csr_policy_model_artifact.json",
                      "csr_policy_model_submission_manifest.json"}),
   writes |-> CsrTransformerPackageConsumerDryRunOutputs,
   status |-> "csr_transformer_package_consumer_dry_run_summary.json"]
CsrTransformerPackageConsumerDryRunFiles ==
  At("csr_transformer_training_package", {"csr_transformer_training_package_manifest.json",
      "csr_transformer_training_package_summary.json",
      "csr_transformer_training_package_rows.jsonl", "artifact_manifest.json"})
  \cup At("csr_external_model_intake", {"csr_external_model_intake_summary.json",
           "csr_policy_model_submission_summary.json", "csr_policy_model_acceptance_summary.json",
           "artifact_manifest.json"})
  \cup Code({"profiling/csr_transformer_package_consumer_dry_run.py",
           "scripts/tss_csr_transformer_package_consumer_dry_run.py"})
CsrTransformerPackageConsumerDryRunAudit ==
  {"csr_transformer_package_consumer_dry_run_manifest.json",
    "csr_transformer_package_consumer_dry_run_rows.jsonl",
    "csr_transformer_package_consumer_dry_run_summary.json",
    "csr_transformer_package_consumer_dry_run_schema.json",
    "csr_transformer_package_consumer_dry_run_report.md"}

\* Train the lightweight CSR masked self-attention ranker.
CsrTransformerRankerRun ==
  [reads |-> At("csr_transformer_ready", {"csr_transformer_request_index.jsonl",
                 "csr_transformer_training_tensors.json"}),
   writes |->
     <<"csr_transformer_ranker_model.json", "csr_transformer_ranker_predictions.jsonl",
     "csr_transformer_ranker_summary.json", "csr_transformer_ranker_schema.json",
     "csr_transformer_ranker_report.md">>,
   status |-> "csr_transformer_ranker_summary.json"]
CsrTransformerRankerFiles ==
  At("csr_transformer_ready", {"csr_transformer_training_tensors.json",
      "csr_transformer_request_index.jsonl"})
  \cup Code({"__init__.py", "api.py", "policies/csr_transformer_ranker.py",
           "scripts/tss_csr_transformer_ranker.py"})
CsrTransformerRankerAudit ==
  {"csr_transformer_ranker_model.json", "csr_transformer_ranker_predictions.jsonl",
    "csr_transformer_ranker_summary.json", "csr_transformer_ranker_schema.json"}

\* Adapt an external CSR Transformer checkpoint into a TSS ranker model.
CsrExternalModelAdapterRun ==
  [reads |-> At("csr_transformer_ranker", {"csr_transformer_ranker_model.json"})
             \cup At("csr_transformer_ready", {"csr_transformer_request_index.jsonl",
                      "csr_transformer_training_tensors.json"}),
   writes |->
     <<"external_csr_ranker_checkpoint.json", "adapted_csr_transformer_ranker_model.json",
     "adapted_csr_transformer_ranker_predictions.jsonl",
     "adapted_csr_transformer_ranker_summary.json", "csr_external_model_adapter_rows.jsonl",
     "csr_external_model_adapter_summary.json", "csr_external_model_adapter_schema.json",
     "csr_external_model_adapter_report.md">>,
   status |-> "csr_external_model_adapter_summary.json"]
CsrExternalModelAdapterFiles ==
  At("csr_transformer_ranker", {"csr_transformer_ranker_model.json"})
  \cup At("csr_transformer_ready", {"csr_transformer_training_tensors.json",
           "csr_transformer_request_index.jsonl"})
  \cup Code({"__init__.py", "api.py", "policies/csr_transformer_ranker.py",
           "policies/csr_external_model_adapter.py", "scripts/tss_csr_external_model_adapter.py"})
CsrExternalModelAdapterAudit ==
  {"external_csr_ranker_checkpoint.json", "adapted_csr_transformer_ranker_model.json",
    "adapted_csr_transformer_ranker_predictions.jsonl",
    "adapted_csr_transformer_ranker_summary.json", "csr_external_model_adapter_rows.jsonl",
    "csr_external_model_adapter_summary.json", "csr_external_model_adapter_schema.json"}

\* Replay a saved CSR Transformer ranker model artifact.
CsrTransformerModelReplayRun ==
  [reads |-> At("csr_transformer_ranker", {"csr_transformer_ranker_model.json",
                 "csr_transformer_ranker_predictions.jsonl"})
             \cup At("csr_transformer_ready", {"csr_transformer_request_index.jsonl",
                      "csr_transformer_training_tensors.json"}),
   writes |->
     <<"csr_transformer_model_replay_predictions.jsonl",
     "csr_transformer_model_replay_comparison.jsonl", "csr_transformer_model_replay_summary.json",
     "csr_transformer_model_replay_schema.json", "csr_transformer_model_replay_report.md">>,
   status |-> "csr_transformer_model_replay_summary.json"]
CsrTransformerModelReplayFiles ==
  At("csr_transformer_ready", {"csr_transformer_training_tensors.json",
      "csr_transformer_request_index.jsonl"})
  \cup At("csr_transformer_ranker", {"csr_transformer_ranker_model.json",
           "csr_transformer_ranker_predictions.jsonl"})
  \cup Code({"policies/csr_transformer_ranker.py", "policies/csr_transformer_model_replay.py",
           "scripts/tss_csr_transformer_model_replay.py"})
CsrTransformerModelReplayAudit ==
  {"csr_transformer_model_replay_predictions.jsonl", "csr_transformer_model_replay_comparison.jsonl",
    "csr_transformer_model_replay_summary.json", "csr_transformer_model_replay_schema.json"}

\* Run the CSR Transformer ranker quality gate.
CsrTransformerQualityGateRun ==
  [reads |-> At("csr_transformer_ranker", {"csr_transformer_ranker_predictions.jsonl",
                 "csr_transformer_ranker_summary.json"})
             \cup At("csr_transformer_ready", {"combined_csr_baseline_predictions.jsonl",
                      "combined_csr_learning_summary.json"}),
   writes |->
     <<"csr_transformer_quality_gate_rows.jsonl", "csr_transformer_quality_gate_summary.json",
     "csr_transformer_quality_gate_schema.json", "csr_transformer_quality_gate_report.md">>,
   status |-> "csr_transformer_quality_gate_summary.json"]
CsrTransformerQualityGateFiles ==
  At("csr_transformer_ready", {"combined_csr_learning_summary.json",
      "combined_csr_baseline_predictions.jsonl"})
  \cup At("csr_transformer_ranker", {"csr_transformer_ranker_summary.json",
           "csr_transformer_ranker_predictions.jsonl"})
  \cup Code({"policies/csr_selector_model_eval.py", "scripts/tss_csr_transformer_quality_gate.py"})
CsrTransformerQualityGateAudit ==
  {"csr_transformer_quality_gate_rows.jsonl", "csr_transformer_quality_gate_summary.json",
    "csr_transformer_quality_gate_schema.json"}

\* Build the runtime-loadable CSR policy model artifact contract.
CsrPolicyModelArtifactRun ==
  [reads |-> At("csr_transformer_model_replay", {"csr_transformer_model_replay_summary.json"})
             \cup At("csr_transformer_quality_gate", {"csr_transformer_quality_gate_summary.json"})
             \cup At("csr_transformer_ranker", {"csr_transformer_ranker_model.json"})
             \cup At("csr_transformer_ready", {"csr_transformer_request_index.jsonl",
                      "csr_transformer_training_tensors.json"}),
   writes |->
     <<"csr_policy_model_artifact.json", "csr_policy_model_artifact_rows.jsonl",
     "csr_policy_model_artifact_summary.json", "csr_policy_model_artifact_schema.json",
     "csr_policy_model_artifact_report.md">>,
   status |-> "csr_policy_model_artifact_summary.json"]
CsrPolicyModelArtifactFiles ==
  At("csr_transformer_ranker", {"csr_transformer_ranker_model.json"})
  \cup At("csr_transformer_ready", {"csr_transformer_training_tensors.json",
           "csr_transformer_request_index.jsonl"})
  \cup At("csr_transformer_quality_gate", {"csr_transformer_quality_gate_summary.json"})
  \cup At("csr_transformer_model_replay", {"csr_transformer_model_replay_summary.json"})
  \cup Code({"__init__.py", "api.py", "policies/csr_policy_model_artifact.py",
           "policies/csr_transformer_ranker.py", "scripts/tss_csr_policy_model_artifact.py"})
CsrPolicyModelArtifactAudit ==
  {"csr_policy_model_artifact.json", "csr_policy_model_artifact_rows.jsonl",
    "csr_policy_model_artifact_summary.json", "csr_policy_model_artifact_schema.json"}

\* Run the CSR policy model artifact acceptance gate.
CsrPolicyModelAcceptanceRun ==
  [reads |-> At("csr_guarded_auto_solve", {"csr_guarded_auto_solve_results.jsonl",
                 "csr_guarded_auto_solve_summary.json"})
             \cup At("csr_learned_guard", {"csr_learned_guard_summary.json"})
             \cup At("csr_policy_model_artifact", {"csr_policy_model_artifact.json"})
             \cup At("csr_selector_readiness", {"csr_selector_rows.jsonl"})
             \cup At("suitesparse_csr_import", {"csr_matrices.jsonl"}),
   writes |->
     <<"csr_policy_model_acceptance_rows.jsonl", "csr_policy_model_acceptance_summary.json",
     "csr_policy_model_acceptance_schema.json", "csr_policy_model_acceptance_report.md">>,
   status |-> "csr_policy_model_acceptance_summary.json"]
CsrPolicyModelAcceptanceFiles ==
  At("csr_policy_model_artifact", {"csr_policy_model_artifact.json", "artifact_manifest.json"})
  \cup At("csr_learned_guard", {"csr_learned_guard_summary.json"})
  \cup At("csr_guarded_auto_solve", {"csr_guarded_auto_solve_summary.json",
           "csr_guarded_auto_solve_results.jsonl"})
  \cup At("suitesparse_csr_import", {"csr_matrices.jsonl"})
  \cup At("csr_selector_readiness", {"csr_selector_rows.jsonl"})
  \cup Code({"__init__.py", "api.py", "policies/csr_learned_guard.py",
           "policies/csr_policy_model_artifact.py", "policies/csr_policy_model_acceptance.py",
           "policies/csr_transformer_ranker.py", "scripts/tss_csr_policy_model_acceptance.py"})
CsrPolicyModelAcceptanceAudit ==
  {"csr_policy_model_acceptance_rows.jsonl", "csr_policy_model_acceptance_summary.json",
    "csr_policy_model_acceptance_schema.json"}

\* Build a submission package for a CSR policy model artifact.
CsrPolicyModelSubmissionParses ==
  At("csr_policy_model_acceptance", {"csr_policy_model_acceptance_rows.jsonl",
      "csr_policy_model_acceptance_summary.json"})
  \cup At("csr_policy_model_artifact", {"csr_policy_model_artifact.json"})
CsrPolicyModelSubmissionSums ==
  CsrPolicyModelSubmissionParses
  \cup At("csr_transformer_ranker", {"csr_transformer_ranker_model.json"})
  \cup At("csr_transformer_ready", {"csr_transformer_request_index.jsonl",
           "csr_transformer_training_tensors.json"})
  \cup At("csr_transformer_quality_gate", {"csr_transformer_quality_gate_summary.json"})
  \cup At("csr_transformer_model_replay", {"csr_transformer_model_replay_summary.json"})
CsrPolicyModelSubmissionRun ==
  [reads |-> CsrPolicyModelSubmissionSums,
   writes |->
     <<"csr_policy_model_submission_manifest.json", "csr_policy_model_submission_rows.jsonl",
     "csr_policy_model_submission_summary.json", "csr_policy_model_submission_schema.json",
     "MODEL_CARD.md", "csr_policy_model_submission_report.md">>,
   status |-> "csr_policy_model_submission_summary.json"]
CsrPolicyModelSubmissionFiles ==
  At("csr_policy_model_artifact", {"csr_policy_model_artifact.json", "artifact_manifest.json"})
  \cup At("csr_policy_model_acceptance", {"csr_policy_model_acceptance_summary.json",
           "csr_policy_model_acceptance_rows.jsonl", "artifact_manifest.json"})
  \cup Code({"MODEL_CONTRIBUTION_TERMS.md", "CONTRIBUTOR_LICENSE_AGREEMENT.md", "__init__.py",
           "api.py", "policies/csr_policy_model_artifact.py",
           "policies/csr_policy_model_submission.py", "scripts/tss_csr_policy_model_submission.py"})
CsrPolicyModelSubmissionAudit ==
  {"csr_policy_model_submission_manifest.json", "csr_policy_model_submission_rows.jsonl",
    "csr_policy_model_submission_summary.json", "csr_policy_model_submission_schema.json",
    "MODEL_CARD.md"}

\* Run end-to-end intake for an external CSR policy model checkpoint.
CsrExternalModelIntakeOutputs ==
  <<"external_csr_ranker_checkpoint.json", "adapted_csr_transformer_ranker_model.json",
      "adapted_csr_transformer_ranker_predictions.jsonl",
      "adapted_csr_transformer_ranker_summary.json", "csr_external_model_adapter_rows.jsonl",
      "csr_external_model_adapter_summary.json", "csr_external_model_adapter_schema.json",
      "csr_external_model_adapter_report.md", "csr_external_model_replay_predictions.jsonl",
      "csr_external_model_replay_comparison.jsonl", "csr_external_model_replay_summary.json",
      "csr_external_model_replay_schema.json", "csr_external_model_replay_report.md",
      "csr_external_model_quality_gate_rows.jsonl", "csr_external_model_quality_gate_summary.json",
      "csr_external_model_quality_gate_schema.json", "csr_external_model_quality_gate_report.md",
      "csr_policy_model_artifact.json", "csr_policy_model_artifact_rows.jsonl",
      "csr_policy_model_artifact_summary.json", "csr_policy_model_artifact_schema.json",
      "csr_policy_model_artifact_report.md", "csr_external_model_learned_guard_rows.jsonl",
      "csr_external_model_learned_guard_summary.json",
      "csr_external_model_learned_guard_schema.json", "csr_external_model_learned_guard_report.md",
      "csr_policy_model_acceptance_rows.jsonl", "csr_policy_model_acceptance_summary.json",
      "csr_policy_model_acceptance_schema.json", "csr_policy_model_acceptance_report.md",
      "csr_policy_model_submission_manifest.json", "csr_policy_model_submission_rows.jsonl",
      "csr_policy_model_submission_summary.json", "csr_policy_model_submission_schema.json",
      "MODEL_CARD.md", "csr_policy_model_submission_report.md",
      "csr_external_model_intake_summary.json", "csr_external_model_intake_schema.json",
      "csr_external_model_intake_rows.jsonl", "csr_external_model_intake_report.md">>
CsrExternalModelIntakeRun ==
  [reads |-> At("csr_guarded_auto_solve", {"csr_guarded_auto_solve_results.jsonl",
                 "csr_guarded_auto_solve_summary.json"})
             \cup At("csr_selector_readiness", {"csr_selector_rows.jsonl"})
             \cup At("csr_transformer_ranker", {"csr_transformer_ranker_model.json"})
             \cup At("csr_transformer_ready", {"combined_csr_baseline_predictions.jsonl",
                      "combined_csr_learning_summary.json", "csr_transformer_request_index.jsonl",
                      "csr_transformer_training_tensors.json"})
             \cup At("suitesparse_csr_import", {"csr_matrices.jsonl"}),
   writes |-> CsrExternalModelIntakeOutputs,
   status |-> "csr_external_model_intake_summary.json"]
CsrExternalModelIntakeFiles ==
  At("csr_transformer_ranker", {"csr_transformer_ranker_model.json"})
  \cup At("csr_transformer_ready", {"csr_transformer_training_tensors.json",
           "csr_transformer_request_index.jsonl", "combined_csr_learning_summary.json",
           "combined_csr_baseline_predictions.jsonl"})
  \cup At("suitesparse_csr_import", {"csr_matrices.jsonl"})
  \cup At("csr_selector_readiness", {"csr_selector_rows.jsonl"})
  \cup At("csr_guarded_auto_solve", {"csr_guarded_auto_solve_summary.json",
           "csr_guarded_auto_solve_results.jsonl"})
  \cup Code({"__init__.py", "api.py", "policies/csr_external_model_adapter.py",
           "policies/csr_external_model_intake.py", "policies/csr_policy_model_artifact.py",
           "policies/csr_policy_model_acceptance.py", "policies/csr_policy_model_submission.py",
           "scripts/tss_csr_external_model_intake.py"})
CsrExternalModelIntakeAudit ==
  {"csr_external_model_intake_summary.json", "csr_external_model_intake_schema.json",
    "csr_external_model_intake_rows.jsonl", "csr_external_model_intake_report.md"}

\* Build the formal CSR Transformer training entrypoint artifact.
CsrTransformerTrainingEntrypointOutputs ==
  <<"csr_transformer_training_entrypoint_rows.jsonl",
      "csr_transformer_training_entrypoint_summary.json",
      "csr_transformer_training_entrypoint_schema.json", "csr_transformer_training_job_spec.json",
      "csr_transformer_training_quality_contract.json",
      "csr_transformer_training_entrypoint_report.md">>
CsrTransformerTrainingEntrypointRun ==
  [reads |-> At("csr_transformer_quality_gate", {"csr_transformer_quality_gate_summary.json"})
             \cup At("csr_transformer_ready", {"csr_transformer_ready_summary.json",
                      "csr_transformer_ready_schema.json", "csr_transformer_tensor_summary.json",
                      "csr_transformer_model_contract_summary.json",
                      "csr_transformer_model_requests.jsonl", "csr_transformer_model_targets.jsonl",
                      "csr_transformer_training_tensors.json",
                      "csr_transformer_request_index.jsonl"}),
   writes |-> CsrTransformerTrainingEntrypointOutputs,
   status |-> "csr_transformer_training_entrypoint_summary.json"]
CsrTransformerTrainingEntrypointFiles ==
  At("csr_transformer_ready", {"csr_transformer_ready_summary.json",
      "csr_transformer_ready_schema.json", "csr_transformer_tensor_summary.json",
      "csr_transformer_model_contract_summary.json", "csr_transformer_model_requests.jsonl",
      "csr_transformer_model_targets.jsonl", "csr_transformer_training_tensors.json",
      "csr_transformer_request_index.jsonl"})
  \cup At("csr_transformer_quality_gate", {"csr_transformer_quality_gate_summary.json"})
  \cup Code({"__init__.py", "api.py", "policies/csr_transformer_training_entrypoint.py",
           "scripts/tss_csr_transformer_training_entrypoint.py"})
CsrTransformerTrainingEntrypointAudit ==
  {"csr_transformer_training_entrypoint_rows.jsonl",
    "csr_transformer_training_entrypoint_summary.json",
    "csr_transformer_training_entrypoint_schema.json", "csr_transformer_training_job_spec.json",
    "csr_transformer_training_quality_contract.json"}

\* Build the reference CSR Transformer training export checkpoint.
CsrTransformerReferenceTrainingExportOutputs ==
  <<"reference_csr_transformer_ranker_model.json",
      "reference_csr_transformer_ranker_predictions.jsonl",
      "reference_csr_transformer_ranker_summary.json",
      "reference_csr_transformer_ranker_schema.json", "reference_csr_transformer_ranker_report.md",
      "reference_csr_external_ranker_checkpoint.json", "reference_csr_external_adapter_model.json",
      "reference_csr_external_adapter_predictions.jsonl",
      "reference_csr_external_adapter_ranker_summary.json",
      "reference_csr_external_adapter_rows.jsonl", "reference_csr_external_adapter_summary.json",
      "reference_csr_external_adapter_schema.json", "reference_csr_external_adapter_report.md",
      "csr_transformer_reference_training_export_summary.json",
      "csr_transformer_reference_training_export_schema.json",
      "csr_transformer_reference_training_export_rows.jsonl",
      "csr_transformer_reference_training_export_report.md">>
CsrTransformerReferenceTrainingExportRun ==
  [reads |-> At("csr_transformer_ready", {"csr_transformer_request_index.jsonl",
                 "csr_transformer_training_tensors.json"})
             \cup At("csr_transformer_training_entrypoint", {
                      "csr_transformer_training_entrypoint_summary.json"}),
   writes |-> CsrTransformerReferenceTrainingExportOutputs,
   status |-> "csr_transformer_reference_training_export_summary.json"]
CsrTransformerReferenceTrainingExportFiles ==
  At("csr_transformer_ready", {"csr_transformer_training_tensors.json",
      "csr_transformer_request_index.jsonl"})
  \cup At("csr_transformer_training_entrypoint", {"csr_transformer_training_entrypoint_summary.json"})
  \cup Code({"__init__.py", "api.py", "policies/csr_transformer_ranker.py",
           "policies/csr_external_model_adapter.py",
           "policies/csr_transformer_reference_training_export.py",
           "scripts/tss_csr_transformer_reference_training_export.py"})
CsrTransformerReferenceTrainingExportAudit ==
  {"reference_csr_external_ranker_checkpoint.json", "reference_csr_external_adapter_summary.json",
    "csr_transformer_reference_training_export_summary.json",
    "csr_transformer_reference_training_export_schema.json",
    "csr_transformer_reference_training_export_rows.jsonl"}

====
