---- MODULE CatalogueSelector ----
(* The selector and queue stages: selector rows, learning exports and the linear ranker, the micro
   campaign, the full data set queue with its batches, training pool and candidate coverage.
   Of each stage: what its script reads, what it writes into its directory and in which order,
   and the file that carries its status (Run); the files its manifest hashes (Files); and the
   files of the directory that the artifact audit opens besides the manifest (Audit). *)
EXTENDS CatalogueMatrices

\* Export real CSR diagnostics and selector training rows.
CsrSelectorReadinessRun ==
  [reads |-> At("suitesparse_csr_import", {"csr_matrices.jsonl"})
             \cup At("taichi_csr_bicgstab", {"csr_bicgstab_results.jsonl",
                      "csr_bicgstab_summary.json"})
             \cup At("taichi_csr_chebyshev", {"csr_chebyshev_results.jsonl",
                      "csr_chebyshev_summary.json"})
             \cup At("taichi_csr_gmres", {"csr_gmres_results.jsonl", "csr_gmres_summary.json"})
             \cup At("taichi_csr_richardson", {"csr_richardson_results.jsonl",
                      "csr_richardson_summary.json"})
             \cup At("taichi_csr_solve", {"csr_solve_results.jsonl", "csr_solve_summary.json"}),
   writes |->
     <<"csr_diagnostic_rows.jsonl", "csr_selector_rows.jsonl", "csr_selector_summary.json",
     "csr_selector_schema.json", "csr_selector_report.md">>,
   status |-> "csr_selector_summary.json"]
CsrSelectorReadinessFiles ==
  At("suitesparse_csr_import", {"csr_matrices.jsonl"})
  \cup At("taichi_csr_solve", {"csr_solve_results.jsonl", "csr_solve_summary.json"})
  \cup At("taichi_csr_bicgstab", {"csr_bicgstab_results.jsonl", "csr_bicgstab_summary.json"})
  \cup At("taichi_csr_gmres", {"csr_gmres_results.jsonl", "csr_gmres_summary.json"})
  \cup At("taichi_csr_richardson", {"csr_richardson_results.jsonl", "csr_richardson_summary.json"})
  \cup At("taichi_csr_chebyshev", {"csr_chebyshev_results.jsonl", "csr_chebyshev_summary.json"})
  \cup Code({"datasets/csr.py", "datasets/diagnostics.py", "policies/csr_selector_data.py",
           "scripts/tss_export_csr_selector_rows.py"})
CsrSelectorReadinessAudit ==
  {"csr_diagnostic_rows.jsonl", "csr_selector_rows.jsonl", "csr_selector_summary.json",
    "csr_selector_schema.json"}

\* Exercise CSR artifact selector plans on real CSR fixtures.
CsrSelectorPolicyRun ==
  [reads |-> At("csr_selector_readiness", {"csr_selector_rows.jsonl"})
             \cup At("suitesparse_csr_import", {"csr_matrices.jsonl"}),
   writes |->
     <<"csr_selected_policy_plans.jsonl", "csr_selector_policy_solve_checks.jsonl",
     "csr_selector_policy_summary.json", "csr_selector_policy_report.md">>,
   status |-> "csr_selector_policy_summary.json"]
CsrSelectorPolicyFiles ==
  At("suitesparse_csr_import", {"csr_matrices.jsonl"})
  \cup At("csr_selector_readiness", {"csr_selector_rows.jsonl"})
  \cup Code({"__init__.py", "api.py", "datasets/csr.py", "policies/csr_artifact_selector.py",
           "operators/taichi_csr.py", "solvers/taichi_cg.py", "solvers/registry.py",
           "backends/registry.py", "runtime/engine.py", "scripts/tss_csr_selector_policy_smoke.py"})
CsrSelectorPolicyAudit ==
  {"csr_selected_policy_plans.jsonl", "csr_selector_policy_solve_checks.jsonl",
    "csr_selector_policy_summary.json"}

\* Exercise public auto_solve_csr on real CSR selector fixtures.
CsrAutoSolveRun ==
  [reads |-> At("csr_selector_readiness", {"csr_selector_rows.jsonl"})
             \cup At("suitesparse_csr_import", {"csr_matrices.jsonl"}),
   writes |-> <<"csr_auto_solve_results.jsonl", "csr_auto_solve_summary.json", "csr_auto_solve_report.md">>,
   status |-> "csr_auto_solve_summary.json"]
CsrAutoSolveFiles ==
  At("suitesparse_csr_import", {"csr_matrices.jsonl"})
  \cup At("csr_selector_readiness", {"csr_selector_rows.jsonl"})
  \cup Code({"__init__.py", "api.py", "datasets/csr.py", "policies/csr_artifact_selector.py",
           "operators/taichi_csr.py", "solvers/taichi_cg.py", "solvers/registry.py",
           "backends/registry.py", "runtime/engine.py", "scripts/tss_csr_auto_solve_smoke.py"})
CsrAutoSolveAudit == {"csr_auto_solve_results.jsonl", "csr_auto_solve_summary.json"}

\* Export CSR selector learning rows and a baseline evaluation.
CsrLearningReadinessRun ==
  [reads |-> At("csr_selector_readiness", {"csr_selector_rows.jsonl"}),
   writes |->
     <<"csr_learning_rows.jsonl", "csr_baseline_predictions.jsonl", "csr_learning_summary.json",
     "csr_learning_schema.json", "csr_learning_report.md">>,
   status |-> "csr_learning_summary.json"]
CsrLearningReadinessFiles ==
  At("csr_selector_readiness", {"csr_selector_rows.jsonl"})
  \cup Code({"__init__.py", "api.py", "policies/csr_learning.py",
           "scripts/tss_csr_learning_readiness.py"})
CsrLearningReadinessAudit ==
  {"csr_learning_rows.jsonl", "csr_baseline_predictions.jsonl", "csr_learning_summary.json",
    "csr_learning_schema.json"}

\* Export CSR learned-selector request/prediction contract artifacts.
CsrModelContractRun ==
  [reads |-> At("csr_learning_readiness", {"csr_baseline_predictions.jsonl",
                 "csr_learning_rows.jsonl"}),
   writes |->
     <<"csr_model_requests.jsonl", "csr_model_targets.jsonl", "csr_model_predictions.jsonl",
     "csr_model_contract_summary.json", "csr_model_contract_schema.json",
     "csr_model_contract_report.md">>,
   status |-> "csr_model_contract_summary.json"]
CsrModelContractFiles ==
  At("csr_learning_readiness", {"csr_learning_rows.jsonl", "csr_baseline_predictions.jsonl"})
  \cup Code({"__init__.py", "api.py", "policies/csr_model_contract.py",
           "scripts/tss_csr_model_contract.py"})
CsrModelContractAudit ==
  {"csr_model_requests.jsonl", "csr_model_targets.jsonl", "csr_model_predictions.jsonl",
    "csr_model_contract_summary.json", "csr_model_contract_schema.json"}

\* Export CSR learned-selector numeric training arrays.
CsrTrainingTensorsRun ==
  [reads |-> At("csr_model_contract", {"csr_model_requests.jsonl", "csr_model_targets.jsonl"}),
   writes |->
     <<"csr_training_tensors.json", "csr_training_request_index.jsonl",
     "csr_training_tensor_summary.json", "csr_training_tensor_schema.json",
     "csr_training_tensor_report.md">>,
   status |-> "csr_training_tensor_summary.json"]
CsrTrainingTensorsFiles ==
  At("csr_model_contract", {"csr_model_requests.jsonl", "csr_model_targets.jsonl"})
  \cup Code({"__init__.py", "api.py", "policies/csr_tensor_export.py",
           "scripts/tss_csr_training_tensors.py"})
CsrTrainingTensorsAudit ==
  {"csr_training_tensors.json", "csr_training_request_index.jsonl",
    "csr_training_tensor_summary.json", "csr_training_tensor_schema.json"}

\* Train and evaluate the CSR pairwise linear ranker baseline.
CsrLinearRankerRun ==
  [reads |-> At("csr_training_tensors", {"csr_training_request_index.jsonl",
                 "csr_training_tensors.json"}),
   writes |->
     <<"csr_linear_ranker_model.json", "csr_linear_ranker_predictions.jsonl",
     "csr_linear_ranker_summary.json", "csr_linear_ranker_schema.json",
     "csr_linear_ranker_report.md">>,
   status |-> "csr_linear_ranker_summary.json"]
CsrLinearRankerFiles ==
  At("csr_training_tensors", {"csr_training_tensors.json", "csr_training_request_index.jsonl"})
  \cup Code({"__init__.py", "api.py", "policies/csr_linear_ranker.py",
           "scripts/tss_csr_linear_ranker.py"})
CsrLinearRankerAudit ==
  {"csr_linear_ranker_model.json", "csr_linear_ranker_predictions.jsonl",
    "csr_linear_ranker_summary.json", "csr_linear_ranker_schema.json"}

\* Evaluate CSR selector model artifacts against runtime quality gates.
CsrSelectorModelEvalRun ==
  [reads |-> At("csr_learning_readiness", {"csr_baseline_predictions.jsonl",
                 "csr_learning_summary.json"})
             \cup At("csr_linear_ranker", {"csr_linear_ranker_predictions.jsonl",
                      "csr_linear_ranker_summary.json"}),
   writes |->
     <<"csr_selector_model_eval_rows.jsonl", "csr_selector_model_eval_summary.json",
     "csr_selector_model_eval_schema.json", "csr_selector_model_eval_report.md">>,
   status |-> "csr_selector_model_eval_summary.json"]
CsrSelectorModelEvalFiles ==
  At("csr_learning_readiness", {"csr_learning_summary.json", "csr_baseline_predictions.jsonl"})
  \cup At("csr_linear_ranker", {"csr_linear_ranker_summary.json",
           "csr_linear_ranker_predictions.jsonl"})
  \cup Code({"__init__.py", "api.py", "policies/csr_selector_model_eval.py",
           "scripts/tss_csr_selector_model_eval.py"})
CsrSelectorModelEvalAudit ==
  {"csr_selector_model_eval_rows.jsonl", "csr_selector_model_eval_summary.json",
    "csr_selector_model_eval_schema.json"}

\* Plan a resource-safe expansion of real CSR benchmark coverage.
CsrBenchmarkExpansionPlanRun ==
  [reads |-> At("csr_selector_readiness", {"csr_selector_rows.jsonl"})
             \cup At("suitesparse_selection", {"selected_matrices.jsonl"})
             \cup Code({"configs/runtime/resource_limits.yaml"}),
   writes |->
     <<"csr_benchmark_matrix_queue.jsonl", "csr_benchmark_candidate_queue.jsonl",
     "csr_benchmark_expansion_summary.json", "csr_benchmark_expansion_schema.json",
     "csr_benchmark_expansion_report.md">>,
   status |-> "csr_benchmark_expansion_summary.json"]
CsrBenchmarkExpansionPlanFiles ==
  At("suitesparse_selection", {"selected_matrices.jsonl"})
  \cup At("csr_selector_readiness", {"csr_selector_rows.jsonl"})
  \cup Code({"configs/runtime/resource_limits.yaml", "profiling/csr_benchmark_expansion.py",
           "scripts/tss_csr_benchmark_expansion_plan.py"})
CsrBenchmarkExpansionPlanAudit ==
  {"csr_benchmark_matrix_queue.jsonl", "csr_benchmark_candidate_queue.jsonl",
    "csr_benchmark_expansion_summary.json", "csr_benchmark_expansion_schema.json"}

\* Build a resumable full SuiteSparse CSR benchmark/training queue.
CsrFullDatasetQueueRun ==
  [reads |-> At("csr_selector_readiness", {"csr_selector_rows.jsonl"})
             \cup Code({"configs/runtime/resource_limits.yaml",
                      "configs/runtime/storage_paths.yaml"}),
   writes |->
     <<"csr_full_dataset_queue_matrices.jsonl", "csr_full_dataset_queue_jobs.jsonl",
     "csr_full_dataset_queue_batches.jsonl", "csr_full_dataset_queue_state.json",
     "csr_full_dataset_queue_summary.json", "csr_full_dataset_queue_schema.json",
     "csr_full_dataset_queue_report.md">>,
   status |-> "csr_full_dataset_queue_summary.json"]
CsrFullDatasetQueueFiles ==
  At("csr_selector_readiness", {"csr_selector_rows.jsonl"})
  \cup Code({"configs/runtime/resource_limits.yaml", "configs/runtime/storage_paths.yaml",
           "__init__.py", "api.py", "datasets/suitesparse_index.py",
           "profiling/csr_full_dataset_queue.py", "scripts/tss_csr_full_dataset_queue.py"})
CsrFullDatasetQueueAudit ==
  {"csr_full_dataset_queue_matrices.jsonl", "csr_full_dataset_queue_jobs.jsonl",
    "csr_full_dataset_queue_batches.jsonl", "csr_full_dataset_queue_state.json",
    "csr_full_dataset_queue_summary.json", "csr_full_dataset_queue_schema.json",
    "csr_full_dataset_queue_report.md"}

\* Execute the planned real CSR benchmark micro-campaign.
CsrMicroCampaignOutputs ==
  <<"csr_matrices.jsonl", "csr_import_summary.json", "csr_import_report.md",
      "csr_micro_campaign_results.jsonl", "csr_micro_campaign_summary.json",
      "csr_micro_campaign_schema.json", "csr_micro_campaign_report.md",
      "csr_micro_diagnostic_rows.jsonl", "csr_micro_selector_rows.jsonl",
      "csr_micro_selector_summary.json", "csr_micro_selector_schema.json",
      "csr_micro_selector_report.md">>
CsrMicroCampaignRun ==
  [reads |-> At("csr_benchmark_expansion_plan", {"csr_benchmark_candidate_queue.jsonl",
                 "csr_benchmark_matrix_queue.jsonl"}) \cup External({"matrix_archives"}),
   writes |-> CsrMicroCampaignOutputs,
   status |-> "csr_micro_campaign_summary.json"]
CsrMicroCampaignFiles ==
  At("csr_benchmark_expansion_plan", {"csr_benchmark_matrix_queue.jsonl",
      "csr_benchmark_candidate_queue.jsonl"})
  \cup Code({"profiling/csr_micro_campaign.py", "datasets/csr.py", "datasets/diagnostics.py",
           "operators/taichi_csr.py", "solvers/taichi_cg.py", "solvers/registry.py",
           "backends/registry.py", "runtime/engine.py", "policies/csr_selector_data.py",
           "profiling/repeats.py", "scripts/tss_csr_micro_campaign.py"})
CsrMicroCampaignAudit ==
  {"csr_matrices.jsonl", "csr_micro_campaign_results.jsonl", "csr_micro_campaign_summary.json",
    "csr_micro_campaign_schema.json", "csr_micro_selector_rows.jsonl",
    "csr_micro_selector_summary.json"}

\* Build the CSR Transformer-ready training bundle.
CsrTransformerReadyOutputs ==
  <<"combined_csr_selector_rows.jsonl", "combined_csr_learning_rows.jsonl",
      "combined_csr_baseline_predictions.jsonl", "csr_transformer_model_requests.jsonl",
      "csr_transformer_model_targets.jsonl", "csr_transformer_baseline_predictions.jsonl",
      "csr_transformer_training_tensors.json", "csr_transformer_request_index.jsonl",
      "combined_csr_learning_summary.json", "combined_csr_learning_schema.json",
      "combined_csr_learning_report.md", "csr_transformer_model_contract_summary.json",
      "csr_transformer_model_contract_schema.json", "csr_transformer_model_contract_report.md",
      "csr_transformer_tensor_summary.json", "csr_transformer_tensor_schema.json",
      "csr_transformer_tensor_report.md", "csr_transformer_ready_summary.json",
      "csr_transformer_ready_schema.json", "csr_transformer_ready_report.md">>
CsrTransformerReadyRun ==
  [reads |-> At("csr_micro_campaign", {"csr_micro_selector_rows.jsonl"})
             \cup At("csr_selector_readiness", {"csr_selector_rows.jsonl"}),
   writes |-> CsrTransformerReadyOutputs,
   status |-> "csr_transformer_ready_summary.json"]
CsrTransformerReadyFiles ==
  At("csr_selector_readiness", {"csr_selector_rows.jsonl"})
  \cup At("csr_micro_campaign", {"csr_micro_selector_rows.jsonl"})
  \cup Code({"policies/csr_transformer_ready.py", "policies/csr_learning.py",
           "policies/csr_model_contract.py", "policies/csr_tensor_export.py",
           "scripts/tss_csr_transformer_ready.py"})
CsrTransformerReadyAudit ==
  {"combined_csr_selector_rows.jsonl", "csr_transformer_model_requests.jsonl",
    "csr_transformer_model_targets.jsonl", "csr_transformer_training_tensors.json",
    "csr_transformer_request_index.jsonl", "csr_transformer_tensor_summary.json",
    "csr_transformer_ready_summary.json", "csr_transformer_ready_schema.json"}

\* Execute one full-dataset CSR queue batch with CPU screen and Taichi GPU solves.
CsrQueueBatchOutputs ==
  <<"csr_queue_batch_matrix_queue.jsonl", "csr_queue_batch_candidate_queue.jsonl">> \o CsrMicroCampaignOutputs
  \o <<"csr_queue_batch_execution_summary.json", "csr_queue_batch_execution_schema.json",
      "csr_queue_batch_execution_state.json", "csr_queue_batch_execution_report.md">>
CsrQueueBatchRun ==
  [reads |-> At("csr_full_dataset_queue", {"csr_full_dataset_queue_batches.jsonl",
                 "csr_full_dataset_queue_jobs.jsonl", "csr_full_dataset_queue_matrices.jsonl"})
             \cup External({"matrix_archives"}),
   writes |-> CsrQueueBatchOutputs,
   status |-> "csr_queue_batch_execution_summary.json"]
CsrQueueBatchFiles ==
  At("csr_full_dataset_queue", {"csr_full_dataset_queue_matrices.jsonl",
      "csr_full_dataset_queue_jobs.jsonl", "csr_full_dataset_queue_batches.jsonl"})
  \cup Code({"datasets/csr.py", "operators/taichi_csr.py", "solvers/taichi_cg.py",
           "solvers/registry.py", "backends/registry.py", "runtime/engine.py",
           "profiling/csr_micro_campaign.py", "profiling/csr_queue_batch_execution.py",
           "scripts/tss_csr_queue_batch_execute.py"})
CsrQueueBatchAudit ==
  {"csr_queue_batch_matrix_queue.jsonl", "csr_queue_batch_candidate_queue.jsonl",
    "csr_matrices.jsonl", "csr_micro_campaign_results.jsonl", "csr_micro_campaign_summary.json",
    "csr_micro_selector_rows.jsonl", "csr_micro_selector_summary.json",
    "csr_queue_batch_execution_summary.json", "csr_queue_batch_execution_schema.json",
    "csr_queue_batch_execution_state.json"}

\* Build the append-only CSR queue training pool.
CsrQueueTrainingPoolOutputs ==
  <<"csr_queue_training_pool_selector_rows.jsonl", "csr_queue_training_pool_sources.jsonl",
      "csr_queue_training_pool_membership.jsonl", "csr_queue_training_pool_summary.json",
      "csr_queue_training_pool_schema.json", "csr_queue_training_pool_state.json",
      "csr_queue_training_pool_report.md">>
CsrQueueTrainingPoolRun ==
  [reads |-> At("csr_full_dataset_queue", {"csr_full_dataset_queue_batches.jsonl"})
             \cup At("csr_micro_campaign", {"csr_micro_selector_rows.jsonl"})
             \cup At("csr_selector_readiness", {"csr_selector_rows.jsonl"})
             \cup (QueueBatches \X
                  {"csr_queue_batch_execution_summary.json", "csr_micro_selector_rows.jsonl"}),
   writes |-> CsrQueueTrainingPoolOutputs,
   status |-> "csr_queue_training_pool_summary.json"]
CsrQueueTrainingPoolFiles ==
  At("csr_full_dataset_queue", {"csr_full_dataset_queue_batches.jsonl"})
  \cup At("csr_selector_readiness", {"csr_selector_rows.jsonl"})
  \cup At("csr_micro_campaign", {"csr_micro_selector_rows.jsonl"})
  \cup At("csr_queue_batch_00001", {"csr_micro_selector_rows.jsonl", "artifact_manifest.json"})
  \cup At("csr_queue_batch_00002", {"csr_micro_selector_rows.jsonl", "artifact_manifest.json"})
  \cup Code({"profiling/csr_queue_training_pool.py", "scripts/tss_csr_queue_training_pool.py"})
  \cup (QueueBatches \X {"csr_micro_selector_rows.jsonl", "artifact_manifest.json"})
CsrQueueTrainingPoolAudit ==
  {"csr_queue_training_pool_selector_rows.jsonl", "csr_queue_training_pool_sources.jsonl",
    "csr_queue_training_pool_membership.jsonl", "csr_queue_training_pool_summary.json",
    "csr_queue_training_pool_schema.json", "csr_queue_training_pool_state.json"}

\* Build a Transformer-ready CSR training bundle from the queue training pool.
CsrQueueBatchTrainingBundleRun ==
  [reads |-> At("csr_queue_training_pool", {"csr_queue_training_pool_selector_rows.jsonl",
                 "csr_queue_training_pool_summary.json"}),
   writes |-> CsrTransformerReadyOutputs,
   status |-> "csr_transformer_ready_summary.json"]
CsrQueueBatchTrainingBundleFiles ==
  At("csr_queue_training_pool", {"csr_queue_training_pool_selector_rows.jsonl",
      "csr_queue_training_pool_summary.json", "artifact_manifest.json"})
  \cup Code({"policies/csr_learning.py", "policies/csr_model_contract.py",
           "policies/csr_tensor_export.py", "policies/csr_transformer_ready.py",
           "scripts/tss_csr_queue_batch_training_bundle.py"})
CsrQueueBatchTrainingBundleAudit ==
  {"combined_csr_selector_rows.jsonl", "csr_transformer_model_requests.jsonl",
    "csr_transformer_model_targets.jsonl", "csr_transformer_training_tensors.json",
    "csr_transformer_request_index.jsonl", "csr_transformer_tensor_summary.json",
    "csr_transformer_ready_summary.json", "csr_transformer_ready_schema.json"}

\* Train a shadow CSR Transformer ranker on the queue-batch training bundle.
CsrQueueBatchReferenceRankerRun ==
  [reads |-> At("csr_queue_batch_training_bundle", {"csr_transformer_request_index.jsonl",
                 "csr_transformer_training_tensors.json"}),
   writes |->
     <<"csr_queue_batch_reference_ranker_model.json",
     "csr_queue_batch_reference_ranker_predictions.jsonl",
     "csr_queue_batch_reference_ranker_summary.json",
     "csr_queue_batch_reference_ranker_schema.json", "csr_queue_batch_reference_ranker_report.md">>,
   status |-> "csr_queue_batch_reference_ranker_summary.json"]
CsrQueueBatchReferenceRankerFiles ==
  At("csr_queue_batch_training_bundle", {"csr_transformer_training_tensors.json",
      "csr_transformer_request_index.jsonl", "csr_transformer_ready_summary.json",
      "artifact_manifest.json"}) \cup Code({"policies/csr_transformer_ranker.py",
           "scripts/tss_csr_queue_batch_reference_ranker.py"})
CsrQueueBatchReferenceRankerAudit ==
  {"csr_queue_batch_reference_ranker_model.json",
    "csr_queue_batch_reference_ranker_predictions.jsonl",
    "csr_queue_batch_reference_ranker_summary.json", "csr_queue_batch_reference_ranker_schema.json"}

\* Replay the queue-batch shadow ranker without retraining.
CsrQueueBatchModelReplayRun ==
  [reads |-> At("csr_queue_batch_reference_ranker", {
                 "csr_queue_batch_reference_ranker_model.json",
                 "csr_queue_batch_reference_ranker_predictions.jsonl"})
             \cup At("csr_queue_batch_training_bundle", {"csr_transformer_request_index.jsonl",
                      "csr_transformer_training_tensors.json"}),
   writes |->
     <<"csr_queue_batch_model_replay_predictions.jsonl",
     "csr_queue_batch_model_replay_comparison.jsonl", "csr_queue_batch_model_replay_summary.json",
     "csr_queue_batch_model_replay_schema.json", "csr_queue_batch_model_replay_report.md">>,
   status |-> "csr_queue_batch_model_replay_summary.json"]
CsrQueueBatchModelReplayFiles ==
  At("csr_queue_batch_reference_ranker", {"csr_queue_batch_reference_ranker_model.json",
      "csr_queue_batch_reference_ranker_predictions.jsonl", "artifact_manifest.json"})
  \cup At("csr_queue_batch_training_bundle", {"csr_transformer_training_tensors.json",
           "csr_transformer_request_index.jsonl"})
  \cup Code({"policies/csr_transformer_ranker.py", "policies/csr_transformer_model_replay.py",
           "scripts/tss_csr_queue_batch_model_replay.py"})
CsrQueueBatchModelReplayAudit ==
  {"csr_queue_batch_model_replay_predictions.jsonl", "csr_queue_batch_model_replay_comparison.jsonl",
    "csr_queue_batch_model_replay_summary.json", "csr_queue_batch_model_replay_schema.json"}

\* Diagnose solver/candidate coverage gaps after rolling CSR queue batches.
CsrQueueCandidateCoverageOutputs ==
  <<"csr_queue_candidate_coverage_batch_rows.jsonl",
      "csr_queue_candidate_coverage_candidate_rows.jsonl",
      "csr_queue_candidate_coverage_gap_rows.jsonl", "csr_queue_candidate_coverage_summary.json",
      "csr_queue_candidate_coverage_schema.json", "csr_queue_candidate_coverage_report.md">>
CsrQueueCandidateCoverageRun ==
  [reads |-> At("csr_full_dataset_queue", {"csr_full_dataset_queue_jobs.jsonl"})
             \cup At("csr_queue_training_pool", {"csr_queue_training_pool_summary.json"})
             \cup (QueueBatches \X
                  {"csr_queue_batch_execution_summary.json", "csr_micro_campaign_results.jsonl"}),
   writes |-> CsrQueueCandidateCoverageOutputs,
   status |-> "csr_queue_candidate_coverage_summary.json"]
CsrQueueCandidateCoverageFiles ==
  At("csr_full_dataset_queue", {"csr_full_dataset_queue_jobs.jsonl"})
  \cup At("csr_queue_training_pool", {"csr_queue_training_pool_summary.json"})
  \cup Code({"backends/registry.py", "solvers/registry.py", "preconditioners/registry.py",
           "profiling/csr_queue_candidate_coverage.py",
           "scripts/tss_csr_queue_candidate_coverage.py"})
CsrQueueCandidateCoverageAudit ==
  {"csr_queue_candidate_coverage_batch_rows.jsonl",
    "csr_queue_candidate_coverage_candidate_rows.jsonl",
    "csr_queue_candidate_coverage_gap_rows.jsonl", "csr_queue_candidate_coverage_summary.json",
    "csr_queue_candidate_coverage_schema.json"}

\* Run bounded GMRES restart coverage probe for queue-ready candidate gaps.
CsrGmresRestartCoverageOutputs ==
  <<"csr_gmres_restart_matrix_queue.jsonl", "csr_gmres_restart_candidate_queue.jsonl">> \o CsrMicroCampaignOutputs
  \o <<"csr_gmres_restart_coverage_summary.json", "csr_gmres_restart_coverage_schema.json",
      "csr_gmres_restart_coverage_report.md">>
CsrGmresRestartCoverageRun ==
  [reads |-> At("csr_queue_batch_00010", {"csr_queue_batch_matrix_queue.jsonl"})
             \cup At("csr_queue_candidate_coverage", {"csr_queue_candidate_coverage_summary.json"})
             \cup External({"matrix_archives"}),
   writes |-> CsrGmresRestartCoverageOutputs,
   status |-> "csr_gmres_restart_coverage_summary.json"]
CsrGmresRestartCoverageFiles ==
  At("csr_queue_batch_00010", {"csr_queue_batch_matrix_queue.jsonl"})
  \cup At("csr_queue_candidate_coverage", {"csr_queue_candidate_coverage_summary.json"})
  \cup Code({"profiling/csr_gmres_restart_coverage.py", "profiling/csr_micro_campaign.py",
           "datasets/csr.py", "operators/taichi_csr.py", "solvers/taichi_cg.py",
           "solvers/registry.py", "backends/registry.py", "runtime/engine.py",
           "policies/csr_selector_data.py", "profiling/repeats.py",
           "scripts/tss_csr_gmres_restart_coverage.py"})
CsrGmresRestartCoverageAudit ==
  {"csr_gmres_restart_matrix_queue.jsonl", "csr_gmres_restart_candidate_queue.jsonl",
    "csr_micro_campaign_results.jsonl", "csr_micro_selector_rows.jsonl",
    "csr_gmres_restart_coverage_summary.json", "csr_gmres_restart_coverage_schema.json"}

====
