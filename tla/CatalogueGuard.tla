---- MODULE CatalogueGuard ----
(* The guard and release stages: the learned guard and the guarded solves, the promotion and
   fallback coverage runs, and the public release checks.
   Of each stage: what its script reads, what it writes into its directory and in which order,
   and the file that carries its status (Run); the files its manifest hashes (Files); and the
   files of the directory that the artifact audit opens besides the manifest (Audit). *)
EXTENDS CatalogueModel

\* Smoke-test learned CSR runtime guards without launching GPU work.
CsrLearnedGuardRun ==
  [reads |-> At("csr_policy_model_artifact", {"csr_policy_model_artifact.json"})
             \cup At("suitesparse_csr_import", {"csr_matrices.jsonl"}),
   writes |->
     <<"fixture_selector_rows.jsonl", "fixture_predictions.jsonl", "fixture_quality_gate_summary.json",
     "csr_learned_guard_rows.jsonl", "csr_learned_guard_summary.json",
     "csr_learned_guard_schema.json", "csr_learned_guard_report.md">>,
   status |-> "csr_learned_guard_summary.json"]
CsrLearnedGuardFiles ==
  At("suitesparse_csr_import", {"csr_matrices.jsonl"})
  \cup At("csr_selector_readiness", {"csr_selector_rows.jsonl"})
  \cup At("csr_policy_model_artifact", {"csr_policy_model_artifact.json", "artifact_manifest.json"})
  \cup At("csr_transformer_quality_gate", {"csr_transformer_quality_gate_summary.json"})
  \cup Code({"__init__.py", "api.py", "policies/csr_artifact_selector.py",
           "policies/csr_learned_guard.py", "policies/csr_policy_model_artifact.py",
           "policies/csr_transformer_ranker.py", "runtime/guarded_fallback.py",
           "scripts/tss_csr_learned_guard_smoke.py"})
CsrLearnedGuardAudit ==
  {"csr_learned_guard_rows.jsonl", "csr_learned_guard_summary.json", "csr_learned_guard_schema.json"}

\* Exercise guarded public auto_solve_csr on real CSR selector fixtures.
CsrGuardedAutoSolveRun ==
  [reads |-> At("csr_policy_model_artifact", {"csr_policy_model_artifact.json"})
             \cup At("csr_selector_readiness", {"csr_selector_rows.jsonl"})
             \cup At("csr_transformer_quality_gate", {"csr_transformer_quality_gate_summary.json"})
             \cup At("csr_transformer_ranker", {"csr_transformer_ranker_model.json"})
             \cup At("csr_transformer_ready", {"csr_transformer_request_index.jsonl",
                      "csr_transformer_training_tensors.json"})
             \cup At("suitesparse_csr_import", {"csr_matrices.jsonl"}),
   writes |->
     <<"csr_guarded_auto_solve_results.jsonl", "csr_guarded_auto_solve_summary.json",
     "csr_guarded_auto_solve_schema.json", "csr_guarded_auto_solve_report.md">>,
   status |-> "csr_guarded_auto_solve_summary.json"]
CsrGuardedAutoSolveFiles ==
  At("suitesparse_csr_import", {"csr_matrices.jsonl"})
  \cup At("csr_selector_readiness", {"csr_selector_rows.jsonl"})
  \cup At("csr_policy_model_artifact", {"csr_policy_model_artifact.json", "artifact_manifest.json"})
  \cup At("csr_transformer_quality_gate", {"csr_transformer_quality_gate_summary.json"})
  \cup Code({"__init__.py", "api.py", "datasets/csr.py", "policies/csr_artifact_selector.py",
           "policies/csr_learned_guard.py", "policies/csr_policy_model_artifact.py",
           "policies/csr_transformer_ranker.py", "runtime/guarded_fallback.py",
           "operators/taichi_csr.py", "solvers/taichi_cg.py", "solvers/registry.py",
           "backends/registry.py", "runtime/engine.py",
           "scripts/tss_csr_guarded_auto_solve_smoke.py"})
CsrGuardedAutoSolveAudit ==
  {"csr_guarded_auto_solve_results.jsonl", "csr_guarded_auto_solve_summary.json",
    "csr_guarded_auto_solve_schema.json"}

\* Exercise learned CSR guard promotion and fallback readiness on real GPU solves.
CsrGuardedPromotionReadinessRun ==
  [reads |-> At("csr_selector_readiness", {"csr_selector_rows.jsonl"})
             \cup At("csr_transformer_quality_gate", {"csr_transformer_quality_gate_summary.json"})
             \cup At("csr_transformer_ranker", {"csr_transformer_ranker_predictions.jsonl"})
             \cup At("suitesparse_csr_import", {"csr_matrices.jsonl"}),
   writes |->
     <<"fixture_promotable_predictions.jsonl", "fixture_runtime_eligible_quality_gate_summary.json",
     "csr_guarded_promotion_readiness_results.jsonl",
     "csr_guarded_promotion_readiness_summary.json",
     "csr_guarded_promotion_readiness_schema.json", "csr_guarded_promotion_readiness_report.md">>,
   status |-> "csr_guarded_promotion_readiness_summary.json"]
CsrGuardedPromotionReadinessFiles ==
  At("suitesparse_csr_import", {"csr_matrices.jsonl"})
  \cup At("csr_selector_readiness", {"csr_selector_rows.jsonl"})
  \cup At("csr_transformer_ranker", {"csr_transformer_ranker_predictions.jsonl"})
  \cup At("csr_transformer_quality_gate", {"csr_transformer_quality_gate_summary.json"})
  \cup Code({"__init__.py", "api.py", "datasets/csr.py", "policies/csr_artifact_selector.py",
           "policies/csr_learned_guard.py", "runtime/guarded_fallback.py", "operators/taichi_csr.py",
           "solvers/taichi_cg.py", "solvers/registry.py", "backends/registry.py",
           "runtime/engine.py", "scripts/tss_csr_guarded_promotion_readiness.py"})
CsrGuardedPromotionReadinessAudit ==
  {"csr_guarded_promotion_readiness_results.jsonl", "csr_guarded_promotion_readiness_summary.json",
    "csr_guarded_promotion_readiness_schema.json"}

\* Plan guarded learned-policy promotion coverage expansion.
CsrGuardedPromotionCoveragePlanRun ==
  [reads |-> At("csr_micro_campaign", {"csr_matrices.jsonl"})
             \cup At("csr_transformer_quality_gate", {"csr_transformer_quality_gate_summary.json"})
             \cup At("csr_transformer_ranker", {"csr_transformer_ranker_predictions.jsonl"})
             \cup At("csr_transformer_ready", {"combined_csr_selector_rows.jsonl"})
             \cup At("suitesparse_csr_import", {"csr_matrices.jsonl"}),
   writes |->
     <<"csr_guarded_promotion_coverage_scenarios.jsonl", "csr_guarded_promotion_coverage_summary.json",
     "csr_guarded_promotion_coverage_schema.json", "csr_guarded_promotion_coverage_report.md">>,
   status |-> "csr_guarded_promotion_coverage_summary.json"]
CsrGuardedPromotionCoveragePlanFiles ==
  At("csr_transformer_ready", {"combined_csr_selector_rows.jsonl"})
  \cup At("csr_transformer_ranker", {"csr_transformer_ranker_predictions.jsonl"})
  \cup At("csr_transformer_quality_gate", {"csr_transformer_quality_gate_summary.json"})
  \cup At("suitesparse_csr_import", {"csr_matrices.jsonl"})
  \cup At("csr_micro_campaign", {"csr_matrices.jsonl"})
  \cup Code({"profiling/csr_guarded_promotion_coverage.py",
           "scripts/tss_csr_guarded_promotion_coverage_plan.py"})
CsrGuardedPromotionCoveragePlanAudit ==
  {"csr_guarded_promotion_coverage_scenarios.jsonl", "csr_guarded_promotion_coverage_summary.json",
    "csr_guarded_promotion_coverage_schema.json"}

\* Execute a light guarded learned-policy CSR promotion coverage subset.
CsrGuardedPromotionCoverageExecRun ==
  [reads |-> At("csr_guarded_promotion_coverage_plan", {
                 "csr_guarded_promotion_coverage_scenarios.jsonl"})
             \cup At("csr_transformer_quality_gate", {"csr_transformer_quality_gate_summary.json"})
             \cup At("csr_transformer_ranker", {"csr_transformer_ranker_predictions.jsonl"})
             \cup At("csr_transformer_ready", {"combined_csr_selector_rows.jsonl"}),
   writes |->
     <<"fixture_coverage_predictions.jsonl", "fixture_runtime_eligible_quality_gate_summary.json",
     "csr_guarded_promotion_coverage_exec_results.jsonl",
     "csr_guarded_promotion_coverage_exec_summary.json",
     "csr_guarded_promotion_coverage_exec_schema.json",
     "csr_guarded_promotion_coverage_exec_report.md">>,
   status |-> "csr_guarded_promotion_coverage_exec_summary.json"]
CsrGuardedPromotionCoverageExecFiles ==
  At("csr_guarded_promotion_coverage_plan", {"csr_guarded_promotion_coverage_scenarios.jsonl"})
  \cup At("csr_transformer_ready", {"combined_csr_selector_rows.jsonl"})
  \cup At("csr_transformer_ranker", {"csr_transformer_ranker_predictions.jsonl"})
  \cup At("csr_transformer_quality_gate", {"csr_transformer_quality_gate_summary.json"})
  \cup At("suitesparse_csr_import", {"csr_matrices.jsonl"})
  \cup At("csr_micro_campaign", {"csr_matrices.jsonl"})
  \cup Code({"__init__.py", "api.py", "datasets/csr.py", "policies/csr_artifact_selector.py",
           "policies/csr_learned_guard.py", "runtime/guarded_fallback.py", "operators/taichi_csr.py",
           "solvers/taichi_cg.py", "solvers/registry.py", "backends/registry.py",
           "runtime/engine.py", "scripts/tss_csr_guarded_promotion_coverage_exec.py"})
CsrGuardedPromotionCoverageExecAudit ==
  {"csr_guarded_promotion_coverage_exec_results.jsonl",
    "csr_guarded_promotion_coverage_exec_summary.json",
    "csr_guarded_promotion_coverage_exec_schema.json"}

\* Probe exact profiled-success fallbacks for non-success learned CSR choices.
CsrNonSuccessFallbackProbeRun ==
  [reads |-> At("csr_guarded_promotion_coverage_plan", {
                 "csr_guarded_promotion_coverage_scenarios.jsonl"}),
   writes |->
     <<"csr_non_success_fallback_probe_results.jsonl", "csr_non_success_fallback_selector_rows.jsonl",
     "csr_non_success_fallback_probe_summary.json", "csr_non_success_fallback_probe_schema.json",
     "csr_non_success_fallback_probe_report.md">>,
   status |-> "csr_non_success_fallback_probe_summary.json"]
CsrNonSuccessFallbackProbeFiles ==
  At("csr_guarded_promotion_coverage_plan", {"csr_guarded_promotion_coverage_scenarios.jsonl"})
  \cup At("suitesparse_csr_import", {"csr_matrices.jsonl"})
  \cup At("csr_micro_campaign", {"csr_matrices.jsonl"})
  \cup Code({"datasets/csr.py", "operators/taichi_csr.py", "policies/csr_selector_data.py",
           "profiling/csr_micro_campaign.py", "runtime/engine.py",
           "scripts/tss_csr_non_success_fallback_probe.py"})
CsrNonSuccessFallbackProbeAudit ==
  {"csr_non_success_fallback_probe_results.jsonl", "csr_non_success_fallback_selector_rows.jsonl",
    "csr_non_success_fallback_probe_summary.json", "csr_non_success_fallback_probe_schema.json"}

\* Integrate resolved non-success fallback rows into guarded CSR coverage.
CsrGuardedNonSuccessFallbackIntegrationRun ==
  [reads |-> At("csr_guarded_promotion_coverage_plan", {
                 "csr_guarded_promotion_coverage_scenarios.jsonl"})
             \cup At("csr_non_success_fallback_probe", {
                      "csr_non_success_fallback_selector_rows.jsonl"})
             \cup At("csr_transformer_ready", {"combined_csr_selector_rows.jsonl"}),
   writes |->
     <<"augmented_csr_selector_rows.jsonl", "fixture_non_success_predictions.jsonl",
     "fixture_runtime_eligible_quality_gate_summary.json",
     "csr_guarded_non_success_fallback_integration_results.jsonl",
     "csr_guarded_non_success_fallback_integration_summary.json",
     "csr_guarded_non_success_fallback_integration_schema.json",
     "csr_guarded_non_success_fallback_integration_report.md">>,
   status |-> "csr_guarded_non_success_fallback_integration_summary.json"]
CsrGuardedNonSuccessFallbackIntegrationFiles ==
  At("csr_guarded_promotion_coverage_plan", {"csr_guarded_promotion_coverage_scenarios.jsonl"})
  \cup At("csr_transformer_ready", {"combined_csr_selector_rows.jsonl"})
  \cup At("csr_non_success_fallback_probe", {"csr_non_success_fallback_selector_rows.jsonl"})
  \cup At("suitesparse_csr_import", {"csr_matrices.jsonl"})
  \cup At("csr_micro_campaign", {"csr_matrices.jsonl"})
  \cup Code({"__init__.py", "api.py", "datasets/csr.py", "policies/csr_artifact_selector.py",
           "policies/csr_learned_guard.py", "runtime/guarded_fallback.py", "operators/taichi_csr.py",
           "solvers/taichi_cg.py", "solvers/registry.py", "backends/registry.py",
           "runtime/engine.py", "scripts/tss_csr_guarded_non_success_fallback_integration.py"})
CsrGuardedNonSuccessFallbackIntegrationAudit ==
  {"augmented_csr_selector_rows.jsonl", "fixture_non_success_predictions.jsonl",
    "fixture_runtime_eligible_quality_gate_summary.json",
    "csr_guarded_non_success_fallback_integration_results.jsonl",
    "csr_guarded_non_success_fallback_integration_summary.json",
    "csr_guarded_non_success_fallback_integration_schema.json"}

\* Integrate ILU0 success evidence into guarded CSR selector fixtures.
CsrIlu0GuardedIntegrationRun ==
  [reads |-> At("csr_micro_campaign", {"csr_matrices.jsonl"})
             \cup At("csr_transformer_ready", {"combined_csr_selector_rows.jsonl"})
             \cup At("suitesparse_csr_import", {"csr_matrices.jsonl"})
             \cup At("taichi_csr_ilu0", {"csr_ilu0_results.jsonl"}),
   writes |->
     <<"csr_ilu0_guarded_selector_rows.jsonl", "fixture_ilu0_predictions.jsonl",
     "fixture_runtime_eligible_quality_gate_summary.json",
     "csr_ilu0_guarded_integration_results.jsonl", "csr_ilu0_guarded_integration_summary.json",
     "csr_ilu0_guarded_integration_schema.json", "csr_ilu0_guarded_integration_report.md">>,
   status |-> "csr_ilu0_guarded_integration_summary.json"]
CsrIlu0GuardedIntegrationFiles ==
  At("taichi_csr_ilu0", {"csr_ilu0_results.jsonl"})
  \cup At("csr_transformer_ready", {"combined_csr_selector_rows.jsonl"})
  \cup At("suitesparse_csr_import", {"csr_matrices.jsonl"})
  \cup At("csr_micro_campaign", {"csr_matrices.jsonl"})
  \cup Code({"__init__.py", "api.py", "datasets/csr.py", "policies/csr_artifact_selector.py",
           "policies/csr_learned_guard.py", "runtime/guarded_fallback.py", "operators/taichi_csr.py",
           "solvers/taichi_cg.py", "solvers/registry.py", "backends/registry.py",
           "runtime/engine.py", "scripts/tss_csr_ilu0_guarded_integration.py"})
CsrIlu0GuardedIntegrationAudit ==
  {"csr_ilu0_guarded_selector_rows.jsonl", "fixture_ilu0_predictions.jsonl",
    "fixture_runtime_eligible_quality_gate_summary.json",
    "csr_ilu0_guarded_integration_results.jsonl", "csr_ilu0_guarded_integration_summary.json",
    "csr_ilu0_guarded_integration_schema.json"}

\* Expand Taichi GPU CSR ILU0 coverage without changing runtime selection.
CsrIlu0CoverageExpansionRun ==
  [reads |-> At("csr_micro_campaign", {"csr_matrices.jsonl"})
             \cup At("csr_transformer_ready", {"combined_csr_selector_rows.jsonl"})
             \cup At("suitesparse_csr_import", {"csr_matrices.jsonl"}),
   writes |->
     <<"csr_ilu0_coverage_results.jsonl", "csr_ilu0_coverage_selector_rows.jsonl",
     "csr_ilu0_coverage_summary.json", "csr_ilu0_coverage_schema.json",
     "csr_ilu0_coverage_report.md">>,
   status |-> "csr_ilu0_coverage_summary.json"]
CsrIlu0CoverageExpansionFiles ==
  At("taichi_csr_ilu0", {"csr_ilu0_results.jsonl"})
  \cup At("csr_transformer_ready", {"combined_csr_selector_rows.jsonl"})
  \cup At("suitesparse_csr_import", {"csr_matrices.jsonl"})
  \cup At("csr_micro_campaign", {"csr_matrices.jsonl"})
  \cup Code({"datasets/csr.py", "operators/taichi_csr.py", "operators/taichi_diffusion2d.py",
           "runtime/engine.py", "scripts/tss_taichi_csr_ilu0_smoke.py",
           "scripts/tss_csr_ilu0_coverage_expansion.py"})
CsrIlu0CoverageExpansionAudit ==
  {"csr_ilu0_coverage_results.jsonl", "csr_ilu0_coverage_selector_rows.jsonl",
    "csr_ilu0_coverage_summary.json", "csr_ilu0_coverage_schema.json"}

\* Plan minimal coverage for unresolved guarded CSR fallback gaps.
CsrUnresolvedFallbackCoveragePlanRun ==
  [reads |-> At("csr_guarded_non_success_fallback_integration", {
                 "csr_guarded_non_success_fallback_integration_results.jsonl",
                 "csr_guarded_non_success_fallback_integration_summary.json"})
             \cup At("csr_non_success_fallback_probe", {
                      "csr_non_success_fallback_probe_results.jsonl"}),
   writes |->
     <<"csr_unresolved_fallback_candidate_plan.jsonl",
     "csr_unresolved_fallback_matrix_diagnostics.jsonl",
     "csr_unresolved_fallback_coverage_plan_summary.json",
     "csr_unresolved_fallback_coverage_plan_schema.json",
     "csr_unresolved_fallback_coverage_plan_report.md">>,
   status |-> "csr_unresolved_fallback_coverage_plan_summary.json"]
CsrUnresolvedFallbackCoveragePlanFiles ==
  At("csr_non_success_fallback_probe", {"csr_non_success_fallback_probe_results.jsonl"})
  \cup At("csr_guarded_non_success_fallback_integration", {
           "csr_guarded_non_success_fallback_integration_results.jsonl",
           "csr_guarded_non_success_fallback_integration_summary.json"})
  \cup Code({"scripts/tss_csr_unresolved_fallback_coverage_plan.py"})
CsrUnresolvedFallbackCoveragePlanAudit ==
  {"csr_unresolved_fallback_candidate_plan.jsonl",
    "csr_unresolved_fallback_matrix_diagnostics.jsonl",
    "csr_unresolved_fallback_coverage_plan_summary.json",
    "csr_unresolved_fallback_coverage_plan_schema.json"}

\* CPU-screen unresolved guarded CSR fallback candidates before any GPU probe.
CsrUnresolvedFallbackCpuScreenRun ==
  [reads |-> At("csr_micro_campaign", {"csr_matrices.jsonl"})
             \cup At("csr_unresolved_fallback_coverage_plan", {
                      "csr_unresolved_fallback_candidate_plan.jsonl",
                      "csr_unresolved_fallback_coverage_plan_summary.json"})
             \cup At("suitesparse_csr_import", {"csr_matrices.jsonl"}),
   writes |->
     <<"csr_unresolved_fallback_cpu_screen_results.jsonl",
     "csr_unresolved_fallback_cpu_screen_summary.json",
     "csr_unresolved_fallback_cpu_screen_schema.json",
     "csr_unresolved_fallback_cpu_screen_report.md">>,
   status |-> "csr_unresolved_fallback_cpu_screen_summary.json"]
CsrUnresolvedFallbackCpuScreenFiles ==
  At("csr_unresolved_fallback_coverage_plan", {"csr_unresolved_fallback_candidate_plan.jsonl",
      "csr_unresolved_fallback_coverage_plan_summary.json"})
  \cup At("suitesparse_csr_import", {"csr_matrices.jsonl"})
  \cup At("csr_micro_campaign", {"csr_matrices.jsonl"})
  \cup Code({"datasets/csr.py", "profiling/csr_micro_campaign.py",
           "scripts/tss_csr_unresolved_fallback_cpu_screen.py"})
CsrUnresolvedFallbackCpuScreenAudit ==
  {"csr_unresolved_fallback_cpu_screen_results.jsonl",
    "csr_unresolved_fallback_cpu_screen_summary.json",
    "csr_unresolved_fallback_cpu_screen_schema.json"}

\* Diagnose unresolved guarded CSR fallback matrices after CPU screens.
CsrUnresolvedMatrixDiagnosticsRun ==
  [reads |-> At("csr_micro_campaign", {"csr_matrices.jsonl"})
             \cup At("csr_unresolved_fallback_cpu_screen", {
                      "csr_unresolved_fallback_cpu_screen_results.jsonl",
                      "csr_unresolved_fallback_cpu_screen_summary.json"})
             \cup At("suitesparse_csr_import", {"csr_matrices.jsonl"}),
   writes |->
     <<"csr_unresolved_matrix_diagnostics.jsonl", "csr_unresolved_matrix_diagnostics_summary.json",
     "csr_unresolved_matrix_diagnostics_schema.json",
     "csr_unresolved_matrix_diagnostics_report.md">>,
   status |-> "csr_unresolved_matrix_diagnostics_summary.json"]
CsrUnresolvedMatrixDiagnosticsFiles ==
  At("csr_unresolved_fallback_cpu_screen", {"csr_unresolved_fallback_cpu_screen_results.jsonl",
      "csr_unresolved_fallback_cpu_screen_summary.json"})
  \cup At("suitesparse_csr_import", {"csr_matrices.jsonl"})
  \cup At("csr_micro_campaign", {"csr_matrices.jsonl"})
  \cup Code({"datasets/csr.py", "datasets/csr_diagnostics.py",
           "scripts/tss_csr_unresolved_matrix_diagnostics.py"})
CsrUnresolvedMatrixDiagnosticsAudit ==
  {"csr_unresolved_matrix_diagnostics.jsonl", "csr_unresolved_matrix_diagnostics_summary.json",
    "csr_unresolved_matrix_diagnostics_schema.json"}

\* Build the public-release hygiene artifact.
PublicReleaseHygieneOutputs ==
  <<"public_release_hygiene_rows.jsonl", "public_release_hygiene_summary.json",
      "public_release_hygiene_schema.json", "public_release_checklist.md",
      "public_release_hygiene_report.md">>
PublicReleaseHygieneRun ==
  [reads |-> Code({".gitignore", "CITATION.cff", "COMMERCIAL_USE.md", "CONTRIBUTING.md",
                 "CONTRIBUTOR_LICENSE_AGREEMENT.md", "LICENSE", "LICENSE_POLICY.md",
                 "MODEL_CONTRIBUTION_TERMS.md", "README.md", "docs/PROJECT_OVERVIEW.md"}),
   writes |-> PublicReleaseHygieneOutputs,
   status |-> "public_release_hygiene_summary.json"]
PublicReleaseHygieneFiles ==
  Code({".gitignore", "LICENSE", "README.md", "docs/PROJECT_OVERVIEW.md", "LICENSE_POLICY.md",
      "COMMERCIAL_USE.md", "MODEL_CONTRIBUTION_TERMS.md", "CONTRIBUTOR_LICENSE_AGREEMENT.md",
      "CITATION.cff", "CONTRIBUTING.md", "profiling/public_release_hygiene.py",
      "scripts/tss_public_release_hygiene.py"})
PublicReleaseHygieneAudit ==
  {"public_release_hygiene_rows.jsonl", "public_release_hygiene_summary.json",
    "public_release_hygiene_schema.json", "public_release_checklist.md",
    "public_release_hygiene_report.md"}

\* Export policy training rows and Transformer feature schema.
TransformerReadinessRun ==
  [reads |-> At("smoke_taichi", {"candidate_evaluation.jsonl"})
             \cup Code({"configs/workloads/phase1_smoke.yaml"}),
   writes |->
     <<"policy_training_rows.jsonl", "transformer_feature_schema.json",
     "transformer_readiness_report.md">>,
   status |-> "none"]
TransformerReadinessFiles ==
  At("smoke_taichi", {"candidate_evaluation.jsonl"})
  \cup Code({"configs/workloads/phase1_smoke.yaml", "benchmarks/expand.py",
           "policies/training_data.py", "policies/transformer_contract.py",
           "scripts/tss_export_policy_training_rows.py"})
TransformerReadinessAudit == {"policy_training_rows.jsonl", "transformer_feature_schema.json"}

\* Exercise the public Python API on a real Taichi GPU smoke solve.
PublicApiSmokeRun ==
  [reads |-> At("smoke_taichi", {"candidate_evaluation.jsonl"})
             \cup Code({"configs/candidates/phase1_taichi_gpu.yaml",
                      "configs/datasets/phase1_external_small.yaml",
                      "configs/workloads/phase1_smoke.yaml"}),
   writes |-> <<"public_api_smoke.json">>,
   status |-> "none"]
PublicApiSmokeFiles ==
  At("smoke_taichi", {"candidate_evaluation.jsonl"})
  \cup Code({"configs/candidates/phase1_taichi_gpu.yaml",
           "configs/datasets/phase1_external_small.yaml", "configs/workloads/phase1_smoke.yaml",
           "__init__.py", "api.py", "operators/synthetic.py", "operators/taichi_diffusion2d.py",
           "solvers/registry.py", "backends/registry.py", "scripts/tss_public_api_smoke.py"})
PublicApiSmokeAudit == {"public_api_smoke.json"}

\* Exercise public CSR diagnostics and solve API on real CSR fixtures.
CsrPublicApiRun ==
  [reads |-> At("suitesparse_csr_import", {"csr_matrices.jsonl"}),
   writes |-> <<"csr_public_api_smoke.json">>,
   status |-> "csr_public_api_smoke.json"]
CsrPublicApiFiles ==
  At("suitesparse_csr_import", {"csr_matrices.jsonl"})
  \cup Code({"__init__.py", "api.py", "datasets/csr.py", "datasets/diagnostics.py",
           "operators/taichi_csr.py", "solvers/taichi_cg.py", "solvers/registry.py",
           "backends/registry.py", "runtime/engine.py", "scripts/tss_csr_public_api_smoke.py"})
CsrPublicApiAudit == {"csr_public_api_smoke.json"}

\* Run functional GPU smoke solves for expanded solver candidates.
SolverFunctionalOutputs ==
  <<"solver_functional_results.jsonl", "solver_functional_report.md">>
SolverFunctionalRun ==
  [reads |-> Code({"configs/workloads/phase1_solver_functional.yaml"}),
   writes |-> SolverFunctionalOutputs,
   status |-> "none"]
SolverFunctionalFiles ==
  Code({"configs/workloads/phase1_solver_functional.yaml",
      "configs/candidates/phase1_solver_expansion.yaml", "configs/runtime/resource_limits.yaml",
      "backends/registry.py", "operators/synthetic.py", "operators/taichi_diffusion2d.py",
      "solvers/registry.py", "solvers/taichi_cg.py", "runtime/engine.py",
      "runtime/plan_resolver.py", "profiling/solver_functional.py",
      "scripts/tss_solver_functional_smoke.py"})
SolverFunctionalAudit == {"solver_functional_results.jsonl"}

\* The stages of the campaign report, each with the rows file it counts.
CampaignRows ==
  {<<"smoke_taichi", "candidate_performance.jsonl">>,
   <<"smoke_expanded_solvers", "candidate_performance.jsonl">>,
   <<"numerical_regression", "numerical_regression.jsonl">>,
   <<"sequence_taichi", "sequence_steps.jsonl">>,
   <<"policy_selection", "selected_policy_plans.jsonl">>,
   <<"policy_solve", "policy_solve_results.jsonl">>, <<"dataset_plan", "download_plan.jsonl">>,
   <<"matrix_market_probe", "matrix_metadata.jsonl">>,
   <<"suitesparse_selection", "selected_matrices.jsonl">>,
   <<"suitesparse_header_probe", "archive_header_probe.jsonl">>,
   <<"suitesparse_csr_import", "csr_matrices.jsonl">>,
   <<"taichi_csr_matvec", "csr_matvec_results.jsonl">>,
   <<"taichi_csr_primitives", "csr_primitives_results.jsonl">>,
   <<"taichi_csr_solve", "csr_solve_results.jsonl">>,
   <<"taichi_csr_bicgstab", "csr_bicgstab_results.jsonl">>,
   <<"taichi_csr_gmres", "csr_gmres_results.jsonl">>,
   <<"taichi_csr_richardson", "csr_richardson_results.jsonl">>,
   <<"taichi_csr_chebyshev", "csr_chebyshev_results.jsonl">>,
   <<"taichi_csr_symmetric_equilibration", "csr_symmetric_equilibration_results.jsonl">>,
   <<"taichi_csr_row_column_equilibration", "csr_row_column_equilibration_results.jsonl">>,
   <<"taichi_csr_ilu0", "csr_ilu0_results.jsonl">>,
   <<"csr_selector_readiness", "csr_selector_rows.jsonl">>,
   <<"csr_selector_policy", "csr_selected_policy_plans.jsonl">>,
   <<"csr_auto_solve", "csr_auto_solve_results.jsonl">>,
   <<"csr_learning_readiness", "csr_learning_rows.jsonl">>,
   <<"csr_model_contract", "csr_model_requests.jsonl">>,
   <<"csr_training_tensors", "csr_training_request_index.jsonl">>,
   <<"csr_linear_ranker", "csr_linear_ranker_predictions.jsonl">>,
   <<"csr_selector_model_eval", "csr_selector_model_eval_rows.jsonl">>,
   <<"csr_benchmark_expansion_plan", "csr_benchmark_candidate_queue.jsonl">>,
   <<"csr_full_dataset_queue", "csr_full_dataset_queue_jobs.jsonl">>,
   <<"csr_queue_training_pool", "csr_queue_training_pool_selector_rows.jsonl">>,
   <<"csr_queue_batch_training_bundle", "csr_transformer_request_index.jsonl">>,
   <<"csr_queue_batch_reference_ranker", "csr_queue_batch_reference_ranker_predictions.jsonl">>,
   <<"csr_queue_batch_model_replay", "csr_queue_batch_model_replay_comparison.jsonl">>,
   <<"csr_queue_candidate_coverage", "csr_queue_candidate_coverage_gap_rows.jsonl">>,
   <<"csr_gmres_restart_coverage", "csr_micro_campaign_results.jsonl">>,
   <<"csr_blocked_gap_probe", "csr_micro_campaign_results.jsonl">>,
   <<"csr_blocked_gap_positive_search", "csr_blocked_gap_positive_results.jsonl">>,
   <<"csr_blocked_gap_training_integration", "combined_csr_selector_rows.jsonl">>,
   <<"csr_blocked_gap_augmented_ranker", "csr_blocked_gap_augmented_ranker_predictions.jsonl">>,
   <<"csr_blocked_gap_guarded_replay", "csr_blocked_gap_guarded_replay_rows.jsonl">>,
   <<"csr_transformer_handoff_bundle", "csr_transformer_handoff_bundle_rows.jsonl">>,
   <<"csr_transformer_training_package", "csr_transformer_training_package_rows.jsonl">>,
   <<"csr_transformer_package_consumer_dry_run", "csr_transformer_package_consumer_dry_run_rows.jsonl">>,
   <<"csr_micro_campaign", "csr_micro_selector_rows.jsonl">>,
   <<"csr_transformer_ready", "csr_transformer_request_index.jsonl">>,
   <<"csr_transformer_ranker", "csr_transformer_ranker_predictions.jsonl">>,
   <<"csr_external_model_adapter", "csr_external_model_adapter_rows.jsonl">>,
   <<"csr_transformer_model_replay", "csr_transformer_model_replay_predictions.jsonl">>,
   <<"csr_transformer_quality_gate", "csr_transformer_quality_gate_rows.jsonl">>,
   <<"csr_policy_model_artifact", "csr_policy_model_artifact_rows.jsonl">>,
   <<"csr_policy_model_acceptance", "csr_policy_model_acceptance_rows.jsonl">>,
   <<"csr_policy_model_submission", "csr_policy_model_submission_rows.jsonl">>,
   <<"csr_external_model_intake", "csr_external_model_intake_rows.jsonl">>,
   <<"csr_transformer_training_entrypoint", "csr_transformer_training_entrypoint_rows.jsonl">>,
   <<"csr_transformer_reference_training_export", "csr_transformer_reference_training_export_rows.jsonl">>,
   <<"csr_learned_guard", "csr_learned_guard_rows.jsonl">>,
   <<"csr_guarded_auto_solve", "csr_guarded_auto_solve_results.jsonl">>,
   <<"csr_guarded_promotion_readiness", "csr_guarded_promotion_readiness_results.jsonl">>,
   <<"csr_guarded_promotion_coverage_plan", "csr_guarded_promotion_coverage_scenarios.jsonl">>,
   <<"csr_guarded_promotion_coverage_exec", "csr_guarded_promotion_coverage_exec_results.jsonl">>,
   <<"csr_non_success_fallback_probe", "csr_non_success_fallback_probe_results.jsonl">>,
   <<"csr_guarded_non_success_fallback_integration", "csr_guarded_non_success_fallback_integration_results.jsonl">>,
   <<"csr_ilu0_guarded_integration", "csr_ilu0_guarded_integration_results.jsonl">>,
   <<"csr_ilu0_coverage_expansion", "csr_ilu0_coverage_results.jsonl">>,
   <<"csr_unresolved_fallback_coverage_plan", "csr_unresolved_fallback_candidate_plan.jsonl">>,
   <<"csr_unresolved_fallback_cpu_screen", "csr_unresolved_fallback_cpu_screen_results.jsonl">>,
   <<"csr_unresolved_matrix_diagnostics", "csr_unresolved_matrix_diagnostics.jsonl">>,
   <<"public_release_hygiene", "public_release_hygiene_rows.jsonl">>,
   <<"transformer_readiness", "policy_training_rows.jsonl">>,
   <<"public_api_smoke", "public_api_smoke.json">>,
   <<"csr_public_api", "csr_public_api_smoke.json">>,
   <<"solver_functional", "solver_functional_results.jsonl">>}
  \cup (QueueBatches \X {"csr_micro_campaign_results.jsonl"})

\* Build the Phase 1 readiness campaign report from existing artifacts.
CampaignOutputs ==
  <<"campaign_summary.json", "campaign_report.md">>
CampaignRun ==
  [reads |-> CampaignRows \cup {Manifest(row[1]) : row \in CampaignRows},
   writes |-> CampaignOutputs,
   status |-> "campaign_summary.json"]
CampaignFiles ==
  {Manifest(row[1]) : row \in CampaignRows}
  \cup Code({"profiling/campaign.py", "scripts/tss_phase1_campaign.py"})
CampaignAudit == {"campaign_summary.json"}

====
