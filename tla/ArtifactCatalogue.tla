---- MODULE ArtifactCatalogue ----
(* All stages of the workspace in the order in which the audit looks at them. A stage is a script
   with its artifact directory: it reads files, writes the files of its directory one after the
   other and its manifest last, and hashes its tracked files into that manifest. *)
EXTENDS CatalogueMatrices, CatalogueSelector, CatalogueModel, CatalogueGuard

\* Four stages write down checksums, and parse only a part of what they read. The package takes over
\* those of the hand-off, the dry run compares those of the package.
HandoffDir == "csr_transformer_handoff_bundle"
PackageDir == "csr_transformer_training_package"
DryRunDir == "csr_transformer_package_consumer_dry_run"
SubmissionDir == "csr_policy_model_submission"
ParsedBy(dir, run) ==
  CASE dir = HandoffDir -> CsrTransformerHandoffBundleParses
    [] dir = PackageDir -> CsrTransformerTrainingPackageParses
    [] dir = DryRunDir -> CsrTransformerPackageConsumerDryRunParses
    [] dir = SubmissionDir -> CsrPolicyModelSubmissionParses
    [] OTHER -> run.reads
ChecksumsIn(dir) ==
  CASE dir = HandoffDir -> CsrTransformerHandoffBundleSums
    [] dir = PackageDir -> CsrTransformerTrainingPackageSums
    [] dir = SubmissionDir -> CsrPolicyModelSubmissionSums
    [] OTHER -> {}
ChecksumFile(dir) ==
  CASE dir = HandoffDir -> <<dir, "csr_transformer_handoff_bundle_rows.jsonl">>
    [] dir = PackageDir -> <<dir, "csr_transformer_training_package_manifest.json">>
    [] dir = SubmissionDir -> <<dir, "csr_policy_model_submission_manifest.json">>
    [] OTHER -> Manifest(dir)
ChecksumsFrom(dir) ==
  CASE dir = PackageDir -> HandoffDir [] dir = DryRunDir -> PackageDir [] OTHER -> "none"

\* The record of a stage; the names in the catalogues are relative to its directory.
Stage(dir, run, files, opened) ==
  [dir |-> dir,
   reads |-> run.reads,
   parses |-> ParsedBy(dir, run),
   writes |-> [i \in DOMAIN run.writes |-> <<dir, run.writes[i]>>] \o <<Manifest(dir)>>,
   status |-> <<dir, run.status>>,
   tracks |-> files,
   opens |-> {dir} \X opened,
   sums |-> ChecksumsIn(dir)]

AuditedStages ==
  <<Stage("smoke_taichi", SmokeTaichiRun, SmokeTaichiFiles, SmokeTaichiAudit),
    Stage("smoke_expanded_solvers",
          SmokeExpandedSolversRun, SmokeExpandedSolversFiles, SmokeExpandedSolversAudit),
    Stage("numerical_regression",
          NumericalRegressionRun, NumericalRegressionFiles, NumericalRegressionAudit),
    Stage("sequence_taichi", SequenceTaichiRun, SequenceTaichiFiles, SequenceTaichiAudit),
    Stage("policy_selection", PolicySelectionRun, PolicySelectionFiles, PolicySelectionAudit),
    Stage("policy_solve", PolicySolveRun, PolicySolveFiles, PolicySolveAudit),
    Stage("dataset_plan", DatasetPlanRun, DatasetPlanFiles, DatasetPlanAudit),
    Stage("matrix_market_probe",
          MatrixMarketProbeRun, MatrixMarketProbeFiles, MatrixMarketProbeAudit),
    Stage("suitesparse_selection",
          SuitesparseSelectionRun, SuitesparseSelectionFiles, SuitesparseSelectionAudit),
    Stage("suitesparse_header_probe",
          SuitesparseHeaderProbeRun, SuitesparseHeaderProbeFiles, SuitesparseHeaderProbeAudit),
    Stage("suitesparse_csr_import",
          SuitesparseCsrImportRun, SuitesparseCsrImportFiles, SuitesparseCsrImportAudit),
    Stage("taichi_csr_matvec", TaichiCsrMatvecRun, TaichiCsrMatvecFiles, TaichiCsrMatvecAudit),
    Stage("taichi_csr_primitives",
          TaichiCsrPrimitivesRun, TaichiCsrPrimitivesFiles, TaichiCsrPrimitivesAudit),
    Stage("taichi_csr_solve", TaichiCsrSolveRun, TaichiCsrSolveFiles, TaichiCsrSolveAudit),
    Stage("taichi_csr_bicgstab",
          TaichiCsrBicgstabRun, TaichiCsrBicgstabFiles, TaichiCsrBicgstabAudit),
    Stage("taichi_csr_gmres", TaichiCsrGmresRun, TaichiCsrGmresFiles, TaichiCsrGmresAudit),
    Stage("taichi_csr_richardson",
          TaichiCsrRichardsonRun, TaichiCsrRichardsonFiles, TaichiCsrRichardsonAudit),
    Stage("taichi_csr_chebyshev",
          TaichiCsrChebyshevRun, TaichiCsrChebyshevFiles, TaichiCsrChebyshevAudit),
    Stage("taichi_csr_symmetric_equilibration",
          TaichiCsrSymmetricEquilibrationRun, TaichiCsrSymmetricEquilibrationFiles,
          TaichiCsrSymmetricEquilibrationAudit),
    Stage("taichi_csr_row_column_equilibration",
          TaichiCsrRowColumnEquilibrationRun, TaichiCsrRowColumnEquilibrationFiles,
          TaichiCsrRowColumnEquilibrationAudit),
    Stage("taichi_csr_ilu0", TaichiCsrIlu0Run, TaichiCsrIlu0Files, TaichiCsrIlu0Audit),
    Stage("csr_selector_readiness",
          CsrSelectorReadinessRun, CsrSelectorReadinessFiles, CsrSelectorReadinessAudit),
    Stage("csr_selector_policy",
          CsrSelectorPolicyRun, CsrSelectorPolicyFiles, CsrSelectorPolicyAudit),
    Stage("csr_auto_solve", CsrAutoSolveRun, CsrAutoSolveFiles, CsrAutoSolveAudit),
    Stage("csr_learning_readiness",
          CsrLearningReadinessRun, CsrLearningReadinessFiles, CsrLearningReadinessAudit),
    Stage("csr_model_contract", CsrModelContractRun, CsrModelContractFiles, CsrModelContractAudit),
    Stage("csr_training_tensors",
          CsrTrainingTensorsRun, CsrTrainingTensorsFiles, CsrTrainingTensorsAudit),
    Stage("csr_linear_ranker", CsrLinearRankerRun, CsrLinearRankerFiles, CsrLinearRankerAudit),
    Stage("csr_selector_model_eval",
          CsrSelectorModelEvalRun, CsrSelectorModelEvalFiles, CsrSelectorModelEvalAudit),
    Stage("csr_benchmark_expansion_plan",
          CsrBenchmarkExpansionPlanRun, CsrBenchmarkExpansionPlanFiles,
          CsrBenchmarkExpansionPlanAudit),
    Stage("csr_full_dataset_queue",
          CsrFullDatasetQueueRun, CsrFullDatasetQueueFiles, CsrFullDatasetQueueAudit)>>
  \o [i \in DOMAIN QueueBatchDirs |->
       Stage(QueueBatchDirs[i], CsrQueueBatchRun, CsrQueueBatchFiles, CsrQueueBatchAudit)]
  \o
  <<Stage("csr_queue_training_pool",
          CsrQueueTrainingPoolRun, CsrQueueTrainingPoolFiles, CsrQueueTrainingPoolAudit),
    Stage("csr_queue_batch_training_bundle",
          CsrQueueBatchTrainingBundleRun, CsrQueueBatchTrainingBundleFiles,
          CsrQueueBatchTrainingBundleAudit),
    Stage("csr_queue_batch_reference_ranker",
          CsrQueueBatchReferenceRankerRun, CsrQueueBatchReferenceRankerFiles,
          CsrQueueBatchReferenceRankerAudit),
    Stage("csr_queue_batch_model_replay",
          CsrQueueBatchModelReplayRun, CsrQueueBatchModelReplayFiles, CsrQueueBatchModelReplayAudit),
    Stage("csr_queue_candidate_coverage",
          CsrQueueCandidateCoverageRun, CsrQueueCandidateCoverageFiles,
          CsrQueueCandidateCoverageAudit),
    Stage("csr_gmres_restart_coverage",
          CsrGmresRestartCoverageRun, CsrGmresRestartCoverageFiles, CsrGmresRestartCoverageAudit),
    Stage("csr_blocked_gap_probe",
          CsrBlockedGapProbeRun, CsrBlockedGapProbeFiles, CsrBlockedGapProbeAudit),
    Stage("csr_blocked_gap_positive_search",
          CsrBlockedGapPositiveSearchRun, CsrBlockedGapPositiveSearchFiles,
          CsrBlockedGapPositiveSearchAudit),
    Stage("csr_blocked_gap_training_integration",
          CsrBlockedGapTrainingIntegrationRun, CsrBlockedGapTrainingIntegrationFiles,
          CsrBlockedGapTrainingIntegrationAudit),
    Stage("csr_blocked_gap_augmented_ranker",
          CsrBlockedGapAugmentedRankerRun, CsrBlockedGapAugmentedRankerFiles,
          CsrBlockedGapAugmentedRankerAudit),
    Stage("csr_blocked_gap_guarded_replay",
          CsrBlockedGapGuardedReplayRun, CsrBlockedGapGuardedReplayFiles,
          CsrBlockedGapGuardedReplayAudit),
    Stage("csr_transformer_handoff_bundle",
          CsrTransformerHandoffBundleRun, CsrTransformerHandoffBundleFiles,
          CsrTransformerHandoffBundleAudit),
    Stage("csr_transformer_training_package",
          CsrTransformerTrainingPackageRun, CsrTransformerTrainingPackageFiles,
          CsrTransformerTrainingPackageAudit),
    Stage("csr_transformer_package_consumer_dry_run",
          CsrTransformerPackageConsumerDryRunRun, CsrTransformerPackageConsumerDryRunFiles,
          CsrTransformerPackageConsumerDryRunAudit),
    Stage("csr_micro_campaign", CsrMicroCampaignRun, CsrMicroCampaignFiles, CsrMicroCampaignAudit),
    Stage("csr_transformer_ready",
          CsrTransformerReadyRun, CsrTransformerReadyFiles, CsrTransformerReadyAudit),
    Stage("csr_transformer_ranker",
          CsrTransformerRankerRun, CsrTransformerRankerFiles, CsrTransformerRankerAudit),
    Stage("csr_external_model_adapter",
          CsrExternalModelAdapterRun, CsrExternalModelAdapterFiles, CsrExternalModelAdapterAudit),
    Stage("csr_transformer_model_replay",
          CsrTransformerModelReplayRun, CsrTransformerModelReplayFiles,
          CsrTransformerModelReplayAudit),
    Stage("csr_transformer_quality_gate",
          CsrTransformerQualityGateRun, CsrTransformerQualityGateFiles,
          CsrTransformerQualityGateAudit),
    Stage("csr_policy_model_artifact",
          CsrPolicyModelArtifactRun, CsrPolicyModelArtifactFiles, CsrPolicyModelArtifactAudit),
    Stage("csr_policy_model_acceptance",
          CsrPolicyModelAcceptanceRun, CsrPolicyModelAcceptanceFiles, CsrPolicyModelAcceptanceAudit),
    Stage("csr_policy_model_submission",
          CsrPolicyModelSubmissionRun, CsrPolicyModelSubmissionFiles, CsrPolicyModelSubmissionAudit),
    Stage("csr_external_model_intake",
          CsrExternalModelIntakeRun, CsrExternalModelIntakeFiles, CsrExternalModelIntakeAudit),
    Stage("csr_transformer_training_entrypoint",
          CsrTransformerTrainingEntrypointRun, CsrTransformerTrainingEntrypointFiles,
          CsrTransformerTrainingEntrypointAudit),
    Stage("csr_transformer_reference_training_export",
          CsrTransformerReferenceTrainingExportRun, CsrTransformerReferenceTrainingExportFiles,
          CsrTransformerReferenceTrainingExportAudit),
    Stage("csr_learned_guard", CsrLearnedGuardRun, CsrLearnedGuardFiles, CsrLearnedGuardAudit),
    Stage("csr_guarded_auto_solve",
          CsrGuardedAutoSolveRun, CsrGuardedAutoSolveFiles, CsrGuardedAutoSolveAudit),
    Stage("csr_guarded_promotion_readiness",
          CsrGuardedPromotionReadinessRun, CsrGuardedPromotionReadinessFiles,
          CsrGuardedPromotionReadinessAudit),
    Stage("csr_guarded_promotion_coverage_plan",
          CsrGuardedPromotionCoveragePlanRun, CsrGuardedPromotionCoveragePlanFiles,
          CsrGuardedPromotionCoveragePlanAudit),
    Stage("csr_guarded_promotion_coverage_exec",
          CsrGuardedPromotionCoverageExecRun, CsrGuardedPromotionCoverageExecFiles,
          CsrGuardedPromotionCoverageExecAudit),
    Stage("csr_non_success_fallback_probe",
          CsrNonSuccessFallbackProbeRun, CsrNonSuccessFallbackProbeFiles,
          CsrNonSuccessFallbackProbeAudit),
    Stage("csr_guarded_non_success_fallback_integration",
          CsrGuardedNonSuccessFallbackIntegrationRun, CsrGuardedNonSuccessFallbackIntegrationFiles,
          CsrGuardedNonSuccessFallbackIntegrationAudit),
    Stage("csr_ilu0_guarded_integration",
          CsrIlu0GuardedIntegrationRun, CsrIlu0GuardedIntegrationFiles,
          CsrIlu0GuardedIntegrationAudit),
    Stage("csr_ilu0_coverage_expansion",
          CsrIlu0CoverageExpansionRun, CsrIlu0CoverageExpansionFiles, CsrIlu0CoverageExpansionAudit),
    Stage("csr_unresolved_fallback_coverage_plan",
          CsrUnresolvedFallbackCoveragePlanRun, CsrUnresolvedFallbackCoveragePlanFiles,
          CsrUnresolvedFallbackCoveragePlanAudit),
    Stage("csr_unresolved_fallback_cpu_screen",
          CsrUnresolvedFallbackCpuScreenRun, CsrUnresolvedFallbackCpuScreenFiles,
          CsrUnresolvedFallbackCpuScreenAudit),
    Stage("csr_unresolved_matrix_diagnostics",
          CsrUnresolvedMatrixDiagnosticsRun, CsrUnresolvedMatrixDiagnosticsFiles,
          CsrUnresolvedMatrixDiagnosticsAudit),
    Stage("public_release_hygiene",
          PublicReleaseHygieneRun, PublicReleaseHygieneFiles, PublicReleaseHygieneAudit),
    Stage("transformer_readiness",
          TransformerReadinessRun, TransformerReadinessFiles, TransformerReadinessAudit),
    Stage("public_api_smoke", PublicApiSmokeRun, PublicApiSmokeFiles, PublicApiSmokeAudit),
    Stage("csr_public_api", CsrPublicApiRun, CsrPublicApiFiles, CsrPublicApiAudit),
    Stage("solver_functional", SolverFunctionalRun, SolverFunctionalFiles, SolverFunctionalAudit),
    Stage("campaign", CampaignRun, CampaignFiles, CampaignAudit)>>

\* The benchmark report is built from the profile of a benchmark into the directory of that
\* benchmark, by a script that writes no manifest and is no stage of the audit.
BenchmarkReport(dir) ==
  [dir |-> dir \o "_report",
   reads |-> {<<dir, "candidate_performance.jsonl">>},
   parses |-> {<<dir, "candidate_performance.jsonl">>},
   writes |-> <<<<dir, "candidate_evaluation.jsonl">>, <<dir, "benchmark_report.md">>>>,
   status |-> <<dir, "none">>,
   tracks |-> {},
   opens |-> {},
   sums |-> {}]

WorkspaceStages ==
  AuditedStages \o <<BenchmarkReport("smoke_taichi"), BenchmarkReport("smoke_expanded_solvers")>>
====
