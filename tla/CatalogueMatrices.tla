---- MODULE CatalogueMatrices ----
(* The benchmark, data set and CSR solver stages: the diffusion benchmark and its regression and
   sequence runs, the policy runner, the SuiteSparse pipeline and one stage per CSR solver method.
   Of each stage: what its script reads, what it writes into its directory and in which order,
   and the file that carries its status (Run); the files its manifest hashes (Files); and the
   files of the directory that the artifact audit opens besides the manifest (Audit). *)
EXTENDS ArtifactFiles

\* Run the real Taichi GPU smoke benchmark.
SmokeTaichiOutputs ==
  <<"run_plans.jsonl", "run_trace.jsonl", "candidate_performance.jsonl", "oracle_plan.jsonl",
      "performance_summary.md", "validation.jsonl">>
SmokeTaichiRun ==
  [reads |-> Code({"configs/workloads/phase1_smoke.yaml",
                 "configs/candidates/phase1_taichi_gpu.yaml",
                 "configs/runtime/resource_limits.yaml"}),
   writes |-> SmokeTaichiOutputs,
   status |-> "none"]
SmokeTaichiFiles ==
  Code({"configs/workloads/phase1_smoke.yaml", "configs/candidates/phase1_taichi_gpu.yaml",
      "configs/runtime/resource_limits.yaml", "operators/synthetic.py",
      "operators/taichi_diffusion2d.py", "solvers/taichi_cg.py", "solvers/registry.py",
      "backends/registry.py", "runtime/engine.py", "runtime/plan_resolver.py",
      "profiling/artifacts.py", "profiling/taichi_benchmark.py", "profiling/protocol.py"})
SmokeTaichiAudit ==
  {"candidate_performance.jsonl", "candidate_evaluation.jsonl", "benchmark_report.md"}

\* Run the real Taichi GPU smoke benchmark.
SmokeExpandedSolversRun ==
  [reads |-> Code({"configs/workloads/phase1_smoke_expanded_solvers.yaml",
                 "configs/candidates/phase1_taichi_gpu_expanded.yaml",
                 "configs/runtime/resource_limits.yaml"}),
   writes |-> SmokeTaichiOutputs,
   status |-> "none"]
SmokeExpandedSolversFiles ==
  (SmokeTaichiFiles \ Code({"configs/workloads/phase1_smoke.yaml", "configs/candidates/phase1_taichi_gpu.yaml"}))
  \cup Code({"configs/workloads/phase1_smoke_expanded_solvers.yaml",
             "configs/candidates/phase1_taichi_gpu_expanded.yaml"})
SmokeExpandedSolversAudit == {"candidate_performance.jsonl", "candidate_evaluation.jsonl"}

\* Run real Taichi numerical regression checks.
NumericalRegressionOutputs ==
  <<"numerical_regression.jsonl", "numerical_regression.md">>
NumericalRegressionRun ==
  [reads |-> Code({"configs/workloads/phase1_smoke.yaml"}),
   writes |-> NumericalRegressionOutputs,
   status |-> "none"]
NumericalRegressionFiles ==
  Code({"configs/workloads/phase1_smoke.yaml", "configs/candidates/phase1_taichi_gpu.yaml",
      "configs/runtime/resource_limits.yaml", "operators/synthetic.py",
      "operators/taichi_diffusion2d.py", "solvers/taichi_cg.py", "solvers/registry.py",
      "backends/registry.py", "runtime/engine.py", "runtime/plan_resolver.py",
      "profiling/artifacts.py", "profiling/taichi_benchmark.py", "profiling/protocol.py",
      "profiling/numerical_regression.py"})
NumericalRegressionAudit == {"numerical_regression.jsonl"}

\* Run a real Taichi repeated-solve sequence benchmark.
SequenceTaichiOutputs ==
  <<"sequence_steps.jsonl", "sequence_summary.jsonl", "sequence_report.md">>
SequenceTaichiRun ==
  [reads |-> Code({"configs/workloads/phase1_sequence.yaml"}),
   writes |-> SequenceTaichiOutputs,
   status |-> "none"]
SequenceTaichiFiles ==
  Code({"configs/workloads/phase1_sequence.yaml", "configs/candidates/phase1_taichi_gpu.yaml",
      "configs/runtime/resource_limits.yaml", "operators/synthetic.py",
      "operators/taichi_diffusion2d.py", "solvers/taichi_cg.py", "solvers/registry.py",
      "backends/registry.py", "runtime/engine.py", "runtime/plan_resolver.py",
      "benchmarks/sequence_config.py", "profiling/sequence_benchmark.py"})
SequenceTaichiAudit == {"sequence_steps.jsonl", "sequence_summary.jsonl"}

\* Select PolicyPlan records from benchmark evaluation artifacts.
PolicySelectionRun ==
  [reads |-> At("smoke_taichi", {"candidate_evaluation.jsonl"})
             \cup Code({"configs/candidates/phase1_taichi_gpu.yaml"}),
   writes |-> <<"selected_policy_plans.jsonl", "policy_selection_report.md">>,
   status |-> "none"]
PolicySelectionFiles ==
  At("smoke_taichi", {"candidate_evaluation.jsonl"})
  \cup Code({"configs/candidates/phase1_taichi_gpu.yaml", "policies/artifact_selector.py",
           "policies/selection_artifacts.py", "scripts/tss_select_policies_from_artifact.py"})
PolicySelectionAudit == {"selected_policy_plans.jsonl"}

\* Run policy-selected Taichi solves over the smoke workload.
PolicySolveOutputs ==
  <<"policy_run_plans.jsonl", "policy_run_traces.jsonl", "policy_solve_results.jsonl",
      "policy_solve_report.md">>
PolicySolveRun ==
  [reads |-> At("smoke_taichi", {"candidate_evaluation.jsonl"})
             \cup Code({"configs/workloads/phase1_smoke.yaml"}),
   writes |-> PolicySolveOutputs,
   status |-> "none"]
PolicySolveFiles ==
  At("smoke_taichi", {"candidate_evaluation.jsonl"})
  \cup Code({"configs/workloads/phase1_smoke.yaml", "configs/candidates/phase1_taichi_gpu.yaml",
           "configs/runtime/resource_limits.yaml", "operators/synthetic.py",
           "operators/taichi_diffusion2d.py", "solvers/registry.py", "backends/registry.py",
           "policies/artifact_selector.py", "runtime/engine.py", "runtime/policy_solve.py",
           "scripts/tss_policy_solve_smoke.py"})
PolicySolveAudit == {"policy_solve_results.jsonl"}

\* Build a dataset download dry-run plan without fetching matrices.
DatasetPlanRun ==
  [reads |-> Code({"configs/datasets/phase1_external_small.yaml"}),
   writes |-> <<"download_plan.jsonl", "download_plan.md">>,
   status |-> "none"]
DatasetPlanFiles ==
  Code({"configs/datasets/phase1_external_small.yaml", "configs/runtime/resource_limits.yaml",
      "datasets/catalog.py", "scripts/tss_plan_dataset_downloads.py"})
DatasetPlanAudit == {"download_plan.jsonl"}

\* Inspect Matrix Market headers without loading matrix values.
MatrixMarketProbeRun ==
  [reads |-> Code({"tests/fixtures/tiny_spd.mtx"}),
   writes |-> <<"matrix_metadata.jsonl", "matrix_metadata.md">>,
   status |-> "none"]
MatrixMarketProbeFiles ==
  Code({"tests/fixtures/tiny_spd.mtx", "datasets/matrix_market.py",
      "scripts/tss_inspect_matrix_market.py"})
MatrixMarketProbeAudit == {"matrix_metadata.jsonl"}

\* Select a conservative real-matrix subset from the SuiteSparse full index.
SuitesparseSelectionRun ==
  [reads |-> External({"matrix_manifest.jsonl"}),
   writes |->
     <<"selected_matrices.jsonl", "selected_systems.jsonl", "selection_summary.json",
     "selection_report.md">>,
   status |-> "selection_summary.json"]
SuitesparseSelectionFiles ==
  Code({"configs/runtime/storage_paths.yaml", "datasets/suitesparse_index.py",
      "datasets/selection.py", "scripts/tss_select_suitesparse_subset.py"})
SuitesparseSelectionAudit ==
  {"selected_matrices.jsonl", "selected_systems.jsonl", "selection_summary.json"}

\* Probe Matrix Market headers inside selected SuiteSparse archives.
SuitesparseHeaderProbeRun ==
  [reads |-> At("suitesparse_selection", {"selected_matrices.jsonl"})
             \cup External({"matrix_archives"}),
   writes |-> <<"archive_header_probe.jsonl", "archive_header_summary.json", "archive_header_report.md">>,
   status |-> "archive_header_summary.json"]
SuitesparseHeaderProbeFiles ==
  At("suitesparse_selection", {"selected_matrices.jsonl"})
  \cup Code({"datasets/matrix_market.py", "datasets/archive_probe.py",
           "scripts/tss_probe_suitesparse_headers.py"})
SuitesparseHeaderProbeAudit == {"archive_header_probe.jsonl", "archive_header_summary.json"}

\* Import a small selected SuiteSparse subset into CPU-side CSR fixtures.
SuitesparseCsrImportRun ==
  [reads |-> At("suitesparse_header_probe", {"archive_header_probe.jsonl"})
             \cup At("suitesparse_selection", {"selected_matrices.jsonl"})
             \cup External({"matrix_archives"}),
   writes |-> <<"csr_matrices.jsonl", "csr_import_summary.json", "csr_import_report.md">>,
   status |-> "csr_import_summary.json"]
SuitesparseCsrImportFiles ==
  At("suitesparse_selection", {"selected_matrices.jsonl"})
  \cup At("suitesparse_header_probe", {"archive_header_probe.jsonl"})
  \cup Code({"datasets/csr.py", "scripts/tss_import_suitesparse_csr.py"})
SuitesparseCsrImportAudit == {"csr_matrices.jsonl", "csr_import_summary.json"}

\* Run a small Taichi GPU CSR matvec smoke test against imported CSR fixtures.
TaichiCsrMatvecRun ==
  [reads |-> At("suitesparse_csr_import", {"csr_matrices.jsonl"}),
   writes |-> <<"csr_matvec_results.jsonl", "csr_matvec_summary.json", "csr_matvec_report.md">>,
   status |-> "csr_matvec_summary.json"]
TaichiCsrMatvecFiles ==
  At("suitesparse_csr_import", {"csr_matrices.jsonl"})
  \cup Code({"datasets/csr.py", "operators/taichi_csr.py", "scripts/tss_taichi_csr_matvec_smoke.py"})
TaichiCsrMatvecAudit == {"csr_matvec_results.jsonl", "csr_matvec_summary.json"}

\* Run Taichi GPU CSR vector-primitive smoke tests on imported CSR fixtures.
TaichiCsrPrimitivesRun ==
  [reads |-> At("suitesparse_csr_import", {"csr_matrices.jsonl"}),
   writes |-> <<"csr_primitives_results.jsonl", "csr_primitives_summary.json", "csr_primitives_report.md">>,
   status |-> "csr_primitives_summary.json"]
TaichiCsrPrimitivesFiles ==
  At("suitesparse_csr_import", {"csr_matrices.jsonl"})
  \cup Code({"datasets/csr.py", "operators/taichi_csr.py",
           "scripts/tss_taichi_csr_primitives_smoke.py"})
TaichiCsrPrimitivesAudit == {"csr_primitives_results.jsonl", "csr_primitives_summary.json"}

\* Run Taichi GPU CSR CG/PCG smoke solves on imported real CSR fixtures.
TaichiCsrSolveRun ==
  [reads |-> At("suitesparse_csr_import", {"csr_matrices.jsonl"}),
   writes |-> <<"csr_solve_results.jsonl", "csr_solve_summary.json", "csr_solve_report.md">>,
   status |-> "csr_solve_summary.json"]
TaichiCsrSolveFiles ==
  At("suitesparse_csr_import", {"csr_matrices.jsonl"})
  \cup Code({"datasets/csr.py", "operators/taichi_csr.py", "solvers/taichi_cg.py",
           "solvers/registry.py", "backends/registry.py", "runtime/engine.py",
           "profiling/repeats.py", "scripts/tss_taichi_csr_solve_smoke.py"})
TaichiCsrSolveAudit == {"csr_solve_results.jsonl", "csr_solve_summary.json"}

\* Run Taichi GPU CSR BiCGSTAB smoke solves on nonsymmetric real CSR fixtures.
TaichiCsrBicgstabRun ==
  [reads |-> At("suitesparse_csr_import", {"csr_matrices.jsonl"}),
   writes |-> <<"csr_bicgstab_results.jsonl", "csr_bicgstab_summary.json", "csr_bicgstab_report.md">>,
   status |-> "csr_bicgstab_summary.json"]
TaichiCsrBicgstabFiles ==
  At("suitesparse_csr_import", {"csr_matrices.jsonl"})
  \cup Code({"datasets/csr.py", "operators/taichi_csr.py", "solvers/taichi_cg.py",
           "solvers/registry.py", "backends/registry.py", "runtime/engine.py",
           "profiling/repeats.py", "scripts/tss_taichi_csr_bicgstab_smoke.py"})
TaichiCsrBicgstabAudit == {"csr_bicgstab_results.jsonl", "csr_bicgstab_summary.json"}

\* Run Taichi GPU CSR restarted GMRES smoke solves on nonsymmetric CSR fixtures.
TaichiCsrGmresRun ==
  [reads |-> At("suitesparse_csr_import", {"csr_matrices.jsonl"}),
   writes |-> <<"csr_gmres_results.jsonl", "csr_gmres_summary.json", "csr_gmres_report.md">>,
   status |-> "csr_gmres_summary.json"]
TaichiCsrGmresFiles ==
  At("suitesparse_csr_import", {"csr_matrices.jsonl"})
  \cup Code({"datasets/csr.py", "operators/taichi_csr.py", "solvers/taichi_cg.py",
           "solvers/registry.py", "backends/registry.py", "runtime/engine.py",
           "profiling/repeats.py", "scripts/tss_taichi_csr_gmres_smoke.py"})
TaichiCsrGmresAudit == {"csr_gmres_results.jsonl", "csr_gmres_summary.json"}

\* Run Taichi GPU CSR Richardson/Jacobi smoke solves on real CSR fixtures.
TaichiCsrRichardsonRun ==
  [reads |-> At("suitesparse_csr_import", {"csr_matrices.jsonl"}),
   writes |-> <<"csr_richardson_results.jsonl", "csr_richardson_summary.json", "csr_richardson_report.md">>,
   status |-> "csr_richardson_summary.json"]
TaichiCsrRichardsonFiles ==
  At("suitesparse_csr_import", {"csr_matrices.jsonl"})
  \cup Code({"datasets/csr.py", "operators/taichi_csr.py", "solvers/taichi_cg.py",
           "solvers/registry.py", "backends/registry.py", "runtime/engine.py",
           "profiling/repeats.py", "scripts/tss_taichi_csr_richardson_smoke.py"})
TaichiCsrRichardsonAudit == {"csr_richardson_results.jsonl", "csr_richardson_summary.json"}

\* Run Taichi GPU CSR Chebyshev/Jacobi smoke solves on real CSR fixtures.
TaichiCsrChebyshevRun ==
  [reads |-> At("suitesparse_csr_import", {"csr_matrices.jsonl"}),
   writes |-> <<"csr_chebyshev_results.jsonl", "csr_chebyshev_summary.json", "csr_chebyshev_report.md">>,
   status |-> "csr_chebyshev_summary.json"]
TaichiCsrChebyshevFiles ==
  At("suitesparse_csr_import", {"csr_matrices.jsonl"})
  \cup Code({"datasets/csr.py", "operators/taichi_csr.py", "solvers/taichi_cg.py",
           "solvers/registry.py", "backends/registry.py", "runtime/engine.py",
           "profiling/repeats.py", "scripts/tss_taichi_csr_chebyshev_smoke.py"})
TaichiCsrChebyshevAudit == {"csr_chebyshev_results.jsonl", "csr_chebyshev_summary.json"}

\* Run a Taichi GPU CSR symmetric-equilibration PCG smoke probe.
TaichiCsrSymmetricEquilibrationRun ==
  [reads |-> At("csr_micro_campaign", {"csr_matrices.jsonl"})
             \cup At("suitesparse_csr_import", {"csr_matrices.jsonl"}),
   writes |->
     <<"csr_symmetric_equilibration_results.jsonl", "csr_symmetric_equilibration_summary.json",
     "csr_symmetric_equilibration_schema.json", "csr_symmetric_equilibration_report.md">>,
   status |-> "csr_symmetric_equilibration_summary.json"]
TaichiCsrSymmetricEquilibrationFiles ==
  At("csr_micro_campaign", {"csr_matrices.jsonl"})
  \cup At("suitesparse_csr_import", {"csr_matrices.jsonl"})
  \cup Code({"datasets/csr.py", "operators/taichi_csr.py", "backends/registry.py",
           "preconditioners/registry.py", "preconditioners/taichi_jacobi.py", "solvers/taichi_cg.py",
           "solvers/registry.py", "runtime/engine.py",
           "scripts/tss_taichi_csr_symmetric_equilibration_smoke.py"})
TaichiCsrSymmetricEquilibrationAudit ==
  {"csr_symmetric_equilibration_results.jsonl", "csr_symmetric_equilibration_summary.json",
    "csr_symmetric_equilibration_schema.json"}

\* Run Taichi GPU CSR row/column-equilibration smoke probes.
TaichiCsrRowColumnEquilibrationRun ==
  [reads |-> At("csr_micro_campaign", {"csr_matrices.jsonl"})
             \cup At("suitesparse_csr_import", {"csr_matrices.jsonl"}),
   writes |->
     <<"csr_row_column_equilibration_results.jsonl", "csr_row_column_equilibration_summary.json",
     "csr_row_column_equilibration_schema.json", "csr_row_column_equilibration_report.md">>,
   status |-> "csr_row_column_equilibration_summary.json"]
TaichiCsrRowColumnEquilibrationFiles ==
  At("csr_micro_campaign", {"csr_matrices.jsonl"})
  \cup At("suitesparse_csr_import", {"csr_matrices.jsonl"})
  \cup Code({"datasets/csr.py", "operators/taichi_csr.py", "backends/registry.py",
           "preconditioners/registry.py", "preconditioners/taichi_jacobi.py", "solvers/taichi_cg.py",
           "solvers/registry.py", "runtime/engine.py",
           "scripts/tss_taichi_csr_row_column_equilibration_smoke.py"})
TaichiCsrRowColumnEquilibrationAudit ==
  {"csr_row_column_equilibration_results.jsonl", "csr_row_column_equilibration_summary.json",
    "csr_row_column_equilibration_schema.json"}

\* Run Taichi GPU CSR ILU0 smoke probes.
TaichiCsrIlu0Run ==
  [reads |-> At("csr_micro_campaign", {"csr_matrices.jsonl"})
             \cup At("suitesparse_csr_import", {"csr_matrices.jsonl"}),
   writes |-> <<"csr_ilu0_results.jsonl", "csr_ilu0_summary.json", "csr_ilu0_schema.json", "csr_ilu0_report.md">>,
   status |-> "csr_ilu0_summary.json"]
TaichiCsrIlu0Files ==
  At("csr_micro_campaign", {"csr_matrices.jsonl"})
  \cup At("suitesparse_csr_import", {"csr_matrices.jsonl"})
  \cup Code({"datasets/csr.py", "operators/taichi_csr.py", "backends/registry.py",
           "preconditioners/registry.py", "preconditioners/taichi_jacobi.py", "solvers/taichi_cg.py",
           "solvers/registry.py", "runtime/engine.py", "scripts/tss_taichi_csr_ilu0_smoke.py"})
TaichiCsrIlu0Audit == {"csr_ilu0_results.jsonl", "csr_ilu0_summary.json", "csr_ilu0_schema.json"}

====
