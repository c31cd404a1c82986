---- MODULE ArtifactFiles ----
(* The files of the workspace: a file is a pair of a directory and a name. The directories are
   the artifact directories under runs/ (without the common prefix phase1_), "src" for the code,
   the configurations and the documents (the package prefix transsolvestack/ is left out), and
   "external" for what lies outside the workspace. *)
EXTENDS Integers, Sequences, FiniteSets

At(dir, names) == {dir} \X names
Code(names) == At("src", names)
External(names) == At("external", names)

\* The manifest of an artifact directory: write_manifest always writes this name.
Manifest(dir) == <<dir, "artifact_manifest.json">>

\* The batch directories of the committed workspace, in the order in which they are listed.
QueueBatchDirs ==
  <<"csr_queue_batch_00001", "csr_queue_batch_00002", "csr_queue_batch_00003",
    "csr_queue_batch_00004", "csr_queue_batch_00005", "csr_queue_batch_00006",
    "csr_queue_batch_00007", "csr_queue_batch_00008", "csr_queue_batch_00009",
    "csr_queue_batch_00010">>
QueueBatches == {QueueBatchDirs[i] : i \in DOMAIN QueueBatchDirs}
====
