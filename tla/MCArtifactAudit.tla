---- MODULE MCArtifactAudit ----
(* The audit on a part of the real catalogue: the stages in Kept, and of the files that one of
   them reads, tracks or writes or that the audit opens, those with a name in KeptNames. The files
   that no kept stage writes, named in KeptSources, change like sources. *)
EXTENDS ArtifactAudit, ArtifactCatalogue

CONSTANTS KeptNames, KeptSources

\* The kept stages in the order of the audit.
PartOrder ==
  <<"csr_blocked_gap_training_integration", "csr_blocked_gap_augmented_ranker",
    "csr_transformer_handoff_bundle", "csr_transformer_training_package",
    "csr_transformer_package_consumer_dry_run", "csr_policy_model_submission",
    "csr_external_model_intake", "campaign">>
Kept == {PartOrder[i] : i \in DOMAIN PartOrder}

\* Their records: KeptIsPartOfCatalogue says that they are those of the catalogue, in its order.
KeptStages ==
  <<Stage("csr_blocked_gap_training_integration",
          CsrBlockedGapTrainingIntegrationRun, CsrBlockedGapTrainingIntegrationFiles,
          CsrBlockedGapTrainingIntegrationAudit),
    Stage("csr_blocked_gap_augmented_ranker",
          CsrBlockedGapAugmentedRankerRun, CsrBlockedGapAugmentedRankerFiles,
          CsrBlockedGapAugmentedRankerAudit),
    Stage("csr_transformer_handoff_bundle",
          CsrTransformerHandoffBundleRun, CsrTransformerHandoffBundleFiles,
          CsrTransformerHandoffBundleAudit),
    Stage("csr_transformer_training_package",
          CsrTransformerTrainingPackageRun, CsrTransformerTrainingPackageFiles,
          CsrTransformerTrainingPackageAudit),
    Stage("csr_transformer_package_consumer_dry_run",
          CsrTransformerPackageConsumerDryRunRun, CsrTransformerPackageConsumerDryRunFiles,
          CsrTransformerPackageConsumerDryRunAudit),
    Stage("csr_policy_model_submission",
          CsrPolicyModelSubmissionRun, CsrPolicyModelSubmissionFiles, CsrPolicyModelSubmissionAudit),
    Stage("csr_external_model_intake",
          CsrExternalModelIntakeRun, CsrExternalModelIntakeFiles, CsrExternalModelIntakeAudit),
    Stage("campaign", CampaignRun, CampaignFiles, CampaignAudit)>>
KeptStage == [s \in Kept |-> KeptStages[CHOOSE i \in DOMAIN KeptStages : KeptStages[i].dir = s]]

KeptFiles(named) ==
  {f \in named : f[2] \in IF f[1] \in Kept THEN KeptNames ELSE KeptSources}
PartReads == [s \in Kept |-> KeptFiles(KeptStage[s].reads)]
PartTracks == [s \in Kept |-> KeptFiles(KeptStage[s].tracks)]
PartOpens == [s \in Kept |-> KeptFiles(KeptStage[s].opens)]
PartWrites == [s \in Kept |-> SelectSeq(KeptStage[s].writes, LAMBDA f : f[2] \in KeptNames)]
PartFiles ==
  UNION {PartReads[s] \cup PartTracks[s] \cup PartOpens[s]
         \cup {PartWrites[s][i] : i \in DOMAIN PartWrites[s]} : s \in Kept}
PartManifests == [s \in Kept |-> Manifest(s)]
PartStatus == [s \in Kept |-> KeptStage[s].status]
PartReporters == {"campaign"}
PartParses == [s \in Kept |-> KeptFiles(KeptStage[s].parses)]
EndsIn(name, ending) ==
  Len(name) > Len(ending) /\ SubSeq(name, Len(name) - Len(ending) + 1, Len(name)) = ending
PartRowFiles == {f \in PartFiles : EndsIn(f[2], ".jsonl")}
PartSums == [s \in Kept |-> KeptFiles(KeptStage[s].sums)]
PartSumsIn == [s \in Kept |-> ChecksumFile(s)]
PartSumsOf == [s \in Kept |-> ChecksumsFrom(s)]
PartCheckers == {DryRunDir}
PartRehashed == {SubmissionDir}

ASSUME KeptIsPartOfCatalogue ==
  /\ KeptStages = SelectSeq(AuditedStages, LAMBDA stage : stage.dir \in Kept)
  /\ PartOrder = [i \in DOMAIN KeptStages |-> KeptStages[i].dir]

-------------------------------------------------------------------------------
(* The whole catalogue, of which Kept is a part. *)
Catalogue ==
  LET stages == WorkspaceStages
  IN [s \in {stages[i].dir : i \in DOMAIN stages} |->
       stages[CHOOSE i \in DOMAIN stages : stages[i].dir = s]]
Workspace == DOMAIN Catalogue

AllAudited == {AuditedStages[i].dir : i \in DOMAIN AuditedStages}
AllWrites == [s \in Workspace |-> {Catalogue[s].writes[i] : i \in DOMAIN Catalogue[s].writes}]
AllVouched == [s \in AllAudited |-> {q \in AllAudited : Manifest(q) \in Catalogue[s].tracks}]
Needs ==
  [s \in Workspace |->
    {q \in Workspace : (Catalogue[s].reads \cup Catalogue[s].tracks) \cap AllWrites[q] # {}}]
Peeled[n \in Nat] ==
  IF n = 0 THEN {}
  ELSE LET before == Peeled[n - 1] IN {s \in Workspace : Needs[s] \subseteq before}

CoveredIn(s) ==
  Catalogue[s].tracks
  \cup UNION {Catalogue[q].tracks \cup AllWrites[q]
              \cup UNION {Catalogue[r].tracks : r \in AllVouched[q]} : q \in AllVouched[s]}
UncoveredIn(s) ==
  {f \in Catalogue[s].reads \ (IF s \in AllAudited THEN CoveredIn(s) ELSE {}) : f[1] # "external"}

\* No two stages write one file and no stage needs itself, over however many others.
ASSUME WorkspaceIsOrdered ==
  /\ \A s, q \in Workspace : s # q => AllWrites[s] \cap AllWrites[q] = {}
  /\ Peeled[18] = Workspace

\* Everything that a stage reads inside the workspace is covered, but for the batch results that
\* the candidate coverage reads and the profiles that the benchmark reports are made from.
ASSUME WorkspaceIsCovered ==
  \A s \in Workspace :
    UncoveredIn(s) =
      CASE s = "csr_queue_candidate_coverage" ->
             QueueBatches \X {"csr_queue_batch_execution_summary.json",
                              "csr_micro_campaign_results.jsonl"}
        [] s \notin AllAudited -> Catalogue[s].reads
        [] OTHER -> {}

\* A file that an audited stage hashes and another one writes is parsed and hashed by some audited
\* stage or opened by the audit, so that neither a cut file nor a cut manifest is overlooked.
ASSUME HashedFilesAreParsed ==
  LET parsed == UNION {Catalogue[s].parses \cap Catalogue[s].tracks : s \in AllAudited}
  IN \A s, q \in AllAudited :
       Catalogue[s].tracks \cap AllWrites[q]
         \subseteq parsed \cup Catalogue[q].opens \cup {Manifest(q)}

\* The package hashes the file with the checksums that it takes over and the files of its own ones,
\* and the handoff bundle hashes the files whose checksums it hands over.
ASSUME ChecksumsAreHashed ==
  LET q == ChecksumsFrom(DryRunDir)
      r == ChecksumsFrom(q)
      own == Catalogue[q].sums \ Catalogue[r].sums
  IN /\ {ChecksumFile(r)} \cup own \subseteq Catalogue[q].tracks
     /\ Catalogue[q].sums \cap Catalogue[r].sums \subseteq Catalogue[r].tracks
====
