------------------------ MODULE CsrArtifactSelector ------------------------
(***************************************************************************)
(* CsrArtifactPolicySelector (transsolvestack/policies/                    *)
(* csr_artifact_selector.py): what it selects from the profiles it has     *)
(* read, and _fallback_chain_is_enforced (csr_learned_guard.py), which     *)
(* judges its chains.                                                      *)
(*                                                                         *)
(* The profiles are a sequence of rows.  A row's `matrix` stands for its   *)
(* (matrix_id, context_id), candidates are numbers in the order of their   *)
(* candidate_id, `everyTime` says that success_rate is at least 1, and     *)
(* `time` stands for the solve time and its IQR, in which rows are sorted. *)
(* A plan is named by the row that it is built from.                       *)
(***************************************************************************)
EXTENDS Integers, Sequences, FiniteSets

IsSuccess(p) == p.status \in {"success", "fallback_success"} /\ p.everyTime

\* The rows of successes, anywhere and for one matrix.
Successes(rows) == {i \in DOMAIN rows : IsSuccess(rows[i])}

\* Mutant of Feasible: rows of any status.
FeasibleAnyStatus(rows, matrix) == {i \in DOMAIN rows : rows[i].matrix = matrix}

Feasible(rows, matrix) == {i \in Successes(rows) : rows[i].matrix = matrix}

\* _profile_sort_key; Python's sort is stable and its min takes the first.
SortsBefore(rows, i, j) ==
    LET p == rows[i]
        q == rows[j]
    IN  \/ p.time < q.time
        \/ p.time = q.time /\ p.candidate < q.candidate
        \/ p.time = q.time /\ p.candidate = q.candidate /\ i < j

\* The rows I in one order: each set holds one sequence.
Sorted(rows, I) ==
    {s \in [1 .. Cardinality(I) -> I] :
        \A a, b \in DOMAIN s : a < b => SortsBefore(rows, s[a], s[b])}

InFileOrder(I) ==
    {s \in [1 .. Cardinality(I) -> I] : \A a, b \in DOMAIN s : a < b => s[a] < s[b]}

Best(rows, I) == {i \in I : \A j \in I \ {i} : SortsBefore(rows, i, j)}
FirstInFile(I) == {i \in I : \A j \in I : i <= j}

\* Mutant of Others: the head stays in the chain of its fallbacks.
OthersAndHead(rows, I, head) == I

\* The rows of I that may follow `head` in a chain.
Others(rows, I, head) == {i \in I : rows[i].candidate # rows[head].candidate}

Selection(head, fallbacks, reason) == [plans |-> <<head>> \o fallbacks, reason |-> reason]

\* _fallback_profile: the configured candidate if it succeeded anywhere.
FallbackProfile(rows, fallback) ==
    LET configured == {i \in Successes(rows) : rows[i].candidate = fallback}
    IN  IF configured # {} THEN FirstInFile(configured) ELSE Best(rows, Successes(rows))

\* select: the best success for the matrix with the other ones behind it; for a
\* matrix without any, the fallback profile with every success of the file.
ArtifactSelections(rows, matrix, fallback) ==
    IF Feasible(rows, matrix) # {}
    THEN UNION {{Selection(head, rest, "profiled_success") :
                    rest \in Sorted(rows, Others(rows, Feasible(rows, matrix), head))} :
                head \in Best(rows, Feasible(rows, matrix))}
    ELSE UNION {{Selection(head, rest, "fallback_no_profile") :
                    rest \in InFileOrder(Others(rows, Successes(rows), head))} :
                head \in FallbackProfile(rows, fallback)}

\* select_candidate: none when the candidate is no success for the matrix.
Promotions(rows, matrix, candidate) ==
    UNION {{Selection(head, rest, "learned_guard_promoted") :
               rest \in Sorted(rows, Others(rows, Feasible(rows, matrix), head))} :
           head \in FirstInFile({i \in Feasible(rows, matrix) :
                                    rows[i].candidate = candidate})}

\* The candidates of a selection's plans, in the order of the plans.
CandidateIds(rows, selection) ==
    [k \in DOMAIN selection.plans |-> rows[selection.plans[k]].candidate]

\* Mutant of ChainIsEnforced: only the head is compared with its fallbacks.
ChainIsEnforcedForHead(rows, selection) ==
    LET ids == CandidateIds(rows, selection)
    IN  \A a \in DOMAIN ids : a # 1 => ids[a] # ids[1]

\* _fallback_chain_is_enforced: no candidate is in the chain twice.
ChainIsEnforced(rows, selection) ==
    LET ids == CandidateIds(rows, selection)
    IN  \A a, b \in DOMAIN ids : a # b => ids[a] # ids[b]
=============================================================================
