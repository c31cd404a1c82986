----------------------------- MODULE KrylovSolve -----------------------------
(***************************************************************************)
(* One solve on the assembled-CSR operator: the host-side control of the   *)
(* iterative methods of transsolvestack/operators/taichi_csr.py, from the  *)
(* plan the execution engine resolves to the SolveResult handed back.      *)
(*                                                                         *)
(* The vectors live in device fields that every kernel overwrites in       *)
(* place, so the numbers the host keeps (residual_history, the absolute    *)
(* residual, num_iterations) are about an x that may have moved on.  The   *)
(* model gives every x a version and every residual norm the version it    *)
(* was measured for, with one of three sizes: within tolerance, above it,  *)
(* or not finite.  What size a kernel produces is left open; the control   *)
(* flow around it is the code's.                                           *)
(***************************************************************************)
EXTENDS Integers, Sequences

CONSTANTS
    MaxIter,    \* context.max_iter
    Rows,       \* n_rows
    Restarts,   \* values of the solver parameter "restart"
    None        \* Python's None

ASSUME MaxIterAssumption  == MaxIter \in Nat
ASSUME RowsAssumption     == Rows \in Nat \ {0}
ASSUME RestartsAssumption == Restarts \subseteq Int

VARIABLES
    plan,       \* the solver and preconditioner names, and the requested restart
    pc,         \* "dispatch", "head" (of the loop), "inner", "finish", "returned", "raised"
    x,          \* version of the vector in the field x
    iterations, \* iterations
    history,    \* residual_history
    measured,   \* absolute_residual, with the version of x it was taken for
    converged,  \* converged
    breakdown,  \* breakdown, None until one is met
    omega,      \* BiCGSTAB's omega: "usable", or "tiny" below 1.0e-30
    cycles,     \* restart_cycles
    inner,      \* inner, of the current cycle
    limit,      \* inner_limit, of the current cycle
    result      \* the SolveResult, None before it is returned

vars == <<plan, pc, x, iterations, history, measured, converged, breakdown,
          omega, cycles, inner, limit, result>>

Smaller(a, b) == IF a <= b THEN a ELSE b
Larger(a, b)  == IF a >= b THEN a ELSE b

Sizes    == {"small", "large", "nonfinite"}
Versions == 0 .. 2 * MaxIter + 2
Norms    == [of : Versions, size : Sizes]

-----------------------------------------------------------------------------
(* Plans and the methods they are routed to *)

SolverNames == {"cg", "pcg", "bicgstab", "gmres", "richardson", "chebyshev"}

PreconditionerNames == {"none", "jacobi", "block_jacobi", "ilu0",
                        "symmetric_equilibration", "row_column_equilibration"}

PolicyPlans == [solver : SolverNames, preconditioner : PreconditionerNames,
                restart : Restarts]

\* The preconditioners each solve_<name> accepts; solve_cg reads none.
Supported ==
    [cg         |-> PreconditionerNames,
     pcg        |-> {"jacobi", "symmetric_equilibration"},
     bicgstab   |-> {"none", "jacobi", "ilu0", "row_column_equilibration"},
     gmres      |-> {"none", "jacobi", "row_column_equilibration"},
     richardson |-> {"none", "jacobi"},
     chebyshev  |-> {"jacobi"}]

\* The methods that solve a scaled system and map the solution back.
Equilibrated ==
    \/ plan.solver = "pcg" /\ plan.preconditioner = "symmetric_equilibration"
    \/ /\ plan.solver \in {"bicgstab", "gmres"}
       /\ plan.preconditioner = "row_column_equilibration"

Restart == Smaller(plan.restart, Smaller(Rows, Larger(MaxIter, 1)))

\* _solve_cg, and the scaled PCG, share their loop.
ConjugateGradient == plan.solver \in {"cg", "pcg"}
Chebyshev         == plan.solver = "chebyshev"

-----------------------------------------------------------------------------
(* Breakdowns, by the point of the iteration where they are noticed *)

CgBreakdowns == {"zero_or_nonfinite_denominator", "non_positive_curvature"}

BicgstabBreakdowns ==
    {"zero_or_nonfinite_rho", "zero_or_nonfinite_alpha_denominator",
     "nonfinite_alpha"}
    \cup (IF iterations > 0 THEN {"nonfinite_beta"} ELSE {})
    \cup (IF iterations > 0 /\ omega = "tiny" THEN {"zero_omega"} ELSE {})

OmegaBreakdowns == {"zero_or_nonfinite_omega_denominator", "zero_or_nonfinite_omega"}

ChebyshevBreakdowns ==
    IF iterations = 0 THEN {}
    ELSE {"zero_alpha", "zero_or_nonfinite_alpha_denominator", "nonfinite_alpha"}

CycleBreakdown ==
    IF Equilibrated THEN "zero_or_nonfinite_scaled_residual"
    ELSE "zero_or_nonfinite_preconditioned_residual"

ResidualBreakdown ==
    IF plan.solver = "gmres" /\ Equilibrated THEN "nonfinite_scaled_residual"
    ELSE "nonfinite_residual"

Breakdowns ==
    CgBreakdowns \cup OmegaBreakdowns \cup
    {"zero_initial_rz", "zero_or_nonfinite_rz", "zero_or_nonfinite_rho",
     "zero_omega", "nonfinite_beta", "zero_or_nonfinite_alpha_denominator",
     "nonfinite_alpha", "zero_alpha", "nonfinite_residual",
     "nonfinite_scaled_residual", "zero_or_nonfinite_scaled_residual",
     "zero_or_nonfinite_preconditioned_residual", "least_squares_failed",
     "arnoldi_breakdown_without_convergence"}

FailureClasses == Breakdowns \cup {"not_converged", "original_residual_above_tolerance"}

ASSUME NoneAssumption == None \notin FailureClasses

SolveResults ==
    [status : {"success", "failed"},
     failure : FailureClasses \cup {None},
     x : Versions,              \* the solution handed back
     numIterations : 0 .. MaxIter,
     relative : Norms,          \* final_residual_norm
     absolute : Norms]          \* metadata["absolute_residual_norm"]

TypeOK ==
    /\ plan \in PolicyPlans
    /\ pc \in {"dispatch", "head", "inner", "finish", "returned", "raised"}
    /\ x \in Versions
    /\ iterations \in 0 .. MaxIter
    /\ history \in Seq(Norms)
    /\ measured \in Norms
    /\ converged \in BOOLEAN
    /\ breakdown \in Breakdowns \cup {None}
    /\ omega \in {"usable", "tiny"}
    /\ cycles \in 0 .. MaxIter
    /\ inner \in 0 .. MaxIter
    /\ limit \in 0 .. MaxIter
    /\ result \in SolveResults \cup {None}

Init ==
    /\ plan \in PolicyPlans
    /\ pc = "dispatch"
    /\ x = 0
    /\ iterations = 0
    /\ history = <<>>
    /\ measured = [of |-> 0, size |-> "large"]
    /\ converged = FALSE
    /\ breakdown = None
    /\ omega = "usable"
    /\ cycles = 0
    /\ inner = 0
    /\ limit = 0
    /\ result = None

-----------------------------------------------------------------------------
(* What the methods share *)

\* A norm is appended to the history, counted as an iteration, and tested.
Record(norm) ==
    /\ history' = Append(history, norm)
    /\ measured' = norm
    /\ converged' = (norm.size = "small")

\* x is now `version` and its norm is recorded.  Above the tolerance, one of
\* the breakdowns of the rest of the iteration may follow.
Recorded(version, size, later) ==
    /\ x' = version
    /\ Record([of |-> version, size |-> size])
    /\ iterations' = iterations + 1
    /\ \/ pc' = (IF size = "small" THEN "finish" ELSE "head") /\ UNCHANGED breakdown
       \/ /\ size # "small"
          /\ pc' = "finish"
          /\ breakdown' \in later

\* The loop is left over a number that x and the history do not reflect.
BrokenDown(reason) ==
    /\ breakdown' = reason
    /\ pc' = "finish"
    /\ UNCHANGED <<iterations, history, converged>>

\* Mutants of MayIterate: one iteration too many, and no test at the loop's head.
MayIterateOnceMore ==
    pc = "head" /\ ~converged /\ breakdown = None /\ iterations <= MaxIter

MayIterateRegardless == pc = "head" /\ iterations < MaxIter

MayIterate ==
    pc = "head" /\ ~converged /\ breakdown = None /\ iterations < MaxIter

cycleVars == <<cycles, inner, limit>>

-----------------------------------------------------------------------------
(***************************************************************************)
(* The plan is resolved, checked and set up.  A preconditioner the method  *)
(* does not know and a restart below 1 are refused; so is, for every       *)
(* method, a matrix it cannot work on (not square, no positive diagonal,   *)
(* an invalid ILU(0) pivot or parameter), which the model leaves open.     *)
(***************************************************************************)
Refused ==
    \/ plan.preconditioner \notin Supported[plan.solver]
    \/ plan.solver = "gmres" /\ plan.restart <= 0

Refuse ==
    /\ pc = "dispatch"
    /\ pc' = "raised"
    /\ UNCHANGED <<plan, x, iterations, history, measured, converged, breakdown,
                   omega, cycleVars, result>>

\* x = 0, whose residual is the right-hand side.
Setup(size) ==
    /\ pc = "dispatch"
    /\ ~Refused
    /\ Record([of |-> 0, size |-> size])
    /\ \/ pc' = "head" /\ UNCHANGED breakdown
       \/ /\ ConjugateGradient
          /\ size # "small"
          /\ breakdown' = "zero_initial_rz"
          /\ pc' = "head"
    /\ UNCHANGED <<plan, x, iterations, omega, cycleVars, result>>

LoopEnds ==
    /\ pc = "head"
    /\ ~MayIterate
    /\ pc' = "finish"
    /\ UNCHANGED <<plan, x, iterations, history, measured, converged, breakdown,
                   omega, cycleVars, result>>

-----------------------------------------------------------------------------
(* Conjugate gradients: plain, Jacobi, and on the symmetrically scaled system *)

CgBreaks ==
    /\ ConjugateGradient
    /\ MayIterate
    /\ \E reason \in CgBreakdowns : BrokenDown(reason)
    /\ UNCHANGED <<plan, x, measured, omega, cycleVars, result>>

CgIterates(size) ==
    /\ ConjugateGradient
    /\ MayIterate
    /\ Recorded(x + 1, size, {"zero_or_nonfinite_rz"})
    /\ UNCHANGED <<plan, omega, cycleVars, result>>

-----------------------------------------------------------------------------
(***************************************************************************)
(* BiCGSTAB moves x twice in an iteration, by alpha p and then by omega s, *)
(* and may stop in between: because s is already small, or because omega   *)
(* cannot be used.                                                         *)
(***************************************************************************)
BicgstabBreaks ==
    /\ plan.solver = "bicgstab"
    /\ MayIterate
    /\ \E reason \in BicgstabBreakdowns : BrokenDown(reason)
    /\ UNCHANGED <<plan, x, measured, omega, cycleVars, result>>

BicgstabHalfStepConverges ==
    /\ plan.solver = "bicgstab"
    /\ MayIterate
    /\ Recorded(x + 1, "small", {})
    /\ UNCHANGED <<plan, omega, cycleVars, result>>

\* Mutant of BicgstabOmegaBreaks: an omega below 1.0e-30 is used.
BicgstabOmegaUnchecked ==
    /\ plan.solver = "bicgstab"
    /\ MayIterate
    /\ omega' = "tiny"
    /\ Recorded(x + 2, "large", {})
    /\ UNCHANGED <<plan, cycleVars, result>>

BicgstabOmegaBreaks ==
    /\ plan.solver = "bicgstab"
    /\ MayIterate
    /\ x' = x + 1
    /\ \/ BrokenDown("zero_or_nonfinite_omega_denominator") /\ UNCHANGED omega
       \/ BrokenDown("zero_or_nonfinite_omega") /\ omega' \in {"usable", "tiny"}
    /\ UNCHANGED <<plan, measured, cycleVars, result>>

BicgstabIterates(size) ==
    /\ plan.solver = "bicgstab"
    /\ MayIterate
    /\ omega' = "usable"
    /\ Recorded(x + 2, size, {})
    /\ UNCHANGED <<plan, cycleVars, result>>

-----------------------------------------------------------------------------
(* Richardson and Chebyshev: x moves before its residual is found not finite *)

StationaryBreaks ==
    /\ Chebyshev
    /\ MayIterate
    /\ \E reason \in ChebyshevBreakdowns : BrokenDown(reason)
    /\ UNCHANGED <<plan, x, measured, omega, cycleVars, result>>

StationaryOverflows ==
    /\ plan.solver \in {"richardson", "chebyshev"}
    /\ MayIterate
    /\ x' = x + 1
    /\ measured' = [of |-> x + 1, size |-> "nonfinite"]
    /\ BrokenDown(ResidualBreakdown)
    /\ UNCHANGED <<plan, omega, cycleVars, result>>

StationaryIterates(size) ==
    /\ plan.solver \in {"richardson", "chebyshev"}
    /\ MayIterate
    /\ size # "nonfinite"
    /\ Recorded(x + 1, size, {})
    /\ UNCHANGED <<plan, omega, cycleVars, result>>

-----------------------------------------------------------------------------
(* Restarted GMRES: the outer loop opens a cycle, the inner loop extends it *)

\* Mutant of InnerLimit: the cycle is one step short.
ShortCycle(restart) == Smaller(restart, MaxIter - iterations) - 1

InnerLimit(restart) == Smaller(restart, MaxIter - iterations)

\* restart_cycles saturates at CycleCap, a bound TypeOK shows is never reached.
CycleCap  == MaxIter + 1
NextCycle == Smaller(cycles + 1, CycleCap)

CycleBreaks ==
    /\ plan.solver = "gmres"
    /\ MayIterate
    /\ cycles' = NextCycle
    /\ BrokenDown(CycleBreakdown)
    /\ UNCHANGED <<plan, x, measured, omega, inner, limit, result>>

CycleStarts ==
    /\ plan.solver = "gmres"
    /\ MayIterate
    /\ cycles' = NextCycle
    /\ inner' = 0
    /\ limit' = InnerLimit(Restart)
    /\ pc' = "inner"
    /\ UNCHANGED <<plan, x, iterations, history, measured, converged, breakdown,
                   omega, result>>

InCycle == pc = "inner" /\ inner < limit

LeastSquaresFails ==
    /\ InCycle
    /\ BrokenDown("least_squares_failed")
    /\ UNCHANGED <<plan, x, measured, omega, cycleVars, result>>

\* The candidate is loaded into x before its residual is measured.
CandidateOverflows ==
    /\ InCycle
    /\ x' = x + 1
    /\ measured' = [of |-> x + 1, size |-> "nonfinite"]
    /\ BrokenDown(ResidualBreakdown)
    /\ UNCHANGED <<plan, omega, cycleVars, result>>

CandidateMeasured(size) ==
    /\ InCycle
    /\ size # "nonfinite"
    /\ x' = x + 1
    /\ Record([of |-> x + 1, size |-> size])
    /\ iterations' = iterations + 1
    /\ \/ size = "small" /\ pc' = "finish" /\ UNCHANGED <<breakdown, inner>>
       \/ /\ size = "large"
          /\ pc' = "finish"
          /\ breakdown' = "arnoldi_breakdown_without_convergence"
          /\ UNCHANGED inner
       \/ size = "large" /\ inner' = inner + 1 /\ UNCHANGED <<pc, breakdown>>
    /\ UNCHANGED <<plan, omega, cycles, limit, result>>

\* The last candidate is loaded and measured again: the same x, the same norm.
CycleEnds ==
    /\ pc = "inner"
    /\ inner = limit
    /\ IF measured.size = "nonfinite"
       THEN breakdown' = ResidualBreakdown /\ pc' = "finish"
       ELSE pc' = "head" /\ UNCHANGED breakdown
    /\ UNCHANGED <<plan, x, iterations, history, measured, converged, omega,
                   cycleVars, result>>

-----------------------------------------------------------------------------
(***************************************************************************)
(* The result.  The scaled methods map x back and measure the residual of  *)
(* the original system, which only has to meet the relative tolerance.     *)
(***************************************************************************)
Outcome(success, failure, relative, absolute) ==
    [status |-> IF success THEN "success" ELSE "failed", failure |-> failure,
     x |-> x, numIterations |-> iterations,
     relative |-> relative, absolute |-> absolute]

Cause == IF breakdown # None THEN breakdown ELSE "not_converged"

PlainOutcome ==
    Outcome(converged, IF converged THEN None ELSE Cause,
            history[Len(history)], measured)

\* Mutants of EquilibratedOutcome: the scaled verdict stands; the scaled norm is reported.
ScaledVerdict(original) ==
    Outcome(converged, IF converged THEN None ELSE Cause, original, original)

ScaledReport(original) ==
    Outcome(converged /\ original.size = "small",
            IF ~converged THEN Cause
            ELSE IF original.size # "small" THEN "original_residual_above_tolerance"
            ELSE None,
            history[Len(history)], original)

EquilibratedOutcome(original) ==
    Outcome(converged /\ original.size = "small",
            IF ~converged THEN Cause
            ELSE IF original.size # "small" THEN "original_residual_above_tolerance"
            ELSE None,
            original, original)

Finish(size) ==
    /\ pc = "finish"
    /\ pc' = "returned"
    /\ IF Equilibrated
       THEN result' = EquilibratedOutcome([of |-> x, size |-> size])
       ELSE result' = PlainOutcome
    /\ UNCHANGED <<plan, x, iterations, history, measured, converged, breakdown,
                   omega, cycleVars>>

Done == pc \in {"returned", "raised"} /\ UNCHANGED vars

-----------------------------------------------------------------------------
Steps ==
    \/ Refuse
    \/ LoopEnds
    \/ CgBreaks
    \/ BicgstabBreaks
    \/ BicgstabHalfStepConverges
    \/ BicgstabOmegaBreaks
    \/ StationaryBreaks
    \/ StationaryOverflows
    \/ CycleBreaks
    \/ CycleStarts
    \/ LeastSquaresFails
    \/ CandidateOverflows
    \/ CycleEnds

Kernels(size) ==
    \/ Setup(size)
    \/ CgIterates(size)
    \/ BicgstabIterates(size)
    \/ StationaryIterates(size)
    \/ CandidateMeasured(size)
    \/ Finish(size)

Solve == Steps \/ \E size \in Sizes : Kernels(size)

Next == Solve \/ Done

\* The solve is one thread of host code, whose kernels and host calls return.
Spec == Init /\ [][Next]_vars /\ WF_vars(Solve)

-----------------------------------------------------------------------------
(* What a solve promises *)

Returned == result # None
Succeeded == Returned /\ result.status = "success"
Failed    == Returned /\ result.status = "failed"

\* A success carries no failure class, and both residuals it reports are within
\* tolerance and were measured for the very x it hands back: of the scaled
\* system they only count once the original system agrees.
SuccessIsMeasured ==
    Returned =>
        /\ Succeeded <=> result.failure = None
        /\ Succeeded => /\ result.relative = [of |-> result.x, size |-> "small"]
                        /\ result.absolute = result.relative
                        /\ history[Len(history)].size = "small"

\* The residual history has one entry per iteration and one for x = 0, of
\* strictly later and later x, and stops at the first that is within tolerance.
HistoryStopsAtConvergence ==
    /\ history # <<>> => Len(history) = iterations + 1
    /\ \A i, j \in 1 .. Len(history) : i < j => /\ history[i].of < history[j].of
                                                /\ history[i].size # "small"

\* The failure class is the true one.  not_converged: the iterations were used
\* up and no residual was within tolerance.  original_residual_above_tolerance:
\* the scaled system did converge.  A breakdown: before convergence.  The class
\* zero_omega is never seen: an omega below 1.0e-30 already ended its iteration.
FailureNamesCause ==
    Failed =>
        LET last == history[Len(history)] IN
        /\ result.failure = "not_converged" =>
               /\ result.numIterations = MaxIter
               /\ last.size # "small"
               /\ breakdown = None
        /\ result.failure = "original_residual_above_tolerance" =>
               Equilibrated /\ last.size = "small" /\ result.relative.size # "small"
        /\ result.failure \in Breakdowns => last.size # "small"
        /\ result.failure # "zero_omega"

\* The reported relative residual is about an earlier x than the solution only
\* after a breakdown that moved x first, in a method on the original system;
\* and only a residual that is not finite makes the two reports differ.
StaleOnlyAfterBreakdown ==
    Returned =>
        /\ result.relative.of # result.x =>
               ~Equilibrated /\ result.failure \in OmegaBreakdowns \cup {"nonfinite_residual"}
        /\ result.relative # result.absolute => result.failure = "nonfinite_residual"

\* Every GMRES cycle but the last is full: at the loop's head with iterations
\* left, restart_cycles full cycles account for all of them.
CyclesAreFull ==
    plan.solver = "gmres" =>
        /\ iterations <= cycles * Restart
        /\ MayIterate => iterations = cycles * Restart

\* Every solve returns or raises.
SolveEnds == <>(pc \in {"returned", "raised"})
=============================================================================
