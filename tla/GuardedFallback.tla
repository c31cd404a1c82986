--------------------------- MODULE GuardedFallback ---------------------------
(***************************************************************************)
(* The runtime fallback guard: one call of execute_with_fallback_guard     *)
(* (transsolvestack/runtime/guarded_fallback.py).                          *)
(*                                                                         *)
(* The guard runs the plans of a chain in order.  A plan's attempt either  *)
(* raises or returns a SolveResult, after a time that nothing bounds: a    *)
(* timeout is only noticed when the attempt is over.  The guard then       *)
(* accepts the result, gives up, or goes on to the next plan; when the     *)
(* chain or the total time budget runs out it returns a failed result.     *)
(*                                                                         *)
(* Plan i of the model is attempts[i-1] of the code.  SolveResult objects  *)
(* are mutable and the guard rewrites the status of one it has already     *)
(* recorded, so the model keeps the object of each attempt in `results`    *)
(* and what the guard wrote down about it in `records`.                    *)
(***************************************************************************)
EXTENDS Integers, Sequences

CONSTANTS
    MaxPlans,   \* longest chain of plans
    Delays,     \* milliseconds that may pass between two readings of the clock
    Budgets,    \* values of max_attempt_wall_time_ms and max_total_wall_time_ms
    Failures,   \* failure classes a solver reports
    None        \* Python's None

ASSUME MaxPlansAssumption == MaxPlans \in Nat \ {0}
ASSUME DelaysAssumption   == Delays \subseteq Nat
ASSUME BudgetsAssumption  == Budgets \subseteq Nat
ASSUME NoneAssumption     ==
    None \notin Nat \cup Failures \cup {"timeout", "exception", "not_converged"}

VARIABLES
    config,         \* RuntimeGuardConfig
    numPlans,       \* len(attempts)
    pc,             \* "loop", "attempt" (in execute_attempt), "returned", "asserted"
    index,          \* the plans the loop is done with; plan index + 1 is next
    clock,          \* time.monotonic() - total_start, at its last reading
    attemptStart,   \* attempt_start
    records,        \* the GuardedAttemptRecords
    results,        \* the SolveResult object of each attempt that returned
    lastResult,     \* the plan whose object last_result is, 0 for None
    lastException,  \* the plan that raised last_exception, 0 for None
    outcome         \* the GuardedSolveOutcome, None until the guard returns

vars == <<config, numPlans, pc, index, clock, attemptStart, records, results,
          lastResult, lastException, outcome>>

Plans == 1 .. MaxPlans

Configs == [onFailedStatus : BOOLEAN, onException : BOOLEAN, onTimeout : BOOLEAN,
            maxAttempt : Budgets \cup {None}, maxTotal : Budgets \cup {None}]

(***************************************************************************)
(* What a Taichi solver returns: success without a failure class, or       *)
(* failure with one.  The guard also writes the other values of Statuses   *)
(* and FailureClasses.                                                     *)
(***************************************************************************)
SUCCESS_STATUSES == {"success", "fallback_success"}

Statuses       == SUCCESS_STATUSES \cup {"failed", "fallback_failed"}
FailureClasses == Failures \cup {"timeout", "exception", "not_converged", None}
Results        == [status : Statuses, failure : FailureClasses]

SolverResults ==
    {[status |-> "success", failure |-> None]} \cup
    {[status |-> "failed", failure |-> f] : f \in Failures}

Records == [plan : Plans, status : {"success", "failed", "exception"},
            failure : FailureClasses, elapsed : Nat, timedOut : BOOLEAN]

Outcomes == [plan : Plans, status : Statuses, failure : FailureClasses,
             guardStatus : {"success", "failed", "exception", "fallback_exhausted"},
             usedFallback : BOOLEAN, events : Nat]

TypeOK ==
    /\ config \in Configs
    /\ numPlans \in Plans
    /\ pc \in {"loop", "attempt", "returned", "asserted"}
    /\ index \in 0 .. numPlans
    /\ clock \in Nat
    /\ attemptStart \in Nat
    /\ records \in Seq(Records)
    /\ results \in [Plans -> Results \cup {None}]
    /\ lastResult \in 0 .. numPlans
    /\ lastException \in 0 .. numPlans
    /\ outcome \in Outcomes \cup {None}

-----------------------------------------------------------------------------
\* An empty chain is refused before the loop: numPlans is at least 1.
Init ==
    /\ config \in Configs
    /\ numPlans \in Plans
    /\ pc = "loop"
    /\ index = 0
    /\ clock = 0
    /\ attemptStart = 0
    /\ records = <<>>
    /\ results = [p \in Plans |-> None]
    /\ lastResult = 0
    /\ lastException = 0
    /\ outcome = None

\* Mutant of TotalBudgetExhausted: the start of the last attempt, not of the call.
TotalBudgetPerAttempt(elapsed) ==
    /\ config.maxTotal # None
    /\ elapsed - attemptStart > config.maxTotal

TotalBudgetExhausted(elapsed) ==
    /\ config.maxTotal # None
    /\ elapsed > config.maxTotal

AttemptTimedOut(elapsed) ==
    /\ config.maxAttempt # None
    /\ elapsed > config.maxAttempt

\* Mutant of MarkedFailed: a converged result has no failure class to keep.
MarkedFailedKeepsClass(failure, usedFallback) ==
    [status  |-> IF usedFallback THEN "fallback_failed" ELSE "failed",
     failure |-> failure]

\* Mutant of MarkedFailed: every failure is one of convergence.
MarkedNotConverged(failure, usedFallback) ==
    [status  |-> IF usedFallback THEN "fallback_failed" ELSE "failed",
     failure |-> "not_converged"]

\* _mark_result_failed, on the value of the object.
MarkedFailed(failure, usedFallback) ==
    [status  |-> IF usedFallback THEN "fallback_failed" ELSE "failed",
     failure |-> IF failure = None THEN "not_converged" ELSE failure]

\* _exception_result, with n records written so far.
ExceptionResult(n) ==
    [status  |-> IF n > 1 THEN "fallback_failed" ELSE "failed",
     failure |-> "exception"]

\* _finalize: the object handed back is that of plan p, or names p when the
\* guard made it up; events counts trace.fallback_events.
Finalize(p, result, n, guardStatus, usedFallback) ==
    /\ pc' = "returned"
    /\ outcome' = [plan |-> p, status |-> result.status, failure |-> result.failure,
                   guardStatus |-> guardStatus, usedFallback |-> usedFallback,
                   events |-> IF n = 0 THEN 0 ELSE n - 1]

-----------------------------------------------------------------------------
\* The head of the loop: the total budget still holds when it is looked at, so
\* the next plan runs.  Its start is a later reading of the clock.
BeginAttempt ==
    /\ pc = "loop"
    /\ index < numPlans
    /\ \E d \in Delays, e \in Delays :
        /\ ~TotalBudgetExhausted(clock + d)
        /\ clock' = clock + d + e
        /\ attemptStart' = clock'
    /\ pc' = "attempt"
    /\ UNCHANGED <<config, numPlans, index, records, results, lastResult,
                   lastException, outcome>>

\* What follows the loop, when it ends or breaks without having returned.
ExhaustedWithResult ==
    /\ lastResult # 0
    /\ LET marked == MarkedFailed(results[lastResult].failure, Len(records) > 1)
       IN  /\ results' = [results EXCEPT ![lastResult] = marked]
           /\ Finalize(lastResult, marked, Len(records), "fallback_exhausted",
                       Len(records) > 1)

ExhaustedWithException ==
    /\ lastResult = 0
    /\ lastException # 0
    /\ Finalize(IF Len(records) < numPlans THEN Len(records) + 1 ELSE numPlans,
                ExceptionResult(Len(records)), Len(records),
                "fallback_exhausted", Len(records) > 1)
    /\ UNCHANGED results

\* Mutant of AssertionFails: it asks for a result instead of an exception.
AssertionFailsWithoutResult ==
    /\ lastResult = 0
    /\ pc' = "asserted"
    /\ UNCHANGED <<results, outcome>>

AssertionFails ==
    /\ lastResult = 0
    /\ lastException = 0
    /\ pc' = "asserted"
    /\ UNCHANGED <<results, outcome>>

AfterLoop == ExhaustedWithResult \/ ExhaustedWithException \/ AssertionFails

\* The head of the loop finds the total budget exhausted and breaks.
BreakOnTotalBudget ==
    /\ pc = "loop"
    /\ index < numPlans
    /\ \E d \in Delays :
        /\ TotalBudgetExhausted(clock + d)
        /\ clock' = clock + d
    /\ AfterLoop
    /\ UNCHANGED <<config, numPlans, index, attemptStart, records, lastResult,
                   lastException>>

\* Mutant of EndOfPlans: the last plan of the chain is never reached.
EndOfPlansOffByOne ==
    /\ pc = "loop"
    /\ index = numPlans - 1
    /\ AfterLoop
    /\ UNCHANGED <<config, numPlans, index, clock, attemptStart, records,
                   lastResult, lastException>>

\* The loop has run every plan.
EndOfPlans ==
    /\ pc = "loop"
    /\ index = numPlans
    /\ AfterLoop
    /\ UNCHANGED <<config, numPlans, index, clock, attemptStart, records,
                   lastResult, lastException>>

\* Mutant of Continue: the same plan is tried again.
ContinueSamePlan ==
    /\ pc' = "loop"
    /\ UNCHANGED <<index, outcome>>

\* Mutant of Continue: the loop advances the index a second time.
ContinueSkipping ==
    /\ index' = index + 2
    /\ pc' = "loop"
    /\ UNCHANGED outcome

\* The guard is done with the attempt and goes on to the next plan.
Continue ==
    /\ index' = index + 1
    /\ pc' = "loop"
    /\ UNCHANGED outcome

\* The record of the attempt in flight.
Recorded(elapsed, status, failure) ==
    [plan |-> index + 1, status |-> status, failure |-> failure,
     elapsed |-> elapsed, timedOut |-> AttemptTimedOut(elapsed)]

\* execute_attempt raises.
AttemptRaises ==
    /\ pc = "attempt"
    /\ \E d \in Delays :
        /\ clock' = clock + d
        /\ records' = Append(records, Recorded(clock + d - attemptStart,
                                               "exception", "exception"))
    /\ lastException' = index + 1
    /\ \/ config.onException /\ Continue
       \/ /\ ~config.onException
          /\ Finalize(index + 1, ExceptionResult(Len(records) + 1),
                      Len(records) + 1, "exception", index > 0)
          /\ UNCHANGED index
    /\ UNCHANGED <<config, numPlans, attemptStart, results, lastResult>>

\* execute_attempt returns `result` after d; the guard records it before it
\* looks at it.
Returns(result, d) ==
    /\ pc = "attempt"
    /\ clock' = clock + d
    /\ records' = Append(records, Recorded(clock + d - attemptStart,
                                           result.status, result.failure))
    /\ lastResult' = index + 1
    /\ UNCHANGED <<config, numPlans, attemptStart, lastException>>

\* Too slow, and configured to fall back: the object is marked, then dropped.
ReturnTooSlow ==
    \E result \in SolverResults, d \in Delays :
        /\ Returns(result, d)
        /\ AttemptTimedOut(clock + d - attemptStart)
        /\ config.onTimeout
        /\ results' = [results EXCEPT ![index + 1] = MarkedFailed("timeout", index > 0)]
        /\ Continue

\* Mutant of ReturnAccepted: what the guard accepts is reported as exhausted.
ReturnAcceptedUnsaid ==
    \E result \in SolverResults, d \in Delays :
        /\ Returns(result, d)
        /\ ~AttemptTimedOut(clock + d - attemptStart)
        /\ result.status \in SUCCESS_STATUSES
        /\ results' = [results EXCEPT ![index + 1] = result]
        /\ Finalize(index + 1, result, Len(records) + 1, "fallback_exhausted", index > 0)
        /\ UNCHANGED index

\* Mutant of ReturnAccepted: the time of the attempt is not looked at.
ReturnAcceptedLate ==
    \E result \in SolverResults, d \in Delays :
        /\ Returns(result, d)
        /\ result.status \in SUCCESS_STATUSES
        /\ LET accepted == IF index > 0
                           THEN [result EXCEPT !.status = "fallback_success"]
                           ELSE result
           IN  /\ results' = [results EXCEPT ![index + 1] = accepted]
               /\ Finalize(index + 1, accepted, Len(records) + 1, "success", index > 0)
        /\ UNCHANGED index

\* In time and successful: the guard returns it.
ReturnAccepted ==
    \E result \in SolverResults, d \in Delays :
        /\ Returns(result, d)
        /\ ~AttemptTimedOut(clock + d - attemptStart)
        /\ result.status \in SUCCESS_STATUSES
        /\ LET accepted == IF index > 0
                           THEN [result EXCEPT !.status = "fallback_success"]
                           ELSE result
           IN  /\ results' = [results EXCEPT ![index + 1] = accepted]
               /\ Finalize(index + 1, accepted, Len(records) + 1, "success", index > 0)
        /\ UNCHANGED index

\* Neither of the two: on to the next plan, or out with the object as it is.
ReturnRejected ==
    \E result \in SolverResults, d \in Delays :
        LET timedOut == AttemptTimedOut(clock + d - attemptStart) IN
        /\ Returns(result, d)
        /\ ~(timedOut /\ config.onTimeout)
        /\ result.status \notin SUCCESS_STATUSES \/ timedOut
        /\ results' = [results EXCEPT ![index + 1] = result]
        /\ \/ config.onFailedStatus /\ Continue
           \/ /\ ~config.onFailedStatus
              /\ Finalize(index + 1, result, Len(records) + 1, "failed", index > 0)
              /\ UNCHANGED index

\* The call is over: the caller has the outcome or the AssertionError.
Finished ==
    /\ pc \in {"returned", "asserted"}
    /\ UNCHANGED vars

Next ==
    \/ BeginAttempt
    \/ BreakOnTotalBudget
    \/ EndOfPlans
    \/ AttemptRaises
    \/ ReturnTooSlow
    \/ ReturnAccepted
    \/ ReturnRejected
    \/ Finished

\* The guard is one thread, and each attempt ends: a solver's loops are
\* bounded by max_iter.
Spec == Init /\ [][Next]_vars /\ WF_vars(Next)

-----------------------------------------------------------------------------
Done == pc \in {"returned", "asserted"}

\* A recorded attempt whose result the guard may hand to its caller.
Acceptable(record) == record.status \in SUCCESS_STATUSES /\ ~record.timedOut

\* Attempts are recorded in the order of the chain, none skipped and none run
\* twice, whatever mix of exceptions, timeouts and failures made the guard go
\* on; and it goes on only past an attempt it may not accept.
ChainOrder ==
    /\ Len(records) <= numPlans
    /\ \A i \in 1 .. Len(records) : records[i].plan = i
    /\ \A i \in 1 .. Len(records) :
           Acceptable(records[i]) =>
               /\ i = Len(records)
               /\ pc = "returned"
               /\ outcome.guardStatus = "success"

\* A guard_status of "success" is about the attempt that ran last: it returned
\* in time, the object handed back is its own, and its status and used_fallback
\* say whether it was the first plan of the chain.
SuccessIsLastAttempt ==
    (pc = "returned" /\ outcome.guardStatus = "success") =>
        /\ records # <<>>
        /\ Acceptable(records[Len(records)])
        /\ outcome.plan = Len(records)
        /\ outcome.usedFallback = (Len(records) > 1)
        /\ outcome.status = IF Len(records) > 1 THEN "fallback_success" ELSE "success"
        /\ outcome.failure = None

\* The converse, for a guard that reacts to a failed status or to a timeout: a
\* result object that says success is handed back only with a guard_status that
\* says so, and one that says failure carries a failure class.
VerdictMatchesResult ==
    pc = "returned" =>
        /\ (config.onFailedStatus \/ config.onTimeout) =>
               ((outcome.status \in SUCCESS_STATUSES) <=> (outcome.guardStatus = "success"))
        /\ (outcome.status \notin SUCCESS_STATUSES) => (outcome.failure # None)

\* "fallback_exhausted" is said only when every plan was tried or the total
\* budget has run out, and never of a chain one attempt of which was acceptable.
\* The result is then a failed one, and it says "timeout" when the last result
\* came too late and the guard watches for that.
ExhaustedMeansExhausted ==
    (pc = "returned" /\ outcome.guardStatus = "fallback_exhausted") =>
        /\ Len(records) = numPlans \/ TotalBudgetExhausted(clock)
        /\ \A i \in 1 .. Len(records) : ~Acceptable(records[i])
        /\ outcome.status = IF Len(records) > 1 THEN "fallback_failed" ELSE "failed"
        /\ (lastResult # 0 /\ config.onTimeout /\ records[lastResult].timedOut) =>
               (outcome.plan = lastResult /\ outcome.failure = "timeout")

\* The guard fails with an AssertionError only when the total budget was gone
\* before the first attempt: once a plan has run, the caller gets an outcome.
AssertsOnlyBeforeFirstAttempt ==
    pc = "asserted" => records = <<>> /\ TotalBudgetExhausted(clock)

\* Milliseconds spent in the first i recorded attempts.
Spent[i \in 0 .. Len(records)] ==
    IF i = 0 THEN 0 ELSE Spent[i - 1] + records[i].elapsed

\* max_total_wall_time_ms is overrun by one attempt at most: the attempts before
\* the last one fit in it together.
OneAttemptOverrun ==
    (config.maxTotal # None /\ records # <<>>) =>
        Spent[Len(records) - 1] <= config.maxTotal

\* The chain is finite and each attempt ends, so the guard's caller gets an
\* answer.
Termination == <>Done

\* The guard implements FallbackContract.  The verdict is read off what the
\* caller gets: accepted is a result that says success from a guard that does.
Verdict == IF ~Done THEN "open"
           ELSE IF pc = "returned" /\ outcome.guardStatus = "success"
                THEN "accepted" ELSE "refused"

Quality(record) == IF Acceptable(record) THEN "acceptable" ELSE "unacceptable"

Qualities == [i \in 1 .. Len(records) |-> Quality(records[i])]

Contract == INSTANCE FallbackContract WITH
    chain <- numPlans, attempts <- Qualities, verdict <- Verdict

Refinement == Contract!ContractSpec

\* What the assertion after the loop says: when no attempt returned a result,
\* one of them raised (guarded_fallback.py, "assert last_exception is not None").
LastExceptionIsSet == pc # "asserted"
=============================================================================
