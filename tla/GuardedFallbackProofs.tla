------------------------ MODULE GuardedFallbackProofs ------------------------
(***************************************************************************)
(* Proofs about the runtime fallback guard, for every chain length, every  *)
(* budget and every sequence of delays.                                    *)
(*                                                                         *)
(* The properties of GuardedFallback are not inductive one by one: what    *)
(* the guard says at the end depends on what it has recorded, and on which *)
(* object last_result is.  GuardInv joins them with the two facts about    *)
(* the loop (InFlight, LastSeen) that make a step preserve them all.       *)
(***************************************************************************)
EXTENDS GuardedFallback, TLAPS

\* Where the loop is: in it, one record per plan done with; an attempt is one of
\* the chain and began in the past; the outcome exists once the guard returns.
InFlight ==
    /\ pc = "attempt" => index < numPlans /\ attemptStart <= clock
    /\ ~Done => Len(records) = index
    /\ pc # "returned" => outcome = None
    /\ pc = "returned" => outcome \in Outcomes

\* What last_result and last_exception are about: recorded attempts, at least one
\* of them set once there is a record, and the object of a last result that came
\* too late already says so.
LastSeen ==
    /\ lastResult <= Len(records)
    /\ lastException <= Len(records)
    /\ lastResult # 0 => results[lastResult] \in Results
    /\ (lastResult = 0 /\ lastException = 0) => records = <<>>
    /\ (lastResult # 0 /\ ~Done /\ config.onTimeout /\ records[lastResult].timedOut) =>
           results[lastResult].failure = "timeout"

GuardInv ==
    /\ TypeOK
    /\ InFlight
    /\ LastSeen
    /\ ChainOrder
    /\ SuccessIsLastAttempt
    /\ VerdictMatchesResult
    /\ ExhaustedMeansExhausted
    /\ AssertsOnlyBeforeFirstAttempt

-----------------------------------------------------------------------------
\* Appending a record leaves the earlier ones in place.
LEMMA AppendRecord ==
    ASSUME NEW S, NEW s \in Seq(S), NEW e \in S
    PROVE  /\ Append(s, e) \in Seq(S)
           /\ Append(s, e) # <<>>
           /\ Len(s) \in Nat
           /\ Len(Append(s, e)) = Len(s) + 1
           /\ Append(s, e)[Len(s) + 1] = e
           /\ \A i \in 1 .. Len(s) : Append(s, e)[i] = s[i]
  OBVIOUS

LEMMA EmptyRecords ==
    ASSUME NEW S, NEW s \in Seq(S)
    PROVE  (s = <<>>) <=> (Len(s) = 0)
  OBVIOUS

\* The initial states satisfy the invariant.
LEMMA InitInv == Init => GuardInv
<1> SUFFICES ASSUME Init PROVE GuardInv
  OBVIOUS
<1> USE DEF Init
<1>1. TypeOK
  BY MaxPlansAssumption DEF TypeOK, Plans
<1>2. InFlight /\ LastSeen
  BY DEF InFlight, LastSeen, Done, Plans
<1>3. ChainOrder
  BY MaxPlansAssumption DEF ChainOrder, Plans
<1>4. SuccessIsLastAttempt /\ VerdictMatchesResult /\ ExhaustedMeansExhausted
      /\ AssertsOnlyBeforeFirstAttempt
  BY DEF SuccessIsLastAttempt, VerdictMatchesResult, ExhaustedMeansExhausted,
         AssertsOnlyBeforeFirstAttempt
<1> QED
  BY <1>1, <1>2, <1>3, <1>4 DEF GuardInv

\* Starting an attempt moves the clock and nothing the properties speak of.
LEMMA BeginStep == GuardInv /\ BeginAttempt => GuardInv'
<1> SUFFICES ASSUME GuardInv, BeginAttempt PROVE GuardInv'
  OBVIOUS
<1> USE DEF GuardInv, BeginAttempt
<1>1. clock' \in Nat /\ attemptStart' \in Nat /\ attemptStart' = clock'
  BY DelaysAssumption DEF TypeOK
<1>2. TypeOK'
  BY <1>1 DEF TypeOK
<1>3. InFlight' /\ LastSeen'
  BY <1>1 DEF InFlight, LastSeen, Done, TypeOK
<1>4. ChainOrder'
  BY DEF ChainOrder, Acceptable, Done
<1>5. /\ SuccessIsLastAttempt' /\ VerdictMatchesResult' /\ ExhaustedMeansExhausted'
      /\ AssertsOnlyBeforeFirstAttempt'
  BY DEF SuccessIsLastAttempt, VerdictMatchesResult, ExhaustedMeansExhausted,
         AssertsOnlyBeforeFirstAttempt
<1> QED
  BY <1>2, <1>3, <1>4, <1>5

\* Leaving the loop, with every plan tried or the budget gone at the new reading of
\* the clock.
LEMMA AfterLoopStep ==
    ASSUME GuardInv, pc = "loop", AfterLoop, clock' \in Nat,
           Len(records) = numPlans \/ TotalBudgetExhausted(clock'),
           records = <<>> => TotalBudgetExhausted(clock'),
           UNCHANGED <<config, numPlans, index, attemptStart, records, lastResult,
                       lastException>>
    PROVE  GuardInv'
<1> USE DEF GuardInv
<1>1. \A i \in 1 .. Len(records) : ~Acceptable(records[i])
  BY DEF ChainOrder
<1>2. /\ records \in Seq(Records)
      /\ Len(records) \in Nat
      /\ Len(records) = index
      /\ index <= numPlans
      /\ numPlans \in Plans
      /\ outcome = None
      /\ lastResult \in Nat
  BY DEF TypeOK, InFlight, Done, Plans
<1>3. TotalBudgetExhausted(clock)' <=> TotalBudgetExhausted(clock')
  BY DEF TotalBudgetExhausted
<1>4. CASE ExhaustedWithResult
  <2> DEFINE marked == MarkedFailed(results[lastResult].failure, Len(records) > 1)
  <2>1. /\ lastResult \in 1 .. Len(records)
        /\ lastResult \in Plans
        /\ results[lastResult] \in Results
    BY <1>2, <1>4, MaxPlansAssumption DEF ExhaustedWithResult, LastSeen, Plans
  <2>2. /\ marked \in Results
        /\ marked.failure # None
        /\ marked.status = IF Len(records) > 1 THEN "fallback_failed" ELSE "failed"
        /\ marked.status \notin SUCCESS_STATUSES
        /\ results[lastResult].failure = "timeout" => marked.failure = "timeout"
    BY <2>1, NoneAssumption
       DEF MarkedFailed, Results, FailureClasses, Statuses, SUCCESS_STATUSES
  <2>3. /\ pc' = "returned"
        /\ results' = [results EXCEPT ![lastResult] = marked]
        /\ outcome' = [plan |-> lastResult, status |-> marked.status,
                       failure |-> marked.failure, guardStatus |-> "fallback_exhausted",
                       usedFallback |-> Len(records) > 1,
                       events |-> IF Len(records) = 0 THEN 0 ELSE Len(records) - 1]
    BY <1>4 DEF ExhaustedWithResult, Finalize
  <2>4. outcome' \in Outcomes
    BY <1>2, <2>1, <2>2, <2>3 DEF Outcomes, Results
  <2> HIDE DEF marked
  <2>5. TypeOK'
    BY <2>1, <2>2, <2>3, <2>4 DEF TypeOK
  <2>6. InFlight' /\ LastSeen'
    BY <1>2, <2>1, <2>2, <2>3, <2>4 DEF InFlight, LastSeen, Done, TypeOK
  <2>7. ChainOrder'
    BY <1>1, <1>2 DEF ChainOrder, Acceptable
  <2>8. SuccessIsLastAttempt' /\ VerdictMatchesResult' /\ AssertsOnlyBeforeFirstAttempt'
    BY <2>2, <2>3
       DEF SuccessIsLastAttempt, VerdictMatchesResult, AssertsOnlyBeforeFirstAttempt
  <2>9. ExhaustedMeansExhausted'
    <3>1. (lastResult # 0 /\ config.onTimeout /\ records[lastResult].timedOut) =>
              marked.failure = "timeout"
      BY <2>2 DEF LastSeen, Done
    <3> QED
      BY <1>1, <1>2, <1>3, <2>2, <2>3, <3>1 DEF ExhaustedMeansExhausted, Acceptable
  <2> QED
    BY <2>5, <2>6, <2>7, <2>8, <2>9
<1>5. CASE ExhaustedWithException
  <2>1. /\ lastResult = 0
        /\ lastException # 0
        /\ results' = results
        /\ pc' = "returned"
        /\ outcome' = [plan |-> IF Len(records) < numPlans THEN Len(records) + 1
                                                           ELSE numPlans,
                       status |-> IF Len(records) > 1 THEN "fallback_failed" ELSE "failed",
                       failure |-> "exception", guardStatus |-> "fallback_exhausted",
                       usedFallback |-> Len(records) > 1,
                       events |-> IF Len(records) = 0 THEN 0 ELSE Len(records) - 1]
    BY <1>5 DEF ExhaustedWithException, Finalize, ExceptionResult
  <2>2. outcome' \in Outcomes
    <3>1. (IF Len(records) < numPlans THEN Len(records) + 1 ELSE numPlans) \in Plans
      BY <1>2, MaxPlansAssumption DEF Plans
    <3> QED
      BY <1>2, <2>1, <3>1 DEF Outcomes, Statuses, FailureClasses
  <2>3. TypeOK'
    BY <2>1, <2>2 DEF TypeOK
  <2>4. InFlight' /\ LastSeen'
    BY <1>2, <2>1, <2>2 DEF InFlight, LastSeen, Done, TypeOK
  <2>5. ChainOrder'
    BY <1>1, <1>2 DEF ChainOrder, Acceptable
  <2>6. "exception" # None
    BY NoneAssumption
  <2>7. SuccessIsLastAttempt' /\ VerdictMatchesResult' /\ AssertsOnlyBeforeFirstAttempt'
    BY <2>1, <2>6
       DEF SuccessIsLastAttempt, VerdictMatchesResult, AssertsOnlyBeforeFirstAttempt,
           SUCCESS_STATUSES
  <2>8. ExhaustedMeansExhausted'
    BY <1>1, <1>2, <1>3, <2>1 DEF ExhaustedMeansExhausted, Acceptable
  <2> QED
    BY <2>3, <2>4, <2>5, <2>7, <2>8
<1>6. CASE AssertionFails
  <2>1. pc' = "asserted" /\ UNCHANGED <<results, outcome>> /\ records = <<>>
    BY <1>6 DEF AssertionFails, LastSeen
  <2>2. TypeOK'
    BY <2>1 DEF TypeOK
  <2>3. InFlight' /\ LastSeen'
    BY <1>2, <2>1 DEF InFlight, LastSeen, Done, TypeOK
  <2>4. ChainOrder'
    BY <1>1, <1>2 DEF ChainOrder, Acceptable
  <2>5. /\ SuccessIsLastAttempt' /\ VerdictMatchesResult' /\ ExhaustedMeansExhausted'
        /\ AssertsOnlyBeforeFirstAttempt'
    BY <1>3, <2>1
       DEF SuccessIsLastAttempt, VerdictMatchesResult, ExhaustedMeansExhausted,
           AssertsOnlyBeforeFirstAttempt
  <2> QED
    BY <2>2, <2>3, <2>4, <2>5
<1> QED
  BY <1>4, <1>5, <1>6 DEF AfterLoop

\* Recording the attempt in flight adds its record at the end of the list.
LEMMA RecordStep ==
    ASSUME GuardInv, pc = "attempt", NEW d \in Delays,
           NEW s \in {"success", "failed", "exception"}, NEW f \in FailureClasses,
           records' = Append(records, Recorded(clock + d - attemptStart, s, f))
    PROVE  /\ records' \in Seq(Records)
           /\ index \in Nat /\ numPlans \in Plans /\ numPlans \in Nat
           /\ index + 1 \in Plans /\ index + 1 \in 1 .. numPlans
           /\ Len(records) = index
           /\ Len(records') = index + 1
           /\ \A i \in 1 .. index : records'[i] = records[i]
           /\ \A i \in 1 .. index : ~Acceptable(records'[i])
           /\ \A i \in 1 .. index + 1 : records'[i].plan = i
           /\ records'[index + 1].status = s
           /\ records'[index + 1].timedOut = AttemptTimedOut(clock + d - attemptStart)
           /\ records' # <<>>
           /\ clock + d \in Nat
<1> DEFINE r == Recorded(clock + d - attemptStart, s, f)
<1>1. /\ index \in Nat /\ numPlans \in Plans /\ numPlans \in Nat
      /\ index + 1 \in Plans /\ index + 1 \in 1 .. numPlans
      /\ Len(records) = index
      /\ records \in Seq(Records)
      /\ d \in Nat /\ clock + d \in Nat /\ clock + d - attemptStart \in Nat
  BY MaxPlansAssumption, DelaysAssumption DEF GuardInv, InFlight, TypeOK, Done, Plans
<1>2. AttemptTimedOut(clock + d - attemptStart) \in BOOLEAN
  BY DEF AttemptTimedOut
<1>3. /\ r \in Records
      /\ r.plan = index + 1
      /\ r.status = s
      /\ r.timedOut = AttemptTimedOut(clock + d - attemptStart)
  BY <1>1, <1>2, Zenon DEF Recorded, Records
<1> HIDE DEF r
<1>4. /\ records' \in Seq(Records)
      /\ records' # <<>>
      /\ Len(records') = index + 1
      /\ records'[index + 1] = r
      /\ \A i \in 1 .. index : records'[i] = records[i]
  <2>1. records' = Append(records, r)
    BY DEF r
  <2> QED
    BY <1>1, <1>3, <2>1, AppendRecord
<1>5. \A i \in 1 .. index : ~Acceptable(records[i]) /\ records[i].plan = i
  BY <1>1 DEF GuardInv, ChainOrder
<1>6. \A i \in 1 .. index : ~Acceptable(records'[i])
  BY <1>4, <1>5 DEF Acceptable
<1>7. \A i \in 1 .. index + 1 : records'[i].plan = i
  BY <1>1, <1>3, <1>4, <1>5
<1> QED
  BY <1>1, <1>3, <1>4, <1>6, <1>7

\* Going on after an attempt that may not be accepted.
LEMMA ContinueStep ==
    ASSUME GuardInv, pc = "attempt", Continue, UNCHANGED <<config, numPlans, attemptStart>>,
           NEW d \in Delays, clock' = clock + d,
           NEW s \in {"success", "failed", "exception"}, NEW f \in FailureClasses,
           records' = Append(records, Recorded(clock + d - attemptStart, s, f)),
           s \notin SUCCESS_STATUSES \/ AttemptTimedOut(clock + d - attemptStart),
           results' \in [Plans -> Results \cup {None}],
           LastSeen',
           lastResult' \in 0 .. numPlans,
           lastException' \in 0 .. numPlans
    PROVE  GuardInv'
<1>1. /\ records' \in Seq(Records)
      /\ index \in Nat /\ numPlans \in Plans /\ numPlans \in Nat
      /\ index + 1 \in Plans /\ index + 1 \in 1 .. numPlans
      /\ Len(records) = index
      /\ Len(records') = index + 1
      /\ \A i \in 1 .. index : ~Acceptable(records'[i])
      /\ \A i \in 1 .. index + 1 : records'[i].plan = i
      /\ records'[index + 1].status = s
      /\ records'[index + 1].timedOut = AttemptTimedOut(clock + d - attemptStart)
      /\ clock + d \in Nat
  BY RecordStep
<1>2. pc' = "loop" /\ index' = index + 1 /\ outcome' = outcome
  BY DEF Continue
<1>3. \A i \in 1 .. index + 1 : ~Acceptable(records'[i])
  BY <1>1 DEF Acceptable
<1>4. TypeOK'
  BY <1>1, <1>2 DEF GuardInv, TypeOK
<1>5. InFlight'
  BY <1>1, <1>2 DEF GuardInv, InFlight, Done
<1>6. ChainOrder'
  BY <1>1, <1>2, <1>3 DEF ChainOrder, Acceptable
<1>7. /\ SuccessIsLastAttempt' /\ VerdictMatchesResult' /\ ExhaustedMeansExhausted'
      /\ AssertsOnlyBeforeFirstAttempt'
  BY <1>2 DEF SuccessIsLastAttempt, VerdictMatchesResult, ExhaustedMeansExhausted,
              AssertsOnlyBeforeFirstAttempt
<1> QED
  BY <1>4, <1>5, <1>6, <1>7 DEF GuardInv

\* Returning from the loop with the attempt in flight: what _finalize hands over.
LEMMA ReturnStep ==
    ASSUME GuardInv, pc = "attempt", UNCHANGED <<config, numPlans, attemptStart, index>>,
           NEW d \in Delays, clock' = clock + d,
           NEW s \in {"success", "failed", "exception"}, NEW f \in FailureClasses,
           records' = Append(records, Recorded(clock + d - attemptStart, s, f)),
           results' \in [Plans -> Results \cup {None}],
           LastSeen',
           lastResult' \in 0 .. numPlans,
           lastException' \in 0 .. numPlans,
           NEW status \in Statuses, NEW failure \in FailureClasses,
           NEW guardStatus \in {"success", "failed", "exception"},
           Finalize(index + 1, [status |-> status, failure |-> failure],
                    Len(records) + 1, guardStatus, index > 0),
           LET timedOut == AttemptTimedOut(clock + d - attemptStart)
           IN  /\ (s \in SUCCESS_STATUSES /\ ~timedOut) <=> guardStatus = "success"
               /\ guardStatus = "success" =>
                      /\ status = IF index > 0 THEN "fallback_success" ELSE "success"
                      /\ failure = None
               /\ (config.onFailedStatus \/ config.onTimeout) =>
                      (status \in SUCCESS_STATUSES <=> guardStatus = "success")
               /\ status \notin SUCCESS_STATUSES => failure # None
    PROVE  GuardInv'
<1>1. /\ records' \in Seq(Records)
      /\ index \in Nat /\ numPlans \in Plans /\ numPlans \in Nat
      /\ index + 1 \in Plans /\ index + 1 \in 1 .. numPlans
      /\ Len(records) = index
      /\ Len(records') = index + 1
      /\ \A i \in 1 .. index : ~Acceptable(records'[i])
      /\ \A i \in 1 .. index + 1 : records'[i].plan = i
      /\ records'[index + 1].status = s
      /\ records'[index + 1].timedOut = AttemptTimedOut(clock + d - attemptStart)
      /\ records' # <<>>
      /\ clock + d \in Nat
  BY RecordStep
<1>2. /\ pc' = "returned"
      /\ outcome' = [plan |-> index + 1, status |-> status, failure |-> failure,
                     guardStatus |-> guardStatus, usedFallback |-> index > 0,
                     events |-> index]
  BY <1>1 DEF Finalize
<1>3. outcome' \in Outcomes
  BY <1>1, <1>2 DEF Outcomes
<1>4. Acceptable(records'[index + 1]) <=> guardStatus = "success"
  BY <1>1 DEF Acceptable
<1>5. TypeOK'
  BY <1>1, <1>2, <1>3 DEF GuardInv, TypeOK
<1>6. InFlight'
  BY <1>1, <1>2, <1>3 DEF InFlight, Done
<1>7. ChainOrder'
  BY <1>1, <1>2, <1>4 DEF ChainOrder, Acceptable
<1>8. SuccessIsLastAttempt'
  BY <1>1, <1>2, <1>4 DEF SuccessIsLastAttempt, Acceptable
<1>9. VerdictMatchesResult' /\ ExhaustedMeansExhausted' /\ AssertsOnlyBeforeFirstAttempt'
  BY <1>2 DEF VerdictMatchesResult, ExhaustedMeansExhausted, AssertsOnlyBeforeFirstAttempt
<1> QED
  BY <1>5, <1>6, <1>7, <1>8, <1>9 DEF GuardInv

\* execute_attempt raises.
LEMMA RaiseStep == GuardInv /\ AttemptRaises => GuardInv'
<1> SUFFICES ASSUME GuardInv, AttemptRaises PROVE GuardInv'
  OBVIOUS
<1>1. PICK d \in Delays :
          /\ clock' = clock + d
          /\ records' = Append(records, Recorded(clock + d - attemptStart,
                                                 "exception", "exception"))
  BY DEF AttemptRaises
<1>2. /\ pc = "attempt"
      /\ lastException' = index + 1
      /\ UNCHANGED <<config, numPlans, attemptStart, results, lastResult>>
  BY DEF AttemptRaises
<1>3. "exception" \in FailureClasses /\ "exception" # None
  BY NoneAssumption DEF FailureClasses
<1>4. /\ records' # <<>>
      /\ Len(records) = index /\ Len(records') = index + 1
      /\ index \in Nat /\ numPlans \in Nat /\ index + 1 \in 1 .. numPlans
      /\ \A i \in 1 .. index : records'[i] = records[i]
  BY <1>1, <1>2, <1>3, RecordStep
<1>5. LastSeen'
  BY <1>2, <1>4 DEF GuardInv, LastSeen, Done, TypeOK
<1>6. /\ results' \in [Plans -> Results \cup {None}]
      /\ lastResult' \in 0 .. numPlans
      /\ lastException' \in 0 .. numPlans
  BY <1>2, <1>4 DEF GuardInv, TypeOK
<1>7. CASE Continue
  BY <1>1, <1>2, <1>3, <1>5, <1>6, <1>7, ContinueStep DEF SUCCESS_STATUSES
<1>8. CASE /\ Finalize(index + 1, ExceptionResult(Len(records) + 1),
                       Len(records) + 1, "exception", index > 0)
           /\ UNCHANGED index
  <2> DEFINE status == IF Len(records) + 1 > 1 THEN "fallback_failed" ELSE "failed"
  <2>1. /\ status \in Statuses
        /\ status \notin SUCCESS_STATUSES
        /\ ExceptionResult(Len(records) + 1) = [status |-> status, failure |-> "exception"]
    BY DEF Statuses, SUCCESS_STATUSES, ExceptionResult
  <2> HIDE DEF status
  <2> QED
    BY <1>1, <1>2, <1>3, <1>5, <1>6, <1>8, <2>1, ReturnStep DEF SUCCESS_STATUSES
<1> QED
  BY <1>7, <1>8 DEF AttemptRaises

\* What the three actions of a returned attempt have in common: the object of the
\* attempt becomes last_result, with a value o that says "timeout" if the attempt
\* was too slow and the guard watches for that and goes on.
LEMMA ReturnedObject ==
    ASSUME GuardInv, NEW result \in SolverResults, NEW d \in Delays, Returns(result, d),
           NEW o \in Results, results' = [results EXCEPT ![index + 1] = o],
           \/ pc' = "returned"
           \/ AttemptTimedOut(clock + d - attemptStart) /\ config.onTimeout =>
                  o.failure = "timeout"
    PROVE  /\ LastSeen'
           /\ results' \in [Plans -> Results \cup {None}]
           /\ lastResult' \in 0 .. numPlans
           /\ lastException' \in 0 .. numPlans
<1>1. /\ pc = "attempt"
      /\ lastResult' = index + 1
      /\ UNCHANGED <<config, numPlans, attemptStart, lastException>>
      /\ records' = Append(records, Recorded(clock + d - attemptStart,
                                             result.status, result.failure))
  BY DEF Returns
<1>2. result.status \in {"success", "failed", "exception"} /\ result.failure \in FailureClasses
  BY DEF SolverResults, FailureClasses
<1>3. /\ records' # <<>>
      /\ Len(records) = index /\ Len(records') = index + 1
      /\ index \in Nat /\ numPlans \in Nat /\ index + 1 \in 1 .. numPlans
      /\ index + 1 \in Plans
      /\ records'[index + 1].timedOut = AttemptTimedOut(clock + d - attemptStart)
  BY <1>1, <1>2, RecordStep
<1>4. results' \in [Plans -> Results \cup {None}] /\ results'[index + 1] = o
  BY <1>3 DEF GuardInv, TypeOK
<1>5. LastSeen'
  BY <1>1, <1>3, <1>4 DEF GuardInv, LastSeen, Done, TypeOK
<1> QED
  BY <1>1, <1>3, <1>4, <1>5 DEF GuardInv, TypeOK

\* A result that came too late is dropped.
LEMMA TooSlowStep == GuardInv /\ ReturnTooSlow => GuardInv'
<1> SUFFICES ASSUME GuardInv,
                    NEW result \in SolverResults, NEW d \in Delays,
                    Returns(result, d),
                    AttemptTimedOut(clock + d - attemptStart),
                    results' = [results EXCEPT ![index + 1] =
                                    MarkedFailed("timeout", index > 0)],
                    Continue
             PROVE  GuardInv'
  BY DEF ReturnTooSlow
<1> DEFINE o == MarkedFailed("timeout", index > 0)
<1>1. o \in Results /\ o.failure = "timeout"
  BY NoneAssumption DEF MarkedFailed, Results, Statuses, FailureClasses
<1>2. results' = [results EXCEPT ![index + 1] = o]
  OBVIOUS
<1> HIDE DEF o
<1>3. result.status \in {"success", "failed", "exception"} /\ result.failure \in FailureClasses
  BY DEF SolverResults, FailureClasses
<1> QED
  BY <1>1, <1>2, <1>3, ReturnedObject, ContinueStep DEF Returns

\* A timely success is what the caller gets.
LEMMA AcceptStep == GuardInv /\ ReturnAccepted => GuardInv'
<1> SUFFICES ASSUME GuardInv,
                    NEW result \in SolverResults, NEW d \in Delays,
                    Returns(result, d),
                    ~AttemptTimedOut(clock + d - attemptStart),
                    result.status \in SUCCESS_STATUSES,
                    LET accepted == IF index > 0
                                    THEN [result EXCEPT !.status = "fallback_success"]
                                    ELSE result
                    IN  /\ results' = [results EXCEPT ![index + 1] = accepted]
                        /\ Finalize(index + 1, accepted, Len(records) + 1, "success",
                                    index > 0),
                    UNCHANGED index
             PROVE  GuardInv'
  BY DEF ReturnAccepted
<1> DEFINE status == IF index > 0 THEN "fallback_success" ELSE "success"
           o == [status |-> status, failure |-> None]
<1>1. result = [status |-> "success", failure |-> None]
  BY DEF SolverResults, SUCCESS_STATUSES
<1>2. /\ o \in Results
      /\ status \in Statuses
      /\ status \in SUCCESS_STATUSES
      /\ None \in FailureClasses
  BY DEF Results, Statuses, SUCCESS_STATUSES, FailureClasses
<1>3. o = IF index > 0 THEN [result EXCEPT !.status = "fallback_success"] ELSE result
  BY <1>1
<1>4. /\ results' = [results EXCEPT ![index + 1] = o]
      /\ Finalize(index + 1, o, Len(records) + 1, "success", index > 0)
      /\ pc' = "returned"
  BY <1>3 DEF Finalize
<1>5. status = IF index > 0 THEN "fallback_success" ELSE "success"
  OBVIOUS
<1>6. o = [status |-> status, failure |-> None]
  OBVIOUS
<1> HIDE DEF o, status
<1>7. /\ LastSeen'
      /\ results' \in [Plans -> Results \cup {None}]
      /\ lastResult' \in 0 .. numPlans
      /\ lastException' \in 0 .. numPlans
  BY <1>2, <1>4, ReturnedObject
<1> QED
  BY <1>1, <1>2, <1>4, <1>5, <1>6, <1>7, ReturnStep DEF Returns

\* A result that is no timely success, when the guard does not react to the timeout.
LEMMA RejectStep == GuardInv /\ ReturnRejected => GuardInv'
<1> SUFFICES ASSUME GuardInv,
                    NEW result \in SolverResults, NEW d \in Delays,
                    Returns(result, d),
                    ~(AttemptTimedOut(clock + d - attemptStart) /\ config.onTimeout),
                    \/ result.status \notin SUCCESS_STATUSES
                    \/ AttemptTimedOut(clock + d - attemptStart),
                    results' = [results EXCEPT ![index + 1] = result],
                    \/ config.onFailedStatus /\ Continue
                    \/ /\ ~config.onFailedStatus
                       /\ Finalize(index + 1, result, Len(records) + 1, "failed", index > 0)
                       /\ UNCHANGED index
             PROVE  GuardInv'
  BY DEF ReturnRejected
<1>1. /\ result \in Results
      /\ result = [status |-> result.status, failure |-> result.failure]
      /\ result.status \in {"success", "failed", "exception"}
      /\ result.status \in Statuses
      /\ result.failure \in FailureClasses
      /\ result.status \notin SUCCESS_STATUSES => result.failure # None
  BY NoneAssumption
     DEF SolverResults, Results, Statuses, FailureClasses, SUCCESS_STATUSES
<1>2. /\ LastSeen'
      /\ results' \in [Plans -> Results \cup {None}]
      /\ lastResult' \in 0 .. numPlans
      /\ lastException' \in 0 .. numPlans
  BY <1>1, ReturnedObject
<1>3. CASE config.onFailedStatus /\ Continue
  BY <1>1, <1>2, <1>3, ContinueStep DEF Returns
<1>4. CASE /\ ~config.onFailedStatus
           /\ Finalize(index + 1, result, Len(records) + 1, "failed", index > 0)
           /\ UNCHANGED index
  <2>1. Finalize(index + 1, [status |-> result.status, failure |-> result.failure],
                 Len(records) + 1, "failed", index > 0)
    BY <1>4 DEF Finalize
  <2>2. (config.onFailedStatus \/ config.onTimeout) => result.status \notin SUCCESS_STATUSES
    BY <1>4
  <2> QED
    BY <1>1, <1>2, <1>4, <2>1, <2>2, ReturnStep DEF Returns
<1> QED
  BY <1>3, <1>4

-----------------------------------------------------------------------------
\* Every step preserves the invariant.
LEMMA StepInv == GuardInv /\ [Next]_vars => GuardInv'
<1> SUFFICES ASSUME GuardInv, [Next]_vars PROVE GuardInv'
  OBVIOUS
<1>1. CASE BeginAttempt
  BY <1>1, BeginStep
<1>2. CASE BreakOnTotalBudget
  <2>1. PICK d \in Delays : TotalBudgetExhausted(clock + d) /\ clock' = clock + d
    BY <1>2 DEF BreakOnTotalBudget
  <2>2. clock' \in Nat /\ TotalBudgetExhausted(clock')
    BY <2>1, DelaysAssumption DEF GuardInv, TypeOK, TotalBudgetExhausted
  <2> QED
    BY <1>2, <2>2, AfterLoopStep DEF BreakOnTotalBudget
<1>3. CASE EndOfPlans
  <2>1. Len(records) = numPlans /\ records # <<>> /\ clock' \in Nat
    BY <1>3 DEF EndOfPlans, GuardInv, InFlight, Done, TypeOK, Plans
  <2> QED
    BY <1>3, <2>1, AfterLoopStep DEF EndOfPlans
<1>4. CASE AttemptRaises
  BY <1>4, RaiseStep
<1>5. CASE ReturnTooSlow
  BY <1>5, TooSlowStep
<1>6. CASE ReturnAccepted
  BY <1>6, AcceptStep
<1>7. CASE ReturnRejected
  BY <1>7, RejectStep
<1>8. CASE UNCHANGED vars
  BY <1>8
     DEF GuardInv, vars, TypeOK, InFlight, LastSeen, Done, ChainOrder, Acceptable,
         SuccessIsLastAttempt, VerdictMatchesResult, ExhaustedMeansExhausted,
         AssertsOnlyBeforeFirstAttempt, TotalBudgetExhausted
<1> QED
  BY <1>1, <1>2, <1>3, <1>4, <1>5, <1>6, <1>7, <1>8 DEF Next, Finished

LEMMA Invariance == Spec => []GuardInv
  BY InitInv, StepInv, PTL DEF Spec

\* The guard's state is well typed in every reachable state.
THEOREM TypeCorrect == Spec => []TypeOK
  BY Invariance, PTL DEF GuardInv

\* Attempts run in chain order, and only an unacceptable one is gone past.
THEOREM ChainOrderHolds == Spec => []ChainOrder
  BY Invariance, PTL DEF GuardInv

\* A guard_status of "success" is about the last attempt, which was a timely success.
THEOREM SuccessHolds == Spec => []SuccessIsLastAttempt
  BY Invariance, PTL DEF GuardInv

\* The status of the result object agrees with the verdict of the guard.
THEOREM VerdictHolds == Spec => []VerdictMatchesResult
  BY Invariance, PTL DEF GuardInv

\* "fallback_exhausted" is never said of a chain that had an acceptable attempt,
\* nor before every plan was tried or the budget was gone.
THEOREM ExhaustedHolds == Spec => []ExhaustedMeansExhausted
  BY Invariance, PTL DEF GuardInv

\* Once a plan has run, the assertion after the loop cannot fail.
THEOREM AssertionHolds == Spec => []AssertsOnlyBeforeFirstAttempt
  BY Invariance, PTL DEF GuardInv

-----------------------------------------------------------------------------
\* A step that records nothing leaves the abstract attempts as they are.
LEMMA SameQualities == records' = records => Qualities' = Qualities
  BY DEF Qualities, Quality, Acceptable

\* A step that ends an attempt adds its quality to the abstract attempts.
LEMMA OneMoreQuality ==
    ASSUME GuardInv, pc = "attempt", NEW d \in Delays,
           NEW s \in {"success", "failed", "exception"}, NEW f \in FailureClasses,
           records' = Append(records, Recorded(clock + d - attemptStart, s, f))
    PROVE  /\ Qualities' = Append(Qualities, Quality(records'[index + 1]))
           /\ Len(Qualities) < numPlans
           /\ Quality(records'[index + 1]) =
                  IF s \in SUCCESS_STATUSES /\ ~AttemptTimedOut(clock + d - attemptStart)
                  THEN "acceptable" ELSE "unacceptable"
<1>1. /\ records \in Seq(Records) /\ records' \in Seq(Records)
      /\ index \in Nat /\ numPlans \in Nat /\ index + 1 \in 1 .. numPlans
      /\ Len(records) = index /\ Len(records') = index + 1
      /\ \A i \in 1 .. index : records'[i] = records[i]
      /\ records'[index + 1].status = s
      /\ records'[index + 1].timedOut = AttemptTimedOut(clock + d - attemptStart)
  BY RecordStep DEF GuardInv, TypeOK
<1>2. Quality(records'[index + 1]) =
          IF s \in SUCCESS_STATUSES /\ ~AttemptTimedOut(clock + d - attemptStart)
          THEN "acceptable" ELSE "unacceptable"
  BY <1>1 DEF Quality, Acceptable
<1>3. /\ Qualities \in Seq({"acceptable", "unacceptable"})
      /\ Len(Qualities) = index
      /\ \A i \in 1 .. index : Qualities[i] = Quality(records[i])
  BY <1>1 DEF Qualities, Quality
<1>4. /\ Qualities' \in Seq({"acceptable", "unacceptable"})
      /\ Len(Qualities') = index + 1
      /\ \A i \in 1 .. index + 1 : Qualities'[i] = Quality(records'[i])
  BY <1>1 DEF Qualities, Quality
<1>5. \A i \in 1 .. index : Quality(records'[i]) = Quality(records[i])
  BY <1>1 DEF Quality, Acceptable
<1>6. Quality(records'[index + 1]) \in {"acceptable", "unacceptable"}
  BY DEF Quality
<1>7. Qualities' = Append(Qualities, Quality(records'[index + 1]))
  BY <1>1, <1>3, <1>4, <1>5, <1>6
<1> QED
  BY <1>1, <1>2, <1>3, <1>7

\* The verdict is open as long as the loop runs and settled when it is left.
LEMMA VerdictStep ==
    /\ pc \in {"loop", "attempt"} => Verdict = "open"
    /\ pc' \in {"loop", "attempt"} => Verdict' = "open"
    /\ pc' = "asserted" => Verdict' = "refused"
    /\ pc' = "returned" =>
           Verdict' = IF outcome'.guardStatus = "success" THEN "accepted" ELSE "refused"
  BY DEF Verdict, Done

\* Every step of the guard is a step of the contract or changes nothing it sees.
LEMMA ContractStep ==
    GuardInv /\ [Next]_vars => [Contract!ContractNext]_(Contract!contractVars)
<1> SUFFICES ASSUME GuardInv, [Next]_vars
             PROVE  [Contract!ContractNext]_(Contract!contractVars)
  OBVIOUS
<1> USE DEF Contract!ContractNext, Contract!contractVars
<1>1. CASE BeginAttempt
  BY <1>1, SameQualities, VerdictStep DEF BeginAttempt
<1>2. ASSUME pc = "loop", AfterLoop, UNCHANGED <<numPlans, records>>
      PROVE  Contract!GiveUp
  BY <1>2, SameQualities, VerdictStep
     DEF AfterLoop, ExhaustedWithResult, ExhaustedWithException, AssertionFails, Finalize,
         Contract!GiveUp
<1>3. CASE BreakOnTotalBudget \/ EndOfPlans
  BY <1>2, <1>3 DEF BreakOnTotalBudget, EndOfPlans
<1>4. CASE AttemptRaises
  <2>1. PICK d \in Delays :
            records' = Append(records, Recorded(clock + d - attemptStart,
                                                "exception", "exception"))
    BY <1>4 DEF AttemptRaises
  <2>2. Qualities' = Append(Qualities, "unacceptable") /\ Len(Qualities) < numPlans
    BY <1>4, <2>1, OneMoreQuality DEF AttemptRaises, FailureClasses, SUCCESS_STATUSES
  <2>3. Verdict = "open" /\ Verdict' \in {"open", "refused"}
    BY <1>4, VerdictStep DEF AttemptRaises, Continue, Finalize
  <2> QED
    BY <1>4, <2>2, <2>3 DEF AttemptRaises, Contract!Reject, Contract!Attempt
<1>5. CASE ReturnTooSlow \/ ReturnRejected
  <2>1. PICK result \in SolverResults, d \in Delays :
            /\ Returns(result, d)
            /\ \/ AttemptTimedOut(clock + d - attemptStart)
               \/ result.status \notin SUCCESS_STATUSES
            /\ \/ Continue
               \/ Finalize(index + 1, result, Len(records) + 1, "failed", index > 0)
    BY <1>5 DEF ReturnTooSlow, ReturnRejected
  <2>2. Qualities' = Append(Qualities, "unacceptable") /\ Len(Qualities) < numPlans
    <3>1. /\ result.status \in {"success", "failed", "exception"}
          /\ result.failure \in FailureClasses
      BY DEF SolverResults, FailureClasses
    <3>2. /\ pc = "attempt"
          /\ records' = Append(records, Recorded(clock + d - attemptStart,
                                                 result.status, result.failure))
      BY <2>1 DEF Returns
    <3> QED
      BY <2>1, <3>1, <3>2, OneMoreQuality
  <2>3. Verdict = "open" /\ Verdict' \in {"open", "refused"}
    BY <2>1, VerdictStep DEF Returns, Continue, Finalize
  <2> QED
    BY <2>1, <2>2, <2>3 DEF Returns, Contract!Reject, Contract!Attempt
<1>6. CASE ReturnAccepted
  <2>1. PICK result \in SolverResults, d \in Delays :
            /\ Returns(result, d)
            /\ ~AttemptTimedOut(clock + d - attemptStart)
            /\ result.status \in SUCCESS_STATUSES
            /\ pc' = "returned"
            /\ outcome'.guardStatus = "success"
    BY <1>6 DEF ReturnAccepted, Finalize
  <2>2. Qualities' = Append(Qualities, "acceptable") /\ Len(Qualities) < numPlans
    <3>1. /\ result.status \in {"success", "failed", "exception"}
          /\ result.failure \in FailureClasses
      BY DEF SolverResults, FailureClasses
    <3>2. /\ pc = "attempt"
          /\ records' = Append(records, Recorded(clock + d - attemptStart,
                                                 result.status, result.failure))
      BY <2>1 DEF Returns
    <3> QED
      BY <2>1, <3>1, <3>2, OneMoreQuality
  <2>3. Verdict = "open" /\ Verdict' = "accepted"
    BY <2>1, VerdictStep DEF Returns
  <2> QED
    BY <2>1, <2>2, <2>3 DEF Returns, Contract!Accept, Contract!Attempt
<1>7. CASE UNCHANGED vars
  BY <1>7, SameQualities DEF vars, Verdict, Done
<1> QED
  BY <1>1, <1>3, <1>4, <1>5, <1>6, <1>7 DEF Next, Finished

LEMMA ContractStart == Init => Contract!ContractInit
  BY MaxPlansAssumption
     DEF Init, Plans, Contract!ContractInit, Qualities, Verdict, Done

\* The guard implements its contract: plans in order, each at most once, the first
\* acceptable attempt ends the call and is the only one reported as a success.
THEOREM ImplementsContract == Spec => Contract!ContractSafety
<1>1. Init /\ [][Next]_vars /\ []GuardInv =>
          Contract!ContractInit /\ [][Contract!ContractNext]_(Contract!contractVars)
  BY ContractStart, ContractStep, PTL
<1> QED
  BY <1>1, Invariance, PTL DEF Spec, Contract!ContractSafety

-----------------------------------------------------------------------------
(***************************************************************************)
(* The total budget.  Spent is a recursive function, and nothing here can  *)
(* prove what a recursion computes by induction.  It need not: the sums    *)
(* are carried along the behaviour instead.  A tally is any function that  *)
(* satisfies Spent's equation for the records of a state.  One exists for  *)
(* no records and can be continued at each new record, so Spent is one;    *)
(* and what holds of every tally is preserved, as a tally of the longer    *)
(* list is one of the shorter list when cut by its last value.             *)
(***************************************************************************)
Sums(t, rs, n) ==
    t = [i \in 0 .. n |-> IF i = 0 THEN 0 ELSE t[i - 1] + rs[i].elapsed]

Tally(t) == Sums(t, records, Len(records))

\* t agrees with u up to n and adds the time of one record.
Continues(t, u, rs, n) ==
    /\ \A i \in 0 .. n : u[i] = t[i]
    /\ t[n + 1] = u[n] + rs[n + 1].elapsed

\* A tally only adds up times that have passed: up to now in the loop, up to the
\* start of the attempt in flight; and what it says at a head of the loop whose
\* budget held is within the budget.
WithinBudget(t) ==
    /\ \A i \in 0 .. Len(records) : t[i] \in Nat
    /\ pc = "loop" => t[Len(records)] <= clock
    /\ pc = "attempt" => t[Len(records)] <= attemptStart
    /\ config.maxTotal # None =>
           /\ pc = "attempt" => t[Len(records)] <= config.maxTotal
           /\ records # <<>> => t[Len(records) - 1] <= config.maxTotal

TallyInv ==
    /\ \E t : Tally(t)
    /\ \A t : Tally(t) => WithinBudget(t)

\* A step that records nothing leaves the tallies as they are.
LEMMA SameTallies == records' = records => \A t : Tally(t)' <=> Tally(t)
  BY DEF Tally, Sums

\* A tally of one record more continues a tally of the records before it.
LEMMA TallyCut ==
    ASSUME NEW n \in Nat, NEW rs, NEW rs1, NEW t,
           \A i \in 1 .. n : rs1[i] = rs[i], Sums(t, rs1, n + 1)
    PROVE  \E u : Sums(u, rs, n) /\ Continues(t, u, rs1, n)
<1> DEFINE u == [i \in 0 .. n |-> t[i]]
<1>1. \A i \in 0 .. n : u[i] = t[i]
  OBVIOUS
<1>2. \A i \in 0 .. n + 1 : t[i] = IF i = 0 THEN 0 ELSE t[i - 1] + rs1[i].elapsed
  BY DEF Sums
<1>3. n + 1 \in 0 .. n + 1 /\ n + 1 # 0 /\ (n + 1) - 1 = n /\ n \in 0 .. n
  OBVIOUS
<1>4. t[n + 1] = u[n] + rs1[n + 1].elapsed
  BY <1>1, <1>2, <1>3
<1>5. ASSUME NEW i \in 0 .. n
      PROVE  t[i] = IF i = 0 THEN 0 ELSE u[i - 1] + rs[i].elapsed
  <2>1. i \in 0 .. n + 1 /\ (i # 0 => i \in 1 .. n /\ i - 1 \in 0 .. n)
    OBVIOUS
  <2> QED
    BY <1>1, <1>2, <2>1
<1>6. u = [i \in 0 .. n |-> IF i = 0 THEN 0 ELSE u[i - 1] + rs[i].elapsed]
  BY <1>5
<1> HIDE DEF u
<1>7. Sums(u, rs, n) /\ Continues(t, u, rs1, n)
  BY <1>1, <1>4, <1>6 DEF Sums, Continues
<1> QED
  BY <1>7

\* And every tally can be continued.
LEMMA TallyExtend ==
    ASSUME NEW n \in Nat, NEW rs, NEW rs1, NEW t,
           \A i \in 1 .. n : rs1[i] = rs[i], Sums(t, rs, n)
    PROVE  \E u : Sums(u, rs1, n + 1)
<1> DEFINE last == t[n] + rs1[n + 1].elapsed
           u == [i \in 0 .. n + 1 |-> IF i = n + 1 THEN last ELSE t[i]]
<1>1. \A i \in 0 .. n : u[i] = t[i]
  OBVIOUS
<1>2. \A i \in 0 .. n : t[i] = IF i = 0 THEN 0 ELSE t[i - 1] + rs[i].elapsed
  BY DEF Sums
<1>3. ASSUME NEW i \in 0 .. n + 1
      PROVE  (IF i = n + 1 THEN last ELSE t[i]) =
                 IF i = 0 THEN 0 ELSE u[i - 1] + rs1[i].elapsed
  <2> HIDE DEF u
  <2>1. CASE i = n + 1
    <3>1. i # 0 /\ i - 1 = n /\ n \in 0 .. n
      BY <2>1
    <3> QED
      BY <2>1, <3>1, <1>1
  <2>2. CASE i # n + 1
    <3>1. i \in 0 .. n /\ (i # 0 => i \in 1 .. n /\ i - 1 \in 0 .. n)
      BY <2>2
    <3> QED
      BY <2>2, <3>1, <1>1, <1>2
  <2> QED
    BY <2>1, <2>2
<1>4. u = [i \in 0 .. n + 1 |-> IF i = 0 THEN 0 ELSE u[i - 1] + rs1[i].elapsed]
  BY <1>3
<1> HIDE DEF u
<1>5. Sums(u, rs1, n + 1)
  BY <1>4 DEF Sums
<1> QED
  BY <1>5

\* Recording an attempt adds the time since its start, and the attempts before it
\* were within the budget.
LEMMA TallyRecorded ==
    ASSUME GuardInv, TallyInv, pc = "attempt", NEW d \in Delays, clock' = clock + d,
           NEW s \in {"success", "failed", "exception"}, NEW f \in FailureClasses,
           records' = Append(records, Recorded(clock + d - attemptStart, s, f)),
           pc' \in {"loop", "returned"}, UNCHANGED config
    PROVE  TallyInv'
<1> DEFINE n == Len(records)
<1>1. /\ records \in Seq(Records) /\ n \in Nat /\ records' # <<>>
      /\ Len(records') = n + 1
      /\ \A i \in 1 .. n : records'[i] = records[i]
      /\ attemptStart \in Nat /\ clock' \in Nat /\ attemptStart <= clock'
  BY RecordStep, DelaysAssumption DEF GuardInv, TypeOK, InFlight
<1>2. records'[n + 1].elapsed = clock' - attemptStart
  <2> DEFINE r == Recorded(clock + d - attemptStart, s, f)
  <2>1. r.elapsed = clock + d - attemptStart
    BY Zenon DEF Recorded
  <2>2. records' = Append(records, r)
    OBVIOUS
  <2> HIDE DEF r
  <2>3. records'[n + 1] = r
    BY <1>1, <2>2
  <2>4. r.elapsed = clock' - attemptStart
    BY <1>1, <2>1, DelaysAssumption DEF GuardInv, TypeOK
  <2> QED
    BY <2>3, <2>4, Zenon
<1>3. \E t : Tally(t)'
  <2>1. PICK t : Tally(t)
    BY DEF TallyInv
  <2>2. PICK u : Sums(u, records', n + 1)
    BY <1>1, <2>1, TallyExtend DEF Tally
  <2>3. Tally(u)'
    BY <1>1, <2>2 DEF Tally, Sums
  <2> QED
    BY <2>3
<1>4. ASSUME NEW t, Tally(t)' PROVE WithinBudget(t)'
  <2>1. Sums(t, records', n + 1)
    BY <1>1, <1>4 DEF Tally, Sums
  <2>2. PICK u : Sums(u, records, n) /\ Continues(t, u, records', n)
    <3> HIDE DEF n
    <3>1. n \in Nat /\ \A i \in 1 .. n : records'[i] = records[i]
      BY <1>1
    <3> QED
      BY <2>1, <3>1, TallyCut
  <2>3. WithinBudget(u)
    BY <2>2 DEF TallyInv, Tally
  <2>4. /\ \A i \in 0 .. n : t[i] \in Nat
        /\ t[n] \in Nat /\ t[n] <= attemptStart
        /\ config.maxTotal # None => t[n] <= config.maxTotal
        /\ t[n + 1] = t[n] + (clock' - attemptStart)
    <3>1. n \in 0 .. n
      BY <1>1
    <3>2. /\ \A i \in 0 .. n : u[i] \in Nat
          /\ u[n] <= attemptStart
          /\ config.maxTotal # None => u[n] <= config.maxTotal
      BY <2>3 DEF WithinBudget
    <3>3. u[n] = t[n]
      BY <2>2, <3>1 DEF Continues
    <3> QED
      BY <1>2, <2>2, <3>1, <3>2, <3>3 DEF Continues
  <2>5. t[n + 1] \in Nat /\ t[n + 1] <= clock'
    BY <1>1, <2>4
  <2>6. \A i \in 0 .. n + 1 : t[i] \in Nat
    BY <1>1, <2>4, <2>5
  <2> QED
    BY <1>1, <2>4, <2>5, <2>6 DEF WithinBudget
<1> QED
  BY <1>3, <1>4 DEF TallyInv

LEMMA TallyInit == Init => TallyInv
<1> SUFFICES ASSUME Init PROVE TallyInv
  OBVIOUS
<1>1. records = <<>> /\ Len(records) = 0 /\ clock = 0 /\ pc = "loop"
  BY DEF Init
<1>2. Tally([i \in 0 .. 0 |-> 0])
  BY <1>1 DEF Tally, Sums
<1>3. ASSUME NEW t, Tally(t) PROVE WithinBudget(t)
  <2>1. t[0] = 0
    BY <1>1, <1>3 DEF Tally, Sums
  <2> QED
    BY <1>1, <2>1 DEF WithinBudget
<1> QED
  BY <1>2, <1>3 DEF TallyInv

LEMMA TallyStep == GuardInv /\ TallyInv /\ [Next]_vars => TallyInv'
<1> SUFFICES ASSUME GuardInv, TallyInv, [Next]_vars PROVE TallyInv'
  OBVIOUS
<1>1. ASSUME UNCHANGED <<config, records>>,
             \A t : Tally(t) /\ WithinBudget(t) => WithinBudget(t)'
      PROVE  TallyInv'
  BY <1>1, SameTallies DEF TallyInv
<1>2. CASE BeginAttempt
  <2>1. PICK d \in Delays, e \in Delays :
            /\ ~TotalBudgetExhausted(clock + d)
            /\ clock' = clock + d + e
            /\ attemptStart' = clock'
    BY <1>2 DEF BeginAttempt
  <2>2. /\ clock \in Nat /\ d \in Nat /\ e \in Nat /\ Len(records) \in Nat
        /\ config.maxTotal # None => config.maxTotal \in Nat
    <3>1. config \in Configs /\ clock \in Nat /\ records \in Seq(Records)
      BY DEF GuardInv, TypeOK
    <3>2. Len(records) \in Nat
      BY <3>1
    <3>3. config.maxTotal \in Budgets \cup {None}
      BY <3>1 DEF Configs
    <3> QED
      BY <3>1, <3>2, <3>3, DelaysAssumption, BudgetsAssumption
  <2>3. config.maxTotal # None => clock + d <= config.maxTotal
    BY <2>1, <2>2 DEF TotalBudgetExhausted
  <2>4. ASSUME NEW t, WithinBudget(t) PROVE WithinBudget(t)'
    <3>1. /\ pc = "loop" /\ pc' = "attempt" /\ UNCHANGED <<config, records>>
          /\ t[Len(records)] \in Nat /\ t[Len(records)] <= clock
      BY <1>2, <2>2, <2>4 DEF BeginAttempt, WithinBudget
    <3>2. t[Len(records)] <= attemptStart'
      BY <2>1, <2>2, <3>1
    <3>3. config.maxTotal # None => t[Len(records)] <= config.maxTotal
      BY <2>2, <2>3, <3>1
    <3> QED
      BY <2>4, <3>1, <3>2, <3>3 DEF WithinBudget
  <2> QED
    BY <1>1, <1>2, <2>4 DEF BeginAttempt
<1>3. CASE BreakOnTotalBudget \/ EndOfPlans
  <2>1. pc' \in {"returned", "asserted"} /\ UNCHANGED <<config, records>>
    BY <1>3 DEF BreakOnTotalBudget, EndOfPlans, AfterLoop, ExhaustedWithResult,
                ExhaustedWithException, AssertionFails, Finalize
  <2>2. \A t : WithinBudget(t) => WithinBudget(t)'
    BY <2>1 DEF WithinBudget
  <2> QED
    BY <1>1, <2>1, <2>2
<1>4. CASE AttemptRaises
  <2>1. PICK d \in Delays :
            /\ clock' = clock + d
            /\ records' = Append(records, Recorded(clock + d - attemptStart,
                                                   "exception", "exception"))
    BY <1>4 DEF AttemptRaises
  <2>2. pc = "attempt" /\ pc' \in {"loop", "returned"} /\ UNCHANGED config
    BY <1>4 DEF AttemptRaises, Continue, Finalize
  <2>3. "exception" \in FailureClasses
    BY DEF FailureClasses
  <2> QED
    BY <2>1, <2>2, <2>3, TallyRecorded
<1>5. CASE ReturnTooSlow \/ ReturnAccepted \/ ReturnRejected
  <2>1. PICK result \in SolverResults, d \in Delays : Returns(result, d)
    BY <1>5 DEF ReturnTooSlow, ReturnAccepted, ReturnRejected
  <2>2. pc' \in {"loop", "returned"}
    BY <1>5 DEF ReturnTooSlow, ReturnAccepted, ReturnRejected, Continue, Finalize
  <2>3. /\ result.status \in {"success", "failed", "exception"}
        /\ result.failure \in FailureClasses
    BY DEF SolverResults, FailureClasses
  <2> QED
    BY <2>1, <2>2, <2>3, TallyRecorded DEF Returns
<1>6. CASE UNCHANGED vars
  <2>1. \A t : WithinBudget(t) => WithinBudget(t)'
    BY <1>6 DEF vars, WithinBudget
  <2> QED
    BY <1>1, <1>6, <2>1 DEF vars
<1> QED
  BY <1>2, <1>3, <1>4, <1>5, <1>6 DEF Next, Finished

\* The recursion of Spent has a solution, so Spent is one.
LEMMA SpentIsTally == (\E t : Tally(t)) => Tally(Spent)
  BY DEF Tally, Sums, Spent

\* The attempts before the last one fit in the total budget together: a call
\* overruns max_total_wall_time_ms by one attempt at most.
THEOREM OverrunHolds == Spec => []OneAttemptOverrun
<1>1. TallyInv => OneAttemptOverrun
  BY SpentIsTally DEF TallyInv, WithinBudget, OneAttemptOverrun
<1> QED
  BY <1>1, Invariance, TallyInit, TallyStep, PTL DEF Spec

-----------------------------------------------------------------------------
(***************************************************************************)
(* How long a call can take, in steps: two for each plan not yet done with *)
(* and one to leave the loop.                                              *)
(***************************************************************************)
StepsLeft ==
    CASE pc = "loop"    -> 2 * (numPlans - index) + 1
      [] pc = "attempt" -> 2 * (numPlans - index)
      [] OTHER          -> 0

LEMMA StepsLeftCases ==
    /\ pc = "loop" => StepsLeft = 2 * (numPlans - index) + 1
    /\ pc = "attempt" => StepsLeft = 2 * (numPlans - index)
    /\ Done => StepsLeft = 0
    /\ pc' = "loop" => StepsLeft' = 2 * (numPlans' - index') + 1
    /\ pc' = "attempt" => StepsLeft' = 2 * (numPlans' - index')
    /\ pc' \in {"returned", "asserted"} => StepsLeft' = 0
  BY DEF StepsLeft, Done

\* Every step of a call brings it nearer to its end: no plan is attempted twice and
\* the loop comes back to its head only with one plan less to try.
LEMMA StepCounts == GuardInv /\ [Next]_vars => [StepsLeft' < StepsLeft]_vars
<1> SUFFICES ASSUME GuardInv, Next PROVE StepsLeft' < StepsLeft \/ UNCHANGED vars
  OBVIOUS
<1>1. /\ index \in Nat /\ numPlans \in Nat /\ index <= numPlans
      /\ pc = "attempt" => index < numPlans
  BY MaxPlansAssumption DEF GuardInv, TypeOK, Plans, InFlight
<1> USE <1>1, StepsLeftCases
<1>2. CASE BeginAttempt
  BY <1>2 DEF BeginAttempt
<1>3. CASE BreakOnTotalBudget \/ EndOfPlans
  BY <1>3 DEF BreakOnTotalBudget, EndOfPlans, AfterLoop, ExhaustedWithResult,
              ExhaustedWithException, AssertionFails, Finalize
<1>4. CASE AttemptRaises \/ ReturnTooSlow \/ ReturnAccepted \/ ReturnRejected
  <2>1. /\ pc = "attempt" /\ numPlans' = numPlans
        /\ (pc' = "loop" /\ index' = index + 1) \/ pc' = "returned"
    BY <1>4 DEF AttemptRaises, ReturnTooSlow, ReturnAccepted, ReturnRejected, Returns,
                Continue, Finalize
  <2> QED
    BY <2>1
<1> QED
  BY <1>2, <1>3, <1>4 DEF Next, Finished

\* No call takes more than two steps per plan and one more, whatever fails in it.
THEOREM EveryStepCounts ==
    Spec => []( /\ StepsLeft \in 0 .. 2 * numPlans + 1
                /\ StepsLeft = 0 <=> Done)
            /\ [][StepsLeft' < StepsLeft]_vars
<1>1. GuardInv => StepsLeft \in 0 .. 2 * numPlans + 1 /\ (StepsLeft = 0 <=> Done)
  <2> SUFFICES ASSUME GuardInv
               PROVE  StepsLeft \in 0 .. 2 * numPlans + 1 /\ (StepsLeft = 0 <=> Done)
    OBVIOUS
  <2>1. /\ index \in Nat /\ numPlans \in Nat /\ index <= numPlans
        /\ pc = "attempt" => index < numPlans
        /\ pc \in {"loop", "attempt"} \/ Done
        /\ pc \in {"loop", "attempt"} => ~Done
    BY MaxPlansAssumption DEF GuardInv, TypeOK, Plans, InFlight, Done
  <2> QED
    BY <2>1, StepsLeftCases
<1> QED
  BY <1>1, StepCounts, Invariance, PTL DEF Spec

\* The assertion after the loop fails only with a total budget: without one,
\* some attempt always left a result or an exception behind.
THEOREM AssertionNeedsBudget == Spec => [](config.maxTotal = None => LastExceptionIsSet)
<1>1. AssertsOnlyBeforeFirstAttempt => (config.maxTotal = None => LastExceptionIsSet)
  BY DEF AssertsOnlyBeforeFirstAttempt, TotalBudgetExhausted, LastExceptionIsSet
<1> QED
  BY <1>1, AssertionHolds, PTL
=============================================================================
