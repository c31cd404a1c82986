-------------------------- MODULE KrylovSolveProofs --------------------------
(***************************************************************************)
(* Theorems about KrylovSolve, for every iteration budget, matrix size and *)
(* restart.  SolveInv ties the host's numbers to the device's x: what the  *)
(* history says of x while the loop runs, and how far it may lag behind    *)
(* once a breakdown has ended the loop.                                    *)
(***************************************************************************)
EXTENDS KrylovSolve, TLAPS

Last == history[Len(history)]

Running == {"head", "inner", "finish", "returned"}

Ordered(h) ==
    \A i, j \in 1 .. Len(h) : i < j => h[i].of < h[j].of /\ h[i].size # "small"

\* Before the loop nothing has happened; from then on the history counts it.
Shape ==
    /\ pc \in {"dispatch", "raised"} =>
           /\ x = 0 /\ iterations = 0 /\ history = <<>> /\ cycles = 0
           /\ ~converged /\ breakdown = None /\ omega = "usable"
    /\ pc \in Running =>
           /\ Len(history) = iterations + 1
           /\ plan.solver = "gmres" => plan.restart > 0
    /\ pc # "returned" => result = None

\* An iteration moves x at most twice, and one that breaks down at most once.
Growth == x <= 2 * iterations + (IF breakdown = None THEN 0 ELSE 1)

\* What the last entry of the history says of the x in the device field.
Tracking ==
    /\ Ordered(history)
    /\ pc \in {"head", "inner"} => measured = Last /\ Last.of = x
    /\ pc \in Running =>
           /\ converged <=> Last.size = "small"
           /\ converged => breakdown = None /\ measured = Last /\ Last.of = x
           /\ Last.of <= x
           /\ Last.of # x => breakdown \in OmegaBreakdowns \cup {ResidualBreakdown}
           /\ measured # Last => breakdown = ResidualBreakdown

\* Where the iterations and the cycles stand.
Accounting ==
    /\ pc = "inner" =>
           /\ plan.solver = "gmres" /\ ~converged /\ breakdown = None
           /\ limit >= 1 /\ inner <= limit /\ limit <= Restart
           /\ iterations - inner + limit <= MaxIter
           /\ cycles <= iterations - inner + 1
           /\ iterations - inner + Restart = cycles * Restart
           /\ limit = Restart \/ iterations - inner + limit = MaxIter
    /\ pc = "head" => cycles <= iterations
    /\ pc = "finish" /\ ~converged /\ breakdown = None => iterations = MaxIter
    /\ breakdown # "zero_omega"
    /\ omega = "tiny" => pc \in {"finish", "returned"}

Promises == SuccessIsMeasured /\ FailureNamesCause /\ StaleOnlyAfterBreakdown

SolveInv == TypeOK /\ Shape /\ Growth /\ Tracking /\ Accounting /\ CyclesAreFull /\ Promises

-----------------------------------------------------------------------------
(* Sequences and arithmetic *)

LEMMA AppendFacts ==
    ASSUME NEW S, NEW h \in Seq(S), NEW n \in S
    PROVE  /\ Append(h, n) \in Seq(S)
           /\ Len(Append(h, n)) = Len(h) + 1
           /\ Append(h, n)[Len(h) + 1] = n
           /\ \A i \in 1 .. Len(h) : Append(h, n)[i] = h[i]
OBVIOUS

\* A norm of a later x, after one above the tolerance, keeps the history in order.
LEMMA OrderedAppend ==
    ASSUME NEW h \in Seq(Norms), NEW n \in Norms, Ordered(h), h # <<>>,
           h[Len(h)].of < n.of, h[Len(h)].size # "small"
    PROVE  Ordered(Append(h, n))
<1> DEFINE g == Append(h, n)
<1>1. /\ Len(g) = Len(h) + 1
      /\ g[Len(h) + 1] = n
      /\ \A i \in 1 .. Len(h) : g[i] = h[i]
  BY AppendFacts
<1>2. Len(h) \in Nat /\ Len(h) >= 1
  OBVIOUS
<1>3. \A m \in Norms : m.of \in Int
  BY MaxIterAssumption DEF Norms, Versions
<1>4. n.of \in Int /\ \A i \in 1 .. Len(h) : h[i].of \in Int
  BY <1>3
<1>5. ASSUME NEW i \in 1 .. Len(g), NEW j \in 1 .. Len(g), i < j
      PROVE  g[i].of < g[j].of /\ g[i].size # "small"
  <2>1. i \in 1 .. Len(h) /\ g[i] = h[i]
    BY <1>1, <1>2, <1>5
  <2>2. CASE j \in 1 .. Len(h)
    BY <2>1, <2>2, <1>1, <1>5 DEF Ordered
  <2>3. CASE j = Len(h) + 1
    <3>1. g[j] = n
      BY <2>3, <1>1
    <3>2. CASE i = Len(h)
      BY <3>1, <3>2, <2>1
    <3>3. CASE i < Len(h)
      <4>1. h[i].of < h[Len(h)].of /\ h[i].size # "small"
        BY <3>3, <2>1, <1>2 DEF Ordered
      <4>2. h[i].of \in Int /\ h[Len(h)].of \in Int
        BY <1>2, <1>4, <2>1
      <4> QED
        BY <4>1, <4>2, <3>1, <2>1, <1>4
    <3> QED
      BY <3>2, <3>3, <2>1, <1>2
  <2> QED
    BY <2>2, <2>3, <1>1, <1>2
<1> HIDE DEF g
<1>6. Ordered(g)
  BY <1>5 DEF Ordered
<1> QED
  BY <1>6 DEF g

LEMMA OneMoreCycle ==
    ASSUME NEW c \in Nat, NEW r \in Nat
    PROVE  (c + 1) * r = c * r + r /\ c * r \in Nat
OBVIOUS

\* A restart that was not refused is clamped to a positive number of steps.
LEMMA RestartPositive ==
    ASSUME TypeOK, plan.restart > 0
    PROVE  Restart \in Nat /\ Restart >= 1
<1>1. plan.restart \in Int
  BY RestartsAssumption DEF TypeOK, PolicyPlans
<1> QED
  BY <1>1, MaxIterAssumption, RowsAssumption DEF Restart, Smaller, Larger

-----------------------------------------------------------------------------
(* What the steps have in common *)

\* Nothing is promised before there is a result.
LEMMA PromisesVacuous ==
    ASSUME result' = None
    PROVE  Promises'
BY DEF Promises, SuccessIsMeasured, FailureNamesCause, StaleOnlyAfterBreakdown,
       Succeeded, Failed, Returned

\* In the loop x is the x the last norm was measured for, and has room to move.
LEMMA InLoop ==
    ASSUME SolveInv, pc \in {"head", "inner"}, ~converged, breakdown = None,
           iterations < MaxIter
    PROVE  /\ x \in Nat /\ x + 2 <= 2 * MaxIter /\ x <= 2 * iterations
           /\ iterations \in Nat /\ iterations + 1 \in 0 .. MaxIter
           /\ history \in Seq(Norms) /\ history # <<>> /\ Len(history) = iterations + 1
           /\ Last = measured /\ Last.of = x /\ Last.size # "small"
           /\ result = None /\ Ordered(history)
<1>1. x \in Nat /\ x <= 2 * iterations /\ iterations \in 0 .. MaxIter
  BY MaxIterAssumption DEF SolveInv, TypeOK, Growth, Versions
<1>2. x + 2 <= 2 * MaxIter /\ iterations + 1 \in 0 .. MaxIter /\ iterations \in Nat
  BY <1>1, MaxIterAssumption
<1>3. history \in Seq(Norms) /\ Len(history) = iterations + 1 /\ result = None
  BY DEF SolveInv, TypeOK, Shape, Running
<1>4. history # <<>>
  BY <1>1, <1>3
<1>5. Last = measured /\ Last.of = x /\ Last.size # "small" /\ Ordered(history)
  BY DEF SolveInv, Tracking, Running
<1> QED
  BY <1>1, <1>2, <1>3, <1>4, <1>5

\* A step that records the norm of a later x keeps what is said of the history.
LEMMA RecordKeepsTracking ==
    ASSUME SolveInv, pc \in {"head", "inner"}, ~converged, breakdown = None,
           iterations < MaxIter,
           NEW v \in {x + 1, x + 2}, NEW size \in Sizes,
           x' = v, Record([of |-> v, size |-> size]),
           breakdown' \in {None} \cup Breakdowns, size = "small" => breakdown' = None,
           pc' \in {"head", "inner", "finish"}
    PROVE  /\ history' \in Seq(Norms)
           /\ Len(history') = iterations + 2
           /\ measured' \in Norms /\ converged' \in BOOLEAN /\ x' \in Versions
           /\ Tracking'
<1> DEFINE n == [of |-> v, size |-> size]
<1>1. /\ x \in Nat /\ x + 2 <= 2 * MaxIter /\ iterations \in Nat
      /\ history \in Seq(Norms) /\ history # <<>> /\ Len(history) = iterations + 1
      /\ Last.of = x /\ Last.size # "small" /\ Ordered(history)
  BY InLoop
<1>2. v \in Versions /\ v > x /\ v \in Int
  BY <1>1, MaxIterAssumption DEF Versions
<1>3. n \in Norms /\ n.of = v /\ n.size = size
  BY <1>2 DEF Norms
<1>4. history' = Append(history, n) /\ measured' = n /\ converged' = (size = "small")
  BY <1>3 DEF Record
<1> HIDE DEF n
<1>5. /\ history' \in Seq(Norms) /\ Len(history') = Len(history) + 1
      /\ history'[Len(history) + 1] = n
  BY <1>1, <1>3, <1>4, AppendFacts
<1>6. Last' = n
  BY <1>5 DEF Last
<1>7. Ordered(history')
  <2>1. history[Len(history)].of < n.of /\ history[Len(history)].size # "small"
    BY <1>1, <1>2, <1>3 DEF Last
  <2> QED
    BY <2>1, <1>1, <1>3, <1>4, OrderedAppend
<1>8. converged' <=> Last'.size = "small"
  BY <1>3, <1>4, <1>6
<1>9. measured' = Last' /\ Last'.of = x' /\ Last'.of <= x'
  BY <1>2, <1>3, <1>4, <1>6
<1>10. converged' => breakdown' = None
  BY <1>4
<1>11. Tracking'
  <2>1. Ordered(history)'
    BY <1>7 DEF Ordered
  <2> QED
    BY <2>1, <1>8, <1>9, <1>10 DEF Tracking
<1> QED
  BY <1>1, <1>2, <1>3, <1>4, <1>5, <1>11

\* A loop left over a breakdown, with x where it was.
LEMMA BreakdownKeepsInv ==
    ASSUME SolveInv, pc \in {"head", "inner"}, ~converged, breakdown = None,
           iterations < MaxIter,
           NEW reason \in Breakdowns, BrokenDown(reason), reason # "zero_omega",
           plan' = plan, result' = result, inner' = inner, limit' = limit, omega' \in {"usable", "tiny"},
           x' \in {x, x + 1}, measured' \in Norms, cycles' \in 0 .. MaxIter,
           plan.solver = "gmres" => iterations <= cycles' * Restart,
           x' # x => reason \in OmegaBreakdowns \cup {ResidualBreakdown},
           measured' # measured => reason = ResidualBreakdown
    PROVE  SolveInv'
<1>1. /\ x \in Nat /\ x + 2 <= 2 * MaxIter /\ x <= 2 * iterations
      /\ iterations \in Nat /\ iterations + 1 \in 0 .. MaxIter
      /\ history \in Seq(Norms) /\ history # <<>> /\ Len(history) = iterations + 1
      /\ Last = measured /\ Last.of = x /\ Last.size # "small"
      /\ result = None /\ Ordered(history)
  BY InLoop
<1>2. /\ breakdown' = reason /\ pc' = "finish" /\ iterations' = iterations
      /\ history' = history /\ converged' = converged
  BY DEF BrokenDown
<1>3. reason # None
  BY NoneAssumption DEF FailureClasses
<1>4. TypeOK'
  <2>1. x' \in Versions
    BY <1>1, MaxIterAssumption DEF Versions
  <2> QED
    BY <2>1, <1>1, <1>2 DEF SolveInv, TypeOK
<1>5. Shape'
  BY <1>1, <1>2 DEF SolveInv, Shape, Running
<1>6. Growth'
  BY <1>1, <1>2, <1>3 DEF Growth
<1>7. Tracking'
  <2>1. Last' = Last /\ Ordered(history')
    BY <1>1, <1>2 DEF Last
  <2>2. Last'.of <= x'
    BY <2>1, <1>1
  <2>3. ResidualBreakdown' = ResidualBreakdown
    BY DEF ResidualBreakdown, Equilibrated
  <2>4. Last'.of # x' => breakdown' \in OmegaBreakdowns \cup {ResidualBreakdown'}
    BY <2>1, <2>3, <1>1, <1>2
  <2>5. measured' # Last' => breakdown' = ResidualBreakdown'
    BY <2>1, <2>3, <1>1, <1>2
  <2>6. converged' <=> Last'.size = "small"
    BY <2>1, <1>1, <1>2
  <2>7. Ordered(history)'
    BY <2>1 DEF Ordered
  <2>8. ~converged' /\ pc' = "finish"
    BY <1>2
  <2> QED
    BY <2>2, <2>4, <2>5, <2>6, <2>7, <2>8 DEF Tracking
<1>8. Accounting'
  BY <1>2, <1>3 DEF SolveInv, Accounting
<1>9. CyclesAreFull'
  <2>1. Restart' = Restart
    BY DEF Restart
  <2> QED
    BY <2>1, <1>2 DEF CyclesAreFull, MayIterate
<1> QED
  BY <1>1, <1>4, <1>5, <1>6, <1>7, <1>8, <1>9, PromisesVacuous DEF SolveInv

\* An iteration of a method without cycles that records its norm.
LEMMA RecordedKeepsInv ==
    ASSUME SolveInv, MayIterate, plan.solver # "gmres",
           NEW v \in {x + 1, x + 2}, NEW size \in Sizes,
           NEW later \in SUBSET (Breakdowns \ {"zero_omega"}),
           Recorded(v, size, later),
           plan' = plan, result' = result, omega' = "usable",
           cycles' = cycles, inner' = inner, limit' = limit
    PROVE  SolveInv'
<1>1. pc = "head" /\ ~converged /\ breakdown = None /\ iterations < MaxIter
  BY DEF MayIterate
<1>2. /\ x \in Nat /\ x <= 2 * iterations /\ iterations \in Nat
      /\ iterations + 1 \in 0 .. MaxIter /\ result = None
  BY <1>1, InLoop
<1>3. /\ x' = v /\ Record([of |-> v, size |-> size]) /\ iterations' = iterations + 1
      /\ pc' \in {"head", "finish"}
      /\ breakdown' \in {None} \cup (Breakdowns \ {"zero_omega"})
      /\ size = "small" => breakdown' = None
      /\ pc' = "finish" => size = "small" \/ breakdown' # None
  BY <1>1, NoneAssumption DEF Recorded, FailureClasses
<1>4. /\ history' \in Seq(Norms) /\ Len(history') = iterations + 2
      /\ measured' \in Norms /\ converged' \in BOOLEAN /\ x' \in Versions /\ Tracking'
  BY <1>1, <1>3, RecordKeepsTracking
<1>5. TypeOK'
  BY <1>2, <1>3, <1>4 DEF SolveInv, TypeOK
<1>6. Shape'
  BY <1>1, <1>2, <1>3, <1>4 DEF SolveInv, Shape, Running
<1>7. Growth'
  BY <1>2, <1>3 DEF Growth
<1>8. Accounting'
  <2>1. cycles \in Nat /\ cycles <= iterations
    BY <1>1 DEF SolveInv, Accounting, TypeOK
  <2>2. cycles' <= iterations'
    BY <2>1, <1>2, <1>3
  <2>3. breakdown' # "zero_omega"
    BY <1>3, NoneAssumption DEF FailureClasses, Breakdowns
  <2>4. pc' = "finish" /\ ~converged' => breakdown' # None
    BY <1>3 DEF Record
  <2> QED
    BY <2>2, <2>3, <2>4, <1>3 DEF Accounting
<1>9. CyclesAreFull'
  BY DEF CyclesAreFull
<1> QED
  BY <1>2, <1>4, <1>5, <1>6, <1>7, <1>8, <1>9, PromisesVacuous DEF SolveInv

-----------------------------------------------------------------------------
(* The steps outside the iterations *)

LEMMA InitInv == Init => SolveInv
<1> SUFFICES ASSUME Init PROVE SolveInv
  OBVIOUS
<1>1. TypeOK
  <2>1. 0 \in Versions /\ 0 \in 0 .. MaxIter
    BY MaxIterAssumption DEF Versions
  <2>2. [of |-> 0, size |-> "large"] \in Norms
    BY <2>1 DEF Norms, Sizes
  <2>3. history \in Seq(Norms)
    BY DEF Init
  <2> QED
    BY <2>1, <2>2, <2>3 DEF Init, TypeOK
<1>2. Shape /\ Growth
  BY DEF Init, Shape, Growth, Running
<1>3. Tracking
  BY DEF Init, Tracking, Ordered, Running
<1>4. Accounting
  BY NoneAssumption DEF Init, Accounting, FailureClasses, Breakdowns
<1>5. CyclesAreFull
  <2>1. plan.restart \in Int
    BY RestartsAssumption DEF Init, PolicyPlans
  <2>2. Restart \in Int
    BY <2>1, MaxIterAssumption, RowsAssumption DEF Restart, Smaller, Larger
  <2> QED
    BY <2>2 DEF Init, CyclesAreFull, MayIterate
<1>6. Promises
  BY DEF Init, Promises, SuccessIsMeasured, FailureNamesCause,
         StaleOnlyAfterBreakdown, Succeeded, Failed, Returned
<1> QED
  BY <1>1, <1>2, <1>3, <1>4, <1>5, <1>6 DEF SolveInv

LEMMA StutterInv == SolveInv /\ UNCHANGED vars => SolveInv'
<1> SUFFICES ASSUME SolveInv, UNCHANGED vars PROVE SolveInv'
  OBVIOUS
<1>1. TypeOK'
  BY DEF SolveInv, TypeOK, vars
<1>2. Shape' /\ Growth'
  BY DEF SolveInv, Shape, Growth, vars, Running
<1>3. Tracking' /\ Accounting'
  BY DEF SolveInv, Tracking, Accounting, Ordered, Last, ResidualBreakdown,
         Equilibrated, Restart, Smaller, Larger, vars, Running
<1>4. CyclesAreFull'
  BY DEF SolveInv, CyclesAreFull, MayIterate, Restart, Smaller, Larger, vars
<1>5. Promises'
  BY DEF SolveInv, Promises, SuccessIsMeasured, FailureNamesCause,
         StaleOnlyAfterBreakdown, Succeeded, Failed, Returned, Equilibrated, vars
<1> QED
  BY <1>1, <1>2, <1>3, <1>4, <1>5 DEF SolveInv

LEMMA RefuseInv == SolveInv /\ Refuse => SolveInv'
<1> SUFFICES ASSUME SolveInv, Refuse PROVE SolveInv'
  OBVIOUS
<1>1. /\ pc = "dispatch" /\ pc' = "raised" /\ plan' = plan /\ result' = result
      /\ x' = x /\ iterations' = iterations /\ history' = history
      /\ measured' = measured /\ converged' = converged /\ breakdown' = breakdown
      /\ omega' = omega /\ cycles' = cycles /\ inner' = inner /\ limit' = limit
  BY DEF Refuse, cycleVars
<1>2. TypeOK'
  BY <1>1 DEF SolveInv, TypeOK
<1>3. Shape' /\ Growth' /\ result' = None
  BY <1>1 DEF SolveInv, Shape, Growth, Running
<1>4. Tracking'
  BY <1>1 DEF SolveInv, Tracking, Ordered, Running
<1>5. Accounting'
  BY <1>1 DEF SolveInv, Accounting, Shape
<1>6. CyclesAreFull'
  <2>1. Restart' = Restart
    BY <1>1 DEF Restart
  <2> QED
    BY <2>1, <1>1 DEF SolveInv, CyclesAreFull, MayIterate
<1> QED
  BY <1>2, <1>3, <1>4, <1>5, <1>6, PromisesVacuous DEF SolveInv

LEMMA SetupInv == SolveInv /\ (\E size \in Sizes : Setup(size)) => SolveInv'
<1> SUFFICES ASSUME SolveInv, NEW size \in Sizes, Setup(size) PROVE SolveInv'
  OBVIOUS
<1> DEFINE n == [of |-> 0, size |-> size]
<1>1. /\ pc = "dispatch" /\ pc' = "head" /\ plan' = plan /\ result' = result
      /\ x' = x /\ iterations' = iterations /\ ~Refused
      /\ history' = Append(history, n) /\ measured' = n
      /\ converged' = (size = "small")
      /\ omega' = omega /\ cycles' = cycles /\ inner' = inner /\ limit' = limit
  BY DEF Setup, Record, cycleVars
<1>2. breakdown' \in {None, "zero_initial_rz"} /\ (size = "small" => breakdown' = None)
  BY DEF Setup, SolveInv, Shape
<1>3. /\ x = 0 /\ iterations = 0 /\ history = <<>> /\ cycles = 0 /\ result = None
      /\ omega = "usable"
  BY <1>1 DEF SolveInv, Shape
<1>4. n \in Norms /\ n.of = 0 /\ n.size = size
  BY MaxIterAssumption DEF Norms, Versions
<1>5. history' \in Seq(Norms) /\ Len(history') = 1 /\ history'[1] = n /\ Last' = n
  BY <1>1, <1>3, <1>4 DEF Last
<1>6. n \in Norms /\ n.of = 0 /\ n.size = size /\ Last'.size = size /\ Last'.of = 0
  BY <1>4, <1>5
<1> HIDE DEF n
<1>7. TypeOK'
  BY <1>1, <1>2, <1>3, <1>4, <1>5, MaxIterAssumption DEF SolveInv, TypeOK, Breakdowns
<1>8. Shape'
  <2>1. plan.restart \in Int
    BY RestartsAssumption DEF SolveInv, TypeOK, PolicyPlans
  <2>2. plan.solver = "gmres" => plan.restart > 0
    BY <2>1, <1>1 DEF Refused
  <2> QED
    BY <2>2, <1>1, <1>3, <1>5 DEF Shape, Running
<1>9. Growth'
  BY <1>1, <1>3 DEF Growth
<1>10. Tracking'
  <2>1. \A i, j \in 1 .. Len(history') : ~(i < j)
    BY <1>5
  <2>2. Ordered(history)'
    BY <2>1 DEF Ordered
  <2>3. converged' <=> Last'.size = "small"
    BY <1>1, <1>6
  <2>4. converged' => breakdown' = None
    BY <1>1, <1>2
  <2>5. measured' = Last' /\ Last'.of = x' /\ Last'.of <= x'
    BY <1>1, <1>3, <1>5, <1>6
  <2> QED
    BY <2>2, <2>3, <2>4, <2>5 DEF Tracking
<1>11. Accounting'
  BY <1>1, <1>2, <1>3, NoneAssumption DEF Accounting, FailureClasses, Breakdowns
<1>12. CyclesAreFull'
  <2>1. plan.restart \in Int
    BY RestartsAssumption DEF SolveInv, TypeOK, PolicyPlans
  <2>2. Restart \in Int
    BY <2>1, MaxIterAssumption, RowsAssumption DEF Restart, Smaller, Larger
  <2>3. Restart' = Restart /\ 0 * Restart = 0
    BY <2>2, <1>1 DEF Restart
  <2> QED
    BY <2>3, <1>1, <1>3 DEF CyclesAreFull, MayIterate
<1> QED
  BY <1>1, <1>3, <1>7, <1>8, <1>9, <1>10, <1>11, <1>12, PromisesVacuous DEF SolveInv

LEMMA LoopEndsInv == SolveInv /\ LoopEnds => SolveInv'
<1> SUFFICES ASSUME SolveInv, LoopEnds PROVE SolveInv'
  OBVIOUS
<1>1. /\ pc = "head" /\ pc' = "finish" /\ plan' = plan /\ result' = result
      /\ x' = x /\ iterations' = iterations /\ history' = history
      /\ measured' = measured /\ converged' = converged /\ breakdown' = breakdown
      /\ omega' = omega /\ cycles' = cycles /\ inner' = inner /\ limit' = limit
      /\ ~MayIterate
  BY DEF LoopEnds, cycleVars
<1>2. TypeOK'
  BY <1>1 DEF SolveInv, TypeOK
<1>3. Shape' /\ Growth' /\ result' = None
  BY <1>1 DEF SolveInv, Shape, Growth, Running
<1>4. Tracking'
  BY <1>1 DEF SolveInv, Tracking, Ordered, Running, Last, ResidualBreakdown, Equilibrated
<1>5. Accounting'
  BY <1>1, MaxIterAssumption DEF SolveInv, Accounting, MayIterate, TypeOK
<1>6. CyclesAreFull'
  <2>1. Restart' = Restart
    BY <1>1 DEF Restart
  <2> QED
    BY <2>1, <1>1 DEF SolveInv, CyclesAreFull, MayIterate
<1> QED
  BY <1>2, <1>3, <1>4, <1>5, <1>6, PromisesVacuous DEF SolveInv

-----------------------------------------------------------------------------
(* The iterations *)

\* The head of the loop: an iteration starts with a usable omega.
LEMMA AtHead ==
    ASSUME SolveInv, MayIterate
    PROVE  /\ pc = "head" /\ ~converged /\ breakdown = None /\ iterations < MaxIter
           /\ omega = "usable" /\ iterations \in Nat /\ x \in Nat
           /\ measured \in Norms /\ x + 1 \in Versions
           /\ cycles \in Nat /\ cycles <= iterations /\ cycles \in 0 .. MaxIter
<1>1. pc = "head" /\ ~converged /\ breakdown = None /\ iterations < MaxIter
  BY DEF MayIterate
<1>2. omega = "usable" /\ cycles <= iterations
  BY <1>1 DEF SolveInv, Accounting, TypeOK
<1>3. x \in Nat /\ x + 1 \in Versions /\ iterations \in Nat
  BY <1>1, InLoop, MaxIterAssumption DEF Versions
<1>4. cycles \in 0 .. MaxIter /\ cycles \in Nat /\ measured \in Norms
  BY MaxIterAssumption DEF SolveInv, TypeOK
<1> QED
  BY <1>1, <1>2, <1>3, <1>4

LEMMA CgInv ==
    SolveInv /\ (CgBreaks \/ \E size \in Sizes : CgIterates(size)) => SolveInv'
<1>1. ASSUME SolveInv, CgBreaks PROVE SolveInv'
  <2>1. /\ MayIterate /\ plan.solver # "gmres" /\ plan' = plan /\ result' = result
        /\ x' = x /\ measured' = measured /\ omega' = omega
        /\ cycles' = cycles /\ inner' = inner /\ limit' = limit
    BY <1>1 DEF CgBreaks, ConjugateGradient, cycleVars
  <2>2. PICK reason \in CgBreakdowns : BrokenDown(reason)
    BY <1>1 DEF CgBreaks
  <2>3. reason \in Breakdowns /\ reason # "zero_omega"
    BY DEF Breakdowns, CgBreakdowns
  <2> QED
    BY <1>1, <2>1, <2>2, <2>3, AtHead, BreakdownKeepsInv
<1>2. ASSUME SolveInv, NEW size \in Sizes, CgIterates(size) PROVE SolveInv'
  <2>1. /\ MayIterate /\ plan.solver # "gmres" /\ plan' = plan /\ result' = result
        /\ omega' = omega /\ cycles' = cycles /\ inner' = inner /\ limit' = limit
        /\ Recorded(x + 1, size, {"zero_or_nonfinite_rz"})
    BY <1>2 DEF CgIterates, ConjugateGradient, cycleVars
  <2>2. {"zero_or_nonfinite_rz"} \in SUBSET (Breakdowns \ {"zero_omega"})
    BY DEF Breakdowns
  <2> QED
    BY <1>2, <2>1, <2>2, AtHead, RecordedKeepsInv
<1> QED
  BY <1>1, <1>2

LEMMA BicgstabInv ==
    SolveInv /\ (\/ BicgstabBreaks \/ BicgstabHalfStepConverges \/ BicgstabOmegaBreaks
                 \/ \E size \in Sizes : BicgstabIterates(size)) => SolveInv'
<1>1. ASSUME SolveInv, BicgstabBreaks PROVE SolveInv'
  <2>1. /\ MayIterate /\ plan.solver # "gmres" /\ plan' = plan /\ result' = result
        /\ x' = x /\ measured' = measured /\ omega' = omega
        /\ cycles' = cycles /\ inner' = inner /\ limit' = limit
    BY <1>1 DEF BicgstabBreaks, cycleVars
  <2>2. PICK reason \in BicgstabBreakdowns : BrokenDown(reason)
    BY <1>1 DEF BicgstabBreaks
  <2>3. reason \in Breakdowns /\ reason # "zero_omega"
    <3>1. omega # "tiny"
      BY <1>1, <2>1, AtHead
    <3> QED
      BY <3>1, <2>2 DEF Breakdowns, BicgstabBreakdowns
  <2> QED
    BY <1>1, <2>1, <2>2, <2>3, AtHead, BreakdownKeepsInv
<1>2. ASSUME SolveInv, BicgstabHalfStepConverges PROVE SolveInv'
  <2>1. /\ MayIterate /\ plan.solver # "gmres" /\ plan' = plan /\ result' = result
        /\ omega' = omega /\ cycles' = cycles /\ inner' = inner /\ limit' = limit
        /\ Recorded(x + 1, "small", {}) /\ "small" \in Sizes
    BY <1>2 DEF BicgstabHalfStepConverges, cycleVars, Sizes
  <2> QED
    BY <1>2, <2>1, AtHead, RecordedKeepsInv
<1>3. ASSUME SolveInv, BicgstabOmegaBreaks PROVE SolveInv'
  <2>1. /\ MayIterate /\ plan.solver # "gmres" /\ plan' = plan /\ result' = result
        /\ x' = x + 1 /\ measured' = measured
        /\ cycles' = cycles /\ inner' = inner /\ limit' = limit
    BY <1>3 DEF BicgstabOmegaBreaks, cycleVars
  <2>2. PICK reason \in OmegaBreakdowns : BrokenDown(reason)
    BY <1>3 DEF BicgstabOmegaBreaks, OmegaBreakdowns
  <2>3. reason \in Breakdowns /\ reason # "zero_omega"
    BY DEF Breakdowns, OmegaBreakdowns
  <2>4. omega' \in {"usable", "tiny"}
    BY <1>3, <2>1, AtHead DEF BicgstabOmegaBreaks
  <2> QED
    BY <1>3, <2>1, <2>2, <2>3, <2>4, AtHead, BreakdownKeepsInv
<1>4. ASSUME SolveInv, NEW size \in Sizes, BicgstabIterates(size) PROVE SolveInv'
  <2>1. /\ MayIterate /\ plan.solver # "gmres" /\ plan' = plan /\ result' = result
        /\ omega' = "usable" /\ cycles' = cycles /\ inner' = inner /\ limit' = limit
        /\ Recorded(x + 2, size, {})
    BY <1>4 DEF BicgstabIterates, cycleVars
  <2> QED
    BY <1>4, <2>1, RecordedKeepsInv
<1> QED
  BY <1>1, <1>2, <1>3, <1>4

LEMMA StationaryInv ==
    SolveInv /\ (\/ StationaryBreaks \/ StationaryOverflows
                 \/ \E size \in Sizes : StationaryIterates(size)) => SolveInv'
<1>1. ASSUME SolveInv, StationaryBreaks PROVE SolveInv'
  <2>1. /\ MayIterate /\ plan.solver # "gmres" /\ plan' = plan /\ result' = result
        /\ x' = x /\ measured' = measured /\ omega' = omega
        /\ cycles' = cycles /\ inner' = inner /\ limit' = limit
    BY <1>1 DEF StationaryBreaks, Chebyshev, cycleVars
  <2>2. PICK reason \in ChebyshevBreakdowns : BrokenDown(reason)
    BY <1>1 DEF StationaryBreaks
  <2>3. reason \in Breakdowns /\ reason # "zero_omega"
    BY <2>2 DEF Breakdowns, ChebyshevBreakdowns
  <2> QED
    BY <1>1, <2>1, <2>2, <2>3, AtHead, BreakdownKeepsInv
<1>2. ASSUME SolveInv, StationaryOverflows PROVE SolveInv'
  <2>1. /\ MayIterate /\ plan.solver # "gmres" /\ plan' = plan /\ result' = result
        /\ x' = x + 1 /\ measured' = [of |-> x + 1, size |-> "nonfinite"]
        /\ omega' = omega /\ cycles' = cycles /\ inner' = inner /\ limit' = limit
        /\ BrokenDown(ResidualBreakdown)
    BY <1>2 DEF StationaryOverflows, cycleVars
  <2>2. ResidualBreakdown \in Breakdowns /\ ResidualBreakdown # "zero_omega"
    BY DEF ResidualBreakdown, Breakdowns
  <2>3. measured' \in Norms
    BY <1>2, <2>1, AtHead DEF Norms, Sizes
  <2> QED
    BY <1>2, <2>1, <2>2, <2>3, AtHead, BreakdownKeepsInv
<1>3. ASSUME SolveInv, NEW size \in Sizes, StationaryIterates(size) PROVE SolveInv'
  <2>1. /\ MayIterate /\ plan.solver # "gmres" /\ plan' = plan /\ result' = result
        /\ omega' = omega /\ cycles' = cycles /\ inner' = inner /\ limit' = limit
        /\ Recorded(x + 1, size, {})
    BY <1>3 DEF StationaryIterates, cycleVars
  <2> QED
    BY <1>3, <2>1, AtHead, RecordedKeepsInv
<1> QED
  BY <1>1, <1>2, <1>3

-----------------------------------------------------------------------------
(* The cycles of GMRES *)

\* In a cycle with steps left there are iterations left.
LEMMA AtInner ==
    ASSUME SolveInv, pc = "inner"
    PROVE  /\ plan.solver = "gmres" /\ ~converged /\ breakdown = None
           /\ Restart \in Nat /\ Restart >= 1 /\ cycles * Restart \in Nat
           /\ iterations \in Nat /\ inner \in Nat /\ limit \in Nat /\ cycles \in Nat
           /\ limit <= Restart /\ inner <= limit /\ iterations - inner + limit <= MaxIter
           /\ iterations - inner + Restart = cycles * Restart
           /\ cycles <= iterations - inner + 1
           /\ iterations <= cycles * Restart
           /\ inner < limit => iterations < MaxIter
           /\ omega = "usable"
<1>1. /\ plan.solver = "gmres" /\ ~converged /\ breakdown = None
      /\ limit <= Restart /\ inner <= limit /\ iterations - inner + limit <= MaxIter
      /\ iterations - inner + Restart = cycles * Restart
      /\ cycles <= iterations - inner + 1
  BY DEF SolveInv, Accounting
<1>2. Restart \in Nat /\ Restart >= 1
  BY <1>1, RestartPositive DEF SolveInv, Shape, Running
<1>3. iterations \in Nat /\ inner \in Nat /\ limit \in Nat /\ cycles \in Nat
  BY MaxIterAssumption DEF SolveInv, TypeOK
<1>4. cycles * Restart \in Nat
  BY <1>2, <1>3, OneMoreCycle
<1>5. inner < limit => iterations < MaxIter
  BY <1>1, <1>3, MaxIterAssumption
<1>6. iterations <= cycles * Restart
  BY <1>1, <1>2, <1>3, <1>4
<1>7. omega = "usable"
  BY DEF SolveInv, Accounting, TypeOK
<1> QED
  BY <1>1, <1>2, <1>3, <1>4, <1>5, <1>6, <1>7

LEMMA CycleStartInv == SolveInv /\ (CycleBreaks \/ CycleStarts) => SolveInv'
<1> SUFFICES ASSUME SolveInv, CycleBreaks \/ CycleStarts PROVE SolveInv'
  OBVIOUS
<1>1. /\ MayIterate /\ plan.solver = "gmres" /\ cycles' = NextCycle
      /\ plan' = plan /\ x' = x /\ measured' = measured /\ omega' = omega
      /\ result' = result
  BY DEF CycleBreaks, CycleStarts
<1>2. /\ pc = "head" /\ ~converged /\ breakdown = None /\ iterations < MaxIter
      /\ omega = "usable" /\ iterations \in Nat
      /\ cycles \in Nat /\ cycles <= iterations /\ measured \in Norms
  BY <1>1, AtHead
<1>3. cycles' = cycles + 1 /\ cycles' \in 0 .. MaxIter
  BY <1>1, <1>2, MaxIterAssumption DEF NextCycle, CycleCap, Smaller
<1>4. Restart \in Nat /\ Restart >= 1 /\ Restart' = Restart
  BY <1>1, <1>2, RestartPositive DEF SolveInv, Shape, Running, Restart
<1>5. /\ iterations = cycles * Restart
      /\ cycles' * Restart = iterations + Restart
  BY <1>1, <1>2, <1>3, <1>4, OneMoreCycle DEF SolveInv, CyclesAreFull
<1>6. CASE CycleBreaks
  <2>1. BrokenDown(CycleBreakdown) /\ inner' = inner /\ limit' = limit
    BY <1>6 DEF CycleBreaks
  <2>2. CycleBreakdown \in Breakdowns /\ CycleBreakdown # "zero_omega"
    BY DEF CycleBreakdown, Breakdowns
  <2>3. iterations <= cycles' * Restart
    BY <1>2, <1>4, <1>5
  <2> QED
    BY <1>1, <1>2, <1>3, <2>1, <2>2, <2>3, BreakdownKeepsInv
<1>7. CASE CycleStarts
  <2>1. /\ inner' = 0 /\ limit' = InnerLimit(Restart) /\ pc' = "inner"
        /\ iterations' = iterations /\ history' = history
        /\ converged' = converged /\ breakdown' = breakdown
    BY <1>7 DEF CycleStarts
  <2>2. /\ limit' \in 1 .. MaxIter /\ limit' <= Restart
        /\ iterations + limit' <= MaxIter
        /\ limit' = Restart \/ iterations + limit' = MaxIter
    BY <2>1, <1>2, <1>4, MaxIterAssumption DEF InnerLimit, Smaller
  <2>3. TypeOK'
    BY <2>1, <2>2, <1>1, <1>2, <1>3, MaxIterAssumption DEF SolveInv, TypeOK
  <2>4. Shape' /\ Growth' /\ result' = None
    BY <2>1, <1>1, <1>2 DEF SolveInv, Shape, Growth, Running
  <2>5. Tracking'
    BY <2>1, <1>1, <1>2 DEF SolveInv, Tracking, Ordered, Running, Last,
       ResidualBreakdown, Equilibrated
  <2>6. Accounting'
    <3>1. /\ iterations' - inner' + limit' <= MaxIter
          /\ cycles' <= iterations' - inner' + 1
          /\ iterations' - inner' + Restart' = cycles' * Restart'
          /\ limit' = Restart' \/ iterations' - inner' + limit' = MaxIter
          /\ limit' >= 1 /\ inner' <= limit' /\ limit' <= Restart'
      BY <2>1, <2>2, <1>2, <1>3, <1>4, <1>5
    <3> QED
      BY <3>1, <2>1, <1>1, <1>2, NoneAssumption DEF Accounting, FailureClasses, Breakdowns
  <2>7. CyclesAreFull'
    BY <2>1, <1>1, <1>2, <1>3, <1>4, <1>5 DEF CyclesAreFull, MayIterate
  <2> QED
    BY <2>3, <2>4, <2>5, <2>6, <2>7, PromisesVacuous DEF SolveInv
<1> QED
  BY <1>6, <1>7

LEMMA CycleBrokenInv == SolveInv /\ (LeastSquaresFails \/ CandidateOverflows) => SolveInv'
<1> SUFFICES ASSUME SolveInv, LeastSquaresFails \/ CandidateOverflows PROVE SolveInv'
  OBVIOUS
<1>1. /\ pc = "inner" /\ inner < limit /\ plan' = plan /\ omega' = omega
      /\ cycles' = cycles /\ inner' = inner /\ limit' = limit /\ result' = result
  BY DEF LeastSquaresFails, CandidateOverflows, InCycle, cycleVars
<1>2. /\ plan.solver = "gmres" /\ ~converged /\ breakdown = None
      /\ iterations < MaxIter /\ iterations <= cycles * Restart /\ omega = "usable"
  BY <1>1, AtInner
<1>3. x \in Nat /\ x + 2 <= 2 * MaxIter
  BY <1>1, <1>2, InLoop
<1>4. cycles \in 0 .. MaxIter /\ measured \in Norms
  BY <1>1, <1>2, MaxIterAssumption DEF SolveInv, TypeOK
<1>5. CASE LeastSquaresFails
  <2>1. BrokenDown("least_squares_failed") /\ x' = x /\ measured' = measured
    BY <1>5 DEF LeastSquaresFails
  <2>2. "least_squares_failed" \in Breakdowns
    BY DEF Breakdowns
  <2> QED
    BY <2>1, <2>2, <1>1, <1>2, <1>4, BreakdownKeepsInv
<1>6. CASE CandidateOverflows
  <2>1. /\ BrokenDown(ResidualBreakdown) /\ x' = x + 1
        /\ measured' = [of |-> x + 1, size |-> "nonfinite"]
    BY <1>6 DEF CandidateOverflows
  <2>2. ResidualBreakdown \in Breakdowns /\ ResidualBreakdown # "zero_omega"
    BY DEF ResidualBreakdown, Breakdowns
  <2>3. measured' \in Norms
    BY <2>1, <1>3, MaxIterAssumption DEF Norms, Sizes, Versions
  <2> QED
    BY <2>1, <2>2, <2>3, <1>1, <1>2, <1>4, BreakdownKeepsInv
<1> QED
  BY <1>5, <1>6

LEMMA CandidateInv ==
    SolveInv /\ (\E size \in Sizes : CandidateMeasured(size)) => SolveInv'
<1> SUFFICES ASSUME SolveInv, NEW size \in Sizes, CandidateMeasured(size) PROVE SolveInv'
  OBVIOUS
<1>1. /\ pc = "inner" /\ inner < limit /\ size # "nonfinite" /\ x' = x + 1
      /\ Record([of |-> x + 1, size |-> size]) /\ iterations' = iterations + 1
      /\ plan' = plan /\ omega' = omega /\ cycles' = cycles /\ limit' = limit
      /\ result' = result
  BY DEF CandidateMeasured, InCycle
<1>2. /\ plan.solver = "gmres" /\ ~converged /\ breakdown = None
      /\ Restart \in Nat /\ Restart >= 1 /\ cycles * Restart \in Nat
      /\ iterations \in Nat /\ inner \in Nat /\ limit \in Nat /\ cycles \in Nat
      /\ limit <= Restart /\ iterations - inner + limit <= MaxIter
      /\ iterations - inner + Restart = cycles * Restart
      /\ cycles <= iterations - inner + 1
      /\ iterations < MaxIter /\ omega = "usable"
  BY <1>1, AtInner
<1>3. \/ pc' = "finish" /\ size = "small" /\ breakdown' = None /\ inner' = inner
      \/ /\ pc' = "finish" /\ size = "large" /\ inner' = inner
         /\ breakdown' = "arnoldi_breakdown_without_convergence"
      \/ pc' = "inner" /\ size = "large" /\ breakdown' = None /\ inner' = inner + 1
  BY <1>1, <1>2 DEF CandidateMeasured
<1>4. "arnoldi_breakdown_without_convergence" \in Breakdowns
  BY DEF Breakdowns
<1>5. /\ breakdown' \in {None} \cup Breakdowns /\ breakdown' # "zero_omega"
      /\ size = "small" => breakdown' = None
      /\ pc' \in {"inner", "finish"} /\ inner' \in 0 .. limit
      /\ pc' = "finish" => size = "small" \/ breakdown' # None
      /\ pc' = "inner" => breakdown' = None /\ inner' = inner + 1 /\ size # "small"
  BY <1>1, <1>2, <1>3, <1>4, NoneAssumption DEF FailureClasses, Breakdowns
<1>6. /\ x \in Nat /\ x <= 2 * iterations /\ iterations + 1 \in 0 .. MaxIter
      /\ result = None
  BY <1>1, <1>2, InLoop
<1>7. /\ history' \in Seq(Norms) /\ Len(history') = iterations + 2
      /\ measured' \in Norms /\ converged' \in BOOLEAN /\ x' \in Versions /\ Tracking'
  BY <1>1, <1>2, <1>5, RecordKeepsTracking
<1>8. TypeOK'
  <2>1. limit \in 0 .. MaxIter
    BY DEF SolveInv, TypeOK
  <2>2. inner' \in 0 .. MaxIter
    BY <2>1, <1>5, MaxIterAssumption
  <2> QED
    BY <2>2, <1>1, <1>5, <1>6, <1>7 DEF SolveInv, TypeOK
<1>9. Shape'
  <2>1. iterations' + 1 = iterations + 2
    BY <1>1, <1>2
  <2>2. plan.solver = "gmres" => plan.restart > 0
    BY <1>1 DEF SolveInv, Shape, Running
  <2>3. pc' \notin {"dispatch", "raised", "returned"} /\ result' = None
    BY <1>1, <1>5, <1>6
  <2> QED
    BY <2>1, <2>2, <2>3, <1>1, <1>7 DEF Shape
<1>10. Growth'
  BY <1>1, <1>2, <1>6 DEF Growth
<1>11. Restart' = Restart
  BY <1>1 DEF Restart
<1>12. Accounting'
  <2>1. pc' = "inner" =>
          /\ inner' <= limit' /\ iterations' - inner' + limit' <= MaxIter
          /\ cycles' <= iterations' - inner' + 1
          /\ iterations' - inner' + Restart' = cycles' * Restart'
          /\ limit' = Restart' \/ iterations' - inner' + limit' = MaxIter
          /\ limit' >= 1 /\ limit' <= Restart'
    <3> SUFFICES ASSUME pc' = "inner"
                 PROVE  /\ inner' <= limit' /\ iterations' - inner' + limit' <= MaxIter
                        /\ cycles' <= iterations' - inner' + 1
                        /\ iterations' - inner' + Restart' = cycles' * Restart'
                        /\ limit' = Restart' \/ iterations' - inner' + limit' = MaxIter
                        /\ limit' >= 1 /\ limit' <= Restart'
      OBVIOUS
    <3>1. inner' = inner + 1
      BY <1>5
    <3>2. iterations' - inner' = iterations - inner
      BY <3>1, <1>1, <1>2
    <3>3. limit = Restart \/ iterations - inner + limit = MaxIter
      BY <1>1 DEF SolveInv, Accounting
    <3> QED
      BY <3>1, <3>2, <3>3, <1>1, <1>2, <1>11
  <2>2. converged' <=> size = "small"
    BY <1>1 DEF Record
  <2>3. pc' = "inner" => ~converged' /\ breakdown' = None
    BY <2>2, <1>5
  <2>4. pc' = "finish" /\ ~converged' => breakdown' # None
    BY <2>2, <1>5
  <2> QED
    BY <2>1, <2>3, <2>4, <1>1, <1>2, <1>5 DEF Accounting
<1>13. CyclesAreFull'
  <2>1. iterations' <= cycles' * Restart'
    BY <1>1, <1>2, <1>11
  <2> QED
    BY <2>1, <1>5 DEF CyclesAreFull, MayIterate
<1> QED
  BY <1>1, <1>6, <1>7, <1>8, <1>9, <1>10, <1>12, <1>13, PromisesVacuous DEF SolveInv

LEMMA CycleEndsInv == SolveInv /\ CycleEnds => SolveInv'
<1> SUFFICES ASSUME SolveInv, CycleEnds PROVE SolveInv'
  OBVIOUS
<1>1. /\ pc = "inner" /\ inner = limit /\ plan' = plan /\ x' = x
      /\ iterations' = iterations /\ history' = history /\ measured' = measured
      /\ converged' = converged /\ omega' = omega /\ result' = result
      /\ cycles' = cycles /\ inner' = inner /\ limit' = limit
  BY DEF CycleEnds, cycleVars
<1>2. /\ plan.solver = "gmres" /\ ~converged /\ breakdown = None
      /\ Restart \in Nat /\ cycles * Restart \in Nat
      /\ iterations \in Nat /\ inner \in Nat /\ cycles \in Nat
      /\ cycles <= iterations - inner + 1
      /\ iterations - inner + Restart = cycles * Restart
      /\ iterations <= cycles * Restart /\ omega = "usable"
  BY <1>1, AtInner
<1>3. limit >= 1 /\ (limit = Restart \/ iterations - inner + limit = MaxIter)
  BY <1>1 DEF SolveInv, Accounting
<1>4. cycles <= iterations /\ (iterations = cycles * Restart \/ iterations = MaxIter)
  BY <1>1, <1>2, <1>3, MaxIterAssumption
<1>5. \/ pc' = "head" /\ breakdown' = None
      \/ pc' = "finish" /\ breakdown' = ResidualBreakdown
  BY <1>2 DEF CycleEnds
<1>6. /\ ResidualBreakdown \in Breakdowns \ {"zero_omega"}
      /\ ResidualBreakdown # None
      /\ ResidualBreakdown' = ResidualBreakdown
  BY <1>1, NoneAssumption DEF ResidualBreakdown, Equilibrated, FailureClasses, Breakdowns
<1>7. TypeOK'
  <2>1. breakdown' \in Breakdowns \cup {None}
    BY <1>5, <1>6
  <2>2. pc' \in {"head", "finish"}
    BY <1>5
  <2> QED
    BY <2>1, <2>2, <1>1 DEF SolveInv, TypeOK
<1>8. Shape' /\ result' = None
  <2>1. pc' \in {"head", "finish"}
    BY <1>5
  <2>2. /\ Len(history) = iterations + 1 /\ result = None
        /\ plan.solver = "gmres" => plan.restart > 0
    BY <1>1 DEF SolveInv, Shape, Running
  <2> QED
    BY <2>1, <2>2, <1>1 DEF Shape
<1>9. Growth'
  <2>1. x \in Int /\ x <= 2 * iterations
    BY <1>2, MaxIterAssumption DEF SolveInv, Growth, TypeOK, Versions
  <2> QED
    BY <2>1, <1>1, <1>2 DEF Growth
<1>10. Tracking'
  <2>1. measured' = Last' /\ Last'.of = x' /\ Ordered(history)' /\ ~converged'
        /\ Last'.size # "small"
    BY <1>1, <1>2 DEF SolveInv, Tracking, Running, Last, Ordered
  <2>2. Last'.of <= x'
    BY <2>1, <1>1, MaxIterAssumption DEF SolveInv, TypeOK, Versions
  <2> QED
    BY <2>1, <2>2, <1>5 DEF Tracking
<1>11. Accounting'
  BY <1>1, <1>2, <1>4, <1>5, <1>6, NoneAssumption DEF Accounting, FailureClasses, Breakdowns
<1>12. CyclesAreFull'
  <2>1. Restart' = Restart
    BY <1>1 DEF Restart
  <2> QED
    BY <2>1, <1>1, <1>2, <1>4, MaxIterAssumption DEF CyclesAreFull, MayIterate
<1> QED
  BY <1>7, <1>8, <1>9, <1>10, <1>11, <1>12, PromisesVacuous DEF SolveInv

-----------------------------------------------------------------------------
(* The result *)

LEMMA FinishInv == SolveInv /\ (\E size \in Sizes : Finish(size)) => SolveInv'
<1> SUFFICES ASSUME SolveInv, NEW size \in Sizes, Finish(size) PROVE SolveInv'
  OBVIOUS
<1> DEFINE original == [of |-> x, size |-> size]
<1>1. /\ pc = "finish" /\ pc' = "returned" /\ plan' = plan /\ x' = x
      /\ iterations' = iterations /\ history' = history /\ measured' = measured
      /\ converged' = converged /\ breakdown' = breakdown /\ omega' = omega
      /\ cycles' = cycles /\ inner' = inner /\ limit' = limit
  BY DEF Finish, cycleVars
<1>2. /\ Equilibrated => result' = EquilibratedOutcome(original)
      /\ ~Equilibrated => result' = PlainOutcome
  BY DEF Finish
<1>3. /\ converged <=> Last.size = "small"
      /\ converged => breakdown = None /\ measured = Last /\ Last.of = x
      /\ Last.of # x => breakdown \in OmegaBreakdowns \cup {ResidualBreakdown}
      /\ measured # Last => breakdown = ResidualBreakdown
      /\ breakdown # "zero_omega"
      /\ ~converged /\ breakdown = None => iterations = MaxIter
  BY <1>1 DEF SolveInv, Tracking, Accounting, Running
<1>4. /\ history \in Seq(Norms) /\ Len(history) = iterations + 1 /\ x \in Versions
      /\ iterations \in 0 .. MaxIter /\ measured \in Norms
      /\ breakdown \in Breakdowns \cup {None} /\ converged \in BOOLEAN
  BY <1>1 DEF SolveInv, TypeOK, Shape, Running
<1>5. Last \in Norms /\ original \in Norms /\ original.of = x /\ original.size = size
  <2>1. Len(history) \in 1 .. Len(history)
    BY <1>4, MaxIterAssumption
  <2>2. Last \in Norms
    BY <2>1, <1>4 DEF Last
  <2> QED
    BY <2>2, <1>4 DEF Norms
<1>6. Cause \in Breakdowns \cup {"not_converged"} /\ Cause # None
      /\ (Cause = "not_converged" <=> breakdown = None)
      /\ (breakdown # None => Cause = breakdown)
  BY <1>4, NoneAssumption DEF Cause, FailureClasses, Breakdowns, CgBreakdowns, OmegaBreakdowns
<1>7. "original_residual_above_tolerance" \notin Breakdowns \cup {None}
      /\ "not_converged" \notin Breakdowns \cup {None}
  BY NoneAssumption DEF FailureClasses, Breakdowns, CgBreakdowns, OmegaBreakdowns
<1> DEFINE relative == IF Equilibrated THEN original ELSE Last
           absolute == IF Equilibrated THEN original ELSE measured
           success  == converged /\ (Equilibrated => size = "small")
           failure  == IF ~converged THEN Cause
                       ELSE IF Equilibrated /\ size # "small"
                            THEN "original_residual_above_tolerance" ELSE None
<1>8. result' = Outcome(success, failure, relative, absolute)
  <2>1. CASE Equilibrated
    BY <2>1, <1>2, <1>5 DEF EquilibratedOutcome
  <2>2. CASE ~Equilibrated
    <3>1. success = converged /\ failure = (IF converged THEN None ELSE Cause)
      BY <2>2, <1>4
    <3>2. relative = history[Len(history)] /\ absolute = measured
      BY <2>2 DEF Last
    <3>3. result' = Outcome(converged, IF converged THEN None ELSE Cause,
                            history[Len(history)], measured)
      BY <2>2, <1>2 DEF PlainOutcome
    <3> HIDE DEF relative, absolute, success, failure
    <3> QED
      BY <3>1, <3>2, <3>3
  <2> QED
    BY <2>1, <2>2
<1>9. relative \in Norms /\ absolute \in Norms
  BY <1>4, <1>5
<1>10. failure \in FailureClasses \cup {None}
  BY <1>6, <1>7 DEF FailureClasses
<1>11. /\ Equilibrated => relative = original /\ absolute = original
       /\ ~Equilibrated => relative = Last /\ absolute = measured
       /\ success <=> converged /\ (Equilibrated => size = "small")
       /\ success <=> failure = None
       /\ ~converged => failure = Cause
       /\ converged /\ ~success => failure = "original_residual_above_tolerance" /\ Equilibrated
  BY <1>6, <1>7
<1> HIDE DEF original, relative, absolute, success, failure
<1>12. /\ result'.status = (IF success THEN "success" ELSE "failed")
       /\ result'.failure = failure /\ result'.x = x /\ result'.numIterations = iterations
       /\ result'.relative = relative /\ result'.absolute = absolute
       /\ result' \in SolveResults
  BY <1>4, <1>8, <1>9, <1>10 DEF Outcome, SolveResults
<1>13. TypeOK'
  BY <1>1, <1>12 DEF SolveInv, TypeOK
<1>14. Shape' /\ Growth'
  BY <1>1 DEF SolveInv, Shape, Growth, Running
<1>15. Tracking'
  BY <1>1 DEF SolveInv, Tracking, Ordered, Running, Last, ResidualBreakdown, Equilibrated
<1>16. Accounting'
  BY <1>1 DEF SolveInv, Accounting
<1>17. CyclesAreFull'
  <2>1. Restart' = Restart
    BY <1>1 DEF Restart
  <2> QED
    BY <2>1, <1>1 DEF SolveInv, CyclesAreFull, MayIterate
<1>18. Last' = Last /\ Equilibrated' = Equilibrated
  BY <1>1 DEF Last, Equilibrated
<1>19. /\ result'.status = "success" <=> success
       /\ result'.status = "failed" <=> ~success
  BY <1>12
<1>20. SuccessIsMeasured'
  <2>1. result'.status = "success" <=> result'.failure = None
    BY <1>11, <1>12, <1>19
  <2>2. ASSUME success
        PROVE  /\ relative = [of |-> x, size |-> "small"] /\ absolute = relative
               /\ Last.size = "small"
    <3>1. converged /\ Last.size = "small" /\ measured = Last /\ Last.of = x
      BY <2>2, <1>3, <1>11
    <3>2. Last = [of |-> x, size |-> "small"]
      BY <3>1, <1>5 DEF Norms
    <3>3. CASE Equilibrated
      BY <2>2, <3>1, <3>3, <1>11 DEF original
    <3>4. CASE ~Equilibrated
      BY <3>1, <3>2, <3>4, <1>11
    <3> QED
      BY <3>1, <3>3, <3>4
  <2> QED
    BY <2>1, <2>2, <1>1, <1>12, <1>18, <1>19
       DEF SuccessIsMeasured, Succeeded, Returned, Last
<1>21. FailureNamesCause'
  <2>1. ASSUME failure = "not_converged"
        PROVE  iterations = MaxIter /\ Last.size # "small" /\ breakdown = None
    BY <2>1, <1>3, <1>6, <1>7, <1>11
  <2>2. ASSUME failure = "original_residual_above_tolerance"
        PROVE  Equilibrated /\ Last.size = "small" /\ relative.size # "small"
    BY <2>2, <1>3, <1>5, <1>6, <1>7, <1>11
  <2>3. ASSUME failure \in Breakdowns
        PROVE  Last.size # "small" /\ failure # "zero_omega"
    <3>1. None \notin Breakdowns
      BY NoneAssumption DEF FailureClasses
    <3>2. ~converged /\ failure = Cause
      BY <2>3, <3>1, <1>7, <1>11
    <3>3. Cause # "zero_omega"
      BY <1>3, <1>6
    <3> QED
      BY <3>2, <3>3, <1>3
  <2>4. failure # "zero_omega"
    BY <2>3 DEF Breakdowns
  <2> QED
    BY <2>1, <2>2, <2>3, <2>4, <1>1, <1>12, <1>18 DEF FailureNamesCause, Last
<1>22. StaleOnlyAfterBreakdown'
  <2>1. ASSUME relative.of # x
        PROVE  ~Equilibrated /\ failure \in OmegaBreakdowns \cup {"nonfinite_residual"}
    <3>1. ~Equilibrated /\ Last.of # x
      BY <2>1, <1>5, <1>11
    <3>2. ~converged /\ breakdown \in OmegaBreakdowns \cup {"nonfinite_residual"}
      BY <3>1, <1>3 DEF ResidualBreakdown
    <3>3. breakdown # None
      BY <3>2, NoneAssumption DEF FailureClasses, Breakdowns
    <3> QED
      BY <3>1, <3>2, <3>3, <1>6, <1>11
  <2>2. ASSUME relative # absolute
        PROVE  failure = "nonfinite_residual"
    <3>1. ~Equilibrated /\ measured # Last
      BY <2>2, <1>11
    <3>2. ~converged /\ breakdown = "nonfinite_residual"
      BY <3>1, <1>3 DEF ResidualBreakdown
    <3>3. breakdown # None
      BY <3>2, NoneAssumption DEF FailureClasses, Breakdowns
    <3> QED
      BY <3>2, <3>3, <1>6, <1>11
  <2> QED
    BY <2>1, <2>2, <1>12, <1>18 DEF StaleOnlyAfterBreakdown, OmegaBreakdowns
<1> QED
  BY <1>13, <1>14, <1>15, <1>16, <1>17, <1>20, <1>21, <1>22 DEF SolveInv, Promises

-----------------------------------------------------------------------------
(* The theorems *)

LEMMA NextInv == SolveInv /\ [Next]_vars => SolveInv'
<1> SUFFICES ASSUME SolveInv, [Next]_vars PROVE SolveInv'
  OBVIOUS
<1>1. CASE UNCHANGED vars
  BY <1>1, StutterInv
<1>2. CASE Steps
  BY <1>2, RefuseInv, LoopEndsInv, CgInv, BicgstabInv, StationaryInv, CycleStartInv,
     CycleBrokenInv, CycleEndsInv DEF Steps
<1>3. CASE \E size \in Sizes : Kernels(size)
  BY <1>3, SetupInv, CgInv, BicgstabInv, StationaryInv, CandidateInv, FinishInv DEF Kernels
<1>4. CASE Done
  BY <1>4, StutterInv DEF Done
<1> QED
  BY <1>1, <1>2, <1>3, <1>4 DEF Next, Solve

\* The host's numbers and the device's x stay tied to each other by SolveInv.
THEOREM InvHolds == Spec => []SolveInv
BY InitInv, NextInv, PTL DEF Spec

\* Every variable, and the result in particular, keeps its type: iterations and
\* GMRES cycles stay within context.max_iter.
THEOREM TypeCorrect == Spec => []TypeOK
<1>1. SolveInv => TypeOK
  BY DEF SolveInv
<1> QED
  BY <1>1, InvHolds, PTL

\* A success is a residual within tolerance of the x handed back, in every method.
THEOREM SuccessHolds == Spec => []SuccessIsMeasured
<1>1. SolveInv => SuccessIsMeasured
  BY DEF SolveInv, Promises
<1> QED
  BY <1>1, InvHolds, PTL

\* The residual history stops at the first norm that is within tolerance.
THEOREM HistoryHolds == Spec => []HistoryStopsAtConvergence
<1>1. SolveInv => HistoryStopsAtConvergence
  BY DEF SolveInv, TypeOK, Shape, Tracking, Ordered, Running, HistoryStopsAtConvergence
<1> QED
  BY <1>1, InvHolds, PTL

\* The failure class of a failed solve is the true one, and zero_omega is none.
THEOREM FailureHolds == Spec => []FailureNamesCause
<1>1. SolveInv => FailureNamesCause
  BY DEF SolveInv, Promises
<1> QED
  BY <1>1, InvHolds, PTL

\* A reported residual is about an earlier x only after a breakdown that moved x.
THEOREM StaleHolds == Spec => []StaleOnlyAfterBreakdown
<1>1. SolveInv => StaleOnlyAfterBreakdown
  BY DEF SolveInv, Promises
<1> QED
  BY <1>1, InvHolds, PTL

\* Every GMRES cycle but the last takes the full, clamped restart.
THEOREM CyclesHold == Spec => []CyclesAreFull
<1>1. SolveInv => CyclesAreFull
  BY DEF SolveInv
<1> QED
  BY <1>1, InvHolds, PTL

-----------------------------------------------------------------------------
(***************************************************************************)
(* How long a solve can take.  StepsLeft bounds the steps of the host that *)
(* are still to come: at most three for an iteration, when every GMRES     *)
(* cycle has a single one, and three for setting up, leaving the loop and  *)
(* handing over the result.                                                *)
(***************************************************************************)
StepsLeft ==
    CASE pc = "dispatch" -> 3 * MaxIter + 3
      [] pc = "head"     -> 3 * (MaxIter - iterations) + 2
      [] pc = "inner"    -> 3 * (MaxIter - iterations) + (IF inner = 0 THEN 1 ELSE 3)
      [] pc = "finish"   -> 1
      [] OTHER           -> 0

\* What StepsLeft is, place by place.
LEMMA StepsLeftCases ==
    /\ pc = "dispatch" => StepsLeft = 3 * MaxIter + 3
    /\ pc = "head" => StepsLeft = 3 * (MaxIter - iterations) + 2
    /\ pc = "inner" => StepsLeft = 3 * (MaxIter - iterations) + (IF inner = 0 THEN 1 ELSE 3)
    /\ pc = "finish" => StepsLeft = 1
    /\ pc \in {"returned", "raised"} => StepsLeft = 0
  BY DEF StepsLeft

LEMMA StepsLeftNext ==
    /\ pc' = "head" => StepsLeft' = 3 * (MaxIter - iterations') + 2
    /\ pc' = "inner" => StepsLeft' = 3 * (MaxIter - iterations') + (IF inner' = 0 THEN 1 ELSE 3)
    /\ pc' = "finish" => StepsLeft' = 1
    /\ pc' \in {"returned", "raised"} => StepsLeft' = 0
  BY DEF StepsLeft

LEMMA StepsLeftBounded == SolveInv => StepsLeft \in 0 .. 3 * MaxIter + 3
<1> SUFFICES ASSUME SolveInv PROVE StepsLeft \in 0 .. 3 * MaxIter + 3
  OBVIOUS
<1>1. /\ pc \in {"dispatch", "head", "inner", "finish", "returned", "raised"}
      /\ iterations \in 0 .. MaxIter /\ inner \in 0 .. MaxIter
  BY DEF SolveInv, TypeOK
<1> QED
  BY <1>1, StepsLeftCases, MaxIterAssumption

\* An iteration of a method with one loop is counted, or ends the loop.
LEMMA IterationCounts ==
    ASSUME SolveInv, MayIterate,
           (pc' = "head" /\ iterations' = iterations + 1) \/ pc' = "finish"
    PROVE  StepsLeft' < StepsLeft
<1>1. pc = "head" /\ iterations \in Nat /\ iterations < MaxIter
  BY AtHead
<1> QED
  BY <1>1, StepsLeftCases, StepsLeftNext, MaxIterAssumption

\* Every step of a solve brings it nearer to its end.
LEMMA StepCounts == SolveInv /\ Solve => StepsLeft' < StepsLeft
<1> SUFFICES ASSUME SolveInv, Solve PROVE StepsLeft' < StepsLeft
  OBVIOUS
<1>1. /\ iterations \in 0 .. MaxIter /\ iterations \in Nat
      /\ inner \in 0 .. MaxIter /\ inner \in Nat
  BY MaxIterAssumption DEF SolveInv, TypeOK
<1> USE MaxIterAssumption, StepsLeftCases, StepsLeftNext
<1>2. CASE Refuse
  BY <1>2 DEF Refuse
<1>3. CASE \E size \in Sizes : Setup(size)
  <2>1. pc = "dispatch" /\ pc' = "head" /\ iterations' = iterations
    BY <1>3 DEF Setup
  <2>2. iterations = 0
    BY <2>1 DEF SolveInv, Shape
  <2> QED
    BY <2>1, <2>2
<1>4. CASE LoopEnds
  BY <1>1, <1>4 DEF LoopEnds
<1>5. CASE CgBreaks \/ BicgstabBreaks \/ BicgstabOmegaBreaks \/ StationaryBreaks
           \/ StationaryOverflows \/ CycleBreaks
  <2>1. MayIterate /\ pc' = "finish"
    BY <1>5 DEF CgBreaks, BicgstabBreaks, BicgstabOmegaBreaks, StationaryBreaks,
                StationaryOverflows, CycleBreaks, BrokenDown
  <2> QED
    BY <2>1, IterationCounts
<1>6. CASE \/ BicgstabHalfStepConverges
           \/ \E size \in Sizes : CgIterates(size) \/ BicgstabIterates(size)
                                  \/ StationaryIterates(size)
  <2>1. MayIterate /\ iterations' = iterations + 1 /\ pc' \in {"head", "finish"}
    BY <1>6 DEF BicgstabHalfStepConverges, CgIterates, BicgstabIterates, StationaryIterates,
                Recorded
  <2> QED
    BY <2>1, IterationCounts
<1>7. CASE CycleStarts
  <2>1. /\ pc = "head" /\ iterations < MaxIter
        /\ pc' = "inner" /\ inner' = 0 /\ iterations' = iterations
    BY <1>7 DEF CycleStarts, MayIterate
  <2> QED
    BY <1>1, <2>1
<1>8. CASE LeastSquaresFails \/ CandidateOverflows
  <2>1. pc = "inner" /\ pc' = "finish" /\ inner < limit
    BY <1>8 DEF LeastSquaresFails, CandidateOverflows, InCycle, BrokenDown
  <2>2. iterations < MaxIter
    BY <2>1, AtInner
  <2> QED
    BY <1>1, <2>1, <2>2
<1>9. CASE \E size \in Sizes : CandidateMeasured(size)
  <2>1. /\ pc = "inner" /\ inner < limit /\ iterations' = iterations + 1
        /\ pc' = "finish" \/ (pc' = pc /\ inner' = inner + 1)
    BY <1>9 DEF CandidateMeasured, InCycle
  <2>2. iterations < MaxIter
    BY <2>1, AtInner
  <2> QED
    BY <1>1, <2>1, <2>2
<1>10. CASE CycleEnds
  <2>1. /\ pc = "inner" /\ inner = limit /\ iterations' = iterations
        /\ pc' \in {"head", "finish"}
    BY <1>10 DEF CycleEnds
  <2>2. inner # 0
    BY <1>1, <2>1 DEF SolveInv, Accounting
  <2> QED
    BY <1>1, <2>1, <2>2
<1>11. CASE \E size \in Sizes : Finish(size)
  BY <1>11 DEF Finish
<1> QED
  BY <1>2, <1>3, <1>4, <1>5, <1>6, <1>7, <1>8, <1>9, <1>10, <1>11 DEF Solve, Steps, Kernels

\* No solve takes more than 3 * MaxIter + 3 steps: StepsLeft starts there, stays
\* a natural number and goes down with every step that changes anything.
THEOREM EveryStepCounts ==
    Spec => []( /\ StepsLeft \in 0 .. 3 * MaxIter + 3
                /\ StepsLeft = 0 <=> pc \in {"returned", "raised"})
            /\ [][StepsLeft' < StepsLeft]_vars
<1>1. SolveInv => /\ StepsLeft \in 0 .. 3 * MaxIter + 3
                  /\ StepsLeft = 0 <=> pc \in {"returned", "raised"}
  <2> SUFFICES ASSUME SolveInv
               PROVE  /\ StepsLeft \in 0 .. 3 * MaxIter + 3
                      /\ StepsLeft = 0 <=> pc \in {"returned", "raised"}
    OBVIOUS
  <2>1. /\ pc \in {"dispatch", "head", "inner", "finish", "returned", "raised"}
        /\ iterations \in 0 .. MaxIter
    BY DEF SolveInv, TypeOK
  <2> QED
    BY <2>1, StepsLeftBounded, StepsLeftCases, MaxIterAssumption
<1>2. SolveInv /\ [Next]_vars => [StepsLeft' < StepsLeft]_vars
  BY StepCounts DEF Next, Done
<1> QED
  BY <1>1, <1>2, InvHolds, PTL DEF Spec
=============================================================================
