------------------------- MODULE MCGuardedAutoSolve -------------------------
(***************************************************************************)
(* GuardedAutoSolve for TLC: three matrices, three candidates, and files   *)
(* of selector rows that between them have a matrix with several           *)
(* successes and a tie in time, one with failures only and one without     *)
(* rows, a candidate that succeeded on two matrices, two rows for one      *)
(* candidate on one matrix, and no success at all.                         *)
(***************************************************************************)
EXTENDS GuardedAutoSolve

MCMatrices   == {"m1", "m2", "m3"}
MCCandidates == 1 .. 3

Success(m, c, t) == [matrix |-> m, candidate |-> c, status |-> "success",
                     everyTime |-> TRUE, time |-> t]
Flaky(m, c, t)   == [Success(m, c, t) EXCEPT !.everyTime = FALSE]
Screened(m, c)   == [Success(m, c, 9) EXCEPT !.status = "screened_out"]

Profiled == <<Success("m1", 3, 2), Success("m1", 2, 1), Screened("m1", 1),
              Success("m2", 3, 1), Success("m2", 1, 1)>>
Sparse   == <<Success("m1", 1, 1), Success("m1", 3, 2), Flaky("m2", 2, 1)>>
Repeated == <<Success("m1", 2, 3), Success("m1", 1, 1), Success("m1", 2, 2),
              Success("m2", 2, 1)>>
Failed   == <<Screened("m1", 1), Screened("m2", 2)>>

MCFiles == {Profiled, Sparse, Repeated, Failed}

\* For the run of the training pipeline.
OneFile      == {<<Success("m1", 2, 2), Success("m1", 1, 1), Screened("m2", 2)>>}
=============================================================================
