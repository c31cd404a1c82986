---------------------------- MODULE MCKrylovSolve ----------------------------
(***************************************************************************)
(* KrylovSolve for TLC: every solver with every preconditioner, up to four *)
(* iterations, and restarts that are refused (0), that cut the iterations  *)
(* into even and uneven cycles (1, 2, 3), and that n_rows clamps (9).      *)
(***************************************************************************)
EXTENDS KrylovSolve

MCRestarts == {0, 1, 2, 3, 9}
=============================================================================
