-------------------------- MODULE MCGuardedFallback --------------------------
(***************************************************************************)
(* GuardedFallback for TLC: chains of up to three plans, a clock that      *)
(* advances by 0 or 2 ms between two readings, so that budgets of 1 and    *)
(* 3 ms are met, overrun by one attempt, or gone before the first one.     *)
(***************************************************************************)
EXTENDS GuardedFallback

MCDelays   == {0, 2}
MCBudgets  == {1, 3}
MCFailures == {"not_converged", "zero_omega"}
=============================================================================
