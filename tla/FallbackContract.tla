--------------------------- MODULE FallbackContract ---------------------------
(***************************************************************************)
(* What execute_with_fallback_guard promises its caller, without clocks,   *)
(* budgets, result objects or configuration: the plans of a chain are      *)
(* tried one after the other, each at most once; the first attempt that    *)
(* is acceptable ends the call and is what the caller gets; the caller is  *)
(* given no success otherwise; and the call ends.                          *)
(*                                                                         *)
(* GuardedFallback implements it (Refinement there).                       *)
(***************************************************************************)
EXTENDS Naturals, Sequences

VARIABLES
    chain,      \* number of plans
    attempts,   \* the attempts so far, in order: "acceptable" or "unacceptable"
    verdict     \* "open", "accepted" or "refused"

contractVars == <<chain, attempts, verdict>>

ContractInit ==
    /\ chain \in Nat \ {0}
    /\ attempts = <<>>
    /\ verdict = "open"

\* The next plan of the chain is tried.
Attempt(quality, v) ==
    /\ verdict = "open"
    /\ Len(attempts) < chain
    /\ attempts' = Append(attempts, quality)
    /\ verdict' = v
    /\ UNCHANGED chain

Accept == Attempt("acceptable", "accepted")

\* An attempt that is not acceptable ends the call or leaves it open.
Reject == \E v \in {"open", "refused"} : Attempt("unacceptable", v)

\* The call is given up with no attempt in flight: the chain or the time is out.
GiveUp ==
    /\ verdict = "open"
    /\ verdict' = "refused"
    /\ UNCHANGED <<chain, attempts>>

ContractNext == Accept \/ Reject \/ GiveUp

ContractSafety == ContractInit /\ [][ContractNext]_contractVars

ContractSpec == ContractSafety /\ WF_contractVars(ContractNext)
=============================================================================
