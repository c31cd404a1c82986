---------------------------- MODULE BatchEvidence ----------------------------
(***************************************************************************)
(* What the output directories of the batch executor are to whoever reads  *)
(* them: a register for each, which is empty or holds the evidence of one  *)
(* execution.  The executor empties a register, at most one, and fills it  *)
(* at a stroke with the evidence of the execution under way, at most once. *)
(* Evidence is never changed in place.                                     *)
(*                                                                         *)
(* QueuePipeline implements it (KeepsEvidence there), although a directory *)
(* has two files that are truncated and written row by row, and an         *)
(* execution may stop between any two of these writes.                     *)
(***************************************************************************)
EXTENDS Integers

CONSTANTS
    Places,    \* the registers
    Nowhere,   \* no register
    Evidence,  \* what may be published: the evidence of an execution, with its number
    Empty,     \* what an empty register holds
    Limit      \* bound: executions

VARIABLES
    evidence,   \* the registers
    executions, \* how many have been started
    phase,      \* of the execution under way: "none", "reading" or "writing"
    place       \* its register

registerVars == <<evidence, executions, phase, place>>

RegisterInit ==
    /\ evidence = [p \in Places |-> Empty]
    /\ executions = 0
    /\ phase = "none" /\ place = Nowhere

\* An execution begins, and no register is touched yet.
Begin ==
    /\ phase = "none" /\ phase' = "reading"
    /\ executions < Limit /\ executions' = executions + 1
    /\ place' \in Places
    /\ UNCHANGED evidence

\* It takes back what its register held.
Withdraw ==
    /\ phase = "reading" /\ phase' = "writing"
    /\ evidence' = [evidence EXCEPT ![place] = Empty]
    /\ UNCHANGED <<executions, place>>

\* It publishes its own evidence, all of it, and is over.
Publish ==
    /\ phase = "writing" /\ phase' = "none" /\ place' = Nowhere
    /\ \E e \in Evidence : /\ e.run = executions
                           /\ evidence' = [evidence EXCEPT ![place] = e]
    /\ UNCHANGED executions

\* It is over without evidence: refused, failed or stopped.
Abandon ==
    /\ phase # "none" /\ phase' = "none" /\ place' = Nowhere
    /\ UNCHANGED <<evidence, executions>>

RegisterNext == Begin \/ Withdraw \/ Publish \/ Abandon

RegisterSpec == RegisterInit /\ [][RegisterNext]_registerVars
=============================================================================
