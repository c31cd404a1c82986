--------------------------- MODULE MCQueuePipeline ---------------------------
(***************************************************************************)
(* Instances of QueuePipeline: three matrices in batches of two, where the *)
(* builder and the executor race; one matrix, which is executed three      *)
(* times while the pool gathers; and two matrices for scripts that run one *)
(* at a time.                                                              *)
(***************************************************************************)
EXTENDS QueuePipeline

MCMatrices == 1 .. 3
MCPair     == 1 .. 2
MCOne      == 1 .. 1
=============================================================================
