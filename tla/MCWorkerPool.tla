---------------------------- MODULE MCWorkerPool ----------------------------
(***************************************************************************)
(* An instance of WorkerPool: one request fans out two probes over one     *)
(* worker, and the first of them two more over two workers.                *)
(***************************************************************************)
EXTENDS WorkerPool, TLC

CONSTANTS r1, o1, o2, n1, n2

MCBatch == r1 :> <<o1, o2>> @@ o1 :> <<n1, n2>>
MCWidth == [p \in Pools |-> IF p = "outer" THEN 1 ELSE 2]

=============================================================================
