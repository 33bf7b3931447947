---------------------------- MODULE MCUpsPolicy ----------------------------
(***************************************************************************)
(* Small instances of UpsPolicy: a Compose stack and a service, the stack  *)
(* first in the stop order.                                                *)
(***************************************************************************)
EXTENDS UpsPolicy, TLC

CONSTANTS db, svc

\* The processes are interchangeable.
MCSymmetry == Permutations(Procs)

MCRank == [t \in Targets |-> IF t = db THEN 1 ELSE 2]

=============================================================================
