---------------------------- MODULE MCJobRunner ----------------------------
(***************************************************************************)
(* An instance of JobRunner with two jobs, each asked for once: the second *)
(* meets the first in every one of its steps.                              *)
(***************************************************************************)
EXTENDS JobRunner

=============================================================================
