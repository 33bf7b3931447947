--------------------------- MODULE MCStackBackup ---------------------------
(***************************************************************************)
(* Small instances of StackBackup.  One stack is enough for what its       *)
(* properties say: backups of different stacks share nothing but the       *)
(* recovery's list.  Retain is 1, where a wrong choice shows at once.      *)
(***************************************************************************)
EXTENDS StackBackup

=============================================================================
