--------------------------- MODULE MCConfigStore ---------------------------
(***************************************************************************)
(* Instances of ConfigStore: two processes over one services.yaml.         *)
(***************************************************************************)
EXTENDS ConfigStore, TLC

\* Sound where no liveness is checked.
Symmetry == Permutations(Procs) \cup Permutations(Keys)

=============================================================================
