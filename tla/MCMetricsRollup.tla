-------------------------- MODULE MCMetricsRollup --------------------------
(***************************************************************************)
(* Instances of MetricsRollup: windows of two ticks, hours of four.        *)
(***************************************************************************)
EXTENDS MetricsRollup

=============================================================================
