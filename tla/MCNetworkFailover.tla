-------------------------- MODULE MCNetworkFailover --------------------------
(***************************************************************************)
(* An instance of NetworkFailover: a wired device before the Wi-Fi in the  *)
(* service order.                                                          *)
(***************************************************************************)
EXTENDS NetworkFailover

CONSTANTS lan, wifi

WiredFirst == <<lan, wifi>>

=============================================================================
