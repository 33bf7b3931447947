----------------------------- MODULE UpsPromise -----------------------------
(***************************************************************************)
(* What the UPS shutdown policy promises, without files, locks, workers    *)
(* or crashes: one trigger per outage, targets taken down only under the   *)
(* trigger, and no return to idle while a target is still taken.           *)
(***************************************************************************)
CONSTANTS Targets

VARIABLES
  phase,      \* idle, engaged or restoring
  taken,      \* targets the policy took down and still has to give back
  powerSeen   \* mains power has been seen since the last trigger

vars == <<phase, taken, powerSeen>>

Init == phase = "idle" /\ taken = {} /\ powerSeen = TRUE

\* A new outage may trigger only after power has been seen.
Trigger ==
  /\ phase = "idle" /\ powerSeen
  /\ phase' = "engaged" /\ powerSeen' = FALSE
  /\ UNCHANGED taken

TakeDown(t) ==
  /\ phase = "engaged"
  /\ taken' = taken \cup {t}
  /\ UNCHANGED <<phase, powerSeen>>

\* A target runs again, by the policy's hand or by the operator's.
GiveBack(t) ==
  /\ t \in taken
  /\ taken' = taken \ {t}
  /\ UNCHANGED <<phase, powerSeen>>

SeePower ==
  /\ phase # "idle"
  /\ powerSeen' = TRUE
  /\ UNCHANGED <<phase, taken>>

BeginRestore ==
  /\ phase = "engaged"
  /\ phase' = "restoring" /\ powerSeen' = TRUE
  /\ UNCHANGED taken

\* What could not be given back is reported in the same step.
Settle ==
  /\ phase = "restoring" /\ powerSeen
  /\ phase' = "idle" /\ taken' = {}
  /\ UNCHANGED powerSeen

Next ==
  \/ Trigger \/ SeePower \/ BeginRestore \/ Settle
  \/ \E t \in Targets : TakeDown(t) \/ GiveBack(t)

Spec == Init /\ [][Next]_vars

=============================================================================
