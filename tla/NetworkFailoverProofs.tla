----------------------- MODULE NetworkFailoverProofs -----------------------
(***************************************************************************)
(* Theorems about NetworkFailover, for any devices in any service order,   *)
(* thresholds, request threads and number of faults: its types for any     *)
(* number of panels, and for one panel that the passes never leave the     *)
(* managed address bound to nothing.                                       *)
(***************************************************************************)
EXTENDS NetworkFailover, TLAPS

LEMMA StepCases ==
  ASSUME [Next]_vars
  PROVE  \/ UNCHANGED vars
         \/ RouteLost \/ SomebodySwitches \/ PingGone \/ SetEnabled \/ SetAuto
         \/ \E d \in Devices, s \in States : LinkChanges(d, s)
         \/ \E p \in Procs : Crash(p) \/ Boot(p) \/ \E what \in {"tick", "alias"} : Deadline(p, what)
         \/ \E t \in Threads :
              \/ WakeForTick(t) \/ WakeForAlias(t) \/ PostTick(t) \/ PostAlias(t)
              \/ Probe(t) \/ ProbeRaises(t) \/ Switch(t)
              \/ \E known \in BOOLEAN : Decide(t, known)
              \/ BeginPass(t) \/ Locate(t) \/ Add(t) \/ Check(t) \/ Unroute(t) \/ Reroute(t)
              \/ \E d \in Devices : Move(t, d)
<1>1. ASSUME NEW t \in Threads, Wake(t) PROVE WakeForTick(t) \/ WakeForAlias(t)
  BY <1>1, Zenon DEF Wake
<1>2. ASSUME NEW t \in Threads, Runs(t)
      PROVE  \/ Probe(t) \/ ProbeRaises(t) \/ Switch(t)
             \/ \E known \in BOOLEAN : Decide(t, known)
             \/ BeginPass(t) \/ Locate(t) \/ Add(t) \/ Check(t) \/ Unroute(t) \/ Reroute(t)
             \/ \E d \in Devices : Move(t, d)
  BY <1>2, Zenon DEF Runs
<1> QED
  BY <1>1, <1>2, Zenon DEF Next

-----------------------------------------------------------------------------
(* Types, in parts. *)

MachineOK ==
  /\ link \in [Devices -> States]
  /\ radio \in BOOLEAN /\ route \in BOOLEAN /\ ping \in BOOLEAN /\ torn \in BOOLEAN
  /\ at \subseteq Devices

PanelOK ==
  /\ life \in [Procs -> {"down", "plain", "worker"}]
  /\ due \in [Procs -> SUBSET {"tick", "alias"}]
  /\ good \in [Procs -> Nat] /\ poor \in [Procs -> Nat]

SettingsOK == enabled \in BOOLEAN /\ auto \in BOOLEAN

LEMMA TypeParts ==
  TypeOK <=> MachineOK /\ PanelOK /\ SettingsOK /\ act \in [Threads -> Acts] /\ faults \in 0 .. MaxFaults
BY Zenon DEF TypeOK, MachineOK, PanelOK, SettingsOK

LEMMA PairOf == ASSUME NEW t \in Threads PROVE t[1] \in Procs
BY DEF Threads

LEMMA GoesType ==
  ASSUME TypeOK, NEW t \in Threads, NEW pc \in Points, NEW to \in Devices \cup {None},
         NEW from \in SUBSET Devices, Goes(t, pc, to, from)
  PROVE  act' \in [Threads -> Acts]
BY DEF TypeOK, Goes, Acts

LEMMA GoesOnType ==
  ASSUME TypeOK, NEW t \in Threads, NEW pc \in Points, GoesOn(t, pc)
  PROVE  act' \in [Threads -> Acts]
<1>1. act[t].to \in Devices \cup {None} /\ act[t].from \in SUBSET Devices
  BY DEF TypeOK, Acts
<1> QED
  BY <1>1, GoesType DEF GoesOn

LEMMA EndsType ==
  ASSUME TypeOK, NEW t \in Threads, Ends(t) PROVE act' \in [Threads -> Acts]
BY DEF TypeOK, Ends, Idle, Acts, Points

LEMMA PassOverType ==
  ASSUME TypeOK, NEW t \in Threads, PassOver(t)
  PROVE  act' \in [Threads -> Acts] /\ due' \in [Procs -> SUBSET {"tick", "alias"}]
<1>1. act' \in [Threads -> Acts]
  BY EndsType DEF PassOver
<1>2. due' \in [Procs -> SUBSET {"tick", "alias"}]
  BY PairOf DEF PassOver, TypeOK
<1> QED
  BY <1>1, <1>2

LEMMA TickEndsType ==
  ASSUME TypeOK, NEW t \in Threads, TickEnds(t)
  PROVE  act' \in [Threads -> Acts] /\ due' \in [Procs -> SUBSET {"tick", "alias"}]
<1>1. act' \in [Threads -> Acts]
  <2>1. GoesOn(t, "alias") \/ GoesOn(t, "idle")
    BY Zenon DEF TickEnds
  <2> QED
    BY <2>1, GoesOnType DEF Points
<1>2. due' \in [Procs -> SUBSET {"tick", "alias"}]
  BY PairOf DEF TickEnds, TypeOK
<1> QED
  BY <1>1, <1>2

LEMMA BumpType ==
  ASSUME NEW f \in [Procs -> Nat], NEW p \in Procs, NEW bound \in Nat
  PROVE  [f EXCEPT ![p] = Bump(@, bound)] \in [Procs -> Nat]
<1>1. Bump(f[p], bound) \in Nat
  BY DEF Bump
<1> QED
  BY <1>1

LEMMA FaultType == ASSUME TypeOK, Fault \/ NoFault PROVE faults' \in 0 .. MaxFaults
BY NetworkAssumption DEF TypeOK, Fault, NoFault

LEMMA DropsType ==
  ASSUME TypeOK, NEW d, Drops(d)
  PROVE  at' \subseteq Devices /\ route' \in BOOLEAN /\ torn' \in BOOLEAN
<1>1. at' = at \/ at' = at \ {d}
  BY Zenon DEF Drops
<1>2. route' = route \/ route' = FALSE
  BY Zenon DEF Drops
<1>3. torn' \in BOOLEAN
  BY Zenon DEF Drops, TypeOK
<1> QED
  BY <1>1, <1>2, <1>3, Zenon DEF TypeOK

LEMMA RadioType == ASSUME TypeOK, NEW on \in BOOLEAN, RadioGoes(on) PROVE MachineOK'
<1>1. radio' = on /\ ping' = ping
  BY Zenon DEF RadioGoes
<1>2. CASE UNCHANGED <<link, at, route, torn>>
  BY <1>1, <1>2, Zenon DEF TypeOK, MachineOK
<1>3. CASE link' = [link EXCEPT ![Wifi] = "down"] /\ Drops(Wifi)
  <2>1. link' \in [Devices -> States]
    BY <1>3 DEF TypeOK, States
  <2> QED
    BY <1>1, <1>3, <2>1, DropsType, Zenon DEF TypeOK, MachineOK
<1> QED
  BY <1>2, <1>3, Zenon DEF RadioGoes

LEMMA AddsType == ASSUME TypeOK, NEW d \in Devices, AddsTo(d) PROVE MachineOK'
<1>1. at' \subseteq Devices
  BY DEF AddsTo, TypeOK
<1> QED
  BY <1>1, Zenon DEF AddsTo, TypeOK, MachineOK

LEMMA RemovesType == ASSUME TypeOK, NEW d, RemovesFrom(d) PROVE MachineOK'
<1>1. at' \subseteq Devices
  BY DEF RemovesFrom, TypeOK
<1>2. route' = route \/ route' = FALSE
  BY Zenon DEF RemovesFrom
<1> QED
  BY <1>1, <1>2, Zenon DEF RemovesFrom, TypeOK, MachineOK

LEMMA RefusedType == ASSUME TypeOK, Refused PROVE MachineOK'
<1>1. torn' \in BOOLEAN
  BY Zenon DEF Refused
<1> QED
  BY <1>1, Zenon DEF Refused, TypeOK, MachineOK

LEMMA TypeInit == Init => TypeOK
<1> SUFFICES ASSUME Init PROVE TypeOK
  OBVIOUS
<1>1. link \in [Devices -> States] /\ at \subseteq Devices
  BY DEF Init
<1>2. radio \in BOOLEAN /\ ping \in BOOLEAN /\ enabled \in BOOLEAN /\ auto \in BOOLEAN
  BY Zenon DEF Init
<1>3. route \in BOOLEAN /\ torn \in BOOLEAN
  BY Zenon DEF Init
<1>4. PanelOK
  BY DEF Init, PanelOK
<1>5. act \in [Threads -> Acts]
  BY DEF Init, Idle, Acts, Points
<1>6. faults \in 0 .. MaxFaults
  BY NetworkAssumption DEF Init
<1> QED
  BY <1>1, <1>2, <1>3, <1>4, <1>5, <1>6, TypeParts, Zenon DEF MachineOK, SettingsOK

\* What is left alone keeps its type.
LEMMA Kept ==
  ASSUME TypeOK
  PROVE  /\ UNCHANGED machine => MachineOK'
         /\ UNCHANGED panel => PanelOK'
         /\ UNCHANGED <<enabled, auto>> => SettingsOK'
         /\ UNCHANGED act => act' \in [Threads -> Acts]
         /\ UNCHANGED faults => faults' \in 0 .. MaxFaults
<1>1. UNCHANGED machine => MachineOK'
  BY Zenon DEF TypeOK, machine, MachineOK
<1>2. UNCHANGED panel => PanelOK'
  BY Zenon DEF TypeOK, panel, PanelOK
<1>3. UNCHANGED <<enabled, auto>> => SettingsOK'
  BY Zenon DEF TypeOK, SettingsOK
<1> QED
  BY <1>1, <1>2, <1>3, Zenon DEF TypeOK

\* A thread that moves, with at most its deadline and its counters.
LEMMA StepType ==
  ASSUME TypeOK, MachineOK', act' \in [Threads -> Acts], faults' \in 0 .. MaxFaults,
         due' \in [Procs -> SUBSET {"tick", "alias"}],
         UNCHANGED <<enabled, auto, life, good, poor>>
  PROVE  TypeOK'
<1>1. PanelOK'
  BY Zenon DEF TypeOK, PanelOK
<1>2. SettingsOK'
  BY Zenon DEF TypeOK, SettingsOK
<1> QED
  BY <1>1, <1>2, TypeParts, Zenon DEF MachineOK, PanelOK, SettingsOK, TypeOK

\* A pass has a target.
Aimed == \A t \in Threads : act[t].pc \in AliasPoints => act[t].to \in Devices

LEMMA TypeStep == ASSUME TypeOK, Aimed, [Next]_vars PROVE TypeOK'
<1>d. due \in [Procs -> SUBSET {"tick", "alias"}]
  BY DEF TypeOK
<1>0. CASE UNCHANGED vars
  BY <1>0, Zenon DEF vars, machine, panel, TypeOK
<1>1. CASE RouteLost
  <2>1. MachineOK'
    BY <1>1, Zenon DEF RouteLost, TypeOK, MachineOK
  <2> QED
    BY <1>1, <2>1, <1>d, FaultType, StepType, Kept DEF RouteLost, panel
<1>2. CASE SomebodySwitches
  <2>1. MachineOK'
    BY <1>2, RadioType, Zenon DEF SomebodySwitches
  <2> QED
    BY <1>2, <2>1, <1>d, FaultType, StepType, Kept DEF SomebodySwitches, panel
<1>3. CASE PingGone
  <2>1. MachineOK'
    BY <1>3, Zenon DEF PingGone, TypeOK, MachineOK
  <2> QED
    BY <1>3, <2>1, <1>d, FaultType, StepType, Kept DEF PingGone, panel
<1>4. CASE SetEnabled \/ SetAuto
  <2>1. SettingsOK'
    BY <1>4, Zenon DEF SetEnabled, SetAuto, SettingsOK, TypeOK
  <2>2. UNCHANGED <<machine, panel, act, faults>>
    BY <1>4, Zenon DEF SetEnabled, SetAuto
  <2> QED
    BY <2>1, <2>2, Zenon DEF TypeOK, SettingsOK, machine, panel
<1>5. ASSUME NEW d \in Devices, NEW s \in States, LinkChanges(d, s) PROVE TypeOK'
  <2>1. link' \in [Devices -> States]
    BY <1>5 DEF LinkChanges, TypeOK
  <2>2. at' \subseteq Devices /\ route' \in BOOLEAN /\ torn' \in BOOLEAN
    BY <1>5, DropsType, Zenon DEF LinkChanges, TypeOK
  <2>3. UNCHANGED <<radio, ping, enabled, auto, panel, act, faults>>
    BY <1>5, Zenon DEF LinkChanges
  <2> QED
    BY <2>1, <2>2, <2>3, Zenon DEF TypeOK, panel
<1>6. ASSUME NEW p \in Procs, Crash(p) PROVE TypeOK'
  <2>1. act' \in [Threads -> Acts]
    BY <1>6 DEF Crash, TypeOK, Idle, Acts, Points
  <2>2. life' \in [Procs -> {"down", "plain", "worker"}]
    BY <1>6 DEF Crash, TypeOK
  <2>3. faults' \in 0 .. MaxFaults
    BY <1>6, FaultType, Zenon DEF Crash
  <2>4. torn' \in BOOLEAN
    BY <1>6, Zenon DEF Crash
  <2>5. UNCHANGED <<link, radio, at, route, ping, enabled, auto, due, good, poor>>
    BY <1>6, Zenon DEF Crash
  <2> QED
    BY <2>1, <2>2, <2>3, <2>4, <2>5, Zenon DEF TypeOK
<1>7. ASSUME NEW p \in Procs, Boot(p) PROVE TypeOK'
  <2>1. PanelOK'
    BY <1>7 DEF Boot, TypeOK, PanelOK
  <2>2. UNCHANGED <<machine, enabled, auto, act, faults>>
    BY <1>7, Zenon DEF Boot
  <2> QED
    BY <2>1, <2>2, Zenon DEF TypeOK, PanelOK, machine
<1>8. ASSUME NEW p \in Procs, NEW what \in {"tick", "alias"}, Deadline(p, what) PROVE TypeOK'
  <2>1. due' \in [Procs -> SUBSET {"tick", "alias"}]
    BY <1>8 DEF Deadline, TypeOK
  <2> QED
    BY <1>8, <2>1, StepType, Kept DEF Deadline
<1>9. ASSUME NEW t \in Threads, WakeForTick(t) \/ PostTick(t) PROVE TypeOK'
  <2>1. GoesOn(t, "probe") /\ UNCHANGED <<machine, enabled, auto, panel>> /\ (Fault \/ NoFault)
    BY <1>9, Zenon DEF WakeForTick, PostTick, TickStarts, NoFault
  <2> QED
    BY <2>1, <1>d, GoesOnType, FaultType, StepType, Kept DEF Points, TickPoints, panel
<1>10. ASSUME NEW t \in Threads, WakeForAlias(t) \/ PostAlias(t) PROVE TypeOK'
  <2>1. GoesOn(t, "alias") /\ UNCHANGED <<machine, enabled, auto, panel>> /\ (Fault \/ NoFault)
    BY <1>10, Zenon DEF WakeForAlias, PostAlias, NoFault
  <2> QED
    BY <2>1, <1>d, GoesOnType, FaultType, StepType, Kept DEF Points, panel
<1>11. ASSUME NEW t \in Threads, Probe(t) \/ ProbeRaises(t) PROVE TypeOK'
  <2>1. /\ GoesOn(t, "answered") \/ GoesOn(t, "silent") \/ GoesOn(t, "idle")
        /\ UNCHANGED <<machine, enabled, auto, panel, faults>>
    BY <1>11, Zenon DEF Probe, ProbeRaises
  <2>2. act' \in [Threads -> Acts]
    BY <2>1, GoesOnType DEF Points, TickPoints
  <2> QED
    BY <2>1, <2>2, <1>d, StepType, Kept DEF panel
<1>12. ASSUME NEW t \in Threads, Switch(t) PROVE TypeOK'
  <2>1. GoesOn(t, "alias") \/ GoesOn(t, "idle")
    BY <1>12, Zenon DEF Switch
  <2>2. act' \in [Threads -> Acts]
    BY <2>1, GoesOnType DEF Points
  <2>3. due' \in [Procs -> SUBSET {"tick", "alias"}]
    BY <1>12, PairOf DEF Switch, TypeOK
  <2>4. MachineOK'
    <3>1. At(t, "turnOn") \in BOOLEAN
      BY DEF At
    <3>2. CASE UNCHANGED machine
      BY <3>2, Kept
    <3>3. CASE RadioGoes(At(t, "turnOn"))
      BY <3>1, <3>3, RadioType
    <3> QED
      BY <1>12, <3>2, <3>3, Zenon DEF Switch
  <2>5. faults' \in 0 .. MaxFaults /\ UNCHANGED <<enabled, auto, life, good, poor>>
    BY <1>12, FaultType, Zenon DEF Switch
  <2> QED
    BY <2>2, <2>3, <2>4, <2>5, StepType
<1>13. ASSUME NEW t \in Threads, NEW known \in BOOLEAN, Decide(t, known) PROVE TypeOK'
  <2>1. TickEnds(t) \/ (UNCHANGED due /\ (GoesOn(t, "turnOff") \/ GoesOn(t, "turnOn")))
    BY <1>13, Zenon DEF Decide
  <2>2. act' \in [Threads -> Acts] /\ due' \in [Procs -> SUBSET {"tick", "alias"}]
    BY <2>1, <1>d, TickEndsType, GoesOnType DEF Points, TickPoints
  <2>3. /\ good' = [good EXCEPT ![t[1]] = 0] \/ good' = [good EXCEPT ![t[1]] = Bump(@, RecoverAfter)]
        /\ poor' = [poor EXCEPT ![t[1]] = 0] \/ poor' = [poor EXCEPT ![t[1]] = Bump(@, FailAfter)]
    BY <1>13, Zenon DEF Decide
  <2>4. good' \in [Procs -> Nat] /\ poor' \in [Procs -> Nat]
    <3>1. good \in [Procs -> Nat] /\ poor \in [Procs -> Nat] /\ t[1] \in Procs
          /\ RecoverAfter \in Nat /\ FailAfter \in Nat
      BY PairOf, NetworkAssumption DEF TypeOK
    <3>2. good' \in [Procs -> Nat]
      <4>1. CASE good' = [good EXCEPT ![t[1]] = 0]
        BY <3>1, <4>1
      <4>2. CASE good' = [good EXCEPT ![t[1]] = Bump(@, RecoverAfter)]
        <5>1. Bump(good[t[1]], RecoverAfter) \in Nat
          BY <3>1 DEF Bump
        <5> QED
          BY <3>1, <4>2, <5>1
      <4> QED
        BY <2>3, <4>1, <4>2
    <3>3. poor' \in [Procs -> Nat]
      <4>1. CASE poor' = [poor EXCEPT ![t[1]] = 0]
        BY <3>1, <4>1
      <4>2. CASE poor' = [poor EXCEPT ![t[1]] = Bump(@, FailAfter)]
        <5>1. Bump(poor[t[1]], FailAfter) \in Nat
          BY <3>1 DEF Bump
        <5> QED
          BY <3>1, <4>2, <5>1
      <4> QED
        BY <2>3, <4>1, <4>2
    <3> QED
      BY <3>2, <3>3
  <2>5. UNCHANGED <<machine, enabled, auto, life>>
    BY <1>13, Zenon DEF Decide
  <2>6. faults' \in 0 .. MaxFaults
    BY <1>13, FaultType, Zenon DEF Decide
  <2> QED
    BY <2>2, <2>4, <2>5, <2>6, Zenon DEF TypeOK, machine
<1>14. ASSUME NEW t \in Threads, BeginPass(t) PROVE TypeOK'
  <2>1. CASE PassOver(t)
    BY <1>14, <2>1, PassOverType, StepType, Kept DEF BeginPass
  <2>2. ASSUME NEW d \in Devices, Goes(t, "locate", d, {}), UNCHANGED due PROVE TypeOK'
    BY <1>14, <2>2, <1>d, GoesType, StepType, Kept DEF BeginPass, Points, AliasPoints
  <2> QED
    BY <1>14, <2>1, <2>2, Zenon DEF BeginPass
<1>15. ASSUME NEW t \in Threads, Locate(t) PROVE TypeOK'
  <2>1. MachineOK'
    <3>1. torn' \in BOOLEAN
      BY <1>15, Zenon DEF Locate
    <3> QED
      BY <1>15, <3>1, Zenon DEF Locate, TypeOK, MachineOK
  <2>2. UNCHANGED <<enabled, auto, life, good, poor, faults>>
    BY <1>15, Zenon DEF Locate
  <2>3. CASE PassOver(t)
    BY <2>1, <2>2, <2>3, PassOverType, StepType, Kept
  <2>4. CASE ~PassOver(t)
    <3> DEFINE to == act[t].to
               from == at \ {to}
               remedy == Remedy(to \in at, from # {}, route)
    <3>1. Goes(t, remedy, to, from) /\ UNCHANGED due
      BY <1>15, <2>4, Zenon DEF Locate
    <3>2. remedy \in Points
      BY Zenon DEF Remedy, Points, AliasPoints
    <3>3. to \in Devices \cup {None} /\ from \in SUBSET Devices
      BY DEF TypeOK, Acts
    <3> QED
      BY <3>1, <3>2, <3>3, <2>1, <2>2, <1>d, GoesType, StepType, Kept
  <2> QED
    BY <2>3, <2>4
<1>16. ASSUME NEW t \in Threads, Add(t) \/ Reroute(t) PROVE TypeOK'
  <2>1. MachineOK'
    <3>1. CASE Refused
      BY <3>1, RefusedType
    <3>2. CASE AddsTo(act[t].to)
      <4>1. act[t].to \in Devices
        BY <1>16 DEF Add, Reroute, At, Aimed, AliasPoints
      <4> QED
        BY <3>2, <4>1, AddsType
    <3> QED
      BY <1>16, <3>1, <3>2, Zenon DEF Add, Reroute
  <2>2. /\ PassOver(t) \/ (GoesOn(t, "move") /\ UNCHANGED due)
        /\ UNCHANGED <<enabled, auto, life, good, poor>> /\ (Fault \/ NoFault)
    BY <1>16, Zenon DEF Add, Reroute
  <2>3. act' \in [Threads -> Acts] /\ due' \in [Procs -> SUBSET {"tick", "alias"}]
    BY <2>2, <1>d, PassOverType, GoesOnType DEF Points, AliasPoints
  <2> QED
    BY <2>1, <2>2, <2>3, FaultType, StepType
<1>17. ASSUME NEW t \in Threads, NEW d \in Devices, Move(t, d) PROVE TypeOK'
  <2>1. MachineOK'
    BY <1>17, RefusedType, RemovesType, Zenon DEF Move
  <2>2. act[t].to \in Devices \cup {None} /\ act[t].from \ {d} \in SUBSET Devices
    BY DEF TypeOK, Acts
  <2>3. \E pc \in {"check", "move"} : Goes(t, pc, act[t].to, act[t].from \ {d})
    BY <1>17, Zenon DEF Move
  <2>4. act' \in [Threads -> Acts]
    BY <2>2, <2>3, GoesType DEF Points, AliasPoints
  <2>5. (Fault \/ NoFault) /\ UNCHANGED <<enabled, auto, panel>>
    BY <1>17, Zenon DEF Move
  <2> QED
    BY <2>1, <2>4, <2>5, <1>d, FaultType, StepType DEF panel
<1>18. ASSUME NEW t \in Threads, Check(t) PROVE TypeOK'
  <2>1. /\ PassOver(t) \/ (GoesOn(t, "unroute") /\ UNCHANGED due)
        /\ UNCHANGED <<machine, enabled, auto, life, good, poor, faults>>
    BY <1>18, Zenon DEF Check
  <2>2. act' \in [Threads -> Acts] /\ due' \in [Procs -> SUBSET {"tick", "alias"}]
    BY <2>1, <1>d, PassOverType, GoesOnType DEF Points, AliasPoints
  <2> QED
    BY <2>1, <2>2, StepType, Kept
<1>19. ASSUME NEW t \in Threads, Unroute(t) PROVE TypeOK'
  <2>1. MachineOK'
    BY <1>19, RefusedType, RemovesType, Zenon DEF Unroute
  <2>2. /\ PassOver(t) \/ (GoesOn(t, "reroute") /\ UNCHANGED due)
        /\ UNCHANGED <<enabled, auto, life, good, poor>> /\ (Fault \/ NoFault)
    BY <1>19, Zenon DEF Unroute
  <2>3. act' \in [Threads -> Acts] /\ due' \in [Procs -> SUBSET {"tick", "alias"}]
    BY <2>2, <1>d, PassOverType, GoesOnType DEF Points, AliasPoints
  <2> QED
    BY <2>1, <2>2, <2>3, FaultType, StepType
<1> QED
  BY StepCases, <1>0, <1>1, <1>2, <1>3, <1>4, <1>5, <1>6, <1>7, <1>8, <1>9, <1>10, <1>11, <1>12,
     <1>13, <1>14, <1>15, <1>16, <1>17, <1>18, <1>19, Zenon

\* Where the moved thread stands, and that the others stay.
LEMMA Moved ==
  ASSUME TypeOK, NEW t \in Threads, NEW STATE pc, NEW STATE to, NEW STATE from, Goes(t, pc, to, from)
  PROVE  /\ act'[t].pc = pc /\ act'[t].to = to /\ act'[t].from = from
         /\ \A u \in Threads : u # t => act'[u] = act[u]
BY DEF TypeOK, Goes

LEMMA MovedOn ==
  ASSUME TypeOK, NEW t \in Threads, NEW STATE pc, GoesOn(t, pc)
  PROVE  /\ act'[t].pc = pc /\ act'[t].to = act[t].to /\ act'[t].from = act[t].from
         /\ \A u \in Threads : u # t => act'[u] = act[u]
BY DEF TypeOK, Goes, GoesOn

LEMMA Ended ==
  ASSUME TypeOK, NEW t \in Threads, Ends(t) \/ PassOver(t)
  PROVE  act'[t] = Idle /\ \A u \in Threads : u # t => act'[u] = act[u]
<1>1. Ends(t)
  BY Zenon DEF PassOver
<1> QED
  BY <1>1 DEF TypeOK, Ends

\* Outside the passes a thread goes to no point of a pass.
LEMMA Elsewhere ==
  ASSUME TypeOK, NEW t \in Threads,
         \/ WakeForTick(t) \/ WakeForAlias(t) \/ PostTick(t) \/ PostAlias(t)
         \/ Probe(t) \/ ProbeRaises(t) \/ Switch(t) \/ \E known \in BOOLEAN : Decide(t, known)
  PROVE  /\ act[t].pc \notin AliasPoints /\ act'[t].pc \notin AliasPoints
         /\ act'[t].to = act[t].to
         /\ \A u \in Threads : u # t => act'[u] = act[u]
<1>1. act[t].pc \in {"idle", "probe", "turnOff", "turnOn", "answered", "silent"}
  BY Zenon DEF WakeForTick, WakeForAlias, PostTick, PostAlias, TickStarts, Probe, ProbeRaises, Switch,
     Decide, At
<1>2. \E pc \in {"probe", "alias", "answered", "silent", "idle", "turnOff", "turnOn"} : GoesOn(t, pc)
  BY Zenon DEF WakeForTick, WakeForAlias, PostTick, PostAlias, TickStarts, Probe, ProbeRaises, Switch,
     Decide, TickEnds
<1> QED
  BY <1>1, <1>2, MovedOn DEF AliasPoints

LEMMA AimedStep == ASSUME TypeOK, Aimed, [Next]_vars PROVE Aimed'
<1>0. CASE UNCHANGED act
  BY <1>0 DEF Aimed
<1>1. ASSUME \/ UNCHANGED vars \/ RouteLost \/ SomebodySwitches \/ PingGone \/ SetEnabled \/ SetAuto
             \/ \E d \in Devices, s \in States : LinkChanges(d, s)
             \/ \E p \in Procs : Boot(p) \/ \E what \in {"tick", "alias"} : Deadline(p, what)
      PROVE  UNCHANGED act
  BY <1>1, Zenon DEF vars, RouteLost, SomebodySwitches, PingGone, SetEnabled, SetAuto, LinkChanges,
     Boot, Deadline
<1>2. ASSUME NEW p \in Procs, Crash(p) PROVE Aimed'
  BY <1>2 DEF Crash, Aimed, Idle, AliasPoints
<1>3. ASSUME NEW t \in Threads,
             \/ WakeForTick(t) \/ WakeForAlias(t) \/ PostTick(t) \/ PostAlias(t)
             \/ Probe(t) \/ ProbeRaises(t) \/ Switch(t) \/ \E known \in BOOLEAN : Decide(t, known)
      PROVE  Aimed'
  BY <1>3, Elsewhere DEF Aimed
<1>4. ASSUME NEW t \in Threads, NEW d \in Devices, Goes(t, "locate", d, {}) PROVE Aimed'
  BY <1>4, Moved DEF Aimed
<1>5. ASSUME NEW t \in Threads, PassOver(t) PROVE Aimed'
  BY <1>5, Ended DEF Aimed, Idle, AliasPoints
<1>6. ASSUME NEW t \in Threads, act[t].pc \in AliasPoints, NEW STATE pc, NEW STATE from,
             Goes(t, pc, act[t].to, from)
      PROVE  Aimed'
  BY <1>6, Moved DEF Aimed
<1>7. ASSUME NEW t \in Threads, act[t].pc \in AliasPoints, NEW STATE pc, GoesOn(t, pc) PROVE Aimed'
  BY <1>7, <1>6 DEF GoesOn
<1>8. ASSUME NEW t \in Threads, BeginPass(t) PROVE Aimed'
  BY <1>8, <1>4, <1>5, Zenon DEF BeginPass
<1>9. ASSUME NEW t \in Threads, Locate(t) PROVE Aimed'
  <2>1. act[t].pc \in AliasPoints
    BY <1>9 DEF Locate, At, AliasPoints
  <2>2. PassOver(t) \/ \E pc \in {"add", "move", "unroute", "idle"} : Goes(t, pc, act[t].to, at \ {act[t].to})
    BY <1>9, Zenon DEF Locate, Remedy
  <2> QED
    BY <2>1, <2>2, <1>5, <1>6
<1>10. ASSUME NEW t \in Threads, Add(t) \/ Check(t) \/ Unroute(t) \/ Reroute(t) PROVE Aimed'
  <2>1. act[t].pc \in AliasPoints
    BY <1>10 DEF Add, Check, Unroute, Reroute, At, AliasPoints
  <2>2. PassOver(t) \/ GoesOn(t, "move") \/ GoesOn(t, "unroute") \/ GoesOn(t, "reroute")
    BY <1>10, Zenon DEF Add, Check, Unroute, Reroute
  <2> QED
    BY <2>1, <2>2, <1>5, <1>7
<1>11. ASSUME NEW t \in Threads, NEW d \in Devices, Move(t, d) PROVE Aimed'
  <2>1. act[t].pc \in AliasPoints
    BY <1>11 DEF Move, At, AliasPoints
  <2>2. \E pc \in {"check", "move"} : Goes(t, pc, act[t].to, act[t].from \ {d})
    BY <1>11, Zenon DEF Move
  <2> QED
    BY <2>1, <2>2, <1>6
<1> QED
  BY StepCases, <1>0, <1>1, <1>2, <1>3, <1>8, <1>9, <1>10, <1>11, Zenon

\* The variables keep their types (network_svc.py: the worker's deadlines and
\* counters, what a pass holds), for any number of panels and threads.
THEOREM TypeCorrect == Spec => []TypeOK
<1>1. Init => TypeOK /\ Aimed
  BY TypeInit DEF Init, Aimed, Idle, AliasPoints
<1>2. TypeOK /\ Aimed /\ [Next]_vars => TypeOK' /\ Aimed'
  BY TypeStep, AimedStep
<1> QED
  BY <1>1, <1>2, PTL DEF Spec

-----------------------------------------------------------------------------
(* One panel: the passes keep the address bound. *)

OnePanel == \A p, q \in Procs : p = q

\* One thread is in a pass: _alias_lock.
OnePass ==
  \A t, u \in Threads : act[t].pc \in AliasPoints /\ act[u].pc \in AliasPoints => t = u

\* A pass removes only copies that are not its target's, and only while the target has
\* one.
MoveSafe ==
  \A t \in Threads :
    /\ act[t].pc \in {"add", "move"} => act[t].to \notin act[t].from
    /\ act[t].pc = "move" => act[t].to \in at \/ torn

BoundInv == OnePass /\ MoveSafe /\ Bound

\* What happens to the address outside the passes.
Mild ==
  \/ UNCHANGED <<at, torn>>
  \/ \E d \in Devices : /\ at' = at \ {d}
                        /\ torn \/ at' = {} => torn'
                        /\ \A t \in Threads : act[t].to = d => torn'

PassesStay ==
  \A u \in Threads : \/ act'[u] = act[u]
                     \/ act[u].pc \notin AliasPoints /\ act'[u].pc \notin AliasPoints

LEMMA OutsidePasses == ASSUME BoundInv, Mild, PassesStay PROVE BoundInv'
<1>1. OnePass'
  BY DEF BoundInv, OnePass, PassesStay
<1>2. MoveSafe'
  <2>1. ASSUME NEW u \in Threads, act'[u].pc \in {"add", "move"}
        PROVE  act'[u] = act[u]
    BY <2>1 DEF PassesStay, AliasPoints
  <2>2. ASSUME NEW u \in Threads, act[u].to \in at \/ torn
        PROVE  act[u].to \in at' \/ torn'
    BY <2>2 DEF Mild
  <2> QED
    BY <2>1, <2>2 DEF BoundInv, MoveSafe
<1>3. Bound'
  <2>1. CASE UNCHANGED <<at, torn>>
    <3>1. ASSUME NEW u \in Threads, act[u].pc = "reroute" PROVE act'[u].pc = "reroute"
      BY <3>1 DEF PassesStay, AliasPoints
    <3> QED
      BY <2>1, <3>1 DEF BoundInv, Bound, At
  <2>2. CASE ~UNCHANGED <<at, torn>>
    BY <2>2 DEF Mild, Bound
  <2> QED
    BY <2>1, <2>2
<1> QED
  BY <1>1, <1>2, <1>3, Zenon DEF BoundInv

LEMMA DropsMild == ASSUME NEW d \in Devices, Drops(d) PROVE Mild
BY Zenon DEF Drops, Mild

LEMMA RadioMild == ASSUME NEW on \in BOOLEAN, RadioGoes(on) PROVE Mild
<1>1. UNCHANGED <<at, torn>> \/ Drops(Wifi)
  BY Zenon DEF RadioGoes
<1> QED
  BY <1>1, DropsMild, NetworkAssumption, Zenon DEF Mild

\* A thread of a pass moves: no other is in one.
LEMMA InPass ==
  ASSUME BoundInv, NEW t \in Threads, act[t].pc \in AliasPoints,
         \A u \in Threads : u # t => act'[u] = act[u]
  PROVE  OnePass' /\ \A u \in Threads : u # t => act'[u].pc \notin AliasPoints
BY DEF BoundInv, OnePass

\* What the moved thread alone must show.
LEMMA MovedSafe ==
  ASSUME BoundInv, NEW t \in Threads, act[t].pc \in AliasPoints,
         \A u \in Threads : u # t => act'[u] = act[u],
         act'[t].pc \in {"add", "move"} => act'[t].to \notin act'[t].from,
         act'[t].pc = "move" => act'[t].to \in at' \/ torn',
         at' = {} => torn' \/ act'[t].pc = "reroute"
  PROVE  BoundInv'
<1>1. OnePass' /\ \A u \in Threads : u # t => act'[u].pc \notin AliasPoints
  BY InPass
<1>2. MoveSafe'
  BY <1>1 DEF MoveSafe, AliasPoints
<1>3. Bound'
  BY DEF Bound, At
<1> QED
  BY <1>1, <1>2, <1>3, Zenon DEF BoundInv

\* The address is somewhere while a pass is at none of its rebuilding steps.
LEMMA SomewhereInPass ==
  ASSUME BoundInv, NEW t \in Threads, act[t].pc \in AliasPoints \ {"reroute"}
  PROVE  at = {} => torn
BY DEF BoundInv, Bound, OnePass, At, AliasPoints

LEMMA BoundInit == Init => BoundInv
<1> SUFFICES ASSUME Init PROVE BoundInv
  OBVIOUS
<1>1. \A t \in Threads : act[t].pc = "idle"
  BY DEF Init, Idle
<1>2. OnePass /\ MoveSafe
  BY <1>1 DEF OnePass, MoveSafe, AliasPoints
<1>3. Bound
  BY Zenon DEF Init, Bound
<1> QED
  BY <1>2, <1>3, Zenon DEF BoundInv

LEMMA BoundPass ==
  ASSUME TypeOK, TypeOK', BoundInv, NEW t \in Threads,
         \/ Locate(t) \/ Add(t) \/ Check(t) \/ Unroute(t) \/ Reroute(t)
         \/ \E d \in Devices : Move(t, d)
  PROVE  BoundInv'
<1>1. act[t].pc \in AliasPoints
  BY Zenon DEF Locate, Add, Check, Unroute, Reroute, Move, At, AliasPoints
<1>a. act[t].pc # "reroute" => (at = {} => torn)
  BY <1>1, SomewhereInPass
<1>2. CASE Locate(t)
  <2> DEFINE to == act[t].to
             from == at \ {to}
             remedy == Remedy(to \in at, from # {}, route)
  <2>1. UNCHANGED at /\ (at = {} => torn')
    BY <1>2, Zenon DEF Locate
  <2>2. CASE PassOver(t)
    BY <1>1, <2>1, <2>2, Ended, MovedSafe DEF Idle
  <2>3. CASE ~PassOver(t)
    <3>1. Goes(t, remedy, to, from) /\ (remedy = "move" => to \in at)
      BY <1>2, <2>3, Zenon DEF Locate, Remedy
    <3>2. /\ act'[t].pc = remedy /\ act'[t].to = to /\ act'[t].from = from
          /\ \A u \in Threads : u # t => act'[u] = act[u]
      BY <3>1, Moved, Zenon
    <3>3. to \notin from
      OBVIOUS
    <3> QED
      BY <1>1, <2>1, <3>1, <3>2, <3>3, MovedSafe, Zenon
  <2> QED
    BY <2>2, <2>3
<1>3. CASE Add(t)
  <2>1. CASE AddsTo(act[t].to)
    <3>1. act[t].to \in at'
      BY <2>1 DEF AddsTo
    <3>2. PassOver(t) \/ GoesOn(t, "move")
      BY <1>3, Zenon DEF Add, Refused
    <3>3. act[t].to \notin act[t].from
      BY <1>3 DEF Add, At, BoundInv, MoveSafe
    <3>4. at' # {}
      BY <3>1
    <3>5. CASE PassOver(t)
      BY <1>1, <3>4, <3>5, Ended, MovedSafe DEF Idle
    <3>6. CASE GoesOn(t, "move")
      BY <1>1, <3>1, <3>3, <3>4, <3>6, MovedOn, MovedSafe
    <3> QED
      BY <3>2, <3>5, <3>6
  <2>2. CASE Refused /\ PassOver(t)
    <3>1. at' = {} => torn'
      BY <2>2, Zenon DEF Refused
    <3> QED
      BY <1>1, <2>2, <3>1, Ended, MovedSafe DEF Idle
  <2> QED
    BY <1>3, <2>1, <2>2, Zenon DEF Add
<1>4. CASE Check(t)
  <2>1. UNCHANGED <<at, torn>> /\ (PassOver(t) \/ GoesOn(t, "unroute")) /\ act[t].pc = "check"
    BY <1>4, Zenon DEF Check, machine, At
  <2>2. at' = {} => torn'
    BY <1>a, <2>1, Zenon
  <2>3. CASE PassOver(t)
    BY <1>1, <2>2, <2>3, Ended, MovedSafe DEF Idle
  <2>4. CASE GoesOn(t, "unroute")
    BY <1>1, <2>2, <2>4, MovedOn, MovedSafe
  <2> QED
    BY <2>1, <2>3, <2>4
<1>5. CASE Unroute(t)
  <2>1. CASE GoesOn(t, "reroute")
    BY <1>1, <2>1, MovedOn, MovedSafe
  <2>2. CASE Refused /\ PassOver(t)
    <3>1. at' = {} => torn'
      BY <2>2, Zenon DEF Refused
    <3> QED
      BY <1>1, <2>2, <3>1, Ended, MovedSafe DEF Idle
  <2> QED
    BY <1>5, <2>1, <2>2, Zenon DEF Unroute
<1>6. CASE Reroute(t)
  <2>1. AddsTo(act[t].to) \/ Refused
    BY <1>6, Zenon DEF Reroute
  <2>3. at' = {} => torn'
    <3>1. CASE AddsTo(act[t].to)
      BY <3>1 DEF AddsTo
    <3>2. CASE Refused
      BY <3>2, Zenon DEF Refused
    <3> QED
      BY <2>1, <3>1, <3>2
  <2>4. PassOver(t)
    BY <1>6, Zenon DEF Reroute
  <2> QED
    BY <1>1, <2>3, <2>4, Ended, MovedSafe DEF Idle
<1>7. ASSUME NEW d \in Devices, Move(t, d) PROVE BoundInv'
  <2>1. /\ act[t].pc = "move" /\ d \in act[t].from
        /\ \E pc \in {"check", "move"} : Goes(t, pc, act[t].to, act[t].from \ {d})
        /\ RemovesFrom(d) \/ Refused
    BY <1>7, Zenon DEF Move, At
  <2>2. act[t].to # d /\ act[t].to \notin act[t].from \ {d}
    BY <2>1 DEF BoundInv, MoveSafe
  <2>3. act[t].to \in at \/ torn
    BY <2>1, Zenon DEF BoundInv, MoveSafe
  <2>4. act[t].to \in at' \/ torn'
    <3>1. CASE RemovesFrom(d)
      <4>1. at' = at \ {d} /\ torn' = torn
        BY <3>1, Zenon DEF RemovesFrom
      <4>2. act[t].to \in at => act[t].to \in at'
        BY <2>2, <4>1
      <4> QED
        BY <2>3, <4>1, <4>2, Zenon
    <3>2. CASE Refused
      BY <2>3, <3>2, Zenon DEF Refused
    <3> QED
      BY <2>1, <3>1, <3>2
  <2>5. at' = {} => torn'
    BY <2>4
  <2> QED
    BY <1>1, <2>1, <2>2, <2>4, <2>5, Moved, MovedSafe
<1> QED
  BY <1>2, <1>3, <1>4, <1>5, <1>6, <1>7, Zenon

LEMMA BoundStep ==
  ASSUME OnePanel, TypeOK, TypeOK', BoundInv, [Next]_vars
  PROVE  BoundInv'
<1>0. ASSUME UNCHANGED act, Mild PROVE BoundInv'
  BY <1>0, OutsidePasses DEF PassesStay
<1>1. ASSUME \/ UNCHANGED vars \/ RouteLost \/ PingGone \/ SetEnabled \/ SetAuto
             \/ \E p \in Procs : Boot(p) \/ \E what \in {"tick", "alias"} : Deadline(p, what)
      PROVE  BoundInv'
  <2>1. UNCHANGED <<act, at, torn>>
    BY <1>1, Zenon DEF vars, machine, RouteLost, PingGone, SetEnabled, SetAuto, Boot, Deadline
  <2> QED
    BY <1>0, <2>1 DEF Mild
<1>2. CASE SomebodySwitches
  <2>1. Mild
    BY <1>2, RadioMild, Zenon DEF SomebodySwitches
  <2> QED
    BY <1>0, <1>2, <2>1, Zenon DEF SomebodySwitches
<1>3. ASSUME NEW d \in Devices, NEW s \in States, LinkChanges(d, s) PROVE BoundInv'
  <2>1. UNCHANGED act /\ (Drops(d) \/ UNCHANGED <<at, torn>>)
    BY <1>3, Zenon DEF LinkChanges
  <2> QED
    BY <1>0, <2>1, DropsMild, Zenon DEF Mild
<1>4. ASSUME NEW p \in Procs, Crash(p) PROVE BoundInv'
  <2>1. \A t \in Threads : act'[t].pc = "idle"
    BY <1>4, PairOf DEF Crash, OnePanel, Idle
  <2>2. at' = {} => torn'
    BY <1>4, Zenon DEF Crash
  <2>3. OnePass' /\ MoveSafe'
    BY <2>1 DEF OnePass, MoveSafe, AliasPoints
  <2> QED
    BY <2>2, <2>3, Zenon DEF BoundInv, Bound
<1>5. ASSUME NEW t \in Threads,
             \/ WakeForTick(t) \/ WakeForAlias(t) \/ PostTick(t) \/ PostAlias(t)
             \/ Probe(t) \/ ProbeRaises(t) \/ Switch(t) \/ \E known \in BOOLEAN : Decide(t, known)
      PROVE  BoundInv'
  <2>1. PassesStay
    BY <1>5, Elsewhere DEF PassesStay
  <2>2. UNCHANGED machine \/ RadioGoes(At(t, "turnOn"))
    BY <1>5, Zenon DEF WakeForTick, WakeForAlias, PostTick, PostAlias, Probe, ProbeRaises, Switch, Decide
  <2>3. Mild
    <3>1. At(t, "turnOn") \in BOOLEAN
      BY DEF At
    <3> QED
      BY <2>2, <3>1, RadioMild, Zenon DEF machine, Mild
  <2> QED
    BY <2>1, <2>3, OutsidePasses
<1>6. ASSUME NEW t \in Threads, BeginPass(t) PROVE BoundInv'
  <2>1. \A u \in Threads : act[u].pc \notin AliasPoints
    BY <1>6, PairOf DEF BeginPass, Free, OnePanel
  <2>2. UNCHANGED <<at, torn>> /\ act[t].pc = "alias"
    BY <1>6, Zenon DEF BeginPass, machine, At
  <2>3. \A u \in Threads : u # t => act'[u] = act[u]
    <3>1. CASE PassOver(t)
      BY <3>1, Ended
    <3>2. ASSUME NEW d \in Devices, Goes(t, "locate", d, {})
          PROVE  \A u \in Threads : u # t => act'[u] = act[u]
      BY <3>2, Moved
    <3> QED
      BY <1>6, <3>1, <3>2, Zenon DEF BeginPass
  <2>4. act'[t].pc \in {"locate", "idle"}
    <3>1. CASE PassOver(t)
      BY <3>1, Ended DEF Idle
    <3>2. ASSUME NEW d \in Devices, Goes(t, "locate", d, {}) PROVE act'[t].pc = "locate"
      BY <3>2, Moved
    <3> QED
      BY <1>6, <3>1, <3>2, Zenon DEF BeginPass
  <2>5. OnePass'
    BY <2>1, <2>3 DEF OnePass
  <2>6. MoveSafe'
    BY <2>1, <2>3, <2>4 DEF MoveSafe, AliasPoints
  <2>7. at = {} => torn
    BY <2>1 DEF BoundInv, Bound, At, AliasPoints
  <2>8. Bound'
    BY <2>2, <2>7, Zenon DEF Bound
  <2> QED
    BY <2>5, <2>6, <2>8, Zenon DEF BoundInv
<1> QED
  BY StepCases, BoundPass, <1>1, <1>2, <1>3, <1>4, <1>5, <1>6, Zenon

\* With one panel on the machine, whatever its threads, the cables, the commands and
\* the settings do, the address is nowhere only for a reason outside the order of the
\* commands, or while its route is rebuilt (_ensure_aliases_on_preferred under
\* _alias_lock: the target is given the address before the others lose it).
THEOREM BoundEver == ASSUME OnePanel PROVE Spec => []Bound
<1>1. Init => TypeOK /\ Aimed /\ BoundInv
  BY TypeInit, BoundInit DEF Init, Aimed, Idle, AliasPoints
<1>2. TypeOK /\ Aimed /\ BoundInv /\ [Next]_vars => TypeOK' /\ Aimed' /\ BoundInv'
  BY TypeStep, AimedStep, BoundStep
<1>3. BoundInv => Bound
  BY Zenon DEF BoundInv
<1> QED
  BY <1>1, <1>2, <1>3, PTL DEF Spec

=============================================================================
