-------------------------- MODULE NetworkFailover --------------------------
(***************************************************************************)
(* The network worker of hub/network_svc.py: the failover tick, which      *)
(* switches the Wi-Fi radio off while a wired gateway answers and on again *)
(* when the wire keeps failing, and the pass that keeps a managed address  *)
(* on the first usable device of the service order.  Both are run by one   *)
(* loop per panel, and at once by POST requests beside it.                 *)
(***************************************************************************)
EXTENDS Naturals, Sequences, FiniteSets, Functions

CONSTANTS
  Procs,        \* panel processes
  Posts,        \* HTTP threads of a panel
  Wifi,         \* the Wi-Fi device
  Order,        \* the network service order
  None,         \* no device
  FailAfter,    \* fail_threshold
  RecoverAfter, \* recover_threshold
  MaxFaults     \* bound on crashes, failing commands, lost routes, hands on the radio
                \* and requests

Devices == Range(Order)
Wired   == Devices \ {Wifi}
Threads == Procs \X ({"loop"} \cup Posts)

ASSUME NetworkAssumption ==
  /\ Order \in Seq(Devices) /\ Wifi \in Devices /\ None \notin Devices
  /\ "loop" \notin Posts
  /\ FailAfter \in Nat \ {0} /\ RecoverAfter \in Nat \ {0} /\ MaxFaults \in Nat

VARIABLES
  \* The machine.
  link,       \* per device: down; up without an own address; addressed; its gateway answers
  radio,      \* the Wi-Fi radio is on
  at,         \* the devices that carry the managed address
  route,      \* the address has its LOCAL route through lo0
  ping,       \* /sbin/ping is there
  \* The settings.
  enabled,    \* network_failover.enabled
  auto,       \* ip_aliases.auto_bind
  \* The panels.
  life,       \* per panel: down, or alive with or without the worker
  due,        \* next_failover, next_alias: what the worker's deadlines have released
  good, poor, \* wired_successes, wired_failures
  act,        \* the threads
  faults,
  torn        \* observed: why the address is nowhere is not the order of the commands

machine == <<link, radio, at, route, ping, torn>>
panel   == <<life, due, good, poor>>
vars    == <<machine, enabled, auto, panel, act, faults>>

\* A thread in network_failover_tick, which holds _failover_lock; waiting for
\* _alias_lock; in _ensure_aliases_on_preferred, which holds it.
TickPoints  == {"probe", "answered", "silent", "turnOff", "turnOn"}
AliasPoints == {"locate", "add", "move", "check", "unroute", "reroute"}
Points      == {"idle", "alias"} \cup TickPoints \cup AliasPoints

States == {"down", "bare", "addr", "gate"}

Acts == [pc : Points, to : Devices \cup {None}, from : SUBSET Devices]

TypeOK ==
  /\ link \in [Devices -> States]
  /\ radio \in BOOLEAN /\ route \in BOOLEAN /\ ping \in BOOLEAN /\ torn \in BOOLEAN
  /\ at \subseteq Devices
  /\ enabled \in BOOLEAN /\ auto \in BOOLEAN
  /\ life \in [Procs -> {"down", "plain", "worker"}]
  /\ due \in [Procs -> SUBSET {"tick", "alias"}]
  /\ good \in [Procs -> Nat] /\ poor \in [Procs -> Nat]
  /\ act \in [Threads -> Acts]
  /\ faults \in 0 .. MaxFaults

Idle == [pc |-> "idle", to |-> None, from |-> {}]

Init ==
  /\ link \in [Devices -> States]
  /\ radio \in BOOLEAN /\ ping = TRUE
  /\ link[Wifi] \in IF radio THEN {"down", "bare", "addr"} ELSE {"down"}
  /\ at \in SUBSET {d \in Devices : link[d] # "down"}
  /\ route = (at # {}) /\ torn = (at = {})
  /\ enabled \in BOOLEAN /\ auto \in BOOLEAN
  /\ life = [p \in Procs |-> IF auto \/ enabled THEN "worker" ELSE "plain"]
  /\ due = [p \in Procs |-> {"tick", "alias"}]
  /\ good = [p \in Procs |-> 0] /\ poor = [p \in Procs |-> 0]
  /\ act = [t \in Threads |-> Idle]
  /\ faults = 0

-----------------------------------------------------------------------------
(* What the panel reads. *)

\* _iface_usable: up, with an IPv4 address, be it the managed one.
Usable(d) == link[d] \in {"addr", "gate"} \/ (link[d] = "bare" /\ d \in at)

\* preferred_active_device: the first of the service order that is usable.
Preferred(d) ==
  \E i \in DOMAIN Order : /\ Order[i] = d /\ Usable(d)
                         /\ \A j \in 1 .. i - 1 : ~Usable(Order[j])

Answers == ping /\ \E d \in Wired : link[d] = "gate"

\* _probe_wired_device gets as far as ping only with an address and a router.
PingMissed == ~ping /\ \E d \in Wired : link[d] \in {"addr", "gate"}
NoPingTried == \A d \in Wired : link[d] # "gate"

Goes(t, pc, to, from) == act' = [act EXCEPT ![t] = [pc |-> pc, to |-> to, from |-> from]]
GoesOn(t, pc) == Goes(t, pc, act[t].to, act[t].from)
Ends(t) == act' = [act EXCEPT ![t] = Idle]

At(t, pc) == act[t].pc = pc
Forced(t) == t[2] # "loop"
Free(t, points) == \A u \in Threads : u[1] = t[1] => act[u].pc \notin points

Fault == faults < MaxFaults /\ faults' = faults + 1
NoFault == UNCHANGED faults

-----------------------------------------------------------------------------
(* What commands and cables do to the machine. *)

\* A device that goes down may take its addresses with it, and a copy that goes
\* may take the route.
Drops(d) ==
  \/ UNCHANGED <<at, route, torn>>
  \/ /\ d \in at
     /\ at' = at \ {d}
     /\ route' \in IF at' = {} THEN {FALSE} ELSE {route, FALSE}
     /\ torn' = (torn \/ at' = {} \/ \E t \in Threads : act[t].to = d)

RadioGoes(on) ==
  /\ radio' = on
  /\ IF on THEN UNCHANGED <<link, at, route, torn>>
           ELSE link' = [link EXCEPT ![Wifi] = "down"] /\ Drops(Wifi)
  /\ UNCHANGED ping

\* add_ip_alias, remove_ip_alias: ifconfig does it, or says no.
AddsTo(d) ==
  /\ at' = at \cup {d} /\ route' = TRUE /\ torn' = FALSE
  /\ UNCHANGED <<link, radio, ping>>

RemovesFrom(d) ==
  /\ d \in at
  /\ at' = at \ {d}
  /\ route' \in IF at' = {} THEN {FALSE} ELSE {route, FALSE}
  /\ UNCHANGED <<link, radio, ping, torn>>

\* Refused; an address that is nowhere by then stays there through no order of ours.
Refused ==
  /\ torn' = (torn \/ at = {})
  /\ UNCHANGED <<link, radio, at, route, ping>>

-----------------------------------------------------------------------------
(* network_failover_tick. *)

\* _failover_lock is free, and the policy is on: otherwise nothing happens.
TickStarts(t) ==
  /\ At(t, "idle") /\ life[t[1]] # "down"
  /\ enabled /\ Free(t, TickPoints)
  /\ GoesOn(t, "probe")

PostTick(t) ==
  /\ Forced(t) /\ TickStarts(t) /\ Fault
  /\ UNCHANGED <<machine, enabled, auto, panel>>

WakeForTick(t) ==
  /\ ~Forced(t) /\ TickStarts(t)
  /\ life[t[1]] = "worker" /\ "tick" \in due[t[1]]
  /\ UNCHANGED <<machine, enabled, auto, panel, faults>>

Probe(t) ==
  /\ At(t, "probe")
  /\ \/ Answers /\ GoesOn(t, "answered")
     \/ ~Answers /\ (ping \/ NoPingTried) /\ GoesOn(t, "silent")
  /\ UNCHANGED <<machine, enabled, auto, panel, faults>>

\* Without ping a silent wire is no finding: the tick raises, and in the worker its
\* deadline stays passed.
ProbeRaises(t) ==
  /\ At(t, "probe") /\ PingMissed
  /\ GoesOn(t, "idle")
  /\ UNCHANGED <<machine, enabled, auto, panel, faults>>

\* The worker's deadline moves on, and the alias pass has its turn.
TickEnds(t) ==
  /\ due' = IF Forced(t) THEN due ELSE [due EXCEPT ![t[1]] = @ \ {"tick"}]
  /\ GoesOn(t, IF ~Forced(t) /\ auto /\ "alias" \in due[t[1]] THEN "alias" ELSE "idle")

\* Broken: switches when the count is reached, and never after.
MetOnce(n, bound) == n = bound

Met(n, bound) == n >= bound

Bump(n, bound) == IF n > bound THEN n ELSE n + 1

\* Counts the answer, reads the radio (an unreadable one is neither on nor off) and
\* switches it once the count is met, or at once when forced.
Decide(t, known) ==
  LET p == t[1] IN
  /\ IF known THEN NoFault ELSE Fault
  /\ \/ /\ At(t, "answered")
        /\ good' = [good EXCEPT ![p] = Bump(@, RecoverAfter)]
        /\ poor' = [poor EXCEPT ![p] = 0]
        /\ IF known /\ radio /\ (Forced(t) \/ Met(good'[p], RecoverAfter))
           THEN GoesOn(t, "turnOff") /\ UNCHANGED due
           ELSE TickEnds(t)
     \/ /\ At(t, "silent")
        /\ poor' = [poor EXCEPT ![p] = Bump(@, FailAfter)]
        /\ good' = [good EXCEPT ![p] = 0]
        /\ IF known /\ ~radio /\ (Forced(t) \/ Met(poor'[p], FailAfter))
           THEN GoesOn(t, "turnOn") /\ UNCHANGED due
           ELSE TickEnds(t)
  /\ UNCHANGED <<machine, enabled, auto, life>>

\* set_wifi_power, then the addresses are looked at whatever came of it.
Switch(t) ==
  /\ At(t, "turnOff") \/ At(t, "turnOn")
  /\ \/ RadioGoes(At(t, "turnOn")) /\ NoFault
     \/ Fault /\ UNCHANGED machine
  /\ due' = IF Forced(t) THEN due ELSE [due EXCEPT ![t[1]] = @ \ {"tick"}]
  /\ GoesOn(t, IF Forced(t) \/ auto THEN "alias" ELSE "idle")
  /\ UNCHANGED <<enabled, auto, life, good, poor>>

-----------------------------------------------------------------------------
(* ensure_aliases_on_preferred. *)

PostAlias(t) ==
  /\ Forced(t) /\ At(t, "idle") /\ life[t[1]] # "down" /\ Fault
  /\ GoesOn(t, "alias")
  /\ UNCHANGED <<machine, enabled, auto, panel>>

WakeForAlias(t) ==
  /\ ~Forced(t) /\ At(t, "idle") /\ life[t[1]] = "worker"
  /\ auto /\ "alias" \in due[t[1]] /\ ~(enabled /\ "tick" \in due[t[1]])
  /\ GoesOn(t, "alias")
  /\ UNCHANGED <<machine, enabled, auto, panel, faults>>

\* The pass is over: the worker sets the next deadline.
PassOver(t) ==
  /\ Ends(t)
  /\ due' = IF Forced(t) THEN due ELSE [due EXCEPT ![t[1]] = @ \ {"alias"}]

\* Under _alias_lock: nothing to do, or the target is fixed for the pass.
BeginPass(t) ==
  /\ At(t, "alias") /\ Free(t, AliasPoints)
  /\ \/ /\ auto \/ Forced(t)
        /\ \E d \in Devices : Preferred(d) /\ Goes(t, "locate", d, {})
        /\ UNCHANGED due
     \/ /\ ~(auto \/ Forced(t)) \/ \A d \in Devices : ~Preferred(d)
        /\ PassOver(t)
  /\ UNCHANGED <<machine, enabled, auto, life, good, poor, faults>>

\* Broken: the old copies go first.
RemedyBreaks(on, others, ok) ==
  IF others THEN "move" ELSE IF ~on THEN "add" ELSE IF ok THEN "idle" ELSE "unroute"

\* Broken: an address that is listed is well.
RemedyUnrouted(on, others, ok) ==
  IF ~on THEN "add" ELSE IF others THEN "move" ELSE "idle"

Remedy(on, others, ok) ==
  IF ~on THEN "add" ELSE IF others THEN "move" ELSE IF ok THEN "idle" ELSE "unroute"

Locate(t) ==
  /\ At(t, "locate")
  /\ LET to == act[t].to
         from == at \ {to}
         remedy == Remedy(to \in at, from # {}, route) IN
     IF remedy = "idle" THEN PassOver(t) ELSE Goes(t, remedy, to, from) /\ UNCHANGED due
  /\ torn' = (at = {})
  /\ UNCHANGED <<link, radio, at, route, ping, enabled, auto, life, good, poor, faults>>

\* A copy that cannot be added leaves the others alone.
Add(t) ==
  /\ At(t, "add")
  /\ \/ /\ AddsTo(act[t].to) /\ NoFault
        /\ IF act[t].from = {} THEN PassOver(t) ELSE GoesOn(t, "move") /\ UNCHANGED due
     \/ Fault /\ Refused /\ PassOver(t)
  /\ UNCHANGED <<enabled, auto, life, good, poor>>

Move(t, d) ==
  /\ At(t, "move") /\ d \in act[t].from
  /\ \/ RemovesFrom(d) /\ NoFault
     \/ d \notin at /\ Refused /\ NoFault
     \/ Fault /\ Refused
  /\ LET from == act[t].from \ {d} IN
     Goes(t, IF from = {} THEN "check" ELSE "move", act[t].to, from)
  /\ UNCHANGED <<enabled, auto, panel>>

\* The move may have cost the route.
Check(t) ==
  /\ At(t, "check")
  /\ IF route THEN PassOver(t) ELSE GoesOn(t, "unroute") /\ UNCHANGED due
  /\ UNCHANGED <<machine, enabled, auto, life, good, poor, faults>>

\* The route is rebuilt by taking the address away and adding it again.
Unroute(t) ==
  /\ At(t, "unroute")
  /\ \/ RemovesFrom(act[t].to) /\ NoFault /\ GoesOn(t, "reroute") /\ UNCHANGED due
     \/ act[t].to \notin at /\ Refused /\ NoFault /\ PassOver(t)
     \/ Fault /\ Refused /\ PassOver(t)
  /\ UNCHANGED <<enabled, auto, life, good, poor>>

Reroute(t) ==
  /\ At(t, "reroute")
  /\ \/ AddsTo(act[t].to) /\ NoFault
     \/ Fault /\ Refused
  /\ PassOver(t)
  /\ UNCHANGED <<enabled, auto, life, good, poor>>

-----------------------------------------------------------------------------
(* Time, the machine, the settings, and the life of a panel. *)

Deadline(p, what) ==
  /\ life[p] = "worker" /\ what \notin due[p]
  /\ due' = [due EXCEPT ![p] = @ \cup {what}]
  /\ UNCHANGED <<machine, enabled, auto, life, good, poor, act, faults>>

\* A cable, a switch, a lease.
LinkChanges(d, s) ==
  /\ s # link[d]
  /\ d = Wifi => radio /\ s # "gate"
  /\ link' = [link EXCEPT ![d] = s]
  /\ IF s = "down" THEN Drops(d) ELSE UNCHANGED <<at, route, torn>>
  /\ UNCHANGED <<radio, ping, enabled, auto, panel, act, faults>>

RouteLost ==
  /\ Fault /\ route
  /\ route' = FALSE
  /\ UNCHANGED <<link, radio, at, ping, torn, enabled, auto, panel, act>>

\* POST /wifi/{state}, the menu bar.
SomebodySwitches ==
  /\ Fault /\ RadioGoes(~radio)
  /\ UNCHANGED <<enabled, auto, panel, act>>

PingGone ==
  /\ Fault /\ ping
  /\ ping' = FALSE
  /\ UNCHANGED <<link, radio, at, route, torn, enabled, auto, panel, act>>

SetEnabled ==
  /\ enabled' = ~enabled
  /\ UNCHANGED <<machine, auto, panel, act, faults>>

\* update_alias_auto_config; it starts no worker.
SetAuto ==
  /\ auto' = ~auto
  /\ UNCHANGED <<machine, enabled, panel, act, faults>>

Crash(p) ==
  /\ life[p] # "down" /\ Fault
  /\ life' = [life EXCEPT ![p] = "down"]
  /\ act' = [t \in Threads |-> IF t[1] = p THEN Idle ELSE act[t]]
  /\ torn' = (torn \/ at = {})
  /\ UNCHANGED <<link, radio, at, route, ping, enabled, auto, due, good, poor>>

\* start_alias_autobind: no worker when there is nothing to do at this moment.
Boot(p) ==
  /\ life[p] = "down"
  /\ life' = [life EXCEPT ![p] = IF auto \/ enabled THEN "worker" ELSE "plain"]
  /\ due' = [due EXCEPT ![p] = {"tick", "alias"}]
  /\ good' = [good EXCEPT ![p] = 0] /\ poor' = [poor EXCEPT ![p] = 0]
  /\ UNCHANGED <<machine, enabled, auto, act, faults>>

-----------------------------------------------------------------------------
Wake(t) == WakeForTick(t) \/ WakeForAlias(t)

Runs(t) ==
  \/ Probe(t) \/ ProbeRaises(t) \/ Switch(t)
  \/ \E known \in BOOLEAN : Decide(t, known)
  \/ BeginPass(t) \/ Locate(t) \/ Add(t) \/ Check(t) \/ Unroute(t) \/ Reroute(t)
  \/ \E d \in Devices : Move(t, d)

Next ==
  \/ \E t \in Threads : Wake(t) \/ Runs(t) \/ PostTick(t) \/ PostAlias(t)
  \/ \E p \in Procs : Crash(p) \/ Boot(p) \/ \E what \in {"tick", "alias"} : Deadline(p, what)
  \/ \E d \in Devices, s \in States : LinkChanges(d, s)
  \/ RouteLost \/ SomebodySwitches \/ PingGone \/ SetEnabled \/ SetAuto

Spec == Init /\ [][Next]_vars

\* Every command has a timeout, so a lock is free again; the worker sleeps until its
\* next deadline, and launchd starts a dead panel again.  Nobody need POST, and the
\* network need not change.
Fairness ==
  /\ \A t \in Threads : WF_vars(Wake(t)) /\ WF_vars(Runs(t))
  /\ \A p \in Procs : /\ WF_vars(Boot(p))
                      /\ \A what \in {"tick", "alias"} : WF_vars(Deadline(p, what))

FairSpec == Spec /\ Fairness

-----------------------------------------------------------------------------
(* Properties. *)

\* The managed address, once bound, is never nowhere because of the order of the
\* commands, except while its route is rebuilt: a cable, a refused command or a
\* dead panel must have had a part (_ensure_aliases_on_preferred: "add on preferred
\* then remove from others").
Bound ==
  at = {} => torn \/ \E t \in Threads : At(t, "reroute")

Working == \E p \in Procs : life[p] = "worker"

\* Under the policy the radio is off in the end while a wired gateway answers, and on
\* while none does, whatever was probed before the wire changed, whoever switched the
\* radio meanwhile, and across restarts (network_failover_tick: "Power-save Wi-Fi while
\* wired is healthy; restore it after stable failure").
RadioFollowsWire ==
  /\ <>[](enabled /\ Working /\ Answers) => <>[](~radio)
  /\ <>[](enabled /\ Working /\ ping /\ ~Answers) => <>[]radio

\* d is the first device with an address of its own, and no other can pass for it.
Leads(d) ==
  /\ link[d] \in {"addr", "gate"}
  /\ \A i, j \in DOMAIN Order : Order[j] = d /\ i < j => link[Order[i]] = "down"

\* The address ends up on the leading device alone, with its route
\* (_ensure_aliases_on_preferred).
AliasSettles ==
  \A d \in Devices :
    <>[](auto /\ Working /\ ping /\ Leads(d)) => <>[](at = {d} /\ route)

\* A device counts as usable by an address that lets it reach something
\* (_iface_usable: "primary or already has connectivity").
AliasLeavesDeadLink ==
  \A d \in Devices :
    <>[](/\ auto /\ Working /\ ping /\ link[d] = "addr"
         /\ \A e \in Devices \ {d} : link[e] \in {"down", "bare"}) => <>[](at = {d})

\* A tick that raises does not keep the worker from its other duty
\* (network_failover_tick: "The background loop wraps this tick in its own try").
AliasDespiteTick ==
  \A d \in Devices : <>[](auto /\ Working /\ Leads(d)) => <>[](at = {d} /\ route)

=============================================================================
