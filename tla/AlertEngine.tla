---------------------------- MODULE AlertEngine ----------------------------
(***************************************************************************)
(* The alert engine of hub/alerts.py with hub/freshness_svc.py.  A sweep   *)
(* (check_once) reads the cached status and the state file, compares every *)
(* watched thing with what the file says of it, journals what changed and  *)
(* writes the file anew.  One thread sweeps for ever; POST                 *)
(* /api/alerts/check sweeps on a request's thread, and no lock is held     *)
(* between the read and the write.                                         *)
(***************************************************************************)
EXTENDS Integers, FiniteSets

CONSTANTS
  Keys,        \* what is watched: keys of alert_state.json
  Loop,        \* the alert-engine thread
  Posts,       \* request threads that may run POST /api/alerts/check
  Cooldown,    \* sweeps between two alerts of a condition that stays bad
  Missing,     \* no entry for a key
  MaxFaults    \* bound on crashes, failed saves and unreadable state files

ASSUME AlertAssumption ==
  /\ Cooldown \in Nat \ {0} /\ MaxFaults \in Nat
  /\ Loop \notin Posts
  /\ Missing \notin {"ok", "warn", "down", "stopped"}

VARIABLES
  kind,        \* per key: which check looks after it
  world,       \* per key: what a probe would find
  status,      \* the cached full_status: which services are in which state
  disk,        \* alert_state.json, per key
  sweep,       \* per thread: a sweep in progress
  rested,      \* the interval has passed since the loop's last sweep
  up,          \* the panel process is alive
  faults,
  (* What the properties observe and the code does not keep. *)
  told,        \* per key: the last alert about it
  since,       \* per key: sweeps since its last problem alert, up to Cooldown
  lapsed,      \* per key: its history broke since its last problem alert
  seen,        \* per key: the reading behind what is on the disk
  renewed      \* the status snapshot expired since the last sweep was saved

vars == <<kind, world, status, disk, sweep, rested, up, faults, told, since,
          lapsed, seen, renewed>>
history == <<told, since, lapsed, seen, renewed>>

Threads == {Loop} \cup Posts

Bad == {"warn", "down"}

\* What each probe may find: a service may be off the list, a sample, a disk
\* or a UPS unreadable, and the volume of an artifact not mounted.
Readings ==
  [service   |-> {"ok", "warn", "down", "stopped", "gone"},
   resource  |-> {"under", "gap", "over", "unread"},
   smart     |-> {"ok", "warn", "worse", "down", "unread"},
   power     |-> {"ok", "down", "unread"},
   battery   |-> {"ok", "down", "unread"},
   freshness |-> {"ok", "down", "unmounted"}]

Kinds == DOMAIN Readings

Services == {k \in Keys : kind[k] = "service"}

\* pending: in _service_pending.  age: since _resource_last, _smart_last or
\* _freshness_last, up to Cooldown.  detail: in _smart_detail, as a grade.
Levels == {"ok", "warn", "down", Missing}

Entries ==
  [x \in Kinds |->
     [level   : Levels \cup IF x = "service" THEN {"stopped"} ELSE {},
      pending : IF x = "service" THEN BOOLEAN ELSE {FALSE},
      age     : IF x \in {"resource", "smart", "freshness"} THEN 0 .. Cooldown ELSE {Cooldown},
      detail  : IF x = "smart" THEN {"", "warn", "worse", "down"} ELSE {""}]]

NoEntry == [level |-> Missing, pending |-> FALSE, age |-> Cooldown, detail |-> ""]

Idle == [at |-> "idle", todo |-> {}, snap |-> <<>>,
         prev |-> <<>>, new |-> <<>>]

Steps == {"idle", "load", "check", "save"}

TypeOK ==
  /\ kind \in [Keys -> Kinds]
  /\ \A k \in Keys : world[k] \in Readings[kind[k]]
  /\ status = <<>> \/ \A k \in Services : status[k] \in Readings[kind[k]]
  /\ renewed \in BOOLEAN
  /\ \A k \in Keys : disk[k] \in Entries[kind[k]]
  /\ \A t \in Threads :
       /\ sweep[t].at \in Steps
       /\ sweep[t].at \in {"check", "save"} =>
            \A k \in Keys : {sweep[t].prev[k], sweep[t].new[k]} \subseteq Entries[kind[k]]
       /\ sweep[t].todo # {} => sweep[t].at = "check"
  /\ rested \in BOOLEAN /\ up \in BOOLEAN /\ faults \in 0 .. MaxFaults
  /\ told \in [Keys -> {"nothing", "problem", "resolved"}]
  /\ since \in [Keys -> 0 .. Cooldown]
  /\ lapsed \in [Keys -> BOOLEAN]
  /\ \A k \in Keys : seen[k] \in Readings[kind[k]]

Expired == <<>>

\* A panel about to start, on a fresh install or after a quiet earlier life.
Init ==
  /\ kind \in [Keys -> Kinds]
  /\ world = [k \in Keys |-> IF kind[k] = "resource" THEN "under" ELSE "ok"]
  /\ status = Expired
  /\ \E level \in {"ok", Missing} : disk = [k \in Keys |-> [NoEntry EXCEPT !.level = level]]
  /\ sweep = [t \in Threads |-> Idle]
  /\ rested = TRUE /\ up = FALSE /\ faults = 0
  /\ told = [k \in Keys |-> "nothing"]
  /\ since = [k \in Keys |-> Cooldown]
  /\ lapsed = [k \in Keys |-> FALSE]
  /\ seen = world
  /\ renewed = TRUE

-----------------------------------------------------------------------------
(* The checks: what the file says of a key (old) and a reading give the new *)
(* entry and what is journalled.                                            *)

\* Broken: the maps that limit repetitions are lost.
CarriedNothing(old) == NoEntry

\* What a pass that learns nothing leaves: the maps are carried over, the
\* level is not.
Carried(old) == [old EXCEPT !.level = Missing]

Keep(old, new, level) == new = [old EXCEPT !.level = level]

Settle(old, new, level) == new = [old EXCEPT !.level = level, !.pending = FALSE]

\* Stamped with the time of the alert.
Stamp(old, new, level) == new = [old EXCEPT !.level = level, !.age = 0]

\* Broken: a first bad sweep pages at once.
HeldNever(old) == FALSE

\* A first bad sweep after a good one.
HeldBack(old) == old.level \in {"ok", "stopped"} /\ ~old.pending

\* _service_transition_alerts: a first bad sweep is held back, the next one
\* pages; a row that is gone closes the fault it had.
ServiceCheck(old, r, new, says) ==
  \/ /\ r = "gone" /\ old.level \in Bad
     /\ Settle(old, new, Missing) /\ says = "resolved"
  \/ /\ r = "gone" /\ old.level \notin Bad
     /\ Keep(old, new, Missing) /\ says = "nothing"
  \/ /\ r # "gone" /\ old.level = Missing
     /\ Settle(old, new, r) /\ says = "nothing"
  \/ /\ r \in Bad /\ HeldBack(old)
     /\ new = [old EXCEPT !.level = r, !.pending = TRUE] /\ says = "nothing"
  \/ /\ r \in Bad /\ old.level # Missing /\ ~HeldBack(old)
     /\ old.pending \/ r # old.level
     /\ Settle(old, new, r) /\ says = "problem"
  \/ /\ r = old.level /\ r \in Bad /\ ~old.pending
     /\ Keep(old, new, r) /\ says = "nothing"
  \/ /\ r = "ok" /\ old.level \in Bad
     /\ Settle(old, new, r) /\ says = IF old.pending THEN "nothing" ELSE "resolved"
  \/ /\ r = "stopped" \/ (r = "ok" /\ old.level \in {"ok", "stopped"})
     /\ old.level # Missing
     /\ Settle(old, new, r) /\ says = "nothing"

\* Broken: a recovery ends the quiet window.
QuietWhileBad(old) == old.level = "warn" /\ old.age < Cooldown

\* Not yet a cooldown since the last alert of the condition.
Quiet(old) == old.age < Cooldown

\* Broken: within the gap below the limit the fault is forgotten.
GapForgets(old) == "ok"

\* Within the gap a fault stays one.
InGap(old) == IF old.level = "warn" THEN "warn" ELSE "ok"

\* _check_resource_thresholds: a hysteresis below the limit, and a quiet
\* window after each alert that a recovery in between does not shorten.
ResourceCheck(old, r, new, says) ==
  \/ r = "unread" /\ new = Carried(old) /\ says = "nothing"
  \/ /\ r = "over" /\ old.level # "warn" /\ Quiet(old)
     /\ Keep(old, new, "ok") /\ says = "nothing"
  \/ /\ r = "over" /\ ~Quiet(old)
     /\ Stamp(old, new, "warn") /\ says = "problem"
  \/ /\ r = "over" /\ old.level = "warn" /\ Quiet(old)
     /\ Keep(old, new, "warn") /\ says = "nothing"
  \/ /\ r = "gap"
     /\ Keep(old, new, InGap(old)) /\ says = "nothing"
  \/ /\ r = "under"
     /\ Keep(old, new, "ok") /\ says = IF old.level = "warn" THEN "resolved" ELSE "nothing"

Level(r) == IF r = "worse" THEN "warn" ELSE r

\* Broken: like a service, a disk seen for the first time is not announced.
SmartFiresOnChange(old, r) == old.level \notin {Missing, Level(r)}

\* "worse" has every reason of "warn" and one more; a reason that went away is
\* no growth.
Grew(old, r) == old.detail \notin {"", r} /\ r # "warn"

\* _check_smart_health: fires on a new level, on a warning that grew, and
\* again after the cooldown while the disk is failing.
SmartFires(old, r) ==
  \/ old.level # Level(r)
  \/ Grew(old, r)
  \/ r = "down" /\ old.age = Cooldown

SmartCheck(old, r, new, says) ==
  \/ r = "unread" /\ new = Carried(old) /\ says = "nothing"
  \/ /\ r \notin {"unread", "ok"} /\ SmartFires(old, r)
     /\ new = [old EXCEPT !.level = Level(r), !.age = 0, !.detail = r]
     /\ says = "problem"
  \/ /\ r \notin {"unread", "ok"} /\ ~SmartFires(old, r)
     /\ new = [old EXCEPT !.level = Level(r), !.detail = r]
     /\ says = "nothing"
  \/ /\ r = "ok" /\ old.level \in Bad
     /\ new = [NoEntry EXCEPT !.level = "ok"] /\ says = "resolved"
  \/ /\ r = "ok" /\ old.level \notin Bad
     /\ Keep(old, new, "ok") /\ says = "nothing"

\* _check_ups, the key ups:power.
PowerCheck(old, r, new, says) ==
  \/ r = "unread" /\ new = Carried(old) /\ says = "nothing"
  \/ /\ r = "down"
     /\ Keep(old, new, "down") /\ says = IF old.level = "down" THEN "nothing" ELSE "problem"
  \/ /\ r = "ok"
     /\ Keep(old, new, "ok") /\ says = IF old.level = "down" THEN "resolved" ELSE "nothing"

\* _check_ups, the key ups:battery: cleared without a word.
BatteryCheck(old, r, new, says) ==
  \/ r = "unread" /\ new = Carried(old) /\ says = "nothing"
  \/ /\ r = "down"
     /\ Keep(old, new, "down") /\ says = IF old.level = "down" THEN "nothing" ELSE "problem"
  \/ /\ r = "ok"
     /\ Keep(old, new, "ok") /\ says = "nothing"

\* check_freshness: a job whose volume is not mounted counts as fresh.
FreshnessCheck(old, r, new, says) ==
  \/ /\ r = "down" /\ (old.level # "down" \/ old.age = Cooldown)
     /\ Stamp(old, new, "down") /\ says = "problem"
  \/ /\ r = "down" /\ old.level = "down" /\ old.age < Cooldown
     /\ Keep(old, new, "down") /\ says = "nothing"
  \/ /\ r # "down" /\ old.level = "down"
     /\ new = [NoEntry EXCEPT !.level = "ok"] /\ says = "resolved"
  \/ /\ r # "down" /\ old.level # "down"
     /\ Keep(old, new, "ok") /\ says = "nothing"

Verdict(k, old, r, new, says) ==
  \/ kind[k] = "service"   /\ ServiceCheck(old, r, new, says)
  \/ kind[k] = "resource"  /\ ResourceCheck(old, r, new, says)
  \/ kind[k] = "smart"     /\ SmartCheck(old, r, new, says)
  \/ kind[k] = "power"     /\ PowerCheck(old, r, new, says)
  \/ kind[k] = "battery"   /\ BatteryCheck(old, r, new, says)
  \/ kind[k] = "freshness" /\ FreshnessCheck(old, r, new, says)

-----------------------------------------------------------------------------
(* One sweep: check_once. *)

\* The passes run in this order.
Pass == [service |-> 1, resource |-> 2, smart |-> 3, power |-> 4, battery |-> 5,
         freshness |-> 6]

\* full_status: within its TTL the snapshot is shared by whoever asks.
Snapshot ==
  IF status # Expired THEN status
  ELSE [k \in Keys |-> IF kind[k] = "service" THEN world[k] ELSE Missing]

StartSweep(t) ==
  /\ up /\ sweep[t].at = "idle"
  /\ t = Loop => rested
  /\ sweep' = [sweep EXCEPT ![t] = [Idle EXCEPT !.at = "load", !.snap = Snapshot]]
  /\ status' = Snapshot
  /\ rested' = IF t = Loop THEN FALSE ELSE rested
  /\ UNCHANGED <<kind, world, disk, up, faults, history>>

Loads(t, prev) ==
  /\ sweep[t].at = "load"
  /\ sweep' = [sweep EXCEPT ![t].at = "check", ![t].todo = Keys,
                            ![t].prev = prev, ![t].new = [k \in Keys |-> Carried(prev[k])]]
  /\ UNCHANGED <<kind, world, status, disk, rested, up, told, since, seen,
                 renewed>>

LoadState(t) == Loads(t, disk) /\ UNCHANGED <<faults, lapsed>>

\* _load_state: a file that cannot be read or parsed reads as empty.
LoadUnreadable(t) ==
  /\ faults < MaxFaults
  /\ faults' = faults + 1
  /\ lapsed' = [k \in Keys |-> TRUE]
  /\ Loads(t, [k \in Keys |-> NoEntry])

\* A reading that leaves an alert open, or a service seen for the first time,
\* whose fault would go without one.
Breaks(t, k, r) ==
  \/ told[k] = "problem" /\ r \in {"unread", "stopped"}
  \/ kind[k] = "service" /\ sweep[t].prev[k].level = Missing

\* Services are judged by the snapshot, the rest by a probe of their own.
Check(t, k) ==
  /\ sweep[t].at = "check" /\ k \in sweep[t].todo
  /\ \A j \in sweep[t].todo : Pass[kind[k]] <= Pass[kind[j]]
  /\ \E new \in Entries[kind[k]], says \in {"nothing", "problem", "resolved"} :
       LET r == IF kind[k] = "service" THEN sweep[t].snap[k] ELSE world[k] IN
       /\ Verdict(k, sweep[t].prev[k], r, new, says)
       /\ sweep' = [sweep EXCEPT ![t].todo = @ \ {k}, ![t].new[k] = new,
                                 ![t].snap[k] = r,
                                 ![t].at = IF sweep[t].todo = {k} THEN "save" ELSE "check"]
       /\ told' = IF says = "nothing" THEN told ELSE [told EXCEPT ![k] = says]
       /\ since' = IF says = "problem" THEN [since EXCEPT ![k] = 0] ELSE since
       /\ lapsed' = [lapsed EXCEPT ![k] = says # "problem" /\ (@ \/ Breaks(t, k, r))]
  /\ UNCHANGED <<kind, world, status, disk, rested, up, faults, seen, renewed>>

Done(t) == sweep' = [sweep EXCEPT ![t] = Idle]

\* Written only when something changed, whatever another sweep wrote meanwhile.
SaveState(t) ==
  /\ sweep[t].at = "save"
  /\ Done(t)
  /\ disk' = IF sweep[t].new # sweep[t].prev THEN sweep[t].new ELSE disk
  /\ seen' = IF disk' = sweep[t].new THEN sweep[t].snap ELSE seen
  /\ renewed' = FALSE
  /\ UNCHANGED <<kind, world, status, rested, up, faults, told, since, lapsed>>

\* _save_state swallows the error of the write.
SaveFails(t) ==
  /\ sweep[t].at = "save" /\ sweep[t].new # sweep[t].prev /\ faults < MaxFaults
  /\ Done(t)
  /\ faults' = faults + 1
  /\ lapsed' = [k \in Keys |-> TRUE]
  /\ UNCHANGED <<kind, world, status, disk, rested, up, told, since, seen, renewed>>

-----------------------------------------------------------------------------
(* Time, the machine, and the life of the panel. *)

Quiescent == \A t \in Threads : sweep[t].at = "idle"

Older(n) == IF n < Cooldown THEN n + 1 ELSE n

\* The loop's wait: longer than the life of a status snapshot.
Rest ==
  /\ up /\ Quiescent /\ ~rested
  /\ rested' = TRUE
  /\ status' = Expired /\ renewed' = TRUE
  /\ disk' = [k \in Keys |-> [disk[k] EXCEPT !.age = Older(@)]]
  /\ since' = [k \in Keys |-> Older(since[k])]
  /\ UNCHANGED <<kind, world, sweep, up, faults, told, lapsed, seen>>

StatusExpires ==
  /\ status # Expired
  /\ status' = Expired /\ renewed' = TRUE
  /\ UNCHANGED <<kind, world, disk, sweep, rested, up, faults, told, since, lapsed, seen>>

Change(k) ==
  /\ \E r \in Readings[kind[k]] : world' = [world EXCEPT ![k] = r]
  /\ UNCHANGED <<kind, status, disk, sweep, rested, up, faults, history>>

Crash ==
  /\ up /\ faults < MaxFaults
  /\ up' = FALSE /\ faults' = faults + 1
  /\ sweep' = [t \in Threads |-> Idle]
  /\ status' = Expired /\ renewed' = TRUE
  /\ lapsed' = IF Quiescent THEN lapsed ELSE [k \in Keys |-> TRUE]
  /\ UNCHANGED <<kind, world, disk, rested, told, since, seen>>

\* A file that says nothing is seeded with the services as they are.
Seed ==
  [k \in Keys |-> IF kind[k] = "service" /\ world[k] # "gone"
                  THEN [NoEntry EXCEPT !.level = world[k]] ELSE NoEntry]

\* _loop, up to its first round.
Boot ==
  /\ ~up
  /\ up' = TRUE
  /\ rested' = TRUE
  /\ \/ /\ \E k \in Keys : disk[k] # NoEntry
        /\ UNCHANGED <<disk, faults, lapsed, seen>>
     \/ /\ \A k \in Keys : disk[k] = NoEntry
        /\ disk' = Seed
        /\ seen' = world
        /\ lapsed' = [k \in Keys |-> lapsed[k] \/ kind[k] = "service"]
        /\ UNCHANGED faults
     \/ /\ faults < MaxFaults
        /\ faults' = faults + 1
        /\ disk' = Seed
        /\ seen' = world
        /\ lapsed' = [k \in Keys |-> TRUE]
  /\ UNCHANGED <<kind, world, status, sweep, told, since, renewed>>

SweepStep(t) ==
  \/ StartSweep(t) \/ LoadState(t) \/ LoadUnreadable(t)
  \/ \E k \in Keys : Check(t, k)
  \/ SaveState(t) \/ SaveFails(t)

Next ==
  \/ \E t \in Threads : SweepStep(t)
  \/ \E k \in Keys : Change(k)
  \/ Rest \/ StatusExpires \/ Crash \/ Boot

Spec == Init /\ [][Next]_vars

\* The loop sweeps and waits, its probes have timeouts, and launchd starts a
\* dead panel again.  Nobody need POST, and the machine need not change.
FairSpec == Spec /\ WF_vars(SweepStep(Loop)) /\ WF_vars(Rest) /\ WF_vars(Boot)

-----------------------------------------------------------------------------
(* Properties. *)

Journals(k, says) ==
  /\ told' # told \/ since'[k] < since[k]
  /\ told'[k] = says
  /\ \E t \in Threads : k \in sweep[t].todo /\ k \notin sweep'[t].todo

\* Between sweeps the file and the journal agree: a fault recorded as told is
\* the last thing told, and what is recorded as well has no open alert, unless
\* the history of the key broke (check_once; a low battery is cleared silently).
LedgerMatches ==
  Quiescent /\ up =>
    \A k \in Keys : ~lapsed[k] =>
      /\ disk[k].level \in Bad /\ ~disk[k].pending => told[k] = "problem"
      /\ told[k] = "problem" /\ kind[k] # "battery" => disk[k].level \in Bad

\* Whatever is lost, a service that was well is not paged for unless the last
\* sweep that reached the disk saw it bad too (_service_transition_alerts:
\* "Page on a confirmed down/warn, not on a one-sweep flicker").
ConfirmedFault ==
  [][\A k \in Services : Journals(k, "problem") => seen[k] \in Bad]_vars

\* Two alerts of a resource are a cooldown apart, across recoveries and
\* missing samples, unless the stamp was lost (docs/notifications.md:20,
\* "re-announced at most once per cooldown_sec").
ResourceQuiet ==
  [][\A k \in Keys : kind[k] = "resource" /\ Journals(k, "problem") =>
       since[k] = Cooldown \/ lapsed[k]]_vars

\* A disk, a UPS, an artifact or a resource that stays bad has an open alert in
\* the end.  A recovery that was told and could not be saved hides the next
\* fault; that is the only way to stay silent.
StaysBadIsTold ==
  \A k \in Keys :
    <>[](kind[k] # "service" /\ world[k] \in {"over", "warn", "worse", "down"})
      => <>[](told[k] = "problem" \/ (lapsed[k] /\ told[k] = "resolved"))

\* A service held back is paged for only after a new look at the machine,
\* however soon somebody asks for another sweep (_service_transition_alerts:
\* "Still bad on the next sweep").
TwoLooks ==
  [][\A t \in Threads, k \in Services :
       sweep[t].prev # <<>> /\ sweep[t].prev[k].pending /\ Journals(k, "problem") => renewed]_vars

\* Power that is back is told once it is recorded (docs/notifications.md:22).
PowerRestoredTold ==
  Quiescent /\ up =>
    \A k \in Keys : kind[k] = "power" /\ disk[k].level = "ok" => told[k] # "problem"

=============================================================================
