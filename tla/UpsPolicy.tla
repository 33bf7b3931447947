----------------------------- MODULE UpsPolicy -----------------------------
(***************************************************************************)
(* The UPS safe-shutdown policy of hub/ups_policy.py: a latch              *)
(*                                                                         *)
(*     idle -> engaged -> restoring -> idle                                *)
(*                                                                         *)
(* kept in data/ups-policy-state.json, a sweep that decides under a        *)
(* cross-process file lock, and one worker thread per process that stops   *)
(* the planned targets on battery and starts them again on mains power.    *)
(*                                                                         *)
(* Procs are the panel processes that share one data directory (the        *)
(* LaunchAgent panel and a packaged application).  A process may die       *)
(* between any two steps and is started again by launchd.                  *)
(***************************************************************************)
EXTENDS Naturals, FiniteSets

CONSTANTS
  Procs,      \* panel processes sharing data/
  Targets,    \* everything the policy's settings name, in the order of Rank
  Stacks,     \* the targets that are Compose stacks; the others are services
  Rank,       \* the configured stop order
  None,       \* no process: the lock is free, no worker is claimed
  Reused,     \* the claim of a dead process whose pid another program got
  MaxFaults,  \* bound on crashes and raising workers together
  MaxLost,    \* bound on saves of the state file that fail silently
  MaxTails    \* bound on finished workers that still have to drop their claim

ASSUME TargetsAssumption ==
  /\ Stacks \subseteq Targets
  /\ Rank \in [Targets -> Nat]
  /\ \A t, u \in Targets : Rank[t] = Rank[u] => t = u

ASSUME ValuesAssumption ==
  /\ None \notin Procs /\ Reused \notin Procs /\ None # Reused
  /\ MaxFaults \in Nat /\ MaxLost \in Nat /\ MaxTails \in Nat

VARIABLES
  disk,       \* the state file
  lock,       \* holder of ups-policy-state.lock across several steps
  sweep,      \* per process: how far the running sweep has come
  plan,       \* per process: the targets its sweep found running
  pc,         \* per process: the worker thread's next step
  todo,       \* per process: the steps of its snapshot it has not come to
  skip,       \* per process: the steps it will only record as skipped
  failed,     \* per process: the targets it could not start
  active,     \* the processes whose _worker_active event is set
  tail,       \* per process: workers that cleared the event, not the claim
  up,         \* the processes that are alive
  running,    \* the targets that really run
  view,       \* the targets the cached listing shows running
  reading,    \* the cached pmset reading, see Readings
  faults,     \* crashes and raising workers so far
  lostSaves,  \* saves lost so far
  (* What the properties observe and the code does not keep. *)
  owed,       \* targets the policy took down and neither restarted nor reported
  spared,     \* targets the plan of the current outage found down
  announced,  \* the alert of the current outage has been emitted
  sawAc,      \* a sweep has seen mains power since the latch
  lostAlert   \* a crash hit between this outage's latch and its alert

sweepVars  == <<sweep, plan>>
workerVars == <<pc, todo, skip, failed>>
threadVars == <<active, tail, up>>
worldVars  == <<running, view, reading>>
faultVars  == <<faults, lostSaves>>
observed   == <<spared, announced, sawAc, lostAlert>>
vars == <<disk, lock, sweepVars, workerVars, threadVars, worldVars, faultVars,
          owed, observed>>

Phases == {"idle", "engaged", "restoring"}

\* "low" is a reading on battery that fires _condition under an enabled policy,
\* "battery" one that does not, "unreadable" an absent or failed snapshot.
Readings == {"unreadable", "ac", "battery", "low"}

SweepPoints  == {"none", "planned", "latched", "stop", "restore"}
StopPoints   == {"stopLoad", "stopCheck", "stopMark", "stopRun", "stopRecord",
                 "stopFinish"}
StartPoints  == {"startLoad", "startRun"}
WorkerPoints == {"off", "exit"} \cup StopPoints \cup StartPoints

Disk == [phase : Phases, planned : SUBSET Targets, issued : SUBSET Targets,
         done : SUBSET Targets, stopDone : BOOLEAN,
         owner : Procs \cup {None, Reused}]

Blank == [phase |-> "idle", planned |-> {}, issued |-> {}, done |-> {},
          stopDone |-> FALSE, owner |-> None]

TypeOK ==
  /\ disk \in Disk
  /\ lock \in Procs \cup {None}
  /\ sweep \in [Procs -> SweepPoints]
  /\ plan \in [Procs -> SUBSET Targets]
  /\ pc \in [Procs -> WorkerPoints]
  /\ todo \in [Procs -> SUBSET Targets]
  /\ skip \in [Procs -> SUBSET Targets]
  /\ failed \in [Procs -> SUBSET Targets]
  /\ active \subseteq Procs
  /\ tail \in [Procs -> Nat]
  /\ up \subseteq Procs
  /\ running \subseteq Targets
  /\ view \subseteq Targets
  /\ reading \in Readings
  /\ faults \in Nat
  /\ lostSaves \in Nat
  /\ owed \subseteq Targets
  /\ spared \subseteq Targets
  /\ announced \in BOOLEAN
  /\ sawAc \in BOOLEAN
  /\ lostAlert \in BOOLEAN

Init ==
  /\ disk = Blank
  /\ lock = None
  /\ sweep = [p \in Procs |-> "none"]
  /\ plan = [p \in Procs |-> {}]
  /\ pc = [p \in Procs |-> "off"]
  /\ todo = [p \in Procs |-> {}]
  /\ skip = [p \in Procs |-> {}]
  /\ failed = [p \in Procs |-> {}]
  /\ active = {}
  /\ tail = [p \in Procs |-> 0]
  /\ up = Procs
  /\ running \in SUBSET Targets
  /\ view = running
  /\ reading = "ac"
  /\ faults = 0
  /\ lostSaves = 0
  /\ owed = {}
  /\ spared = {}
  /\ announced = FALSE
  /\ sawAc = TRUE
  /\ lostAlert = FALSE

-----------------------------------------------------------------------------
(* The state file and the two locks around it. *)

\* replace_bytes swaps the file in; _save_state swallows its OSError, so a save
\* may leave the old state in place.
Save(new) ==
  \/ /\ disk' = new
     /\ UNCHANGED faultVars
  \/ /\ lostSaves < MaxLost
     /\ lostSaves' = lostSaves + 1
     /\ UNCHANGED <<disk, faults>>

\* _record_step changes nothing once the steps have been popped.
StepSave(new) == Save(IF disk.phase = "idle" THEN disk ELSE new)

\* A worker's _mutate: the file lock is taken and released within the step.
LockFree == lock = None

\* _worker_busy: the event of this interpreter, or a claim whose pid answers.
Busy(p) == \/ p \in active
           \/ disk.owner \in up
           \/ disk.owner = Reused

-----------------------------------------------------------------------------
(* The sweep.  It holds the file lock from the load to its last step. *)

\* Broken: any answer of the sensor counts as the end of the outage.
SensorAnswers == reading # "unreadable"

PowerBack == reading = "ac"

\* Broken: a sequence is resumed only while the trigger condition holds.
StillTriggered == reading = "low"

OnBattery == reading \in {"battery", "low"}

SweepStart(p) == p \in up /\ sweep[p] = "none" /\ LockFree

\* Broken: only the threads of one process exclude each other.
SweepGotoUnlocked(p, point) ==
  /\ sweep' = [sweep EXCEPT ![p] = point]
  /\ UNCHANGED lock

SweepGoto(p, point) ==
  /\ sweep' = [sweep EXCEPT ![p] = point]
  /\ lock' = p

\* Idle and the trigger holds: build_plan resolves what runs from the cached
\* listing, before anything is written.
SweepPlan(p) ==
  /\ SweepStart(p)
  /\ disk.phase = "idle" /\ reading = "low"
  /\ SweepGoto(p, "planned")
  /\ plan' = [plan EXCEPT ![p] = view]
  /\ UNCHANGED <<disk, workerVars, threadVars, worldVars, faultVars, owed, observed>>

\* Broken: latches and goes straight to the stop sequence.
SweepLatchSilently(p) ==
  /\ sweep[p] = "planned"
  /\ SweepGoto(p, "stop")
  /\ plan' = [plan EXCEPT ![p] = {}]
  /\ Save([Blank EXCEPT !.phase = "engaged", !.planned = plan[p]])
  /\ spared' = Targets \ plan[p]
  /\ announced' = FALSE
  /\ sawAc' = FALSE
  /\ lostAlert' = FALSE
  /\ UNCHANGED <<workerVars, threadVars, worldVars, owed>>

\* The latch of _engage replaces the whole state, a worker's claim included.
SweepLatch(p) ==
  /\ sweep[p] = "planned"
  /\ SweepGoto(p, "latched")
  /\ Save([Blank EXCEPT !.phase = "engaged", !.planned = plan[p]])
  /\ plan' = [plan EXCEPT ![p] = {}]
  /\ spared' = Targets \ plan[p]
  /\ announced' = FALSE
  /\ sawAc' = FALSE
  /\ lostAlert' = FALSE
  /\ UNCHANGED <<workerVars, threadVars, worldVars, owed>>

SweepAnnounce(p) ==
  /\ sweep[p] = "latched"
  /\ SweepGoto(p, "stop")
  /\ announced' = TRUE
  /\ UNCHANGED <<disk, plan, workerVars, threadVars, worldVars, faultVars, owed,
                 spared, sawAc, lostAlert>>

\* Latched and mains power is back: restore, unless a worker is still at work.
SweepFlip(p) ==
  /\ SweepStart(p)
  /\ disk.phase # "idle" /\ PowerBack /\ ~Busy(p)
  /\ SweepGoto(p, "restore")
  /\ Save([disk EXCEPT !.phase = "restoring"])
  /\ sawAc' = (sawAc \/ reading = "ac")
  /\ UNCHANGED <<plan, workerVars, threadVars, worldVars, owed, spared,
                 announced, lostAlert>>

SweepWait(p) ==
  /\ SweepStart(p)
  /\ disk.phase # "idle" /\ PowerBack /\ Busy(p)
  /\ sawAc' = (sawAc \/ reading = "ac")
  /\ UNCHANGED <<disk, lock, sweepVars, workerVars, threadVars, worldVars,
                 faultVars, owed, spared, announced, lostAlert>>

\* Still on battery and a stop sequence died: start it again.
SweepResume(p) ==
  /\ SweepStart(p)
  /\ disk.phase = "engaged" /\ OnBattery
  /\ ~disk.stopDone /\ ~Busy(p)
  /\ SweepGoto(p, "stop")
  /\ UNCHANGED <<disk, plan, workerVars, threadVars, worldVars, faultVars, owed,
                 observed>>

\* _spawn: refused while the event is set; else claim the worker and start it.
SweepSpawn(p) ==
  /\ sweep[p] \in {"stop", "restore"}
  /\ sweep' = [sweep EXCEPT ![p] = "none"]
  /\ lock' = None
  /\ \/ /\ p \in active
        /\ UNCHANGED <<disk, pc, active, faultVars>>
     \/ /\ p \notin active
        /\ active' = active \cup {p}
        /\ pc' = [pc EXCEPT ![p] = IF sweep[p] = "stop" THEN "stopLoad"
                                                        ELSE "startLoad"]
        /\ Save([disk EXCEPT !.owner = p])
  /\ UNCHANGED <<plan, todo, skip, failed, tail, up, worldVars, owed, observed>>

-----------------------------------------------------------------------------
(* The worker thread. *)

Goto(p, point) == pc' = [pc EXCEPT ![p] = point]

\* Broken: the targets are taken in no particular order.
AnyStep(p, t) == t \in todo[p]

\* The step the worker's loop has come to.
Current(p, t) == t \in todo[p] /\ \A u \in todo[p] : Rank[t] <= Rank[u]

Drop(p, t) == todo' = [todo EXCEPT ![p] = @ \ {t}]

\* The thread ends and its local variables with it.
ThreadEnds(p) ==
  /\ Goto(p, "off")
  /\ todo' = [todo EXCEPT ![p] = {}]
  /\ skip' = [skip EXCEPT ![p] = {}]
  /\ failed' = [failed EXCEPT ![p] = {}]

\* The snapshot of _run_stop_sequence, with the engine and the compose files as
\* they are at that moment: a stack without either is only recorded.
StopLoad(p) ==
  /\ pc[p] = "stopLoad"
  /\ todo' = [todo EXCEPT ![p] = IF disk.phase = "idle" THEN {}
                                 ELSE Targets \ disk.done]
  /\ \E unable \in SUBSET Stacks :
       skip' = [skip EXCEPT ![p] = (Targets \ disk.planned) \cup unable]
  /\ Goto(p, "stopCheck")
  /\ UNCHANGED <<disk, lock, sweepVars, failed, threadVars, worldVars,
                 faultVars, owed, observed>>

\* The head of the loop reads the phase again, without the lock.
StopCheck(p) ==
  /\ pc[p] = "stopCheck"
  /\ \/ todo[p] = {} /\ Goto(p, "stopFinish")
     \/ todo[p] # {} /\ disk.phase # "engaged" /\ Goto(p, "exit")
     \/ todo[p] # {} /\ disk.phase = "engaged" /\ Goto(p, "stopMark")
  /\ UNCHANGED <<disk, lock, sweepVars, todo, skip, failed, threadVars,
                 worldVars, faultVars, owed, observed>>

StopSkip(p, t) ==
  /\ pc[p] = "stopMark" /\ Current(p, t) /\ t \in skip[p] /\ LockFree
  /\ StepSave([disk EXCEPT !.done = @ \cup {t}])
  /\ Drop(p, t)
  /\ Goto(p, "stopCheck")
  /\ UNCHANGED <<lock, sweepVars, skip, failed, threadVars, worldVars, owed,
                 observed>>

\* stop_issued is written before the command runs.
StopMark(p, t) ==
  /\ pc[p] = "stopMark" /\ Current(p, t) /\ t \notin skip[p] /\ LockFree
  /\ StepSave([disk EXCEPT !.issued = @ \cup {t}])
  /\ Goto(p, "stopRun")
  /\ UNCHANGED <<lock, sweepVars, todo, skip, failed, threadVars, worldVars,
                 owed, observed>>

\* `docker compose stop`, or the service's stop action: it may leave the target
\* up (an error) or down (success, or an error after the containers exited).
StopRun(p, t) ==
  /\ pc[p] = "stopRun" /\ Current(p, t)
  /\ \/ UNCHANGED <<running, owed>>
     \/ /\ running' = running \ {t}
        /\ owed' = owed \cup (running \cap {t})
  /\ Goto(p, "stopRecord")
  /\ UNCHANGED <<disk, lock, sweepVars, todo, skip, failed, threadVars, view,
                 reading, faultVars, observed>>

StopRecord(p, t) ==
  /\ pc[p] = "stopRecord" /\ Current(p, t) /\ LockFree
  /\ StepSave([disk EXCEPT !.done = @ \cup {t}])
  /\ Drop(p, t)
  /\ Goto(p, "stopCheck")
  /\ UNCHANGED <<lock, sweepVars, skip, failed, threadVars, worldVars, owed,
                 observed>>

\* Written whatever the phase has become in the meantime.
StopFinish(p) ==
  /\ pc[p] = "stopFinish" /\ LockFree
  /\ Save([disk EXCEPT !.stopDone = TRUE])
  /\ Goto(p, "exit")
  /\ UNCHANGED <<lock, sweepVars, todo, skip, failed, threadVars, worldVars,
                 owed, observed>>

\* Broken: restores every resolved step, skipped ones included.
Resolved == disk.done

\* The steps the restore goes through: stop_issued is the whole contract.
Touched == disk.issued

StartLoad(p) ==
  /\ pc[p] = "startLoad"
  /\ todo' = [todo EXCEPT ![p] = Touched]
  /\ Goto(p, "startRun")
  /\ UNCHANGED <<disk, lock, sweepVars, skip, failed, threadVars, worldVars, faultVars,
                 owed, observed>>

\* `docker compose start` and the record of its result, which nothing reads
\* back before the end of the sequence.
StartRun(p, t) ==
  /\ pc[p] = "startRun" /\ Current(p, t)
  /\ \/ /\ running' = running \cup {t}
        /\ owed' = owed \ {t}
        /\ UNCHANGED failed
     \/ /\ failed' = [failed EXCEPT ![p] = @ \cup {t}]
        /\ UNCHANGED <<running, owed>>
  /\ Drop(p, t)
  /\ UNCHANGED <<disk, lock, sweepVars, pc, skip, threadVars, view, reading,
                 faultVars, observed>>

\* finish and the alert after it: the failures are recorded and reported by
\* name, the steps are popped, the policy is idle again.
StartFinish(p) ==
  /\ pc[p] = "startRun" /\ todo[p] = {} /\ LockFree
  /\ Save([disk EXCEPT !.phase = "idle", !.planned = {}, !.issued = {},
                       !.done = {}, !.stopDone = FALSE])
  /\ owed' = owed \ failed[p]
  /\ Goto(p, "exit")
  /\ UNCHANGED <<lock, sweepVars, todo, skip, failed, threadVars, worldVars,
                 observed>>

\* Broken: a worker that ends leaves its event set.
WorkerExitStaysActive(p) ==
  /\ pc[p] = "exit" /\ tail[p] < MaxTails
  /\ tail' = [tail EXCEPT ![p] = @ + 1]
  /\ ThreadEnds(p)
  /\ UNCHANGED <<disk, lock, sweepVars, active, up, worldVars, faultVars, owed,
                 observed>>

\* The finally block of _spawn: first the event is cleared ...
WorkerExit(p) ==
  /\ pc[p] = "exit" /\ tail[p] < MaxTails
  /\ active' = active \ {p}
  /\ tail' = [tail EXCEPT ![p] = @ + 1]
  /\ ThreadEnds(p)
  /\ UNCHANGED <<disk, lock, sweepVars, up, worldVars, faultVars, owed,
                 observed>>

\* ... then worker_owner is popped, whoever it names by now.
WorkerUnclaim(p) ==
  /\ tail[p] > 0 /\ LockFree
  /\ tail' = [tail EXCEPT ![p] = @ - 1]
  /\ Save([disk EXCEPT !.owner = None])
  /\ UNCHANGED <<lock, sweepVars, workerVars, active, up, worldVars, owed,
                 observed>>

-----------------------------------------------------------------------------
(* Faults and the world outside. *)

\* Taking the file lock may raise; the worker then ends by its finally block.
WorkerAbort(p) ==
  /\ pc[p] \in {"stopMark", "stopRecord", "stopFinish", "startRun"}
  /\ faults < MaxFaults
  /\ faults' = faults + 1
  /\ Goto(p, "exit")
  /\ UNCHANGED <<disk, lock, sweepVars, todo, skip, failed, threadVars,
                 worldVars, lostSaves, owed, observed>>

\* The process dies: its threads and its flock are gone, its claim stays in the
\* file under a pid that is free or, by then, somebody else's.
Crash(p) ==
  /\ p \in up /\ faults < MaxFaults
  /\ faults' = faults + 1
  /\ up' = up \ {p}
  /\ active' = active \ {p}
  /\ tail' = [tail EXCEPT ![p] = 0]
  /\ ThreadEnds(p)
  /\ plan' = [plan EXCEPT ![p] = {}]
  /\ sweep' = [sweep EXCEPT ![p] = "none"]
  /\ lock' = IF lock = p THEN None ELSE lock
  /\ IF disk.owner = p
       THEN \E pid \in {None, Reused} : disk' = [disk EXCEPT !.owner = pid]
       ELSE UNCHANGED disk
  /\ lostAlert' = (lostAlert \/ sweep[p] = "latched")
  /\ UNCHANGED <<worldVars, lostSaves, owed, spared, announced, sawAc>>

Restart(p) ==
  /\ p \notin up
  /\ up' = up \cup {p}
  /\ UNCHANGED <<disk, lock, sweepVars, workerVars, active, tail, worldVars,
                 faultVars, owed, observed>>

\* A claim nobody will drop stops counting a day after it was made.
ClaimExpires ==
  /\ \/ disk.owner = Reused
     \/ disk.owner \in Procs \ active /\ tail[disk.owner] = 0
  /\ disk' = [disk EXCEPT !.owner = None]
  /\ UNCHANGED <<lock, sweepVars, workerVars, threadVars, worldVars, faultVars,
                 owed, observed>>

PowerChanges ==
  /\ reading' \in Readings \ {reading}
  /\ UNCHANGED <<disk, lock, sweepVars, workerVars, threadVars, running, view,
                 faultVars, owed, observed>>

ViewRefreshes ==
  /\ view # running
  /\ view' = running
  /\ UNCHANGED <<disk, lock, sweepVars, workerVars, threadVars, running,
                 reading, faultVars, owed, observed>>

HandStop(t) ==
  /\ t \in running
  /\ running' = running \ {t}
  /\ UNCHANGED <<disk, lock, sweepVars, workerVars, threadVars, view, reading,
                 faultVars, owed, observed>>

HandStart(t) ==
  /\ t \notin running
  /\ running' = running \cup {t}
  /\ owed' = owed \ {t}
  /\ UNCHANGED <<disk, lock, sweepVars, workerVars, threadVars, view, reading,
                 faultVars, observed>>

-----------------------------------------------------------------------------
SweepStep(p) ==
  \/ SweepPlan(p) \/ SweepLatch(p) \/ SweepAnnounce(p) \/ SweepFlip(p)
  \/ SweepWait(p) \/ SweepResume(p) \/ SweepSpawn(p)

WorkerStep(p) ==
  \/ StopLoad(p) \/ StopCheck(p) \/ StopFinish(p)
  \/ StartLoad(p) \/ StartFinish(p) \/ WorkerExit(p)
  \/ \E t \in Targets : \/ StopSkip(p, t) \/ StopMark(p, t) \/ StopRun(p, t)
                        \/ StopRecord(p, t) \/ StartRun(p, t)

World ==
  \/ ClaimExpires \/ PowerChanges \/ ViewRefreshes
  \/ \E t \in Targets : HandStop(t) \/ HandStart(t)

Next ==
  \/ \E p \in Procs : \/ SweepStep(p) \/ WorkerStep(p) \/ WorkerUnclaim(p)
                      \/ WorkerAbort(p) \/ Crash(p) \/ Restart(p)
  \/ World

Spec == Init /\ [][Next]_vars

\* The sweep ticks every 90 s and launchd keeps the panel alive; a worker's
\* commands have timeouts; a claim is at most a day old.  Nothing is assumed of
\* power, of the operator or of the faults.
Fairness ==
  /\ \A p \in Procs : /\ WF_vars(SweepStep(p)) /\ WF_vars(WorkerStep(p))
                       /\ WF_vars(WorkerUnclaim(p)) /\ WF_vars(Restart(p))
  /\ WF_vars(ClaimExpires)

FairSpec == Spec /\ Fairness

-----------------------------------------------------------------------------
(* Safety. *)

\* Targets the policy took down that no marker in the state file remembers.
Forgotten == {t \in owed : disk.phase = "idle" \/ t \notin disk.issued}

\* Marker first: whatever crashes and restarts, a target the policy took down is
\* in the state file of a policy that is not idle until it runs again or the
\* failure to start it has been reported (_run_stop_sequence, the restore).
NothingForgotten == lostSaves = 0 => Forgotten = {}

\* A save that fails silently costs at most the one target whose marker it
\* carried: no loss makes the policy forget the others (_save_state).
LossIsLocal == Cardinality(Forgotten) <= lostSaves

\* Alert first, act second: nothing of this outage is stopped before its alert,
\* save when the panel died exactly between the two (_engage).
AlertFirst == disk.issued # {} => announced \/ lostAlert

\* The same as docs/ups.md states it, whatever crashes.
AlertAlwaysFirst == disk.issued # {} => announced

\* The stop order is the configured order: while a target is being stopped, all
\* that come before it have been dealt with (_run_stop_sequence).
StopsInOrder ==
  disk.phase = "engaged" =>
    \A t \in disk.issued, u \in Targets : Rank[u] < Rank[t] => u \in disk.done

Working(p) == pc[p] \in StopPoints \cup StartPoints

\* At most one stop or restore sequence runs on a machine (_worker_busy).
NoSecondSequence == \A p, q \in Procs : Working(p) /\ Working(q) => p = q

Latches(p) == sweep[p] = "planned" /\ sweep'[p] = "latched"

\* The decision is atomic across processes: a latch never replaces the steps of
\* an outage that is being handled (_file_lock).
LatchOnlyFromIdle == [][\A p \in Procs : Latches(p) => disk.phase = "idle"]_vars

\* A sequence under way is cut short once a sweep has seen mains power: no
\* further target is stopped only to be started right back (the comment at the
\* head of _run_stop_sequence's loop).
PowerBackHaltsStops ==
  [][\A p \in Procs : pc[p] = "stopMark" /\ pc'[p] = "stopRun" => ~sawAc]_vars

-----------------------------------------------------------------------------
(* Liveness. *)

\* When power stays back, the policy returns to idle and owes nothing: what it
\* stopped runs again or has been reported (sweep, _run_restore_sequence).
PowerBackRestores ==
  <>[](reading = "ac") => <>[](disk.phase = "idle" /\ owed = {})

\* A stop sequence that died is taken up again as long as the machine stays on
\* battery (_sweep_locked, the resume branch).
BatteryCompletesStops ==
  <>[](reading \in {"battery", "low"})
    => <>[](disk.phase = "engaged" => disk.stopDone)

-----------------------------------------------------------------------------
(* What the policy promises, see UpsPromise. *)

Promise == INSTANCE UpsPromise WITH
             phase <- disk.phase, taken <- owed, powerSeen <- sawAc

ImplementsPromise == Promise!Spec

=============================================================================
