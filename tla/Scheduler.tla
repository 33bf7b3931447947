----------------------------- MODULE Scheduler -----------------------------
(***************************************************************************)
(* The job scheduler of hub/scheduler_svc.py: a tick that evaluates each   *)
(* wall-clock minute at most once, one thread per run of a job, the        *)
(* overlap check, the run journal and the failure streak behind the alert. *)
(* The wall clock may be set back, and the panel may die and start again.  *)
(***************************************************************************)
EXTENDS Integers, FiniteSets

CONSTANTS
  Jobs,        \* job ids
  Due,         \* the minutes that match each job's cron expression
  Slots,       \* bound on the run threads alive at once
  NoJob,       \* no run in a slot
  Resync,      \* minutes the clock may be set back before the tick re-anchors
  MaxClock,    \* bound on the wall clock
  MaxBack,     \* bound on the times the wall clock is set back
  MaxRuns,     \* bound on runs started
  MaxFaults    \* bound on crashes and on journal entries that cannot be written

Minutes == 0 .. MaxClock

ASSUME SchedulerAssumption ==
  /\ MaxClock \in Nat /\ MaxBack \in Nat /\ MaxRuns \in Nat /\ MaxFaults \in Nat
  /\ Due \in [Jobs -> SUBSET Minutes]
  /\ NoJob \notin Jobs
  /\ Resync \in Nat
  /\ IsFiniteSet(Slots)

VARIABLES
  jobs,       \* per id: not in config.yaml, disabled or enabled
  clock,      \* the minute the wall clock shows
  mark,       \* _last_minute: the last minute evaluated
  batch,      \* jobs of the minute being evaluated that are still to launch
  run,        \* per slot: a run's thread
  running,    \* _running, under _running_guard
  streak,     \* _fail_counts
  up,         \* the panel process is alive
  backs,      \* times the clock was set back
  faults,     \* crashes and lost journal entries
  (* What the properties observe and the code does not keep. *)
  started, recorded, gone,  \* runs started, journalled, lost to a fault
  fired,      \* the scheduled launches made: <<job, minute>>
  replays,    \* a boot or a re-anchoring tick went back before a launch
  row,        \* per job: how many runs failed in a row, in the order they ended
  tangled     \* jobs with two runs ended and not yet accounted for at once

clockVars == <<clock, mark, batch>>
runVars   == <<run, running, streak>>
counts    == <<started, recorded, gone>>
rowVars   == <<row, tangled>>
vars == <<jobs, clockVars, runVars, up, backs, faults, counts, fired, replays,
          rowVars>>

\* A thread about to enter _execute; running; ended; journalled; adding up.
TailPoints == {"journal", "streak", "bump"}
Points == {"off", "enter", "run"} \cup TailPoints

Runs == [pc : Points, job : Jobs \cup {NoJob}, trigger : {"schedule", "manual"},
         ok : BOOLEAN, seen : Nat]

Idle == [pc |-> "off", job |-> NoJob, trigger |-> "schedule", ok |-> FALSE, seen |-> 0]

TypeOK ==
  /\ jobs \in [Jobs -> {"absent", "off", "on"}]
  /\ clock \in Minutes /\ mark \in Minutes
  /\ batch \subseteq {j \in Jobs : mark \in Due[j]}
  /\ run \in [Slots -> Runs]
  /\ running \subseteq Jobs
  /\ streak \in [Jobs -> Nat] /\ row \in [Jobs -> Nat]
  /\ up \in BOOLEAN
  /\ backs \in 0 .. MaxBack /\ faults \in 0 .. MaxFaults
  /\ started \in 0 .. MaxRuns /\ recorded \in Nat /\ gone \in Int
  /\ fired \subseteq Jobs \X Minutes
  /\ replays \in BOOLEAN
  /\ tangled \subseteq Jobs

Init ==
  /\ jobs \in [Jobs -> {"absent", "off", "on"}]
  /\ clock = 0 /\ mark = 0 /\ batch = {}
  /\ run = [s \in Slots |-> Idle]
  /\ running = {}
  /\ streak = [j \in Jobs |-> 0]
  /\ up = TRUE
  /\ backs = 0 /\ faults = 0
  /\ started = 0 /\ recorded = 0 /\ gone = 0
  /\ fired = {} /\ replays = FALSE
  /\ row = [j \in Jobs |-> 0] /\ tangled = {}

At(s, point) == run[s].pc = point
Of(j, points) == {s \in Slots : run[s].job = j /\ run[s].pc \in points}

-----------------------------------------------------------------------------
(* The tick. *)

\* Broken: any minute but the last one is evaluated.
OtherMinute == clock # mark

\* A minute is evaluated once, and a small step back evaluates nothing.
NewMinute == clock > mark

\* Broken: what was set back is waited out, however long that takes.
NeverFarBack == FALSE

FarBack == mark - clock > Resync

\* The enabled jobs whose expression matches the minute, read once per tick.
Matching == {j \in Jobs : jobs[j] = "on" /\ clock \in Due[j]}

TickFire ==
  /\ up /\ batch = {} /\ NewMinute
  /\ mark' = clock
  /\ batch' = Matching
  /\ UNCHANGED <<jobs, clock, runVars, up, backs, faults, counts, fired, replays, rowVars>>

\* Back by more than _BACKWARD_RESYNC: re-anchor, and launch nothing this time.
TickReanchor ==
  /\ up /\ batch = {} /\ FarBack
  /\ mark' = clock
  /\ replays' = TRUE
  /\ UNCHANGED <<jobs, clock, batch, runVars, up, backs, faults, counts, fired, rowVars>>

\* A thread for a run of j; it does not look at the job table again.
Spawn(s, j, trigger) ==
  /\ At(s, "off") /\ started < MaxRuns
  /\ run' = [run EXCEPT ![s] = [pc |-> "enter", job |-> j, trigger |-> trigger,
                                ok |-> FALSE, seen |-> 0]]
  /\ started' = started + 1

TickLaunch(s, j) ==
  /\ j \in batch
  /\ Spawn(s, j, "schedule")
  /\ batch' = batch \ {j}
  /\ fired' = fired \cup {<<j, mark>>}
  /\ UNCHANGED <<jobs, clock, mark, running, streak, up, backs, faults, recorded,
                 gone, replays, rowVars>>

\* POST run-now: refused for an unknown job and while a run is seen to go on.
RunJobNow(s, j) ==
  /\ up /\ jobs[j] # "absent" /\ j \notin running
  /\ Spawn(s, j, "manual")
  /\ UNCHANGED <<jobs, clockVars, running, streak, up, backs, faults, recorded,
                 gone, fired, replays, rowVars>>

-----------------------------------------------------------------------------
(* One run: _execute. *)

GotoWith(s, point, ok, seen) ==
  run' = [run EXCEPT ![s] = [pc |-> point, job |-> run[s].job, trigger |-> run[s].trigger,
                             ok |-> ok, seen |-> seen]]
Goto(s, point) == GotoWith(s, point, run[s].ok, run[s].seen)
Ends(s) == run' = [run EXCEPT ![s] = Idle]

\* _record_run: appends, or swallows the error of the write.
RecordRun ==
  \/ recorded' = recorded + 1 /\ UNCHANGED <<gone, faults>>
  \/ /\ faults < MaxFaults
     /\ faults' = faults + 1 /\ gone' = gone + 1
     /\ UNCHANGED recorded

\* Broken: run-now has asked already whether the job is running.
ScheduledOverlap(s) == run[s].trigger = "schedule" /\ run[s].job \in running

Overlaps(s) == run[s].job \in running

\* The check and the entry into _running are one critical section.
Begin(s) ==
  /\ At(s, "enter") /\ ~Overlaps(s)
  /\ running' = running \cup {run[s].job}
  /\ Goto(s, "run")
  /\ UNCHANGED <<jobs, clockVars, streak, up, backs, faults, counts, fired, replays, rowVars>>

\* Broken: a skipped run goes through the accounting like any other that is not ok.
SkipCounts(s) ==
  /\ At(s, "enter") /\ Overlaps(s)
  /\ Ends(s)
  /\ RecordRun
  /\ streak' = [streak EXCEPT ![run[s].job] = IF @ < MaxRuns THEN @ + 1 ELSE @]
  /\ UNCHANGED <<jobs, clockVars, running, up, backs, started, fired, replays, rowVars>>

\* Broken: dropped without an entry.
SkipSilently(s) ==
  /\ At(s, "enter") /\ Overlaps(s)
  /\ Ends(s)
  /\ UNCHANGED <<jobs, clockVars, running, streak, up, backs, faults, counts, fired,
                 replays, rowVars>>

\* Journalled as skipped within the section, and without effect on the streak.
Skip(s) ==
  /\ At(s, "enter") /\ Overlaps(s)
  /\ Ends(s)
  /\ RecordRun
  /\ UNCHANGED <<jobs, clockVars, running, streak, up, backs, started, fired, replays,
                 rowVars>>

\* Broken: only a run that ends well frees its job.
FreedIfOk(s, ok) == IF ok THEN {run[s].job} ELSE {}

Freed(s, ok) == {run[s].job}

\* The runner returns, times out or raises; the job is free before the run is
\* journalled, so its next run may overtake what follows here.
Finish(s) ==
  /\ At(s, "run")
  /\ \E ok \in BOOLEAN :
       LET j == run[s].job IN
       /\ GotoWith(s, "journal", ok, 0)
       /\ running' = running \ Freed(s, ok)
       /\ row' = [row EXCEPT ![j] = IF ok THEN 0 ELSE @ + 1]
       /\ tangled' = IF Of(j, TailPoints) # {} THEN tangled \cup {j} ELSE tangled
  /\ UNCHANGED <<jobs, clockVars, streak, up, backs, faults, counts, fired, replays>>

Journal(s) ==
  /\ At(s, "journal")
  /\ RecordRun
  /\ Goto(s, "streak")
  /\ UNCHANGED <<jobs, clockVars, running, streak, up, backs, started, fired, replays,
                 rowVars>>

\* _alert_on_failure: a success resets the streak ...
StreakReset(s) ==
  /\ At(s, "streak") /\ run[s].ok
  /\ streak' = [streak EXCEPT ![run[s].job] = 0]
  /\ Ends(s)
  /\ UNCHANGED <<jobs, clockVars, running, up, backs, faults, counts, fired, replays,
                 rowVars>>

\* ... a failure reads it and writes it back without a lock; from
\* FAILURE_ALERT_AFTER on, the count written is the one the alert names.
StreakRead(s) ==
  /\ At(s, "streak") /\ ~run[s].ok
  /\ GotoWith(s, "bump", FALSE, streak[run[s].job])
  /\ UNCHANGED <<jobs, clockVars, running, streak, up, backs, faults, counts, fired,
                 replays, rowVars>>

StreakBump(s) ==
  /\ At(s, "bump")
  /\ streak' = [streak EXCEPT ![run[s].job] = run[s].seen + 1]
  /\ Ends(s)
  /\ UNCHANGED <<jobs, clockVars, running, up, backs, faults, counts, fired, replays,
                 rowVars>>

-----------------------------------------------------------------------------
(* The API, the clock and faults. *)

\* save_job: "create" refuses an id that exists, "update" one that does not.
SaveJob(j, mode, state) ==
  /\ up
  /\ (jobs[j] = "absent") <=> (mode = "create")
  /\ jobs' = [jobs EXCEPT ![j] = state]
  /\ UNCHANGED <<clockVars, runVars, up, backs, faults, counts, fired, replays, rowVars>>

SetEnabled(j, state) ==
  /\ up /\ jobs[j] # "absent"
  /\ jobs' = [jobs EXCEPT ![j] = state]
  /\ UNCHANGED <<clockVars, runVars, up, backs, faults, counts, fired, replays, rowVars>>

\* Neither a run under way nor the streak of the id is touched.
DeleteJob(j) ==
  /\ up /\ jobs[j] # "absent"
  /\ jobs' = [jobs EXCEPT ![j] = "absent"]
  /\ UNCHANGED <<clockVars, runVars, up, backs, faults, counts, fired, replays, rowVars>>

\* The machine may also sleep through some minutes.
ClockForward(m) ==
  /\ m > clock
  /\ clock' = m
  /\ UNCHANGED <<jobs, mark, batch, runVars, up, backs, faults, counts, fired, replays,
                 rowVars>>

ClockBack(m) ==
  /\ m < clock /\ backs < MaxBack
  /\ clock' = m
  /\ backs' = backs + 1
  /\ UNCHANGED <<jobs, mark, batch, runVars, up, faults, counts, fired, replays, rowVars>>

\* The process and its threads end; nothing but the job table and the journal stays.
Crash ==
  /\ up /\ faults < MaxFaults
  /\ up' = FALSE
  /\ faults' = faults + 1
  /\ gone' = started - recorded
  /\ batch' = {}
  /\ run' = [s \in Slots |-> Idle]
  /\ running' = {}
  /\ streak' = [j \in Jobs |-> 0]
  /\ row' = [j \in Jobs |-> 0] /\ tangled' = {}
  /\ UNCHANGED <<jobs, clock, mark, backs, started, recorded, fired, replays>>

\* Broken: the boot minute is left to the first tick.
BootUnmarked ==
  /\ ~up
  /\ up' = TRUE
  /\ mark' = 0
  /\ UNCHANGED <<jobs, clock, batch, runVars, backs, faults, counts, fired, replays, rowVars>>

\* start_scheduler counts the boot minute as evaluated.
Boot ==
  /\ ~up
  /\ up' = TRUE
  /\ mark' = clock
  /\ replays' = (replays \/ clock < mark)
  /\ UNCHANGED <<jobs, clock, batch, runVars, backs, faults, counts, fired, rowVars>>

-----------------------------------------------------------------------------
Tick == TickFire \/ TickReanchor

RunStep(s) ==
  \/ Begin(s) \/ Skip(s) \/ Finish(s) \/ Journal(s)
  \/ StreakReset(s) \/ StreakRead(s) \/ StreakBump(s)

Api ==
  \E j \in Jobs :
    \/ DeleteJob(j)
    \/ \E state \in {"off", "on"} : \/ SetEnabled(j, state)
                                    \/ \E mode \in {"create", "update"} : SaveJob(j, mode, state)

Next ==
  \/ Tick \/ Api \/ Crash \/ Boot
  \/ \E s \in Slots : RunStep(s) \/ \E j \in Jobs : TickLaunch(s, j) \/ RunJobNow(s, j)
  \/ \E m \in Minutes : ClockForward(m) \/ ClockBack(m)

Spec == Init /\ [][Next]_vars

\* The loop wakes once a minute, every runner has a timeout, and launchd starts
\* a dead panel again.
Fairness ==
  /\ WF_vars(Tick) /\ WF_vars(Boot)
  /\ \A s \in Slots : WF_vars(RunStep(s))
  /\ \A s \in Slots, j \in Jobs : WF_vars(TickLaunch(s, j))

FairSpec == Spec /\ Fairness

-----------------------------------------------------------------------------
(* Properties. *)

\* Two runs of a job never execute at once, whoever triggered them (_execute:
\* "Two concurrent runs of one backup are never right").
NoOverlap ==
  \A s, t \in Slots : At(s, "run") /\ At(t, "run") /\ run[s].job = run[t].job => s = t

\* A job counts as running only while a run of it executes; a job left in
\* _running would skip every trigger until the next boot (_execute's finally).
NeverStuckRunning == \A j \in running : Of(j, {"run"}) # {}

\* The tick launches a job at most once for a minute, a boot within it
\* included, unless a boot or a long step back moved the mark back
\* (_tick_once, start_scheduler).
OncePerMinute ==
  [][\A j \in Jobs :
       up' /\ j \in batch \ batch' => replays \/ <<j, mark>> \notin fired]_vars

\* Every run is in the journal or still on its way there, unless a crash or an
\* unwritable journal took it (_record_run).
EveryRunAccounted ==
  started = recorded + gone
              + Cardinality({s \in Slots : run[s].pc \in {"enter", "run", "journal"}})

\* As long as the runs of a job are accounted for one at a time, the streak is
\* the number of runs that failed in a row; two that end close together may be
\* accounted for in the wrong order (_alert_on_failure).
StreakCountsRow ==
  \A j \in Jobs : j \notin tangled /\ Of(j, TailPoints) = {} => streak[j] = row[j]

\* A clock set back silences the scheduler for at most _BACKWARD_RESYNC, however
\* far it went back (_tick_once; up to the model's bound on runs).
SilenceIsBounded == []<>(mark - clock <= Resync \/ started = MaxRuns)

=============================================================================
