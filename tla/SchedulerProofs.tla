-------------------------- MODULE SchedulerProofs --------------------------
(***************************************************************************)
(* Theorems about Scheduler, for any set of jobs, any schedules and any    *)
(* number of run threads, clock steps and faults; and about the next run   *)
(* of Cron, for any expression and calendar.                               *)
(***************************************************************************)
EXTENDS Scheduler, Cron, FiniteSetTheorems, TLAPS

-----------------------------------------------------------------------------
(* Steps. *)

\* What the API does touches the job table alone.
JobsOnly == /\ jobs' \in [Jobs -> {"absent", "off", "on"}]
            /\ UNCHANGED <<clockVars, runVars, up, backs, faults, counts, fired, replays, rowVars>>

LEMMA ApiStep == ASSUME TypeOK, Api PROVE JobsOnly
<1>1. ASSUME NEW j \in Jobs, DeleteJob(j) PROVE JobsOnly
  BY <1>1 DEF TypeOK, DeleteJob, JobsOnly
<1>2. ASSUME NEW j \in Jobs, NEW state \in {"off", "on"}, SetEnabled(j, state) PROVE JobsOnly
  BY <1>2 DEF TypeOK, SetEnabled, JobsOnly
<1>3. ASSUME NEW j \in Jobs, NEW state \in {"off", "on"}, NEW mode \in {"create", "update"},
             SaveJob(j, mode, state)
      PROVE  JobsOnly
  BY <1>3 DEF TypeOK, SaveJob, JobsOnly
<1> QED
  BY <1>1, <1>2, <1>3, Zenon DEF Api

\* A step is one of these.
LEMMA StepCases ==
  ASSUME TypeOK, [Next]_vars
  PROVE  \/ UNCHANGED vars \/ JobsOnly
         \/ TickFire \/ TickReanchor \/ Crash \/ Boot
         \/ \E s \in Slots : \/ Begin(s) \/ Skip(s) \/ Finish(s) \/ Journal(s)
                             \/ StreakReset(s) \/ StreakRead(s) \/ StreakBump(s)
                             \/ \E j \in Jobs : TickLaunch(s, j) \/ RunJobNow(s, j)
         \/ \E m \in Minutes : ClockForward(m) \/ ClockBack(m)
<1>1. CASE UNCHANGED vars
  BY <1>1
<1>2. CASE Api
  BY <1>2, ApiStep
<1>3. CASE Tick
  BY <1>3, Zenon DEF Tick
<1>4. ASSUME NEW s \in Slots, RunStep(s)
      PROVE  \/ Begin(s) \/ Skip(s) \/ Finish(s) \/ Journal(s)
             \/ StreakReset(s) \/ StreakRead(s) \/ StreakBump(s)
  BY <1>4, Zenon DEF RunStep
<1> QED
  BY <1>1, <1>2, <1>3, <1>4, Zenon DEF Next

-----------------------------------------------------------------------------
(* Types, with what they need: a thread has a job, a dead panel no tick. *)

Shape ==
  /\ \A s \in Slots : run[s].pc # "off" => run[s].job \in Jobs
  /\ ~up => batch = {}

LEMMA TypeInit == Init => TypeOK /\ Shape
<1> SUFFICES ASSUME Init PROVE TypeOK /\ Shape
  OBVIOUS
<1>1. Idle \in Runs /\ Idle.pc = "off"
  BY SchedulerAssumption DEF Idle, Runs, Points, TailPoints
<1>2. 0 \in Minutes
  BY SchedulerAssumption DEF Minutes
<1>3. run \in [Slots -> Runs] /\ Shape
  BY <1>1 DEF Init, Shape
<1>4. 0 \in 0 .. MaxRuns /\ 0 \in 0 .. MaxBack /\ 0 \in 0 .. MaxFaults
  BY SchedulerAssumption
<1>5. 0 \in Nat /\ 0 \in Int
  OBVIOUS
<1>6. streak \in [Jobs -> Nat] /\ row \in [Jobs -> Nat]
  BY <1>5 DEF Init
<1>7. jobs \in [Jobs -> {"absent", "off", "on"}] /\ up \in BOOLEAN /\ replays \in BOOLEAN
  BY DEF Init
<1>8. batch \subseteq {j \in Jobs : mark \in Due[j]} /\ fired \subseteq Jobs \X Minutes
  BY DEF Init
<1>9. running \subseteq Jobs /\ tangled \subseteq Jobs
  BY DEF Init
<1> QED
  BY <1>2, <1>3, <1>4, <1>5, <1>6, <1>7, <1>8, <1>9, Zenon DEF Init, TypeOK

LEMMA TypeStep == ASSUME TypeOK, Shape, [Next]_vars PROVE TypeOK' /\ Shape'
<1>i. Idle \in Runs /\ Idle.pc = "off"
  BY SchedulerAssumption DEF Idle, Runs, Points, TailPoints
<1>0. CASE UNCHANGED vars
  BY <1>0 DEF vars, TypeOK, Shape, clockVars, runVars, counts, rowVars
<1>1. CASE JobsOnly
  BY <1>1 DEF JobsOnly, TypeOK, Shape, clockVars, runVars, counts, rowVars
<1>2. CASE TickFire
  BY <1>2 DEF TickFire, Matching, TypeOK, Shape, runVars, counts, rowVars
<1>3. CASE TickReanchor
  BY <1>3 DEF TickReanchor, TypeOK, Shape, runVars, counts, rowVars
<1>4. CASE Crash
  <2>1. gone' \in Int /\ faults' \in 0 .. MaxFaults
    BY <1>4, SchedulerAssumption DEF Crash, TypeOK
  <2>2. run' \in [Slots -> Runs] /\ \A s \in Slots : run'[s].pc = "off"
    BY <1>4, <1>i DEF Crash
  <2> QED
    BY <1>4, <2>1, <2>2 DEF Crash, TypeOK, Shape
<1>5. CASE Boot
  BY <1>5 DEF Boot, TypeOK, Shape, runVars, counts, rowVars
<1>6. ASSUME NEW m \in Minutes, ClockForward(m) \/ ClockBack(m) PROVE TypeOK' /\ Shape'
  BY <1>6, SchedulerAssumption DEF ClockForward, ClockBack, TypeOK, Shape, runVars, counts, rowVars
<1>7. ASSUME NEW s \in Slots, NEW j \in Jobs, TickLaunch(s, j) PROVE TypeOK' /\ Shape'
  <2>1. run' \in [Slots -> Runs] /\ Shape'
    BY <1>7 DEF TickLaunch, Spawn, TypeOK, Shape, Runs, Points, TailPoints
  <2>2. started' \in 0 .. MaxRuns
    BY <1>7, SchedulerAssumption DEF TickLaunch, Spawn, TypeOK
  <2>3. fired' \subseteq Jobs \X Minutes /\ batch' \subseteq {i \in Jobs : mark' \in Due[i]}
    BY <1>7 DEF TickLaunch, TypeOK
  <2>4. UNCHANGED <<jobs, clock, mark, running, streak, up, backs, faults, recorded,
                    gone, replays, row, tangled>>
    BY <1>7, Zenon DEF TickLaunch, rowVars
  <2> QED
    BY <2>1, <2>2, <2>3, <2>4 DEF TypeOK
<1>8. ASSUME NEW s \in Slots, NEW j \in Jobs, RunJobNow(s, j) PROVE TypeOK' /\ Shape'
  <2>1. run' \in [Slots -> Runs] /\ Shape'
    BY <1>8 DEF RunJobNow, Spawn, TypeOK, Shape, Runs, Points, TailPoints
  <2>2. started' \in 0 .. MaxRuns
    BY <1>8, SchedulerAssumption DEF RunJobNow, Spawn, TypeOK
  <2> QED
    BY <1>8, <2>1, <2>2 DEF RunJobNow, TypeOK, clockVars, rowVars
<1>9. ASSUME NEW s \in Slots, Begin(s) PROVE TypeOK' /\ Shape'
  BY <1>9 DEF Begin, Goto, GotoWith, At, TypeOK, Shape, Runs, Points, TailPoints, clockVars, counts, rowVars
<1>10. ASSUME NEW s \in Slots, Skip(s) PROVE TypeOK' /\ Shape'
  BY <1>10, <1>i, SchedulerAssumption DEF Skip, Ends, RecordRun, TypeOK, Shape, clockVars, rowVars
<1>11. ASSUME NEW s \in Slots, Finish(s) PROVE TypeOK' /\ Shape'
  BY <1>11 DEF Finish, Freed, GotoWith, At, TypeOK, Shape, Runs, Points, TailPoints, clockVars, counts
<1>12. ASSUME NEW s \in Slots, Journal(s) PROVE TypeOK' /\ Shape'
  BY <1>12, SchedulerAssumption DEF Journal, Goto, GotoWith, At, RecordRun, TypeOK, Shape, Runs, Points, TailPoints, clockVars, rowVars
<1>13. ASSUME NEW s \in Slots, StreakReset(s) PROVE TypeOK' /\ Shape'
  BY <1>13, <1>i DEF StreakReset, Ends, At, TypeOK, Shape, clockVars, counts, rowVars
<1>14. ASSUME NEW s \in Slots, StreakRead(s) PROVE TypeOK' /\ Shape'
  BY <1>14 DEF StreakRead, GotoWith, At, TypeOK, Shape, Runs, Points, TailPoints, clockVars, counts, rowVars
<1>15. ASSUME NEW s \in Slots, StreakBump(s) PROVE TypeOK' /\ Shape'
  BY <1>15, <1>i DEF StreakBump, Ends, At, TypeOK, Shape, Runs, clockVars, counts, rowVars
<1> QED
  BY StepCases, <1>0, <1>1, <1>2, <1>3, <1>4, <1>5, <1>6, <1>7, <1>8, <1>9, <1>10,
     <1>11, <1>12, <1>13, <1>14, <1>15, Zenon

\* Every reachable state of the scheduler is well typed (Scheduler's Init and actions).
THEOREM TypeCorrect == Spec => []TypeOK
<1>1. TypeOK /\ Shape /\ [Next]_vars => TypeOK' /\ Shape'
  BY TypeStep
<1> QED
  BY TypeInit, <1>1, PTL DEF Spec

-----------------------------------------------------------------------------
(* The table of running jobs. *)

\* A job is in the table exactly while one thread runs it.
Table ==
  /\ \A s \in Slots : At(s, "run") => run[s].job \in running
  /\ NoOverlap
  /\ NeverStuckRunning

\* No thread enters or leaves "run", and the table stays.
NoRunChanges ==
  /\ running' = running
  /\ \A s \in Slots : /\ run'[s].pc = "run" <=> run[s].pc = "run"
                      /\ run[s].pc = "run" => run'[s].job = run[s].job

LEMMA TableKept == ASSUME Table, NoRunChanges PROVE Table'
  BY DEF Table, NoRunChanges, NoOverlap, NeverStuckRunning, At, Of

LEMMA TableStep == ASSUME TypeOK, Shape, Table, [Next]_vars PROVE Table'
<1>u. ASSUME UNCHANGED <<run, running>> PROVE Table'
  BY <1>u DEF Table, NoOverlap, NeverStuckRunning, At, Of
<1>0. CASE UNCHANGED vars
  BY <1>0, <1>u, Zenon DEF vars, runVars
<1>1. CASE JobsOnly
  BY <1>1, <1>u, Zenon DEF JobsOnly, runVars
<1>2. CASE TickFire
  BY <1>2, <1>u, Zenon DEF TickFire, runVars
<1>3. CASE TickReanchor
  BY <1>3, <1>u, Zenon DEF TickReanchor, runVars
<1>4. CASE Crash
  BY <1>4 DEF Crash, Idle, Table, NoOverlap, NeverStuckRunning, At, Of
<1>5. CASE Boot
  BY <1>5, <1>u, Zenon DEF Boot, runVars
<1>6. ASSUME NEW m \in Minutes, ClockForward(m) \/ ClockBack(m) PROVE Table'
  BY <1>6, <1>u, Zenon DEF ClockForward, ClockBack, runVars
<1>7. ASSUME NEW s \in Slots, NEW j \in Jobs, TickLaunch(s, j) PROVE Table'
  BY <1>7, TableKept DEF TickLaunch, Spawn, NoRunChanges, At, TypeOK
<1>8. ASSUME NEW s \in Slots, NEW j \in Jobs, RunJobNow(s, j) PROVE Table'
  BY <1>8, TableKept DEF RunJobNow, Spawn, NoRunChanges, At, TypeOK
<1>9. ASSUME NEW s \in Slots, Begin(s) PROVE Table'
  <2>1. /\ run'[s].pc = "run" /\ run'[s].job = run[s].job
        /\ \A t \in Slots : t # s => run'[t] = run[t]
        /\ run[s].pc = "enter" /\ run[s].job \notin running
        /\ running' = running \cup {run[s].job}
    BY <1>9 DEF Begin, Goto, GotoWith, Overlaps, At, TypeOK
  <2> QED
    BY <2>1 DEF Table, NoOverlap, NeverStuckRunning, At, Of
<1>10. ASSUME NEW s \in Slots, Skip(s) PROVE Table'
  BY <1>10, TableKept DEF Skip, Ends, Idle, NoRunChanges, At, TypeOK
<1>11. ASSUME NEW s \in Slots, Finish(s) PROVE Table'
  <2>1. /\ run'[s].pc = "journal" /\ run[s].pc = "run"
        /\ \A t \in Slots : t # s => run'[t] = run[t]
        /\ running' = running \ {run[s].job}
    BY <1>11 DEF Finish, Freed, GotoWith, At, TypeOK
  <2> QED
    BY <2>1 DEF Table, NoOverlap, NeverStuckRunning, At, Of
<1>12. ASSUME NEW s \in Slots, Journal(s) PROVE Table'
  BY <1>12, TableKept DEF Journal, Goto, GotoWith, NoRunChanges, At, TypeOK
<1>13. ASSUME NEW s \in Slots, StreakReset(s) PROVE Table'
  BY <1>13, TableKept DEF StreakReset, Ends, Idle, NoRunChanges, At, TypeOK
<1>14. ASSUME NEW s \in Slots, StreakRead(s) PROVE Table'
  BY <1>14, TableKept DEF StreakRead, GotoWith, NoRunChanges, At, TypeOK
<1>15. ASSUME NEW s \in Slots, StreakBump(s) PROVE Table'
  BY <1>15, TableKept DEF StreakBump, Ends, Idle, NoRunChanges, At, TypeOK
<1> QED
  BY StepCases, <1>0, <1>1, <1>2, <1>3, <1>4, <1>5, <1>6, <1>7, <1>8, <1>9, <1>10,
     <1>11, <1>12, <1>13, <1>14, <1>15, Zenon

LEMMA TableInit == Init => Table
  BY DEF Init, Idle, Table, NoOverlap, NeverStuckRunning, At, Of

\* Two runs of one job never execute at once, for any number of threads and whoever
\* triggered them (_execute, its critical section under _running_guard).
THEOREM NoOverlapEver == Spec => []NoOverlap
<1>1. TypeOK /\ Shape /\ Table /\ [Next]_vars => TypeOK' /\ Shape' /\ Table'
  BY TypeStep, TableStep
<1>2. Table => NoOverlap
  BY DEF Table
<1> QED
  BY TypeInit, TableInit, <1>1, <1>2, PTL DEF Spec

\* No job is left in _running when its run is over (_execute's finally).
THEOREM NeverStuck == Spec => []NeverStuckRunning
<1>1. TypeOK /\ Shape /\ Table /\ [Next]_vars => TypeOK' /\ Shape' /\ Table'
  BY TypeStep, TableStep
<1>2. Table => NeverStuckRunning
  BY DEF Table
<1> QED
  BY TypeInit, TableInit, <1>1, <1>2, PTL DEF Spec

-----------------------------------------------------------------------------
(* The minutes. *)

\* Until the mark goes back, no launch is of a later minute, and what is still to
\* launch has not been launched.
Launched ==
  ~replays => /\ \A f \in fired : f[2] <= mark
              /\ \A j \in batch : <<j, mark>> \notin fired

LEMMA LaunchedStep == ASSUME TypeOK, Shape, Launched, [Next]_vars PROVE Launched'
<1>m. clock \in Nat /\ mark \in Nat /\ \A f \in fired : f[2] \in Nat
  BY SchedulerAssumption DEF TypeOK, Minutes
<1>u. ASSUME UNCHANGED <<mark, batch, fired, replays>> PROVE Launched'
  BY <1>u DEF Launched
<1>0. CASE UNCHANGED vars
  BY <1>0, <1>u, Zenon DEF vars, clockVars
<1>1. CASE JobsOnly
  BY <1>1, <1>u, Zenon DEF JobsOnly, clockVars
<1>2. CASE TickFire
  <2>1. ASSUME ~replays PROVE \A f \in fired : f[2] < mark'
    BY <1>m, <1>2, <2>1 DEF TickFire, NewMinute, Launched
  <2>2. mark' \in Nat /\ UNCHANGED <<fired, replays>>
    BY <1>m, <1>2 DEF TickFire
  <2>3. ASSUME ~replays, NEW j PROVE <<j, mark'>> \notin fired
    <3>1. ASSUME <<j, mark'>> \in fired PROVE FALSE
      <4>1. <<j, mark'>>[2] < mark'
        BY <2>1, <2>3, <3>1
      <4> QED
        BY <2>2, <4>1
    <3> QED
      BY <3>1
  <2>4. ASSUME ~replays PROVE \A f \in fired : f[2] <= mark'
    BY <1>m, <2>1, <2>2, <2>4
  <2> QED
    BY <2>2, <2>3, <2>4 DEF Launched
<1>3. CASE TickReanchor
  BY <1>3 DEF TickReanchor, Launched
<1>4. CASE Crash
  BY <1>4 DEF Crash, Launched
<1>5. CASE Boot
  <2>1. batch' = {} /\ mark' = clock /\ fired' = fired
    BY <1>5 DEF Boot, Shape
  <2>2. ASSUME ~replays' PROVE ~replays /\ ~(clock < mark)
    BY <1>5, <2>2, Zenon DEF Boot
  <2>3. ASSUME ~replays' PROVE \A f \in fired : f[2] <= clock
    BY <1>m, <2>2, <2>3 DEF Launched
  <2> QED
    BY <2>1, <2>3 DEF Launched
<1>6. ASSUME NEW m \in Minutes, ClockForward(m) \/ ClockBack(m) PROVE Launched'
  BY <1>6, <1>u, Zenon DEF ClockForward, ClockBack
<1>7. ASSUME NEW s \in Slots, NEW j \in Jobs, TickLaunch(s, j) PROVE Launched'
  <2>1. /\ batch' = batch \ {j} /\ fired' = fired \cup {<<j, mark>>}
        /\ UNCHANGED <<mark, replays>>
    BY <1>7 DEF TickLaunch
  <2>2. <<j, mark>>[2] = mark /\ \A i : <<i, mark>> = <<j, mark>> => i = j
    OBVIOUS
  <2> QED
    BY <1>m, <2>1, <2>2 DEF Launched
<1>8. ASSUME NEW s \in Slots, NEW j \in Jobs, RunJobNow(s, j) PROVE Launched'
  BY <1>8, <1>u, Zenon DEF RunJobNow, clockVars
<1>9. ASSUME NEW s \in Slots, RunStep(s) PROVE Launched'
  <2>1. UNCHANGED <<clockVars, fired, replays>>
    BY <1>9, Zenon DEF RunStep, Begin, Skip, Finish, Journal, StreakReset, StreakRead, StreakBump
  <2> QED
    BY <1>u, <2>1, Zenon DEF clockVars
<1> QED
  BY StepCases, <1>0, <1>1, <1>2, <1>3, <1>4, <1>5, <1>6, <1>7, <1>8, <1>9, Zenon DEF RunStep

\* The tick launches a job at most once for a minute, boots included, unless a boot or
\* a long step back moved the mark back, for any schedules and clock
\* (_tick_once, start_scheduler).
THEOREM OncePerMinuteEver == Spec => OncePerMinute
<1>1. Init => Launched
  BY DEF Init, Launched
<1>2. TypeOK /\ Shape /\ Launched /\ [Next]_vars => TypeOK' /\ Shape' /\ Launched'
  BY TypeStep, LaunchedStep
<1>3. ASSUME Launched, NEW j \in Jobs, up' /\ j \in batch \ batch'
      PROVE  replays \/ <<j, mark>> \notin fired
  BY <1>3 DEF Launched
<1>4. Launched => [\A j \in Jobs : up' /\ j \in batch \ batch' => replays \/ <<j, mark>> \notin fired]_vars
  BY <1>3
<1> QED
  BY TypeInit, <1>1, <1>2, <1>4, PTL DEF Spec, OncePerMinute

-----------------------------------------------------------------------------
(* The journal. *)

\* Threads whose run is neither journalled nor lost.
Open == {s \in Slots : run[s].pc \in {"enter", "run", "journal"}}

LEMMA OpenCount == /\ IsFiniteSet(Open) /\ Cardinality(Open) \in Nat
                   /\ \A s \in Slots : IsFiniteSet(Open \cup {s})
<1>1. Open \in SUBSET Slots
  BY DEF Open
<1>2. IsFiniteSet(Open)
  BY <1>1, FS_Subset, SchedulerAssumption
<1> QED
  BY <1>2, FS_CardinalityType, FS_AddElement

LEMMA CountStep ==
  ASSUME TypeOK, Shape, EveryRunAccounted, [Next]_vars
  PROVE  EveryRunAccounted'
<1>n. started \in Int /\ recorded \in Int /\ gone \in Int /\ Cardinality(Open) \in Int
  BY OpenCount, SchedulerAssumption DEF TypeOK
<1>i. started = recorded + gone + Cardinality(Open)
  BY DEF EveryRunAccounted, Open
<1>u. ASSUME UNCHANGED <<run, counts>> PROVE EveryRunAccounted'
  BY <1>u DEF EveryRunAccounted, counts
<1>o. ASSUME Open' = Open, UNCHANGED counts PROVE EveryRunAccounted'
  BY <1>o, <1>i DEF EveryRunAccounted, Open, counts
<1>a. ASSUME NEW s \in Slots, s \notin Open, Open' = Open \cup {s},
             started' = started + 1, UNCHANGED <<recorded, gone>>
      PROVE  EveryRunAccounted'
  <2>1. Cardinality(Open') = Cardinality(Open) + 1
    BY <1>a, OpenCount, FS_AddElement
  <2> QED
    BY <1>a, <1>n, <1>i, <2>1 DEF EveryRunAccounted, Open
<1>r. ASSUME NEW s \in Slots, s \in Open, Open' = Open \ {s}, RecordRun, started' = started
      PROVE  EveryRunAccounted'
  <2>1. Cardinality(Open') = Cardinality(Open) - 1
    BY <1>r, OpenCount, FS_RemoveElement
  <2>c. started' = recorded + gone + Cardinality(Open)
    BY <1>r, <1>i
  <2>2. CASE recorded' = recorded + 1 /\ gone' = gone
    <3>1. recorded + gone + Cardinality(Open) = (recorded + 1) + gone + (Cardinality(Open) - 1)
      BY <1>n
    <3>2. started' = recorded' + gone' + Cardinality(Open')
      BY <2>c, <2>1, <2>2, <3>1, Zenon
    <3> QED
      BY <3>2 DEF EveryRunAccounted, Open
  <2>3. CASE recorded' = recorded /\ gone' = gone + 1
    <3>1. recorded + gone + Cardinality(Open) = recorded + (gone + 1) + (Cardinality(Open) - 1)
      BY <1>n
    <3>2. started' = recorded' + gone' + Cardinality(Open')
      BY <2>c, <2>1, <2>3, <3>1, Zenon
    <3> QED
      BY <3>2 DEF EveryRunAccounted, Open
  <2> QED
    BY <1>r, <2>2, <2>3, Zenon DEF RecordRun
<1>0. CASE UNCHANGED vars
  BY <1>0, <1>u, Zenon DEF vars, runVars
<1>1. CASE JobsOnly
  BY <1>1, <1>u, Zenon DEF JobsOnly, runVars
<1>2. CASE TickFire
  BY <1>2, <1>u, Zenon DEF TickFire, runVars
<1>3. CASE TickReanchor
  BY <1>3, <1>u, Zenon DEF TickReanchor, runVars
<1>4. CASE Crash
  <2>1. Open' = {}
    BY <1>4 DEF Crash, Idle, Open
  <2>2. Cardinality(Open') = 0
    BY <2>1, FS_EmptySet
  <2>3. gone' = started - recorded /\ UNCHANGED <<started, recorded>>
    BY <1>4, Zenon DEF Crash
  <2> QED
    BY <1>n, <2>2, <2>3 DEF EveryRunAccounted, Open
<1>5. CASE Boot
  BY <1>5, <1>u, Zenon DEF Boot, runVars
<1>6. ASSUME NEW m \in Minutes, ClockForward(m) \/ ClockBack(m) PROVE EveryRunAccounted'
  BY <1>6, <1>u, Zenon DEF ClockForward, ClockBack, runVars
<1>7. ASSUME NEW s \in Slots, NEW j \in Jobs, TickLaunch(s, j) PROVE EveryRunAccounted'
  <2>1. s \notin Open /\ Open' = Open \cup {s}
    BY <1>7 DEF TickLaunch, Spawn, Open, At, TypeOK
  <2> QED
    BY <1>7, <1>a, <2>1, Zenon DEF TickLaunch, Spawn
<1>8. ASSUME NEW s \in Slots, NEW j \in Jobs, RunJobNow(s, j) PROVE EveryRunAccounted'
  <2>1. s \notin Open /\ Open' = Open \cup {s}
    BY <1>8 DEF RunJobNow, Spawn, Open, At, TypeOK
  <2> QED
    BY <1>8, <1>a, <2>1, Zenon DEF RunJobNow, Spawn
<1>9. ASSUME NEW s \in Slots, Begin(s) PROVE EveryRunAccounted'
  <2>1. Open' = Open
    BY <1>9 DEF Begin, Goto, GotoWith, At, Open, TypeOK
  <2> QED
    BY <1>9, <1>o, <2>1, Zenon DEF Begin
<1>10. ASSUME NEW s \in Slots, Skip(s) PROVE EveryRunAccounted'
  <2>1. s \in Open /\ Open' = Open \ {s}
    BY <1>10 DEF Skip, Ends, Idle, At, Open, TypeOK
  <2> QED
    BY <1>10, <1>r, <2>1, Zenon DEF Skip
<1>11. ASSUME NEW s \in Slots, Finish(s) PROVE EveryRunAccounted'
  <2>1. Open' = Open
    BY <1>11 DEF Finish, GotoWith, At, Open, TypeOK
  <2> QED
    BY <1>11, <1>o, <2>1, Zenon DEF Finish
<1>12. ASSUME NEW s \in Slots, Journal(s) PROVE EveryRunAccounted'
  <2>1. s \in Open /\ Open' = Open \ {s}
    BY <1>12 DEF Journal, Goto, GotoWith, At, Open, TypeOK
  <2> QED
    BY <1>12, <1>r, <2>1, Zenon DEF Journal
<1>13. ASSUME NEW s \in Slots, StreakReset(s) PROVE EveryRunAccounted'
  <2>1. Open' = Open
    BY <1>13 DEF StreakReset, Ends, Idle, At, Open, TypeOK
  <2> QED
    BY <1>13, <1>o, <2>1, Zenon DEF StreakReset
<1>14. ASSUME NEW s \in Slots, StreakRead(s) PROVE EveryRunAccounted'
  <2>1. Open' = Open
    BY <1>14 DEF StreakRead, GotoWith, At, Open, TypeOK
  <2> QED
    BY <1>14, <1>o, <2>1, Zenon DEF StreakRead
<1>15. ASSUME NEW s \in Slots, StreakBump(s) PROVE EveryRunAccounted'
  <2>1. Open' = Open
    BY <1>15 DEF StreakBump, Ends, Idle, At, Open, TypeOK
  <2> QED
    BY <1>15, <1>o, <2>1, Zenon DEF StreakBump
<1> QED
  BY StepCases, <1>0, <1>1, <1>2, <1>3, <1>4, <1>5, <1>6, <1>7, <1>8, <1>9, <1>10,
     <1>11, <1>12, <1>13, <1>14, <1>15, Zenon

\* Every run started is journalled, on its way there or lost to a fault, for any number
\* of threads (_record_run).
THEOREM EveryRunAccountedEver == Spec => []EveryRunAccounted
<1>1. Init => EveryRunAccounted
  <2> SUFFICES ASSUME Init PROVE EveryRunAccounted
    OBVIOUS
  <2>1. Open = {}
    BY DEF Init, Idle, Open
  <2>2. Cardinality(Open) = 0
    BY <2>1, FS_EmptySet
  <2> QED
    BY <2>2 DEF Init, EveryRunAccounted, Open
<1>2. TypeOK /\ Shape /\ EveryRunAccounted /\ [Next]_vars
        => TypeOK' /\ Shape' /\ EveryRunAccounted'
  BY TypeStep, CountStep
<1> QED
  BY TypeInit, <1>1, <1>2, PTL DEF Spec

-----------------------------------------------------------------------------
(* The streak. *)

AtTail(s) == run[s].pc \in TailPoints

\* What a job that was never tangled owes its streak: nothing when no run of it is
\* being accounted for, else the end of its only such run.
Streaks ==
  \A j \in Jobs \ tangled :
    /\ (\A s \in Slots : AtTail(s) => run[s].job # j) => streak[j] = row[j]
    /\ \A s \in Slots : AtTail(s) /\ run[s].job = j =>
         /\ \A t \in Slots : AtTail(t) /\ run[t].job = j => t = s
         /\ run[s].ok => row[j] = 0 /\ run[s].pc # "bump"
         /\ ~run[s].ok => row[j] = streak[j] + 1
         /\ run[s].pc = "bump" => run[s].seen = streak[j]

\* No run ends or is accounted for: the slots at their tail are those they were.
TailsKept ==
  /\ UNCHANGED <<streak, rowVars>>
  /\ \A s \in Slots : /\ run'[s].pc \in TailPoints <=> run[s].pc \in TailPoints
                      /\ AtTail(s) => /\ run'[s].job = run[s].job /\ run'[s].ok = run[s].ok
                                      /\ run'[s].pc = "bump" <=> run[s].pc = "bump"
                                      /\ run'[s].seen = run[s].seen

LEMMA StreaksKept == ASSUME Streaks, TailsKept PROVE Streaks'
  BY DEF Streaks, TailsKept, AtTail, rowVars

\* The run of s, at its tail, is accounted for; the streak is then what the row says
\* if no other run of the job is at its tail.
LEMMA StreaksEnd ==
  ASSUME TypeOK, Shape, Streaks, NEW s \in Slots, AtTail(s), NEW n,
         run' = [run EXCEPT ![s] = Idle],
         streak' = [streak EXCEPT ![run[s].job] = n],
         run[s].job \notin tangled => n = row[run[s].job],
         UNCHANGED rowVars
  PROVE  Streaks'
<1> DEFINE j == run[s].job
<1>1. j \in Jobs /\ streak'[j] = n /\ \A i \in Jobs : i # j => streak'[i] = streak[i]
  BY DEF AtTail, TailPoints, TypeOK, Shape
<1>2. ~AtTail(s)' /\ \A t \in Slots : t # s => run'[t] = run[t]
  BY DEF AtTail, TailPoints, Idle, TypeOK
<1>3. ASSUME NEW i \in Jobs \ tangled, i # j
      PROVE  /\ (\A t \in Slots : AtTail(t)' => run'[t].job # i) => streak'[i] = row[i]
             /\ \A t \in Slots : AtTail(t)' /\ run'[t].job = i =>
                  /\ \A u \in Slots : AtTail(u)' /\ run'[u].job = i => u = t
                  /\ run'[t].ok => row[i] = 0 /\ run'[t].pc # "bump"
                  /\ ~run'[t].ok => row[i] = streak'[i] + 1
                  /\ run'[t].pc = "bump" => run'[t].seen = streak'[i]
  BY <1>1, <1>2, <1>3 DEF Streaks, AtTail
<1>4. ASSUME j \notin tangled
      PROVE  streak'[j] = row[j] /\ \A t \in Slots : ~(AtTail(t)' /\ run'[t].job = j)
  BY <1>1, <1>2, <1>4 DEF Streaks, AtTail
<1>5. row' = row /\ tangled' = tangled
  BY DEF rowVars
<1>6. ASSUME NEW i \in Jobs \ tangled, i # j
      PROVE  /\ (\A t \in Slots : AtTail(t)' => run'[t].job # i) => streak'[i] = row'[i]
             /\ \A t \in Slots : AtTail(t)' /\ run'[t].job = i =>
                  /\ \A u \in Slots : AtTail(u)' /\ run'[u].job = i => u = t
                  /\ run'[t].ok => row'[i] = 0 /\ run'[t].pc # "bump"
                  /\ ~run'[t].ok => row'[i] = streak'[i] + 1
                  /\ run'[t].pc = "bump" => run'[t].seen = streak'[i]
  BY <1>3, <1>5, <1>6, Zenon
<1> QED
  BY <1>4, <1>5, <1>6, Zenon DEF Streaks

LEMMA StreaksStep == ASSUME TypeOK, Shape, Streaks, [Next]_vars PROVE Streaks'
<1>u. ASSUME UNCHANGED <<run, streak, rowVars>> PROVE Streaks'
  BY <1>u, StreaksKept DEF TailsKept
<1>0. CASE UNCHANGED vars
  BY <1>0, <1>u, Zenon DEF vars, runVars
<1>1. CASE JobsOnly
  BY <1>1, <1>u, Zenon DEF JobsOnly, runVars
<1>2. CASE TickFire
  BY <1>2, <1>u, Zenon DEF TickFire, runVars
<1>3. CASE TickReanchor
  BY <1>3, <1>u, Zenon DEF TickReanchor, runVars
<1>4. CASE Crash
  BY <1>4 DEF Crash, Idle, Streaks, AtTail, TailPoints
<1>5. CASE Boot
  BY <1>5, <1>u, Zenon DEF Boot, runVars
<1>6. ASSUME NEW m \in Minutes, ClockForward(m) \/ ClockBack(m) PROVE Streaks'
  BY <1>6, <1>u, Zenon DEF ClockForward, ClockBack, runVars
<1>7. ASSUME NEW s \in Slots, NEW j \in Jobs, TickLaunch(s, j) PROVE Streaks'
  BY <1>7, StreaksKept DEF TickLaunch, Spawn, TailsKept, AtTail, TailPoints, At, TypeOK, rowVars
<1>8. ASSUME NEW s \in Slots, NEW j \in Jobs, RunJobNow(s, j) PROVE Streaks'
  BY <1>8, StreaksKept DEF RunJobNow, Spawn, TailsKept, AtTail, TailPoints, At, TypeOK, rowVars
<1>9. ASSUME NEW s \in Slots, Begin(s) PROVE Streaks'
  BY <1>9, StreaksKept DEF Begin, Goto, GotoWith, TailsKept, AtTail, TailPoints, At, TypeOK, rowVars
<1>10. ASSUME NEW s \in Slots, Skip(s) PROVE Streaks'
  BY <1>10, StreaksKept DEF Skip, Ends, Idle, TailsKept, AtTail, TailPoints, At, TypeOK, rowVars
<1>11. ASSUME NEW s \in Slots, Finish(s) PROVE Streaks'
  <2> DEFINE j == run[s].job
  <2>1. PICK ok \in BOOLEAN :
          /\ run' = [run EXCEPT ![s] = [pc |-> "journal", job |-> j, trigger |-> run[s].trigger,
                                        ok |-> ok, seen |-> 0]]
          /\ row' = [row EXCEPT ![j] = IF ok THEN 0 ELSE @ + 1]
          /\ tangled' = IF Of(j, TailPoints) # {} THEN tangled \cup {j} ELSE tangled
          /\ streak' = streak
    BY <1>11, Zenon DEF Finish, GotoWith
  <2>2. j \in Jobs /\ ~AtTail(s) /\ AtTail(s)'
    BY <1>11, <2>1 DEF Finish, At, AtTail, TailPoints, TypeOK, Shape
  <2>3. /\ run'[s].job = j /\ run'[s].ok = ok /\ run'[s].pc = "journal"
        /\ \A t \in Slots : t # s => run'[t] = run[t]
        /\ row'[j] = (IF ok THEN 0 ELSE row[j] + 1)
        /\ \A i \in Jobs : i # j => row'[i] = row[i]
    BY <2>1, <2>2 DEF TypeOK
  <2>4. ASSUME NEW i \in Jobs \ tangled', i # j
        PROVE  /\ (\A t \in Slots : AtTail(t)' => run'[t].job # i) => streak'[i] = row'[i]
               /\ \A t \in Slots : AtTail(t)' /\ run'[t].job = i =>
                    /\ \A u \in Slots : AtTail(u)' /\ run'[u].job = i => u = t
                    /\ run'[t].ok => row'[i] = 0 /\ run'[t].pc # "bump"
                    /\ ~run'[t].ok => row'[i] = streak'[i] + 1
                    /\ run'[t].pc = "bump" => run'[t].seen = streak'[i]
    BY <2>1, <2>2, <2>3, <2>4 DEF Streaks, AtTail
  <2>5. ASSUME j \notin tangled'
        PROVE  /\ \A t \in Slots : AtTail(t) => run[t].job # j
               /\ streak[j] = row[j]
    BY <2>1, <2>2, <2>5 DEF Streaks, AtTail, Of
  <2>6. ASSUME j \notin tangled', NEW t \in Slots, AtTail(t)', run'[t].job = j PROVE t = s
    BY <2>3, <2>5, <2>6 DEF AtTail
  <2>7. ASSUME j \notin tangled'
        PROVE  (ok => row'[j] = 0) /\ (~ok => row'[j] = streak'[j] + 1)
    BY <2>1, <2>3, <2>5, <2>7
  <2>8. ASSUME j \notin tangled'
        PROVE  /\ ~\A t \in Slots : AtTail(t)' => run'[t].job # j
               /\ \A t \in Slots : AtTail(t)' /\ run'[t].job = j =>
                    /\ \A u \in Slots : AtTail(u)' /\ run'[u].job = j => u = t
                    /\ run'[t].ok => row'[j] = 0 /\ run'[t].pc # "bump"
                    /\ ~run'[t].ok => row'[j] = streak'[j] + 1
                    /\ run'[t].pc = "bump" => run'[t].seen = streak'[j]
    BY <2>2, <2>3, <2>6, <2>7, <2>8
  <2> QED
    BY <2>4, <2>8, Zenon DEF Streaks
<1>12. ASSUME NEW s \in Slots, Journal(s) PROVE Streaks'
  BY <1>12, StreaksKept DEF Journal, Goto, GotoWith, TailsKept, AtTail, TailPoints, At, TypeOK, rowVars
<1>13. ASSUME NEW s \in Slots, StreakReset(s) PROVE Streaks'
  <2>1. AtTail(s) /\ run[s].job \in Jobs
    BY <1>13 DEF StreakReset, At, AtTail, TailPoints, Shape
  <2>2. run[s].job \notin tangled => 0 = row[run[s].job]
    BY <1>13, <2>1 DEF StreakReset, Streaks
  <2> QED
    BY <1>13, <2>1, <2>2, StreaksEnd, Zenon DEF StreakReset, Ends
<1>14. ASSUME NEW s \in Slots, StreakRead(s) PROVE Streaks'
  <2>1. /\ run'[s].pc = "bump" /\ run'[s].job = run[s].job
        /\ run'[s].ok = FALSE /\ run'[s].seen = streak[run[s].job]
        /\ run[s].pc = "streak" /\ ~run[s].ok /\ run[s].job \in Jobs
        /\ \A t \in Slots : t # s => run'[t] = run[t]
        /\ UNCHANGED <<streak, row, tangled>>
    BY <1>14 DEF StreakRead, GotoWith, At, TypeOK, Shape, rowVars
  <2> QED
    BY <2>1 DEF Streaks, AtTail, TailPoints
<1>15. ASSUME NEW s \in Slots, StreakBump(s) PROVE Streaks'
  <2>1. AtTail(s) /\ run[s].job \in Jobs
    BY <1>15 DEF StreakBump, At, AtTail, TailPoints, Shape
  <2>2. run[s].job \notin tangled => run[s].seen + 1 = row[run[s].job]
    BY <1>15, <2>1 DEF StreakBump, Streaks, At, TypeOK, Runs
  <2> QED
    BY <1>15, <2>1, <2>2, StreaksEnd, Zenon DEF StreakBump, Ends
<1> QED
  BY StepCases, <1>0, <1>1, <1>2, <1>3, <1>4, <1>5, <1>6, <1>7, <1>8, <1>9, <1>10,
     <1>11, <1>12, <1>13, <1>14, <1>15, Zenon

\* While the runs of a job are accounted for one at a time, its streak is the number of
\* its runs that failed in a row, whatever was skipped or lost meanwhile
\* (_alert_on_failure).
THEOREM StreakCountsRowEver == Spec => []StreakCountsRow
<1>1. Init => Streaks
  BY DEF Init, Idle, Streaks, AtTail, TailPoints
<1>2. TypeOK /\ Shape /\ Streaks /\ [Next]_vars => TypeOK' /\ Shape' /\ Streaks'
  BY TypeStep, StreaksStep
<1>3. Streaks => StreakCountsRow
  BY DEF Streaks, StreakCountsRow, Of, AtTail
<1> QED
  BY TypeInit, <1>1, <1>2, <1>3, PTL DEF Spec

-----------------------------------------------------------------------------
(* The next run of the job list, where the clock is never shifted.         *)

LEMMA PlainClock ==
  ASSUME Spring = Autumn, NEW moment \in Nat
  PROVE  Wall(moment) = moment
<1>1. moment \notin Spring .. Autumn - 1
  BY CronAssumption DEF Moments, DayMinutes
<1> QED  BY <1>1 DEF Wall

LEMMA PlainTick == ASSUME Spring = Autumn PROVE Evaluated = Moments
<1>1. ASSUME NEW m \in Moments, NEW s \in 0 .. m - 1 PROVE Wall(s) < Wall(m)
  <2>1. m \in Nat /\ s \in Nat /\ s < m
    BY DEF Moments
  <2> QED  BY <2>1, PlainClock
<1> QED  BY <1>1 DEF Evaluated

LEMMA PlainReading == ASSUME Spring = Autumn, NEW wall PROVE Timestamp(wall) = wall
<1>1. {m \in Moments : Wall(m) = wall} = {m \in Moments : m = wall}
  BY PlainClock DEF Moments
<1>2. CASE wall \in Moments
  <2>1. {m \in Moments : Wall(m) = wall} = {wall} /\ wall \in Int
    BY <1>1, <1>2 DEF Moments
  <2>2. Min({wall}) = wall
    BY <2>1 DEF Min
  <2> QED  BY <2>1, <2>2 DEF Timestamp
<1>3. CASE wall \notin Moments
  BY <1>1, <1>3 DEF Timestamp
<1> QED  BY <1>2, <1>3

(* Where the clock is never shifted and the horizon covers the calendar,   *)
(* the next run shown is the launch that comes, for any expression, any    *)
(* calendar and any lengths of hours, days and weeks (next_run_ts against  *)
(* _tick_once).                                                            *)
THEOREM NextRunIsFirst ==
  ASSUME Spring = Autumn,
         \A wall \in Moments, cur \in Nat : DayOf(wall) < DayOf(cur) + Horizon,
         NEW parsed, NEW moment \in Moments
  PROVE  NextRun(parsed, moment) = NextLaunch(parsed, moment)
<1> DEFINE launches == {m \in Evaluated : m > moment /\ CronMatches(parsed, Wall(m))}
<1>1. moment \in Nat /\ \A m \in Moments : m \in Nat
  BY DEF Moments
<1>2. Wall(moment) = moment
  BY <1>1, PlainClock
<1>3. Candidates(parsed, moment) =
        {wall \in Moments : wall >= moment + 1 /\ CronMatches(parsed, wall)}
  <2>1. \A wall \in Moments : DayOf(wall) < DayOf(Wall(moment) + 1) + Horizon
    <3>1. Wall(moment) + 1 \in Nat
      BY <1>1, <1>2
    <3> QED  BY <3>1
  <2>2. Candidates(parsed, moment) =
          {wall \in Moments : wall >= Wall(moment) + 1 /\ CronMatches(parsed, wall)}
    BY <2>1, Zenon DEF Candidates
  <2> QED  BY <2>2, <1>2
<1>4. launches = {m \in Moments : m > moment /\ CronMatches(parsed, m)}
  BY <1>1, PlainTick, PlainClock
<1>5. \A m \in Moments : m >= moment + 1 <=> m > moment
  BY <1>1
<1>6. Candidates(parsed, moment) = launches
  BY <1>3, <1>4, <1>5
<1>7. NextLaunch(parsed, moment) = IF launches = {} THEN Never ELSE Min(launches)
  BY DEF NextLaunch
<1> QED  BY <1>6, <1>7, PlainReading DEF NextRun

=============================================================================
