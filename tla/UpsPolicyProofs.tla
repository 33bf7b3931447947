-------------------------- MODULE UpsPolicyProofs --------------------------
(***************************************************************************)
(* Theorems about UpsPolicy, for every value of its constants.             *)
(***************************************************************************)
EXTENDS UpsPolicy, TLAPS

-----------------------------------------------------------------------------
(* Saving the state file. *)

\* A save leaves a well-formed state file, whether it is lost or not (_save_state).
LEMMA SaveType ==
  ASSUME TypeOK, NEW new \in Disk, Save(new)
  PROVE  disk' \in Disk /\ faults' \in Nat /\ lostSaves' \in Nat
BY ValuesAssumption DEF TypeOK, Save, faultVars

\* So does a step's record, which writes the state back as it is when the steps
\* have been popped (_record_step).
LEMMA StepSaveType ==
  ASSUME TypeOK, NEW new \in Disk, StepSave(new)
  PROVE  disk' \in Disk /\ faults' \in Nat /\ lostSaves' \in Nat
<1>1. (IF disk.phase = "idle" THEN disk ELSE new) \in Disk
  BY DEF TypeOK
<1> QED
  BY <1>1, SaveType DEF StepSave

\* The fresh state of a latch is well formed (_engage).
LEMMA LatchType ==
  ASSUME NEW P \in SUBSET Targets
  PROVE  [Blank EXCEPT !.phase = "engaged", !.planned = P] \in Disk
BY DEF Blank, Disk, Phases

-----------------------------------------------------------------------------
(* Types. *)

\* Every state the policy reaches is well typed.
LEMMA InitType == Init => TypeOK
<1>1. Blank \in Disk
  BY DEF Blank, Disk, Phases
<1>2. [p \in Procs |-> {}] \in [Procs -> SUBSET Targets]
  OBVIOUS
<1> SUFFICES ASSUME Init PROVE TypeOK
  OBVIOUS
<1>3. disk \in Disk /\ lock \in Procs \cup {None}
  BY <1>1 DEF Init
<1>4. /\ plan \in [Procs -> SUBSET Targets] /\ todo \in [Procs -> SUBSET Targets]
      /\ skip \in [Procs -> SUBSET Targets] /\ failed \in [Procs -> SUBSET Targets]
  BY <1>2 DEF Init
<1>5. sweep \in [Procs -> SweepPoints] /\ pc \in [Procs -> WorkerPoints]
  BY DEF Init, SweepPoints, WorkerPoints
<1>6. /\ active \subseteq Procs /\ up \subseteq Procs /\ tail \in [Procs -> Nat]
      /\ running \subseteq Targets /\ view \subseteq Targets /\ reading \in Readings
  BY DEF Init, Readings
<1>7. /\ faults \in Nat /\ lostSaves \in Nat /\ owed \subseteq Targets /\ spared \subseteq Targets
      /\ announced \in BOOLEAN /\ sawAc \in BOOLEAN /\ lostAlert \in BOOLEAN
  BY DEF Init
<1> QED
  BY <1>3, <1>4, <1>5, <1>6, <1>7 DEF TypeOK

LEMMA SweepType ==
  ASSUME TypeOK, NEW p \in Procs, SweepStep(p)
  PROVE  TypeOK'
<1> USE ValuesAssumption
<1>1. CASE SweepPlan(p)
  BY <1>1 DEF TypeOK, SweepPlan, SweepGoto, SweepPoints, workerVars, threadVars, worldVars,
              faultVars, observed
<1>2. CASE SweepLatch(p)
  <2>1. plan[p] \in SUBSET Targets
    BY DEF TypeOK
  <2>2. disk' \in Disk /\ faults' \in Nat /\ lostSaves' \in Nat
    BY <1>2, <2>1, LatchType, SaveType DEF SweepLatch
  <2> QED
    BY <1>2, <2>1, <2>2 DEF TypeOK, SweepLatch, SweepGoto, SweepPoints, workerVars, threadVars,
                            worldVars
<1>3. CASE SweepAnnounce(p)
  BY <1>3 DEF TypeOK, SweepAnnounce, SweepGoto, SweepPoints, workerVars, threadVars, worldVars,
              faultVars
<1>4. CASE SweepFlip(p)
  <2>1. [disk EXCEPT !.phase = "restoring"] \in Disk
    BY DEF TypeOK, Disk, Phases
  <2>2. disk' \in Disk /\ faults' \in Nat /\ lostSaves' \in Nat
    BY <1>4, <2>1, SaveType DEF SweepFlip
  <2> QED
    BY <1>4, <2>2 DEF TypeOK, SweepFlip, SweepGoto, SweepPoints, workerVars, threadVars, worldVars
<1>5. CASE SweepWait(p)
  BY <1>5 DEF TypeOK, SweepWait, sweepVars, workerVars, threadVars, worldVars, faultVars
<1>6. CASE SweepResume(p)
  BY <1>6 DEF TypeOK, SweepResume, SweepGoto, SweepPoints, workerVars, threadVars, worldVars,
              faultVars, observed
<1>7. CASE SweepSpawn(p)
  <2>1. [disk EXCEPT !.owner = p] \in Disk
    BY DEF TypeOK, Disk
  <2>2. disk' \in Disk /\ faults' \in Nat /\ lostSaves' \in Nat
    BY <1>7, <2>1, SaveType DEF SweepSpawn, faultVars, TypeOK
  <2>3. pc' \in [Procs -> WorkerPoints]
    BY <1>7 DEF TypeOK, SweepSpawn, WorkerPoints, StopPoints, StartPoints
  <2> QED
    BY <1>7, <2>2, <2>3 DEF TypeOK, SweepSpawn, SweepPoints, worldVars, observed
<1> QED
  BY <1>1, <1>2, <1>3, <1>4, <1>5, <1>6, <1>7 DEF SweepStep

LEMMA StopType ==
  ASSUME TypeOK, NEW p \in Procs,
         \/ StopLoad(p) \/ StopCheck(p) \/ StopFinish(p)
         \/ \E t \in Targets : \/ StopSkip(p, t) \/ StopMark(p, t)
                              \/ StopRun(p, t) \/ StopRecord(p, t)
  PROVE  TypeOK'
<1> USE DEF WorkerPoints, StopPoints, StartPoints
<1>1. CASE StopLoad(p)
  <2>1. skip' \in [Procs -> SUBSET Targets]
    BY <1>1, TargetsAssumption DEF TypeOK, StopLoad
  <2>2. todo' \in [Procs -> SUBSET Targets]
    BY <1>1 DEF TypeOK, StopLoad
  <2> QED
    BY <1>1, <2>1, <2>2 DEF TypeOK, StopLoad, Goto, sweepVars, threadVars, worldVars, faultVars,
                            observed
<1>2. CASE StopCheck(p)
  BY <1>2 DEF TypeOK, StopCheck, Goto, sweepVars, threadVars, worldVars, faultVars, observed
<1>3. \A t \in Targets : /\ [disk EXCEPT !.done = @ \cup {t}] \in Disk
                         /\ [disk EXCEPT !.issued = @ \cup {t}] \in Disk
  BY DEF TypeOK, Disk
<1>4. ASSUME NEW t \in Targets, StopSkip(p, t) PROVE TypeOK'
  <2>1. disk' \in Disk /\ faults' \in Nat /\ lostSaves' \in Nat
    BY <1>3, <1>4, StepSaveType DEF StopSkip
  <2> QED
    BY <1>4, <2>1 DEF TypeOK, StopSkip, Drop, Goto, sweepVars, threadVars, worldVars, observed
<1>5. ASSUME NEW t \in Targets, StopMark(p, t) PROVE TypeOK'
  <2>1. disk' \in Disk /\ faults' \in Nat /\ lostSaves' \in Nat
    BY <1>3, <1>5, StepSaveType DEF StopMark
  <2> QED
    BY <1>5, <2>1 DEF TypeOK, StopMark, Goto, sweepVars, threadVars, worldVars, observed
<1>6. ASSUME NEW t \in Targets, StopRun(p, t) PROVE TypeOK'
  BY <1>6 DEF TypeOK, StopRun, Goto, sweepVars, threadVars, faultVars, observed
<1>7. ASSUME NEW t \in Targets, StopRecord(p, t) PROVE TypeOK'
  <2>1. disk' \in Disk /\ faults' \in Nat /\ lostSaves' \in Nat
    BY <1>3, <1>7, StepSaveType DEF StopRecord
  <2> QED
    BY <1>7, <2>1 DEF TypeOK, StopRecord, Drop, Goto, sweepVars, threadVars, worldVars, observed
<1>8. CASE StopFinish(p)
  <2>1. [disk EXCEPT !.stopDone = TRUE] \in Disk
    BY DEF TypeOK, Disk
  <2>2. disk' \in Disk /\ faults' \in Nat /\ lostSaves' \in Nat
    BY <1>8, <2>1, SaveType DEF StopFinish
  <2> QED
    BY <1>8, <2>2 DEF TypeOK, StopFinish, Goto, sweepVars, threadVars, worldVars, observed
<1> QED
  BY <1>1, <1>2, <1>4, <1>5, <1>6, <1>7, <1>8

\* The state the restore leaves behind is well formed (finish).
LEMMA IdleType ==
  ASSUME TypeOK
  PROVE  [disk EXCEPT !.phase = "idle", !.planned = {}, !.issued = {}, !.done = {},
                      !.stopDone = FALSE] \in Disk
BY DEF TypeOK, Disk, Phases

LEMMA StartType ==
  ASSUME TypeOK, NEW p \in Procs,
         \/ StartLoad(p) \/ StartFinish(p) \/ WorkerExit(p) \/ WorkerUnclaim(p)
         \/ WorkerAbort(p) \/ \E t \in Targets : StartRun(p, t)
  PROVE  TypeOK'
<1> USE DEF WorkerPoints, StopPoints, StartPoints
<1>1. CASE StartLoad(p)
  BY <1>1 DEF TypeOK, StartLoad, Touched, Goto, Disk, sweepVars, threadVars, worldVars,
              faultVars, observed
<1>2. ASSUME NEW t \in Targets, StartRun(p, t) PROVE TypeOK'
  BY <1>2 DEF TypeOK, StartRun, Drop, sweepVars, threadVars, faultVars, observed
<1>3. CASE StartFinish(p)
  <2>1. disk' \in Disk /\ faults' \in Nat /\ lostSaves' \in Nat
    BY <1>3, IdleType, SaveType DEF StartFinish
  <2> QED
    BY <1>3, <2>1 DEF TypeOK, StartFinish, Goto, sweepVars, threadVars, worldVars, observed
<1>4. CASE WorkerExit(p)
  BY <1>4 DEF TypeOK, WorkerExit, ThreadEnds, Goto, sweepVars, worldVars, faultVars, observed
<1>5. CASE WorkerUnclaim(p)
  <2>1. [disk EXCEPT !.owner = None] \in Disk
    BY DEF TypeOK, Disk
  <2>2. disk' \in Disk /\ faults' \in Nat /\ lostSaves' \in Nat
    BY <1>5, <2>1, SaveType DEF WorkerUnclaim
  <2>3. tail' \in [Procs -> Nat]
    BY <1>5 DEF TypeOK, WorkerUnclaim
  <2> QED
    BY <1>5, <2>2, <2>3 DEF TypeOK, WorkerUnclaim, sweepVars, workerVars, worldVars, observed
<1>6. CASE WorkerAbort(p)
  BY <1>6 DEF TypeOK, WorkerAbort, Goto, sweepVars, threadVars, worldVars, observed
<1> QED
  BY <1>1, <1>2, <1>3, <1>4, <1>5, <1>6

LEMMA CrashType ==
  ASSUME TypeOK, NEW p \in Procs, Crash(p)
  PROVE  TypeOK'
<1>1. disk' \in Disk
  BY ValuesAssumption DEF TypeOK, Crash, Disk
<1>2. /\ pc' \in [Procs -> WorkerPoints] /\ todo' \in [Procs -> SUBSET Targets]
      /\ skip' \in [Procs -> SUBSET Targets] /\ failed' \in [Procs -> SUBSET Targets]
  BY DEF TypeOK, Crash, ThreadEnds, Goto, WorkerPoints
<1>3. /\ sweep' \in [Procs -> SweepPoints] /\ plan' \in [Procs -> SUBSET Targets]
      /\ tail' \in [Procs -> Nat] /\ lock' \in Procs \cup {None}
  BY DEF TypeOK, Crash, SweepPoints
<1> QED
  BY <1>1, <1>2, <1>3 DEF TypeOK, Crash, worldVars

LEMMA WorldType ==
  ASSUME TypeOK, World \/ \E p \in Procs : Restart(p)
  PROVE  TypeOK'
<1> USE DEF sweepVars, workerVars, threadVars, worldVars, faultVars, observed
<1>1. CASE ClaimExpires
  BY <1>1 DEF TypeOK, ClaimExpires, Disk
<1>2. CASE PowerChanges
  BY <1>2 DEF TypeOK, PowerChanges
<1>3. CASE ViewRefreshes
  BY <1>3 DEF TypeOK, ViewRefreshes
<1>4. ASSUME NEW t \in Targets, HandStop(t) \/ HandStart(t)
      PROVE  TypeOK'
  BY <1>4 DEF TypeOK, HandStop, HandStart
<1>5. ASSUME NEW p \in Procs, Restart(p)
      PROVE  TypeOK'
  BY <1>5 DEF TypeOK, Restart
<1> QED
  BY <1>1, <1>2, <1>3, <1>4, <1>5 DEF World

\* The state file, the threads and the world stay well typed in every execution.
LEMMA NextType == TypeOK /\ [Next]_vars => TypeOK'
<1> SUFFICES ASSUME TypeOK, [Next]_vars PROVE TypeOK'
  OBVIOUS
<1>1. ASSUME NEW p \in Procs, SweepStep(p) PROVE TypeOK'
  BY <1>1, SweepType
<1>2. ASSUME NEW p \in Procs, WorkerStep(p) \/ WorkerUnclaim(p) \/ WorkerAbort(p) PROVE TypeOK'
  BY <1>2, StopType, StartType DEF WorkerStep
<1>3. ASSUME NEW p \in Procs, Crash(p) PROVE TypeOK'
  BY <1>3, CrashType
<1>4. CASE World \/ \E p \in Procs : Restart(p)
  BY <1>4, WorldType
<1>5. CASE UNCHANGED vars
  BY <1>5 DEF TypeOK, vars, sweepVars, workerVars, threadVars, worldVars, faultVars, observed
<1> QED
  BY <1>1, <1>2, <1>3, <1>4, <1>5 DEF Next

\* Every state of every execution is well typed, whatever the number of panel
\* processes, targets, crashes and lost saves.
THEOREM TypeCorrect == Spec => []TypeOK
BY InitType, NextType, PTL DEF Spec

-----------------------------------------------------------------------------
(* The decision to engage is atomic.  A sweep holds the file lock from its  *)
(* first step to its last, a worker saves only while the lock is free, so   *)
(* the phase a sweep has read is the phase it overwrites.                   *)

SweepHoldsLock == \A p \in Procs : sweep[p] # "none" => lock = p

PlansWhenIdle == \A p \in Procs : sweep[p] = "planned" => disk.phase = "idle"

LockInv == TypeOK /\ SweepHoldsLock /\ PlansWhenIdle

\* A step outside the sweep keeps what the sweeps have read, if it saves under
\* the free lock or leaves the phase as it is (_mutate).
LEMMA OutsideTheSweep ==
  ASSUME LockInv, sweep' = sweep, lock' = lock,
         LockFree \/ disk' = disk \/ disk'.phase = disk.phase
  PROVE  SweepHoldsLock' /\ PlansWhenIdle'
<1>1. CASE LockFree
  BY <1>1, ValuesAssumption DEF LockInv, LockFree, SweepHoldsLock, PlansWhenIdle
<1>2. CASE disk'.phase = disk.phase
  BY <1>2 DEF LockInv, SweepHoldsLock, PlansWhenIdle
<1> QED
  BY <1>1, <1>2

\* A sweep's own steps keep the lock, and the plan stands on an idle policy.
LEMMA InsideTheSweep ==
  ASSUME LockInv, NEW p \in Procs, SweepStep(p)
  PROVE  SweepHoldsLock' /\ PlansWhenIdle'
<1> USE ValuesAssumption DEF LockInv, TypeOK, SweepHoldsLock, PlansWhenIdle
<1>1. CASE SweepPlan(p)
  BY <1>1 DEF SweepPlan, SweepGoto, SweepStart, LockFree, SweepPoints
<1>2. CASE SweepLatch(p)
  BY <1>2 DEF SweepLatch, SweepGoto, SweepPoints
<1>3. CASE SweepAnnounce(p)
  BY <1>3 DEF SweepAnnounce, SweepGoto, SweepPoints
<1>4. CASE SweepFlip(p)
  BY <1>4 DEF SweepFlip, SweepGoto, SweepStart, LockFree, SweepPoints
<1>5. CASE SweepWait(p)
  BY <1>5, OutsideTheSweep DEF SweepWait, sweepVars
<1>6. CASE SweepResume(p)
  BY <1>6 DEF SweepResume, SweepGoto, SweepStart, LockFree, SweepPoints
<1>7. CASE SweepSpawn(p)
  BY <1>7 DEF SweepSpawn, SweepPoints
<1> QED
  BY <1>1, <1>2, <1>3, <1>4, <1>5, <1>6, <1>7 DEF SweepStep

LEMMA LockInvStep == LockInv /\ [Next]_vars => LockInv'
<1> SUFFICES ASSUME LockInv, [Next]_vars PROVE SweepHoldsLock' /\ PlansWhenIdle'
  BY NextType DEF LockInv
<1>1. ASSUME NEW p \in Procs, SweepStep(p) PROVE SweepHoldsLock' /\ PlansWhenIdle'
  BY <1>1, InsideTheSweep
<1>2. ASSUME NEW p \in Procs, WorkerStep(p) \/ WorkerUnclaim(p) \/ WorkerAbort(p) \/ Restart(p)
      PROVE  SweepHoldsLock' /\ PlansWhenIdle'
  <2>1. sweep' = sweep /\ lock' = lock
    BY <1>2 DEF WorkerStep, WorkerUnclaim, WorkerAbort, Restart, StopLoad, StopCheck, StopSkip,
                StopMark, StopRun, StopRecord, StopFinish, StartLoad, StartRun, StartFinish,
                WorkerExit, sweepVars
  <2>2. LockFree \/ disk' = disk
    BY <1>2 DEF WorkerStep, WorkerUnclaim, WorkerAbort, Restart, StopLoad, StopCheck, StopSkip,
                StopMark, StopRun, StopRecord, StopFinish, StartLoad, StartRun, StartFinish,
                WorkerExit
  <2> QED
    BY <2>1, <2>2, OutsideTheSweep
<1>3. ASSUME NEW p \in Procs, Crash(p) PROVE SweepHoldsLock' /\ PlansWhenIdle'
  <2>1. disk'.phase = disk.phase
    BY <1>3 DEF Crash, LockInv, TypeOK, Disk
  <2>2. sweep' = [sweep EXCEPT ![p] = "none"] /\ lock' = IF lock = p THEN None ELSE lock
    BY <1>3 DEF Crash
  <2> QED
    BY <2>1, <2>2 DEF LockInv, TypeOK, SweepHoldsLock, PlansWhenIdle
<1>4. CASE World
  <2>1. sweep' = sweep /\ lock' = lock
    BY <1>4 DEF World, ClaimExpires, PowerChanges, ViewRefreshes, HandStop, HandStart, sweepVars
  <2>2. disk'.phase = disk.phase
    BY <1>4 DEF World, ClaimExpires, PowerChanges, ViewRefreshes, HandStop, HandStart, LockInv,
                TypeOK, Disk
  <2> QED
    BY <2>1, <2>2, OutsideTheSweep
<1>5. CASE UNCHANGED vars
  BY <1>5, OutsideTheSweep DEF vars, sweepVars
<1> QED
  BY <1>1, <1>2, <1>3, <1>4, <1>5 DEF Next

\* Whatever the number of panel processes that share the state file, and
\* whichever of them dies while it holds the lock, a latch never replaces the
\* steps of an outage that is being handled.
THEOREM LatchIsAtomic == Spec => LatchOnlyFromIdle
<1>1. Init => LockInv
  BY InitType DEF Init, LockInv, SweepHoldsLock, PlansWhenIdle
<1>2. LockInv => [\A p \in Procs : Latches(p) => disk.phase = "idle"]_vars
  BY DEF LockInv, PlansWhenIdle, Latches
<1> QED
  BY <1>1, <1>2, LockInvStep, PTL DEF Spec, LatchOnlyFromIdle

-----------------------------------------------------------------------------
(* Nothing stopped is forgotten.  With one panel process, whose worker      *)
(* keeps its event set as long as it runs, no sweep touches the steps under *)
(* a worker; the marker of a target is on disk before its stop command, and *)
(* the restore goes through all that carry one.  (A second process breaks   *)
(* the first of these facts, see the run ups_second_worker.)                *)

WorkersActive == \A p \in Procs : pc[p] # "off" => p \in active

StopsWhenLatched ==
  \A p \in Procs : pc[p] \in {"stopMark", "stopRun", "stopRecord"} => disk.phase # "idle"

MarkerFirst ==
  \A p \in Procs, t \in Targets : pc[p] = "stopRun" /\ Current(p, t) => t \in disk.issued

RestoreCovers == \A p \in Procs : pc[p] = "startRun" => owed \subseteq todo[p] \cup failed[p]

OwedIsMarked == \A t \in owed : disk.phase # "idle" /\ t \in disk.issued

Marked == StopsWhenLatched /\ MarkerFirst /\ RestoreCovers /\ OwedIsMarked

MarkerInv == LockInv /\ WorkersActive /\ (lostSaves = 0 => Marked)

\* As long as no save has been lost, a save has written what it was given.
LEMMA SaveKept ==
  ASSUME TypeOK, NEW new, Save(new), lostSaves' = 0
  PROVE  disk' = new /\ lostSaves = 0
BY DEF TypeOK, Save, faultVars

LEMMA StepSaveKept ==
  ASSUME TypeOK, NEW new, StepSave(new), lostSaves' = 0
  PROVE  disk' = (IF disk.phase = "idle" THEN disk ELSE new) /\ lostSaves = 0
BY SaveKept DEF StepSave

\* A loss is never undone.
LEMMA LossStays ==
  ASSUME TypeOK, [Next]_vars, lostSaves' = 0
  PROVE  lostSaves = 0
<1> USE SaveKept, StepSaveKept DEF faultVars
<1>1. ASSUME NEW p \in Procs, SweepStep(p) PROVE lostSaves = 0
  BY <1>1 DEF SweepStep, SweepPlan, SweepLatch, SweepAnnounce, SweepFlip, SweepWait, SweepResume,
              SweepSpawn
<1>2. ASSUME NEW p \in Procs, WorkerStep(p) \/ WorkerUnclaim(p) PROVE lostSaves = 0
  BY <1>2 DEF WorkerStep, WorkerUnclaim, StopLoad, StopCheck, StopSkip, StopMark, StopRun,
              StopRecord, StopFinish, StartLoad, StartRun, StartFinish, WorkerExit
<1>3. ASSUME NEW p \in Procs, WorkerAbort(p) \/ Crash(p) \/ Restart(p) PROVE lostSaves = 0
  BY <1>3 DEF WorkerAbort, Crash, Restart
<1>4. CASE World
  BY <1>4 DEF World, ClaimExpires, PowerChanges, ViewRefreshes, HandStop, HandStart
<1> QED
  BY <1>1, <1>2, <1>3, <1>4 DEF Next, vars

\* A worker that runs has its event set: it is set with the thread's start and
\* cleared with its end (_spawn).
LEMMA WorkersActiveStep ==
  ASSUME TypeOK, WorkersActive, [Next]_vars
  PROVE  WorkersActive'
<1> USE DEF WorkersActive, TypeOK
<1>1. ASSUME NEW p \in Procs, SweepSpawn(p) PROVE WorkersActive'
  BY <1>1 DEF SweepSpawn
<1>2. ASSUME NEW p \in Procs, WorkerExit(p) PROVE WorkersActive'
  BY <1>2 DEF WorkerExit, ThreadEnds, Goto
<1>3. ASSUME NEW p \in Procs, Crash(p) PROVE WorkersActive'
  BY <1>3 DEF Crash, ThreadEnds, Goto
<1>4. ASSUME NEW p \in Procs, SweepStep(p), ~SweepSpawn(p) PROVE WorkersActive'
  BY <1>4 DEF SweepStep, SweepPlan, SweepLatch, SweepAnnounce, SweepFlip, SweepWait,
              SweepResume, workerVars, threadVars
<1>5. ASSUME NEW p \in Procs, WorkerStep(p) \/ WorkerAbort(p), ~WorkerExit(p) PROVE WorkersActive'
  <2>1. active' = active /\ pc[p] # "off" /\ \A q \in Procs : q # p => pc'[q] = pc[q]
    BY <1>5 DEF WorkerStep, WorkerAbort, StopLoad, StopCheck, StopSkip, StopMark, StopRun,
                StopRecord, StopFinish, StartLoad, StartRun, StartFinish, Goto, threadVars
  <2> QED
    BY <2>1
<1>6. CASE \E p \in Procs : WorkerUnclaim(p) \/ Restart(p)
  BY <1>6 DEF WorkerUnclaim, Restart, workerVars
<1>7. CASE World \/ UNCHANGED vars
  BY <1>7 DEF World, ClaimExpires, PowerChanges, ViewRefreshes, HandStop, HandStart, vars,
              workerVars, threadVars
<1> QED
  BY <1>1, <1>2, <1>3, <1>4, <1>5, <1>6, <1>7 DEF Next

\* The sweep of the only process: it latches on an idle policy, which owes
\* nothing, and never flips or latches under a running worker.
LEMMA MarkedBySweep ==
  ASSUME NEW q, Procs = {q}, MarkerInv, Marked, SweepStep(q), lostSaves' = 0
  PROVE  Marked'
<1> USE DEF MarkerInv, LockInv, Marked, StopsWhenLatched, MarkerFirst, RestoreCovers, OwedIsMarked
<1>1. CASE SweepPlan(q) \/ SweepAnnounce(q) \/ SweepWait(q) \/ SweepResume(q)
  BY <1>1 DEF SweepPlan, SweepAnnounce, SweepWait, SweepResume, workerVars, Current
<1>2. CASE SweepLatch(q)
  <2>1. disk.phase = "idle"
    BY <1>2 DEF SweepLatch, PlansWhenIdle
  <2>2. owed = {} /\ owed' = owed /\ UNCHANGED workerVars
    BY <1>2, <2>1 DEF SweepLatch
  <2> DEFINE latched == [Blank EXCEPT !.phase = "engaged", !.planned = plan[q]]
  <2>3. Save(latched)
    BY <1>2 DEF SweepLatch
  <2>4. disk' = latched
    BY <2>3, SaveKept
  <2>5. disk'.phase # "idle"
    BY <2>4 DEF Blank
  <2> QED
    BY <2>1, <2>2, <2>5 DEF workerVars
<1>3. CASE SweepFlip(q)
  <2>1. disk'.phase = "restoring" /\ disk'.issued = disk.issued
    BY <1>3, SaveKept DEF SweepFlip, TypeOK, Disk
  <2>2. owed' = owed /\ UNCHANGED workerVars
    BY <1>3 DEF SweepFlip
  <2> QED
    BY <2>1, <2>2 DEF workerVars, Current
<1>4. CASE SweepSpawn(q)
  <2>1. disk'.phase = disk.phase /\ disk'.issued = disk.issued
    BY <1>4, SaveKept DEF SweepSpawn, TypeOK, Disk
  <2>2. owed' = owed /\ todo' = todo /\ failed' = failed
    BY <1>4 DEF SweepSpawn
  <2>3. pc'[q] = pc[q] \/ pc'[q] \in {"stopLoad", "startLoad"}
    BY <1>4 DEF SweepSpawn, TypeOK
  <2> QED
    BY <2>1, <2>2, <2>3 DEF Current
<1> QED
  BY <1>1, <1>2, <1>3, <1>4 DEF SweepStep

\* The stop sequence: the phase cannot leave the latch under it, and a stop
\* command follows its marker.
LEMMA MarkedByStop ==
  ASSUME NEW q, Procs = {q}, MarkerInv, Marked, lostSaves' = 0,
         \/ StopLoad(q) \/ StopCheck(q) \/ StopFinish(q)
         \/ \E t \in Targets : \/ StopSkip(q, t) \/ StopMark(q, t)
                              \/ StopRun(q, t) \/ StopRecord(q, t)
  PROVE  Marked'
<1> USE DEF MarkerInv, LockInv, Marked, StopsWhenLatched, MarkerFirst, RestoreCovers, OwedIsMarked,
            TypeOK
<1>1. CASE StopLoad(q) \/ StopCheck(q)
  BY <1>1 DEF StopLoad, StopCheck, Goto
<1>2. CASE StopFinish(q)
  <2>1. disk'.phase = disk.phase /\ disk'.issued = disk.issued
    BY <1>2, SaveKept DEF StopFinish, Disk
  <2> QED
    BY <1>2, <2>1 DEF StopFinish, Goto
<1>3. ASSUME NEW t \in Targets, StopSkip(q, t) \/ StopRecord(q, t) PROVE Marked'
  <2>1. disk'.phase = disk.phase /\ disk'.issued = disk.issued
    BY <1>3, StepSaveKept DEF StopSkip, StopRecord, Disk
  <2> QED
    BY <1>3, <2>1 DEF StopSkip, StopRecord, Goto
<1>4. ASSUME NEW t \in Targets, StopMark(q, t) PROVE Marked'
  <2>1. disk.phase # "idle"
    BY <1>4 DEF StopMark
  <2>2. disk'.phase = disk.phase /\ disk'.issued = disk.issued \cup {t}
    BY <1>4, <2>1, StepSaveKept DEF StopMark, Disk
  <2>3. \A u \in Targets : Current(q, u) => u = t
    BY <1>4, TargetsAssumption DEF StopMark, Current
  <2>4. owed' = owed /\ todo' = todo /\ pc'[q] = "stopRun"
    BY <1>4 DEF StopMark, Goto
  <2> QED
    BY <2>1, <2>2, <2>3, <2>4 DEF Current
<1>5. ASSUME NEW t \in Targets, StopRun(q, t) PROVE Marked'
  BY <1>5 DEF StopRun, Goto
<1> QED
  BY <1>1, <1>2, <1>3, <1>4, <1>5

\* The restore: what it has not come to yet or failed to start covers all that
\* is owed, so that nothing is left when it returns the policy to idle.
LEMMA MarkedByStart ==
  ASSUME NEW q, Procs = {q}, MarkerInv, Marked, lostSaves' = 0,
         StartLoad(q) \/ StartFinish(q) \/ \E t \in Targets : StartRun(q, t)
  PROVE  Marked'
<1> USE DEF MarkerInv, LockInv, Marked, StopsWhenLatched, MarkerFirst, RestoreCovers, OwedIsMarked,
            TypeOK
<1>1. CASE StartLoad(q)
  BY <1>1 DEF StartLoad, Touched, Goto
<1>2. CASE StartFinish(q)
  BY <1>2 DEF StartFinish, Goto
<1>3. ASSUME NEW t \in Targets, StartRun(q, t) PROVE Marked'
  BY <1>3 DEF StartRun, Drop
<1> QED
  BY <1>1, <1>2, <1>3

\* Whatever else happens leaves the phase and the markers alone, and adds
\* nothing to what is owed.
LEMMA MarkedByRest ==
  ASSUME NEW q, Procs = {q}, MarkerInv, Marked, lostSaves' = 0,
         \/ WorkerExit(q) \/ WorkerUnclaim(q) \/ WorkerAbort(q) \/ Crash(q) \/ Restart(q)
         \/ World \/ UNCHANGED vars
  PROVE  Marked'
<1> USE DEF MarkerInv, LockInv, Marked, StopsWhenLatched, MarkerFirst, RestoreCovers, OwedIsMarked,
            TypeOK
<1>1. CASE WorkerExit(q) \/ WorkerAbort(q)
  BY <1>1 DEF WorkerExit, WorkerAbort, ThreadEnds, Goto
<1>2. CASE WorkerUnclaim(q)
  <2>1. disk'.phase = disk.phase /\ disk'.issued = disk.issued
    BY <1>2, SaveKept DEF WorkerUnclaim, Disk
  <2> QED
    BY <1>2, <2>1 DEF WorkerUnclaim, workerVars, Current
<1>3. CASE Crash(q)
  <2>1. disk'.phase = disk.phase /\ disk'.issued = disk.issued
    BY <1>3 DEF Crash, Disk
  <2> QED
    BY <1>3, <2>1 DEF Crash, ThreadEnds, Goto
<1>4. CASE Restart(q) \/ UNCHANGED vars
  BY <1>4 DEF Restart, vars, workerVars, Current
<1>5. CASE World
  <2>1. disk'.phase = disk.phase /\ disk'.issued = disk.issued
    BY <1>5 DEF World, ClaimExpires, PowerChanges, ViewRefreshes, HandStop, HandStart, Disk
  <2>2. owed' \subseteq owed /\ UNCHANGED workerVars
    BY <1>5 DEF World, ClaimExpires, PowerChanges, ViewRefreshes, HandStop, HandStart
  <2> QED
    BY <2>1, <2>2 DEF workerVars, Current
<1> QED
  BY <1>1, <1>2, <1>3, <1>4, <1>5

LEMMA MarkerInvStep ==
  ASSUME NEW q, Procs = {q}
  PROVE  MarkerInv /\ [Next]_vars => MarkerInv'
<1> SUFFICES ASSUME MarkerInv, [Next]_vars PROVE MarkerInv'
  OBVIOUS
<1>1. LockInv' /\ WorkersActive'
  BY LockInvStep, WorkersActiveStep DEF MarkerInv, LockInv
<1>2. ASSUME lostSaves' = 0 PROVE Marked'
  <2>1. Marked
    BY <1>2, LossStays DEF MarkerInv, LockInv
  <2>2. CASE SweepStep(q)
    BY <1>2, <2>1, <2>2, MarkedBySweep
  <2>3. CASE WorkerStep(q)
    BY <1>2, <2>1, <2>3, MarkedByStop, MarkedByStart, MarkedByRest DEF WorkerStep
  <2>4. CASE WorkerUnclaim(q) \/ WorkerAbort(q) \/ Crash(q) \/ Restart(q) \/ World \/ UNCHANGED vars
    BY <1>2, <2>1, <2>4, MarkedByRest
  <2> QED
    BY <2>2, <2>3, <2>4 DEF Next
<1> QED
  BY <1>1, <1>2 DEF MarkerInv

\* With one panel process, whatever crashes and restarts: a target the policy
\* took down is remembered by the state file until it runs again or has been
\* reported, as long as no save was lost.
THEOREM NothingIsForgotten ==
  ASSUME NEW q, Procs = {q}
  PROVE  Spec => []NothingForgotten
<1>1. Init => MarkerInv
  BY InitType DEF Init, MarkerInv, LockInv, SweepHoldsLock, PlansWhenIdle, WorkersActive, Marked,
                  StopsWhenLatched, MarkerFirst, RestoreCovers, OwedIsMarked
<1>2. MarkerInv /\ [Next]_vars => MarkerInv'
  BY MarkerInvStep
<1>3. MarkerInv => NothingForgotten
  BY DEF MarkerInv, Marked, OwedIsMarked, NothingForgotten, Forgotten
<1> QED
  BY <1>1, <1>2, <1>3, PTL DEF Spec

-----------------------------------------------------------------------------
(* The alert comes first.  From its latch to its alert a sweep holds the    *)
(* file lock, and a marker is written under the free lock only; a latch     *)
(* that has been neither announced nor lost with its panel is still held.   *)

StepsPopped == disk.phase = "idle" => disk.issued = {}

LatchBare == \A p \in Procs : sweep[p] = "latched" => disk.issued = {}

OutageTold ==
  disk.phase # "idle" => announced \/ lostAlert \/ \E p \in Procs : sweep[p] = "latched"

AlertInv == LockInv /\ StepsPopped /\ LatchBare /\ OutageTold

\* A step that is no latch, alert or crash keeps what has been told; one that
\* writes a marker does so on a policy that is not idle, under the free lock.
LEMMA ToldStays ==
  ASSUME AlertInv, announced' = announced, lostAlert' = lostAlert,
         disk'.phase = disk.phase, disk'.issued = disk.issued,
         \A p \in Procs : sweep'[p] = "latched" <=> sweep[p] = "latched"
  PROVE  StepsPopped' /\ LatchBare' /\ OutageTold'
BY DEF AlertInv, StepsPopped, LatchBare, OutageTold

\* A save that changes neither the phase nor the markers, lost or not.
LEMMA SaveSame ==
  ASSUME NEW new, Save(new), new.phase = disk.phase, new.issued = disk.issued
  PROVE  disk'.phase = disk.phase /\ disk'.issued = disk.issued
BY DEF Save

LEMMA AlertBySweep ==
  ASSUME AlertInv, NEW p \in Procs, SweepStep(p)
  PROVE  StepsPopped' /\ LatchBare' /\ OutageTold'
<1> USE DEF AlertInv, LockInv, TypeOK
<1>1. CASE SweepPlan(p)
  <2>1. \A q \in Procs : sweep'[q] = "latched" <=> sweep[q] = "latched"
    BY <1>1 DEF SweepPlan, SweepStart, SweepGoto
  <2> QED
    BY <1>1, <2>1, ToldStays DEF SweepPlan, observed
<1>2. CASE SweepLatch(p)
  <2>1. sweep'[p] = "latched"
    BY <1>2 DEF SweepLatch, SweepGoto
  <2>2. disk.phase = "idle" /\ disk.issued = {}
    BY <1>2 DEF SweepLatch, PlansWhenIdle, StepsPopped
  <2> DEFINE latched == [Blank EXCEPT !.phase = "engaged", !.planned = plan[p]]
  <2>3. latched.issued = {}
    BY DEF Blank
  <2>4. Save(latched)
    BY <1>2 DEF SweepLatch
  <2> HIDE DEF latched
  <2>5. disk'.issued = {}
    BY <2>2, <2>3, <2>4 DEF Save
  <2> QED
    BY <2>1, <2>5 DEF StepsPopped, LatchBare, OutageTold
<1>3. CASE SweepAnnounce(p)
  BY <1>3 DEF SweepAnnounce, SweepGoto, StepsPopped, LatchBare, OutageTold
<1>4. CASE SweepFlip(p)
  <2>1. \A q \in Procs : sweep[q] = "none"
    BY <1>4, ValuesAssumption DEF SweepFlip, SweepStart, LockFree, SweepHoldsLock
  <2>2. \A q \in Procs : sweep'[q] # "latched"
    BY <1>4, <2>1 DEF SweepFlip, SweepGoto
  <2>3. disk.phase # "idle" /\ (announced \/ lostAlert)
    BY <1>4, <2>1 DEF SweepFlip, OutageTold
  <2>4. disk'.phase # "idle"
    BY <1>4, <2>3 DEF SweepFlip, Save, Disk
  <2> QED
    BY <1>4, <2>2, <2>3, <2>4 DEF SweepFlip, StepsPopped, LatchBare, OutageTold
<1>5. CASE SweepWait(p)
  BY <1>5, ToldStays DEF SweepWait, sweepVars
<1>6. CASE SweepResume(p)
  <2>1. \A q \in Procs : sweep'[q] = "latched" <=> sweep[q] = "latched"
    BY <1>6 DEF SweepResume, SweepStart, SweepGoto
  <2> QED
    BY <1>6, <2>1, ToldStays DEF SweepResume, observed
<1>7. CASE SweepSpawn(p)
  <2>1. \A q \in Procs : sweep'[q] = "latched" <=> sweep[q] = "latched"
    BY <1>7 DEF SweepSpawn
  <2>2. disk'.phase = disk.phase /\ disk'.issued = disk.issued
    BY <1>7, SaveSame DEF SweepSpawn, Disk
  <2> QED
    BY <1>7, <2>1, <2>2, ToldStays DEF SweepSpawn, observed
<1> QED
  BY <1>1, <1>2, <1>3, <1>4, <1>5, <1>6, <1>7 DEF SweepStep

LEMMA AlertByWorker ==
  ASSUME AlertInv, NEW p \in Procs, WorkerStep(p) \/ WorkerUnclaim(p) \/ WorkerAbort(p)
  PROVE  StepsPopped' /\ LatchBare' /\ OutageTold'
<1> USE DEF AlertInv, LockInv, TypeOK
<1>1. /\ sweep' = sweep /\ announced' = announced /\ lostAlert' = lostAlert
  BY DEF WorkerStep, WorkerUnclaim, WorkerAbort, StopLoad, StopCheck, StopSkip, StopMark, StopRun,
         StopRecord, StopFinish, StartLoad, StartRun, StartFinish, WorkerExit, sweepVars, observed
<1>2. LockFree => \A q \in Procs : sweep[q] = "none"
  BY ValuesAssumption DEF LockFree, SweepHoldsLock
<1>3. ASSUME NEW t \in Targets, StopMark(p, t) PROVE StepsPopped' /\ LatchBare' /\ OutageTold'
  <2>1. disk'.phase = disk.phase /\ (disk.phase = "idle" => disk'.issued = disk.issued)
    BY <1>3 DEF StopMark, StepSave, Save, Disk
  <2>2. \A q \in Procs : sweep'[q] # "latched"
    BY <1>1, <1>2, <1>3 DEF StopMark
  <2> QED
    BY <1>1, <2>1, <2>2 DEF StepsPopped, LatchBare, OutageTold
<1>4. CASE StartFinish(p)
  <2>1. disk' = disk \/ (disk'.phase = "idle" /\ disk'.issued = {})
    BY <1>4 DEF StartFinish, Save, Disk
  <2> QED
    BY <1>1, <2>1, ToldStays DEF StepsPopped, LatchBare, OutageTold
<1>5. ASSUME ~StartFinish(p), \A t \in Targets : ~StopMark(p, t)
      PROVE  disk'.phase = disk.phase /\ disk'.issued = disk.issued
  <2>1. ASSUME NEW t \in Targets, StopSkip(p, t) \/ StopRecord(p, t)
        PROVE  disk'.phase = disk.phase /\ disk'.issued = disk.issued
    BY <2>1, SaveSame DEF StopSkip, StopRecord, StepSave, Disk
  <2>2. CASE StopFinish(p) \/ WorkerUnclaim(p)
    BY <2>2, SaveSame DEF StopFinish, WorkerUnclaim, Disk
  <2> QED
    BY <1>5, <2>1, <2>2 DEF WorkerStep, WorkerAbort, StopLoad, StopCheck, StopRun, StartLoad,
                            StartRun, WorkerExit
<1> QED
  BY <1>1, <1>3, <1>4, <1>5, ToldStays

LEMMA AlertInvStep == AlertInv /\ [Next]_vars => AlertInv'
<1> SUFFICES ASSUME AlertInv, [Next]_vars PROVE StepsPopped' /\ LatchBare' /\ OutageTold'
  BY LockInvStep DEF AlertInv
<1>1. ASSUME NEW p \in Procs, Crash(p) PROVE StepsPopped' /\ LatchBare' /\ OutageTold'
  <2>1. disk'.phase = disk.phase /\ disk'.issued = disk.issued
    BY <1>1 DEF Crash, AlertInv, LockInv, TypeOK, Disk
  <2>2. \A q \in Procs : sweep'[q] = "latched" => sweep[q] = "latched"
    BY <1>1 DEF Crash, AlertInv, LockInv, TypeOK
  <2>3. sweep[p] # "latched" => \A q \in Procs : sweep[q] = "latched" => sweep'[q] = "latched"
    BY <1>1 DEF Crash, AlertInv, LockInv, TypeOK
  <2>4. announced' = announced /\ lostAlert' = (lostAlert \/ sweep[p] = "latched")
    BY <1>1 DEF Crash
  <2> QED
    BY <2>1, <2>2, <2>3, <2>4 DEF AlertInv, StepsPopped, LatchBare, OutageTold
<1>2. CASE World \/ UNCHANGED vars \/ \E p \in Procs : Restart(p)
  <2>1. disk'.phase = disk.phase /\ disk'.issued = disk.issued
    BY <1>2 DEF World, ClaimExpires, PowerChanges, ViewRefreshes, HandStop, HandStart, Restart, vars,
                AlertInv, LockInv, TypeOK, Disk
  <2>2. sweep' = sweep /\ announced' = announced /\ lostAlert' = lostAlert
    BY <1>2 DEF World, ClaimExpires, PowerChanges, ViewRefreshes, HandStop, HandStart, Restart, vars,
                sweepVars, observed
  <2> QED
    BY <2>1, <2>2, ToldStays
<1> QED
  BY <1>1, <1>2, AlertBySweep, AlertByWorker DEF Next

\* With any number of panel processes, lost saves and crashes: no target of an
\* outage is marked for its stop before the outage's alert is out, unless the
\* panel died exactly between its latch and its alert.
THEOREM AlertComesFirst == Spec => []AlertFirst
<1>1. Init => AlertInv
  BY InitType DEF Init, AlertInv, LockInv, SweepHoldsLock, PlansWhenIdle, StepsPopped, LatchBare,
                  OutageTold, Blank
<1>2. AlertInv => AlertFirst
  BY DEF AlertInv, StepsPopped, LatchBare, OutageTold, AlertFirst
<1> QED
  BY <1>1, <1>2, AlertInvStep, PTL DEF Spec

-----------------------------------------------------------------------------
(* The stop order and the promise, for one process and a disk that takes    *)
(* every save.  A stop sequence then runs under an engaged policy, its      *)
(* snapshot less what it has dealt with is what the file says is left, and  *)
(* a policy that is not engaged has seen power.                             *)

PhaseFits ==
  \A p \in Procs :
    /\ sweep[p] \in {"latched", "stop"} => disk.phase = "engaged"
    /\ sweep[p] = "restore" => disk.phase = "restoring"
    /\ pc[p] \in StopPoints => disk.phase = "engaged"
    /\ pc[p] \in StartPoints => disk.phase = "restoring"

TodoIsRest ==
  \A p \in Procs : pc[p] \in StopPoints \ {"stopLoad"} => todo[p] = Targets \ disk.done

PowerSeen == disk.phase # "engaged" => sawAc

OrderInv == /\ MarkerInv /\ lostSaves = 0
            /\ PhaseFits /\ TodoIsRest /\ PowerSeen /\ StopsInOrder

\* What a step has to keep of it.
Sequence == PhaseFits /\ TodoIsRest /\ PowerSeen /\ StopsInOrder

\* Without lost saves the file holds what was saved.
LEMMA SaveLands ==
  ASSUME TypeOK, MaxLost = 0, NEW new, Save(new)
  PROVE  disk' = new /\ lostSaves' = lostSaves
BY DEF TypeOK, Save, faultVars

\* No step counts a loss that cannot happen.
LEMMA NothingLost ==
  ASSUME TypeOK, MaxLost = 0, lostSaves = 0, [Next]_vars
  PROVE  lostSaves' = 0
<1> USE SaveLands DEF StepSave, faultVars
<1>1. ASSUME NEW p \in Procs, SweepStep(p) PROVE lostSaves' = 0
  BY <1>1 DEF SweepStep, SweepPlan, SweepLatch, SweepAnnounce, SweepFlip, SweepWait, SweepResume,
              SweepSpawn
<1>2. ASSUME NEW p \in Procs, WorkerStep(p) \/ WorkerUnclaim(p) PROVE lostSaves' = 0
  BY <1>2 DEF WorkerStep, WorkerUnclaim, StopLoad, StopCheck, StopSkip, StopMark, StopRun,
              StopRecord, StopFinish, StartLoad, StartRun, StartFinish, WorkerExit
<1>3. ASSUME NEW p \in Procs, WorkerAbort(p) \/ Crash(p) \/ Restart(p) PROVE lostSaves' = 0
  BY <1>3 DEF WorkerAbort, Crash, Restart
<1>4. CASE World
  BY <1>4 DEF World, ClaimExpires, PowerChanges, ViewRefreshes, HandStop, HandStart
<1> QED
  BY <1>1, <1>2, <1>3, <1>4 DEF Next, vars

\* A step that leaves the phase, the markers and the records alone keeps the
\* sequence if no sweep and no worker comes to a new place.
LEMMA SequenceStays ==
  ASSUME NEW q, Procs = {q}, OrderInv, sawAc' = sawAc,
         disk'.phase = disk.phase, disk'.issued = disk.issued, disk'.done = disk.done,
         sweep'[q] \in {sweep[q], "none", "planned"},
         \/ pc'[q] \in {"off", "exit"}
         \/ pc'[q] = pc[q] /\ (pc[q] \in StopPoints => todo'[q] = todo[q])
  PROVE  Sequence'
BY DEF OrderInv, Sequence, PhaseFits, TodoIsRest, PowerSeen, StopsInOrder, StopPoints, StartPoints

LEMMA SequenceBySweep ==
  ASSUME NEW q, Procs = {q}, MaxLost = 0, OrderInv, SweepStep(q)
  PROVE  Sequence'
<1> USE DEF OrderInv, MarkerInv, LockInv, TypeOK
<1>1. CASE SweepPlan(q)
  BY <1>1, SequenceStays DEF SweepPlan, SweepGoto, workerVars, observed
<1>2. CASE SweepLatch(q)
  <2>1. disk.phase = "idle"
    BY <1>2 DEF SweepLatch, PlansWhenIdle
  <2>2. pc[q] \notin StopPoints \cup StartPoints
    BY <2>1 DEF PhaseFits
  <2> DEFINE latched == [Blank EXCEPT !.phase = "engaged", !.planned = plan[q]]
  <2>3. Save(latched)
    BY <1>2 DEF SweepLatch
  <2>4. disk' = latched
    BY <2>3, SaveLands
  <2>5. disk'.phase = "engaged" /\ disk'.issued = {}
    BY <2>4 DEF Blank
  <2>6. sweep'[q] = "latched" /\ pc' = pc
    BY <1>2 DEF SweepLatch, SweepGoto, workerVars
  <2> QED
    BY <2>2, <2>5, <2>6 DEF Sequence, PhaseFits, TodoIsRest, PowerSeen, StopsInOrder
<1>3. CASE SweepAnnounce(q)
  BY <1>3 DEF SweepAnnounce, SweepGoto, workerVars, Sequence, PhaseFits, TodoIsRest, PowerSeen,
              StopsInOrder
<1>4. CASE SweepFlip(q)
  <2>1. disk'.phase = "restoring"
    BY <1>4, SaveLands DEF SweepFlip, Disk
  <2>2. pc[q] = "off"
    BY <1>4 DEF SweepFlip, Busy, WorkersActive
  <2>3. sawAc'
    BY <1>4 DEF SweepFlip, PowerBack
  <2>4. sweep'[q] = "restore" /\ pc' = pc
    BY <1>4 DEF SweepFlip, SweepGoto, workerVars
  <2> QED
    BY <2>1, <2>2, <2>3, <2>4 DEF Sequence, PhaseFits, TodoIsRest, PowerSeen, StopsInOrder,
                                  StopPoints, StartPoints
<1>5. CASE SweepWait(q)
  BY <1>5 DEF SweepWait, sweepVars, workerVars, Sequence, PhaseFits, TodoIsRest, PowerSeen,
              StopsInOrder
<1>6. CASE SweepResume(q)
  BY <1>6 DEF SweepResume, SweepGoto, workerVars, observed, Sequence, PhaseFits, TodoIsRest,
              PowerSeen, StopsInOrder
<1>7. CASE SweepSpawn(q)
  <2>1. disk'.phase = disk.phase /\ disk'.issued = disk.issued /\ disk'.done = disk.done
    BY <1>7, SaveLands DEF SweepSpawn, Disk
  <2>2. sweep'[q] = "none" /\ todo' = todo /\ sawAc' = sawAc
    BY <1>7 DEF SweepSpawn, observed
  <2>3. \/ pc' = pc
        \/ sweep[q] = "stop" /\ pc'[q] = "stopLoad"
        \/ sweep[q] = "restore" /\ pc'[q] = "startLoad"
    BY <1>7 DEF SweepSpawn
  <2> QED
    BY <2>1, <2>2, <2>3 DEF Sequence, PhaseFits, TodoIsRest, PowerSeen, StopsInOrder, StopPoints,
                            StartPoints
<1> QED
  BY <1>1, <1>2, <1>3, <1>4, <1>5, <1>6, <1>7 DEF SweepStep

\* The stop sequence: a target is marked when all before it are dealt with, as
\* it is the first of the snapshot's rest (_run_stop_sequence).
LEMMA SequenceByStop ==
  ASSUME NEW q, Procs = {q}, MaxLost = 0, OrderInv,
         \/ StopLoad(q) \/ StopCheck(q) \/ StopFinish(q)
         \/ \E t \in Targets : \/ StopSkip(q, t) \/ StopMark(q, t)
                              \/ StopRun(q, t) \/ StopRecord(q, t)
  PROVE  Sequence'
<1> USE DEF OrderInv, MarkerInv, LockInv, TypeOK, StopPoints, StartPoints
<1>1. CASE StopLoad(q)
  BY <1>1 DEF StopLoad, Goto, sweepVars, observed, Sequence, PhaseFits, TodoIsRest, PowerSeen,
              StopsInOrder
<1>2. CASE StopCheck(q)
  BY <1>2 DEF StopCheck, Goto, sweepVars, observed, Sequence, PhaseFits, TodoIsRest, PowerSeen,
              StopsInOrder
<1>3. CASE StopFinish(q)
  <2>1. disk'.phase = disk.phase /\ disk'.issued = disk.issued /\ disk'.done = disk.done
    BY <1>3, SaveLands DEF StopFinish, Disk
  <2> QED
    BY <1>3, <2>1, SequenceStays DEF StopFinish, Goto, sweepVars, observed
<1>4. ASSUME NEW t \in Targets, StopSkip(q, t) \/ StopRecord(q, t) PROVE Sequence'
  <2>1. disk.phase = "engaged"
    BY <1>4 DEF StopSkip, StopRecord, PhaseFits
  <2>2. /\ disk'.phase = "engaged" /\ disk'.issued = disk.issued
        /\ disk'.done = disk.done \cup {t}
    BY <1>4, <2>1, SaveLands DEF StopSkip, StopRecord, StepSave, Disk
  <2>3. todo'[q] = todo[q] \ {t} /\ pc'[q] = "stopCheck" /\ sweep' = sweep /\ sawAc' = sawAc
    BY <1>4 DEF StopSkip, StopRecord, Drop, Goto, sweepVars, observed
  <2>4. todo[q] = Targets \ disk.done
    BY <1>4 DEF StopSkip, StopRecord, TodoIsRest
  <2> QED
    BY <2>1, <2>2, <2>3, <2>4 DEF Sequence, PhaseFits, TodoIsRest, PowerSeen, StopsInOrder
<1>5. ASSUME NEW t \in Targets, StopMark(q, t) PROVE Sequence'
  <2>1. disk.phase = "engaged"
    BY <1>5 DEF StopMark, PhaseFits
  <2>2. /\ disk'.phase = "engaged" /\ disk'.issued = disk.issued \cup {t}
        /\ disk'.done = disk.done
    BY <1>5, <2>1, SaveLands DEF StopMark, StepSave, Disk
  <2>3. todo' = todo /\ pc'[q] = "stopRun" /\ sweep' = sweep /\ sawAc' = sawAc
    BY <1>5 DEF StopMark, Goto, sweepVars, observed
  <2>4. todo[q] = Targets \ disk.done
    BY <1>5 DEF StopMark, TodoIsRest
  <2>5. \A u \in Targets : Rank[u] < Rank[t] => u \in disk.done
    <3>1. \A u \in todo[q] : Rank[t] <= Rank[u]
      BY <1>5 DEF StopMark, Current
    <3>2. Rank \in [Targets -> Nat]
      BY TargetsAssumption
    <3> QED
      BY <2>4, <3>1, <3>2
  <2> QED
    BY <2>1, <2>2, <2>3, <2>4, <2>5 DEF Sequence, PhaseFits, TodoIsRest, PowerSeen, StopsInOrder
<1>6. ASSUME NEW t \in Targets, StopRun(q, t) PROVE Sequence'
  BY <1>6 DEF StopRun, Goto, sweepVars, observed, Sequence, PhaseFits, TodoIsRest, PowerSeen,
              StopsInOrder
<1> QED
  BY <1>1, <1>2, <1>3, <1>4, <1>5, <1>6

\* The restore, the end of a worker, faults and the world.
LEMMA SequenceByRest ==
  ASSUME NEW q, Procs = {q}, MaxLost = 0, OrderInv,
         \/ StartLoad(q) \/ StartFinish(q) \/ WorkerExit(q) \/ WorkerUnclaim(q) \/ WorkerAbort(q)
         \/ Crash(q) \/ Restart(q) \/ World \/ UNCHANGED vars
         \/ \E t \in Targets : StartRun(q, t)
  PROVE  Sequence'
<1> USE DEF OrderInv, MarkerInv, LockInv, TypeOK
<1>1. CASE StartLoad(q)
  BY <1>1 DEF StartLoad, Goto, sweepVars, observed, Sequence, PhaseFits, TodoIsRest, PowerSeen,
              StopsInOrder, StopPoints, StartPoints
<1>2. ASSUME NEW t \in Targets, StartRun(q, t) PROVE Sequence'
  BY <1>2, SequenceStays DEF StartRun, sweepVars, observed, StopPoints
<1>3. CASE StartFinish(q)
  <2> DEFINE over == [disk EXCEPT !.phase = "idle", !.planned = {}, !.issued = {}, !.done = {},
                                  !.stopDone = FALSE]
  <2>0. Save(over)
    BY <1>3 DEF StartFinish
  <2>1. disk'.phase = "idle"
    <3>1. disk' = over
      BY <2>0, SaveLands
    <3> QED
      BY <3>1 DEF Disk
  <2>2. sweep'[q] = "none" /\ pc'[q] = "exit" /\ sawAc' = sawAc
    BY <1>3, ValuesAssumption DEF StartFinish, Goto, sweepVars, observed, LockFree, SweepHoldsLock
  <2>3. sawAc
    BY <1>3 DEF StartFinish, PhaseFits, PowerSeen, StartPoints
  <2> QED
    BY <2>1, <2>2, <2>3 DEF Sequence, PhaseFits, TodoIsRest, PowerSeen, StopsInOrder, StopPoints,
                            StartPoints
<1>4. CASE WorkerExit(q) \/ WorkerAbort(q)
  BY <1>4, SequenceStays DEF WorkerExit, WorkerAbort, ThreadEnds, Goto, sweepVars, observed
<1>5. CASE WorkerUnclaim(q)
  <2>1. disk'.phase = disk.phase /\ disk'.issued = disk.issued /\ disk'.done = disk.done
    BY <1>5, SaveLands DEF WorkerUnclaim, Disk
  <2> QED
    BY <1>5, <2>1, SequenceStays DEF WorkerUnclaim, sweepVars, workerVars, observed
<1>6. CASE Crash(q)
  <2>1. disk'.phase = disk.phase /\ disk'.issued = disk.issued /\ disk'.done = disk.done
    BY <1>6 DEF Crash, Disk
  <2> QED
    BY <1>6, <2>1, SequenceStays DEF Crash, ThreadEnds, Goto
<1>7. CASE Restart(q) \/ World \/ UNCHANGED vars
  <2>1. disk'.phase = disk.phase /\ disk'.issued = disk.issued /\ disk'.done = disk.done
    BY <1>7 DEF Restart, World, ClaimExpires, PowerChanges, ViewRefreshes, HandStop, HandStart, vars,
                Disk
  <2>2. sweep' = sweep /\ pc' = pc /\ todo' = todo /\ sawAc' = sawAc
    BY <1>7 DEF Restart, World, ClaimExpires, PowerChanges, ViewRefreshes, HandStop, HandStart, vars,
                sweepVars, workerVars, observed
  <2> QED
    BY <2>1, <2>2, SequenceStays
<1> QED
  BY <1>1, <1>2, <1>3, <1>4, <1>5, <1>6, <1>7

LEMMA OrderInvStep ==
  ASSUME NEW q, Procs = {q}, MaxLost = 0
  PROVE  OrderInv /\ [Next]_vars => OrderInv'
<1> SUFFICES ASSUME OrderInv, [Next]_vars PROVE OrderInv'
  OBVIOUS
<1>1. MarkerInv' /\ lostSaves' = 0
  BY MarkerInvStep, NothingLost DEF OrderInv, MarkerInv, LockInv
<1>2. Sequence'
  <2>1. CASE SweepStep(q)
    BY <2>1, SequenceBySweep
  <2>2. CASE WorkerStep(q)
    BY <2>2, SequenceByStop, SequenceByRest DEF WorkerStep
  <2>3. CASE \/ WorkerUnclaim(q) \/ WorkerAbort(q) \/ Crash(q) \/ Restart(q) \/ World
             \/ UNCHANGED vars
    BY <2>3, SequenceByRest
  <2> QED
    BY <2>1, <2>2, <2>3 DEF Next
<1> QED
  BY <1>1, <1>2 DEF OrderInv, Sequence

LEMMA OrderInvStart == Init => OrderInv
BY InitType DEF Init, OrderInv, MarkerInv, LockInv, SweepHoldsLock, PlansWhenIdle, WorkersActive,
                Marked, StopsWhenLatched, MarkerFirst, RestoreCovers, OwedIsMarked, PhaseFits,
                TodoIsRest, PowerSeen, StopsInOrder, Blank, StopPoints, StartPoints

\* With one panel process whose saves arrive: across crashes, raising workers
\* and resumptions, no target is marked for its stop before all that the
\* settings put ahead of it have been dealt with.
THEOREM StopsKeepTheOrder ==
  ASSUME NEW q, Procs = {q}, MaxLost = 0
  PROVE  Spec => []StopsInOrder
<1>1. OrderInv /\ [Next]_vars => OrderInv'
  BY OrderInvStep
<1>2. OrderInv => StopsInOrder
  BY DEF OrderInv
<1> QED
  BY <1>1, <1>2, OrderInvStart, PTL DEF Spec

-----------------------------------------------------------------------------
(* The policy keeps its promise: under the mapping of Promise the initial   *)
(* states are initial, and every step is a step of UpsPromise or leaves its *)
(* three variables alone.                                                   *)

\* The sweeps trigger, see power and begin the restore; the rest of them is
\* not visible in the promise (sweep, _engage, _sweep_locked).
LEMMA SweepKeepsPromise ==
  ASSUME NEW q, Procs = {q}, MaxLost = 0, OrderInv, SweepStep(q)
  PROVE  [Promise!Next]_Promise!vars
<1> USE DEF OrderInv, MarkerInv, LockInv, TypeOK, Promise!vars
<1>1. CASE SweepPlan(q) \/ SweepAnnounce(q) \/ SweepResume(q)
  BY <1>1 DEF SweepPlan, SweepAnnounce, SweepResume, observed
<1>2. CASE SweepLatch(q)
  <2> DEFINE latched == [Blank EXCEPT !.phase = "engaged", !.planned = plan[q]]
  <2>1. Save(latched)
    BY <1>2 DEF SweepLatch
  <2>2. disk' = latched
    BY <2>1, SaveLands
  <2>3. disk'.phase = "engaged"
    BY <2>2 DEF Blank
  <2>4. disk.phase = "idle" /\ sawAc /\ sawAc' = FALSE /\ owed' = owed
    BY <1>2 DEF SweepLatch, PlansWhenIdle, PowerSeen
  <2>5. Promise!Trigger
    BY <2>3, <2>4 DEF Promise!Trigger
  <2> QED
    BY <2>5 DEF Promise!Next
<1>3. CASE SweepFlip(q)
  <2>1. sawAc' = TRUE /\ owed' = owed
    BY <1>3 DEF SweepFlip, PowerBack
  <2>2. disk'.phase = "restoring"
    BY <1>3, SaveLands DEF SweepFlip, Disk
  <2>3. CASE disk.phase = "engaged"
    <3>1. Promise!BeginRestore
      BY <2>1, <2>2, <2>3 DEF Promise!BeginRestore
    <3> QED
      BY <3>1 DEF Promise!Next
  <2>4. CASE disk.phase = "restoring"
    BY <2>1, <2>2, <2>4 DEF PowerSeen
  <2> QED
    BY <1>3, <2>3, <2>4 DEF SweepFlip, Disk, Phases
<1>4. CASE SweepWait(q)
  <2>1. Promise!SeePower
    BY <1>4 DEF SweepWait, PowerBack, Promise!SeePower
  <2> QED
    BY <2>1 DEF Promise!Next
<1>5. CASE SweepSpawn(q)
  <2>1. disk'.phase = disk.phase
    BY <1>5, SaveLands DEF SweepSpawn, Disk
  <2> QED
    BY <1>5, <2>1 DEF SweepSpawn, observed
<1> QED
  BY <1>1, <1>2, <1>3, <1>4, <1>5 DEF SweepStep

\* The worker takes targets down under the trigger only, gives them back, and
\* settles when nothing is left that it has not reported.
LEMMA WorkerKeepsPromise ==
  ASSUME NEW q, Procs = {q}, MaxLost = 0, OrderInv, WorkerStep(q)
  PROVE  [Promise!Next]_Promise!vars
<1> USE DEF OrderInv, MarkerInv, LockInv, TypeOK, Promise!vars
<1>1. CASE StopLoad(q) \/ StopCheck(q) \/ StartLoad(q) \/ WorkerExit(q)
  BY <1>1 DEF StopLoad, StopCheck, StartLoad, WorkerExit, observed
<1>2. CASE StopFinish(q)
  <2>1. disk'.phase = disk.phase
    BY <1>2, SaveLands DEF StopFinish, Disk
  <2> QED
    BY <1>2, <2>1 DEF StopFinish, observed
<1>3. ASSUME NEW t \in Targets, StopSkip(q, t) \/ StopMark(q, t) \/ StopRecord(q, t)
      PROVE  [Promise!Next]_Promise!vars
  <2>1. disk'.phase = disk.phase
    BY <1>3, SaveLands DEF StopSkip, StopMark, StopRecord, StepSave, Disk
  <2> QED
    BY <1>3, <2>1 DEF StopSkip, StopMark, StopRecord, observed
<1>4. ASSUME NEW t \in Targets, StopRun(q, t) PROVE [Promise!Next]_Promise!vars
  <2>1. disk' = disk /\ sawAc' = sawAc /\ disk.phase = "engaged"
    BY <1>4 DEF StopRun, PhaseFits, StopPoints, observed
  <2>2. owed' = owed \/ owed' = owed \cup {t}
    BY <1>4 DEF StopRun
  <2>3. owed' = owed \cup {t} => Promise!TakeDown(t)
    BY <2>1 DEF Promise!TakeDown
  <2> QED
    BY <2>1, <2>2, <2>3 DEF Promise!Next
<1>5. ASSUME NEW t \in Targets, StartRun(q, t) PROVE [Promise!Next]_Promise!vars
  <2>1. disk' = disk /\ sawAc' = sawAc /\ (owed' = owed \/ owed' = owed \ {t})
    BY <1>5 DEF StartRun, observed
  <2>2. owed' # owed => Promise!GiveBack(t)
    BY <2>1 DEF Promise!GiveBack
  <2> QED
    BY <2>1, <2>2 DEF Promise!Next
<1>6. CASE StartFinish(q)
  <2> DEFINE over == [disk EXCEPT !.phase = "idle", !.planned = {}, !.issued = {}, !.done = {},
                                  !.stopDone = FALSE]
  <2>1. Save(over)
    BY <1>6 DEF StartFinish
  <2>2. disk'.phase = "idle"
    <3>1. disk' = over
      BY <2>1, SaveLands
    <3> QED
      BY <3>1 DEF Disk
  <2>3. disk.phase = "restoring" /\ sawAc /\ sawAc' = sawAc
    BY <1>6 DEF StartFinish, PhaseFits, PowerSeen, StartPoints, observed
  <2>4. owed \subseteq failed[q]
    BY <1>6 DEF StartFinish, Marked, RestoreCovers
  <2>5. owed' = {}
    BY <1>6, <2>4 DEF StartFinish
  <2>6. Promise!Settle
    BY <2>2, <2>3, <2>5 DEF Promise!Settle
  <2> QED
    BY <2>6 DEF Promise!Next
<1> QED
  BY <1>1, <1>2, <1>3, <1>4, <1>5, <1>6 DEF WorkerStep

\* Nothing else is visible in the promise but the operator who starts a target
\* the policy had taken down.
LEMMA RestKeepsPromise ==
  ASSUME NEW q, Procs = {q}, MaxLost = 0, OrderInv,
         \/ WorkerUnclaim(q) \/ WorkerAbort(q) \/ Crash(q) \/ Restart(q) \/ World
         \/ UNCHANGED vars
  PROVE  [Promise!Next]_Promise!vars
<1> USE DEF OrderInv, MarkerInv, LockInv, TypeOK, Promise!vars
<1>1. CASE WorkerUnclaim(q)
  <2>1. disk'.phase = disk.phase
    BY <1>1, SaveLands DEF WorkerUnclaim, Disk
  <2> QED
    BY <1>1, <2>1 DEF WorkerUnclaim, observed
<1>2. CASE WorkerAbort(q) \/ Restart(q) \/ UNCHANGED vars
  BY <1>2 DEF WorkerAbort, Restart, observed, vars
<1>3. CASE Crash(q) \/ ClaimExpires
  <2>1. disk'.phase = disk.phase
    BY <1>3 DEF Crash, ClaimExpires, Disk
  <2> QED
    BY <1>3, <2>1 DEF Crash, ClaimExpires, observed
<1>4. CASE PowerChanges \/ ViewRefreshes
  BY <1>4 DEF PowerChanges, ViewRefreshes, observed
<1>5. ASSUME NEW t \in Targets, HandStop(t) \/ HandStart(t)
      PROVE  [Promise!Next]_Promise!vars
  <2>1. disk' = disk /\ sawAc' = sawAc /\ (owed' = owed \/ owed' = owed \ {t})
    BY <1>5 DEF HandStop, HandStart, observed
  <2>2. owed' # owed => Promise!GiveBack(t)
    BY <2>1 DEF Promise!GiveBack
  <2> QED
    BY <2>1, <2>2 DEF Promise!Next
<1> QED
  BY <1>1, <1>2, <1>3, <1>4, <1>5 DEF World

\* One panel process whose saves arrive implements the promise, whatever
\* crashes: one trigger per outage, targets taken down only under it, and no
\* return to idle while anything it took is neither given back nor reported.
THEOREM KeepsPromise ==
  ASSUME NEW q, Procs = {q}, MaxLost = 0
  PROVE  Spec => ImplementsPromise
<1>1. Init => Promise!Init
  BY DEF Init, Blank, Promise!Init
<1>2. OrderInv /\ [Next]_vars => [Promise!Next]_Promise!vars
  BY SweepKeepsPromise, WorkerKeepsPromise, RestKeepsPromise DEF Next
<1>3. OrderInv /\ [Next]_vars => OrderInv'
  BY OrderInvStep
<1> QED
  BY <1>1, <1>2, <1>3, OrderInvStart, PTL DEF Spec, ImplementsPromise, Promise!Spec

=============================================================================
