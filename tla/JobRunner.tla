----------------------------- MODULE JobRunner -----------------------------
(***************************************************************************)
(* Maintenance jobs (hub/jobs.py): a table that admits one running job at  *)
(* a time, and for each job a thread that starts a command in a session of *)
(* its own, reads its output to the end and reports its exit code, while a *)
(* timer kills the process group when the deadline passes.                 *)
(*                                                                         *)
(* A command is its leader, the process that was started, and at most one  *)
(* further process it left in the group that keeps its standard output     *)
(* open.  The reader sees the end of the output when nobody holds it.      *)
(* Output text, its caps and the environment are left out.                 *)
(***************************************************************************)
EXTENDS Naturals, FiniteSets

CONSTANT Jobs    \* the runs that may be asked for, each once

VARIABLES
  running,    \* jobs whose row says "running" (_jobs)
  rc,         \* exit code of the row
  at,         \* where the thread of the job and its timer thread stand
  leader,     \* the process started by Popen
  code,       \* how the leader ended
  pipe,       \* who holds the output open
  stubborn,   \* who ignores SIGTERM
  timedOut    \* jobs whose timed_out event is set

jobVars == <<running, rc, at, leader, code, pipe, stubborn, timedOut>>

Members == {"leader", "child"}
Threads == {"job", "timer"}
Points  == {"off", "spawn", "read", "grace", "term", "termWait", "kill", "exit", "armed", "done"}
Codes   == {"none", "ok", "failed", "signalled", "timeout", "error"}

JobTypeOK ==
  /\ running \subseteq Jobs /\ timedOut \subseteq Jobs
  /\ rc \in [Jobs -> Codes]
  /\ at \in [Jobs -> [Threads -> Points]]
  /\ leader \in [Jobs -> {"none", "runs", "zombie", "reaped"}]
  /\ code \in [Jobs -> {"none", "ok", "failed", "signalled"}]
  /\ pipe \in [Jobs -> SUBSET Members] /\ stubborn \in [Jobs -> SUBSET Members]

JobInit ==
  /\ running = {} /\ timedOut = {}
  /\ rc = [j \in Jobs |-> "none"]
  /\ at = [j \in Jobs |-> [th \in Threads |-> "off"]]
  /\ leader = [j \in Jobs |-> "none"]
  /\ code = [j \in Jobs |-> "none"]
  /\ pipe = [j \in Jobs |-> {}]
  /\ stubborn = [j \in Jobs |-> {}]

Go(j, th, p) == at' = [at EXCEPT ![j][th] = p]

\* Popen.poll and a wait that succeeds collect the leader's exit status.
Collect(j) == leader' = [leader EXCEPT ![j] = IF @ = "zombie" THEN "reaped" ELSE @]

-----------------------------------------------------------------------------
(* The table. *)

\* Mutant of Admits: a job whose output has ended is taken for finished.
AdmitsEarly == \A j \in running : at[j]["job"] \notin {"spawn", "read"}

Admits == running = {}

\* start_job: the scan of the table and the new row are one critical section.
StartJob(j) ==
  /\ at[j]["job"] = "off" /\ rc[j] = "none"
  /\ Admits
  /\ running' = running \cup {j}
  /\ Go(j, "job", "spawn")
  /\ UNCHANGED <<rc, leader, code, pipe, stubborn, timedOut>>

\* The code is put in the row, then the row stops running (the finally block).
Report(j, c) ==
  /\ rc' = [rc EXCEPT ![j] = c]
  /\ running' = running \ {j}

\* No usable command, or Popen raised: the job ends with -1.
SpawnFails(j) ==
  /\ at[j]["job"] = "spawn"
  /\ Report(j, "error")
  /\ Go(j, "job", "done")
  /\ UNCHANGED <<leader, code, pipe, stubborn, timedOut>>

Spawn(j) ==
  /\ at[j]["job"] = "spawn"
  /\ leader' = [leader EXCEPT ![j] = "runs"]
  /\ pipe' = [pipe EXCEPT ![j] = {"leader"}]
  /\ \E deaf \in SUBSET Members : stubborn' = [stubborn EXCEPT ![j] = deaf]
  /\ at' = [at EXCEPT ![j] = [job |-> "read", timer |-> "armed"]]
  /\ UNCHANGED <<running, rc, code, timedOut>>

-----------------------------------------------------------------------------
(* The command. *)

LeaderForks(j) ==
  /\ leader[j] = "runs" /\ "leader" \in pipe[j]
  /\ pipe' = [pipe EXCEPT ![j] = @ \cup {"child"}]
  /\ UNCHANGED <<running, rc, at, leader, code, stubborn, timedOut>>

\* A process closes its output and goes on, or a child ends.
LetsGo(j, m) ==
  /\ m \in pipe[j]
  /\ pipe' = [pipe EXCEPT ![j] = @ \ {m}]
  /\ UNCHANGED <<running, rc, at, leader, code, stubborn, timedOut>>

LeaderEnds(j) ==
  /\ leader[j] = "runs"
  /\ leader' = [leader EXCEPT ![j] = "zombie"]
  /\ pipe' = [pipe EXCEPT ![j] = @ \ {"leader"}]
  /\ \E c \in {"ok", "failed"} : code' = [code EXCEPT ![j] = c]
  /\ UNCHANGED <<running, rc, at, stubborn, timedOut>>

\* killpg: every member of the group that does not ignore the signal ends.
KillGroup(j, spared) ==
  /\ pipe' = [pipe EXCEPT ![j] = @ \cap spared]
  /\ IF "leader" \in spared
     THEN UNCHANGED <<leader, code>>
     ELSE /\ leader' = [leader EXCEPT ![j] = "zombie"]
          /\ code' = [code EXCEPT ![j] = "signalled"]

-----------------------------------------------------------------------------
(* _reap, entered by the timer and, after the end of the output, by the job. *)

AfterReap(th) == IF th = "job" THEN "exit" ELSE "done"

\* A leader that has ended leaves nothing to signal.
ReapNothing(j, th) ==
  /\ at[j][th] \in {"term", "kill"} /\ leader[j] # "runs"
  /\ Collect(j)
  /\ Go(j, th, AfterReap(th))
  /\ UNCHANGED <<running, rc, code, pipe, stubborn, timedOut>>

ReapTerm(j, th) ==
  /\ at[j][th] = "term" /\ leader[j] = "runs"
  /\ KillGroup(j, stubborn[j])
  /\ Go(j, th, "termWait")
  /\ UNCHANGED <<running, rc, stubborn, timedOut>>

\* Mutant of ReapWait: SIGTERM is all there is.
ReapWaitOnce(j, th) ==
  /\ at[j][th] = "termWait"
  /\ Collect(j)
  /\ Go(j, th, AfterReap(th))
  /\ UNCHANGED <<running, rc, code, pipe, stubborn, timedOut>>

\* wait(10): the leader has ended, or the ten seconds pass.
ReapWait(j, th) ==
  /\ at[j][th] = "termWait"
  /\ Collect(j)
  /\ Go(j, th, IF leader[j] = "runs" THEN "kill" ELSE AfterReap(th))
  /\ UNCHANGED <<running, rc, code, pipe, stubborn, timedOut>>

ReapKill(j, th) ==
  /\ at[j][th] = "kill" /\ leader[j] = "runs"
  /\ KillGroup(j, {})
  /\ Go(j, th, AfterReap(th))
  /\ UNCHANGED <<running, rc, stubborn, timedOut>>

Reap(j, th) ==
  ReapNothing(j, th) \/ ReapTerm(j, th) \/ ReapWait(j, th) \/ ReapKill(j, th)

\* _on_deadline: nothing is done about a leader that has ended.
Deadline(j) ==
  /\ at[j]["timer"] = "armed"
  /\ IF leader[j] = "runs"
     THEN timedOut' = timedOut \cup {j} /\ Go(j, "timer", "term")
     ELSE UNCHANGED timedOut /\ Go(j, "timer", "done")
  /\ Collect(j)
  /\ UNCHANGED <<running, rc, code, pipe, stubborn>>

-----------------------------------------------------------------------------
(* The thread of the job, from the end of the output on. *)

\* The timer is cancelled, which a timer that has begun does not notice; a
\* leader that still runs is given two seconds.
OutputEnds(j) ==
  /\ at[j]["job"] = "read" /\ pipe[j] = {}
  /\ at' = [at EXCEPT ![j] =
              [job   |-> IF leader[j] = "runs" THEN "grace" ELSE "exit",
               timer |-> IF @["timer"] = "armed" THEN "done" ELSE @["timer"]]]
  /\ Collect(j)
  /\ UNCHANGED <<running, rc, code, pipe, stubborn, timedOut>>

Grace(j) ==
  /\ at[j]["job"] = "grace"
  /\ Go(j, "job", IF leader[j] = "runs" THEN "term" ELSE "exit")
  /\ Collect(j)
  /\ UNCHANGED <<running, rc, code, pipe, stubborn, timedOut>>

\* Mutant of Verdict: the event of the deadline is not looked at.
VerdictOfLeader(j) == code[j]

\* Popen.__exit__ waits for the leader however long it takes; a set event
\* turns whatever the leader answered into 124.
Verdict(j) == IF j \in timedOut THEN "timeout" ELSE code[j]

Exit(j) ==
  /\ at[j]["job"] = "exit" /\ leader[j] # "runs"
  /\ Collect(j)
  /\ Report(j, Verdict(j))
  /\ Go(j, "job", "done")
  /\ UNCHANGED <<code, pipe, stubborn, timedOut>>

JobStep(j) ==
  SpawnFails(j) \/ Spawn(j) \/ OutputEnds(j) \/ Grace(j) \/ Reap(j, "job") \/ Exit(j)

TimerStep(j) == Deadline(j) \/ Reap(j, "timer")

Command(j) ==
  LeaderForks(j) \/ LeaderEnds(j) \/ \E m \in Members : LetsGo(j, m)

JobNext == \E j \in Jobs : StartJob(j) \/ JobStep(j) \/ TimerStep(j) \/ Command(j)

JobSpec == JobInit /\ [][JobNext]_jobVars

\* Threads are scheduled and timers go off; a command may run for ever.
Fairness == \A j \in Jobs : WF_jobVars(JobStep(j)) /\ WF_jobVars(TimerStep(j))

FairSpec == JobSpec /\ Fairness

-----------------------------------------------------------------------------
(* Properties. *)

Alive(j) == leader[j] \in {"runs", "zombie"}

\* The table says a job has ended only when its command has: two maintenance
\* commands never run side by side, though start_job looks at rows and not at
\* processes.
OneCommand == \A i, j \in Jobs : Alive(i) /\ Alive(j) => i = j

\* A job that reports success was not cut short, not even one that answers the
\* signal of the deadline with exit code 0; and one that reports the death of its
\* leader by a signal had closed its output itself and outlived the two seconds.
CodeIsTrue ==
  \A j \in Jobs : /\ rc[j] = "ok" => code[j] = "ok" /\ j \notin timedOut
                  /\ rc[j] = "signalled" => pipe[j] = {}

\* The command is gone and a process it left behind keeps its output open.
Orphaned(j) == ~Alive(j) /\ "child" \in pipe[j]

\* Every job ends, however its command behaves, save one whose command left a
\* process behind: the deadline then finds no leader and signals nobody
\* (_on_deadline, _reap).
EndsUnlessOrphaned ==
  \A j \in Jobs : <>[](j \in running) => <>[]Orphaned(j)

\* The same as the docstring of run_watchdog has it: the timer releases the reader.
DeadlineEnds == \A j \in Jobs : j \in running ~> j \notin running

=============================================================================
