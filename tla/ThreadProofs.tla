---------------------------- MODULE ThreadProofs ----------------------------
(***************************************************************************)
(* Theorems about the two components that run threads of their own:        *)
(* JobRunner, for any set of jobs, and WorkerPool, for any batches, pools  *)
(* of any width and any number of executors.                               *)
(***************************************************************************)
EXTENDS JobRunner, WorkerPool, TLAPS, FiniteSetTheorems

-----------------------------------------------------------------------------
(* JobRunner: types. *)

\* A step is one of these.
LEMMA JobStepCases ==
  ASSUME [JobNext]_jobVars
  PROVE  \/ UNCHANGED jobVars
         \/ \E j \in Jobs : \/ StartJob(j) \/ SpawnFails(j) \/ Spawn(j) \/ OutputEnds(j)
                           \/ Grace(j) \/ Exit(j) \/ Deadline(j) \/ Command(j)
                           \/ \E th \in Threads : Reap(j, th)
<1>1. CASE UNCHANGED jobVars
  BY <1>1
<1>2. ASSUME NEW j \in Jobs, StartJob(j) \/ JobStep(j) \/ TimerStep(j) \/ Command(j)
      PROVE  \/ StartJob(j) \/ SpawnFails(j) \/ Spawn(j) \/ OutputEnds(j)
             \/ Grace(j) \/ Exit(j) \/ Deadline(j) \/ Command(j)
             \/ \E th \in Threads : Reap(j, th)
  <2>1. "job" \in Threads /\ "timer" \in Threads
    BY DEF Threads
  <2> QED
    BY <1>2, <2>1, Zenon DEF JobStep, TimerStep
<1> QED
  BY <1>1, <1>2, Zenon DEF JobNext

LEMMA JobTypeStep == ASSUME JobTypeOK, [JobNext]_jobVars PROVE JobTypeOK'
<1>0. CASE UNCHANGED jobVars
  BY <1>0 DEF JobTypeOK, jobVars
<1>1. ASSUME NEW j \in Jobs, StartJob(j) PROVE JobTypeOK'
  BY <1>1 DEF JobTypeOK, StartJob, Go, Points, Threads
<1>2. ASSUME NEW j \in Jobs, SpawnFails(j) PROVE JobTypeOK'
  BY <1>2 DEF JobTypeOK, SpawnFails, Report, Go, Points, Threads, Codes
<1>3. ASSUME NEW j \in Jobs, Spawn(j) PROVE JobTypeOK'
  BY <1>3 DEF JobTypeOK, Spawn, Points, Threads, Members
<1>4. ASSUME NEW j \in Jobs, OutputEnds(j) PROVE JobTypeOK'
  BY <1>4 DEF JobTypeOK, OutputEnds, Collect, Points, Threads
<1>5. ASSUME NEW j \in Jobs, Grace(j) PROVE JobTypeOK'
  BY <1>5 DEF JobTypeOK, Grace, Collect, Go, Points, Threads
<1>6. ASSUME NEW j \in Jobs, NEW th \in Threads, Reap(j, th) PROVE JobTypeOK'
  <2>0. AfterReap(th) \in Points
    BY DEF AfterReap, Points
  <2>1. CASE ReapNothing(j, th)
    BY <2>0, <2>1 DEF JobTypeOK, ReapNothing, Collect, Go
  <2>2. CASE ReapTerm(j, th)
    BY <2>2 DEF JobTypeOK, ReapTerm, KillGroup, Go, Points
  <2>3. CASE ReapWait(j, th)
    BY <2>0, <2>3 DEF JobTypeOK, ReapWait, Collect, Go, Points
  <2>4. CASE ReapKill(j, th)
    BY <2>0, <2>4 DEF JobTypeOK, ReapKill, KillGroup, Go
  <2> QED
    BY <1>6, <2>1, <2>2, <2>3, <2>4 DEF Reap
<1>7. ASSUME NEW j \in Jobs, Exit(j) PROVE JobTypeOK'
  BY <1>7 DEF JobTypeOK, Exit, Collect, Report, Verdict, Go, Points, Threads, Codes
<1>8. ASSUME NEW j \in Jobs, Deadline(j) PROVE JobTypeOK'
  <2>1. CASE leader[j] = "runs"
    <3>1. at' = [at EXCEPT ![j]["timer"] = "term"] /\ timedOut' = timedOut \cup {j}
      BY <1>8, <2>1 DEF Deadline, Go
    <3>2. at' \in [Jobs -> [Threads -> Points]]
      BY <3>1 DEF JobTypeOK, Points
    <3>3. leader' \in [Jobs -> {"none", "runs", "zombie", "reaped"}]
      BY <1>8 DEF JobTypeOK, Deadline, Collect
    <3> QED
      BY <1>8, <3>1, <3>2, <3>3 DEF JobTypeOK, Deadline
  <2>2. CASE leader[j] # "runs"
    <3>1. at' = [at EXCEPT ![j]["timer"] = "done"] /\ UNCHANGED timedOut
      BY <1>8, <2>2 DEF Deadline, Go
    <3>2. at' \in [Jobs -> [Threads -> Points]]
      BY <3>1 DEF JobTypeOK, Points
    <3>3. leader' \in [Jobs -> {"none", "runs", "zombie", "reaped"}]
      BY <1>8 DEF JobTypeOK, Deadline, Collect
    <3> QED
      BY <1>8, <3>1, <3>2, <3>3 DEF JobTypeOK, Deadline
  <2> QED
    BY <2>1, <2>2
<1>9. ASSUME NEW j \in Jobs, Command(j) PROVE JobTypeOK'
  <2>1. CASE LeaderForks(j)
    BY <2>1 DEF JobTypeOK, LeaderForks, Members
  <2>2. CASE LeaderEnds(j)
    BY <2>2 DEF JobTypeOK, LeaderEnds
  <2>3. ASSUME NEW m \in Members, LetsGo(j, m) PROVE JobTypeOK'
    BY <2>3 DEF JobTypeOK, LetsGo
  <2> QED
    BY <1>9, <2>1, <2>2, <2>3 DEF Command
<1> QED
  BY <1>0, <1>1, <1>2, <1>3, <1>4, <1>5, <1>6, <1>7, <1>8, <1>9, JobStepCases

\* The state keeps its type.
THEOREM JobTypeCorrect == JobSpec => []JobTypeOK
<1>1. JobInit => JobTypeOK
  BY DEF JobInit, JobTypeOK, Points, Threads, Codes, Members
<1> QED
  BY <1>1, JobTypeStep, PTL DEF JobSpec

-----------------------------------------------------------------------------
(* The inductive invariant. *)

Busy(j) == at[j]["job"] \notin {"off", "done"}

\* Past the end of the output.
Past(j) == at[j]["job"] \in {"grace", "term", "termWait", "kill", "exit"}

\* The mutex as rows, and what ties a row to the process behind it.
RowInv ==
  /\ \A i, j \in running : i = j
  /\ \A j \in Jobs : /\ Busy(j) <=> j \in running
                     /\ Alive(j) => Busy(j)
                     /\ at[j]["job"] \in {"off", "spawn"} => leader[j] = "none"
                     /\ rc[j] # "none" => ~Busy(j)

\* A signal comes from the deadline, and then the event is set, or from the job
\* itself, and then the output has ended.
SignalInv ==
  \A j \in Jobs :
    /\ Past(j) => pipe[j] = {}
    /\ ~Busy(j) => at[j]["timer"] \in {"off", "done"} \/ ~Alive(j)
    /\ at[j]["timer"] \in {"term", "termWait", "kill"} => j \in timedOut
    /\ code[j] = "signalled" /\ j \notin timedOut => pipe[j] = {}
    /\ leader[j] = "none" => pipe[j] = {} /\ code[j] = "none" /\ at[j]["timer"] = "off"

JobIInv == JobTypeOK /\ RowInv /\ SignalInv /\ CodeIsTrue

LEMMA JobInvInit == JobInit => JobIInv
  BY DEF JobInit, JobIInv, JobTypeOK, RowInv, SignalInv, CodeIsTrue, Busy, Past, Alive,
         Points, Threads, Codes, Members

LEMMA JobInvStep == ASSUME JobIInv, [JobNext]_jobVars PROVE JobIInv'
<1> USE DEF JobIInv
<1>t. JobTypeOK'
  BY JobTypeStep
<1>0. CASE UNCHANGED jobVars
  BY <1>t, <1>0 DEF jobVars, RowInv, SignalInv, CodeIsTrue, Busy, Past, Alive
<1>1. ASSUME NEW j \in Jobs, StartJob(j) PROVE JobIInv'
  BY <1>1, <1>t DEF JobTypeOK, StartJob, Admits, Go, RowInv, SignalInv, CodeIsTrue, Busy, Past, Alive, Threads
<1>2. ASSUME NEW j \in Jobs, SpawnFails(j) PROVE JobIInv'
  BY <1>2, <1>t DEF JobTypeOK, SpawnFails, Report, Go, RowInv, SignalInv, CodeIsTrue, Busy, Past, Alive, Threads
<1>3. ASSUME NEW j \in Jobs, Spawn(j) PROVE JobIInv'
  <2>1. /\ at' \in [Jobs -> [Threads -> Points]] /\ at'[j]["job"] = "read" /\ at'[j]["timer"] = "armed"
        /\ \A i \in Jobs \ {j} : at'[i] = at[i]
    BY <1>3, <1>t DEF JobTypeOK, Spawn
  <2>2. leader'[j] = "runs" /\ \A i \in Jobs \ {j} : leader'[i] = leader[i]
    BY <1>3 DEF JobTypeOK, Spawn
  <2>3. RowInv'
    BY <1>3, <2>1, <2>2 DEF Spawn, RowInv, Busy, Alive
  <2>4. pipe' = [pipe EXCEPT ![j] = {"leader"}] /\ UNCHANGED <<rc, code, timedOut>>
    BY <1>3 DEF Spawn
  <2>5. SignalInv'
    BY <1>3, <2>1, <2>2, <2>4 DEF JobTypeOK, Spawn, RowInv, SignalInv, Busy, Past, Alive
  <2>6. CodeIsTrue'
    BY <1>3, <2>4 DEF JobTypeOK, Spawn, RowInv, CodeIsTrue, Busy
  <2> QED
    BY <1>t, <2>3, <2>5, <2>6
<1>4. ASSUME NEW j \in Jobs, OutputEnds(j) PROVE JobIInv'
  BY <1>4, <1>t DEF JobTypeOK, OutputEnds, Collect, RowInv, SignalInv, CodeIsTrue, Busy, Past, Alive, Threads
<1>5. ASSUME NEW j \in Jobs, Grace(j) PROVE JobIInv'
  BY <1>5, <1>t DEF JobTypeOK, Grace, Collect, Go, RowInv, SignalInv, CodeIsTrue, Busy, Past, Alive, Threads
<1>6. ASSUME NEW j \in Jobs, NEW th \in Threads, Reap(j, th) PROVE JobIInv'
  <2>1. CASE ReapNothing(j, th)
    BY <2>1, <1>t DEF JobTypeOK, ReapNothing, AfterReap, Collect, Go, RowInv, SignalInv, CodeIsTrue, Busy, Past, Alive, Threads
  <2>2. CASE ReapTerm(j, th)
    BY <2>2, <1>t DEF JobTypeOK, ReapTerm, KillGroup, Go, RowInv, SignalInv, CodeIsTrue, Busy, Past, Alive, Threads
  <2>3. CASE ReapWait(j, th)
    BY <2>3, <1>t DEF JobTypeOK, ReapWait, AfterReap, Collect, Go, RowInv, SignalInv, CodeIsTrue, Busy, Past, Alive, Threads
  <2>4. CASE ReapKill(j, th)
    BY <2>4, <1>t DEF JobTypeOK, ReapKill, AfterReap, KillGroup, Go, RowInv, SignalInv, CodeIsTrue, Busy, Past, Alive, Threads
  <2> QED
    BY <1>6, <2>1, <2>2, <2>3, <2>4 DEF Reap
<1>7. ASSUME NEW j \in Jobs, Exit(j) PROVE JobIInv'
  BY <1>7, <1>t DEF JobTypeOK, Exit, Collect, Report, Verdict, Go, RowInv, SignalInv, CodeIsTrue, Busy, Past, Alive, Threads
<1>8. ASSUME NEW j \in Jobs, Deadline(j) PROVE JobIInv'
  BY <1>8, <1>t DEF JobTypeOK, Deadline, Collect, Go, RowInv, SignalInv, CodeIsTrue, Busy, Past, Alive, Threads
<1>9. ASSUME NEW j \in Jobs, Command(j) PROVE JobIInv'
  BY <1>9, <1>t DEF JobTypeOK, Command, LeaderForks, LeaderEnds, LetsGo, RowInv, SignalInv, CodeIsTrue, Busy, Past, Alive
<1> QED
  BY <1>0, <1>1, <1>2, <1>3, <1>4, <1>5, <1>6, <1>7, <1>8, <1>9, JobStepCases

LEMMA JobInvAlways == JobSpec => []JobIInv
  BY JobInvInit, JobInvStep, PTL DEF JobSpec

\* Whatever the commands do, two of them never run side by side (start_job).
THEOREM OneCommandAlways == JobSpec => []OneCommand
<1>1. JobIInv => OneCommand
  BY DEF JobIInv, RowInv, OneCommand
<1> QED
  BY <1>1, JobInvAlways, PTL

\* Success and death by a signal are reported only when they are true
\* (run_watchdog).
THEOREM CodesAreTrue == JobSpec => []CodeIsTrue
<1>1. JobIInv => CodeIsTrue
  BY DEF JobIInv
<1> QED
  BY <1>1, JobInvAlways, PTL

-----------------------------------------------------------------------------
(* WorkerPool: the inductive invariant. *)

\* What an executor keeps about its threads, holds in its queue and runs.
Slate == [live : Nat, idle : Nat, owed : Nat, state : {"open", "shut", "closed"}]
Lines == Seq(Tasks \cup {Marker})
Crew(e) == [Slots(e) -> [pc : {"none", "parked", "late", "run", "after", "leave"},
                         job : Tasks \cup {Marker}]]

\* The books, queues and workers of the executors have their types, the counts unbounded.
Shapes ==
  /\ DOMAIN book = Executors /\ DOMAIN queue = Executors /\ DOMAIN worker = Executors
  /\ \A e \in Executors : book[e] \in Slate /\ queue[e] \in Lines /\ worker[e] \in Crew(e)

\* The executor in use is the last one made and open; those yet to be made are open too.
Turns ==
  /\ cur \in [Pools -> Nat] /\ made \in [Pools -> 0 .. Lives]
  /\ \A p \in Pools :
       /\ cur[p] = 0 => made[p] < Lives
       /\ cur[p] # 0 => cur[p] = made[p] /\ book[<<p, cur[p]>>].state = "open"
       /\ \A n \in made[p] + 1 .. Lives : book[<<p, n>>].state = "open"

\* Workers not started, ready for the next item, and on their way out.
None(e)    == In(e, {"none"})
Ready(e)   == In(e, {"parked", "late"})
Leaving(e) == In(e, {"leave"})

\* The law of the books: w workers allowed, so many of them not started, ready for the
\* next item or on their way out, and so many items waiting.
Law(w, b, wait, none, ready, leaving) ==
  /\ b.live = w - none
  /\ b.owed > 0 => b.idle = 0
  /\ b.idle <= ready + leaving + none + b.owed
  /\ b.state # "closed" \/ wait > 0 =>
       /\ b.idle + wait = ready + b.owed
       /\ b.owed > 0 => b.live = w
       /\ leaving = 0

\* The books of an executor agree with its workers and its queue.
BookOf(e) == Law(Width[e[1]], book[e], Waiting(e), None(e), Ready(e), Leaving(e))

\* A queue holds a marker only when its executor is closed, and no item behind it.
LineOf(e) ==
  /\ book[e].state # "closed" => \A i \in DOMAIN queue[e] : queue[e][i] # Marker
  /\ \A i, j \in DOMAIN queue[e] : i < j /\ queue[e][i] = Marker => queue[e][j] = Marker

Books == \A e \in Executors : BookOf(e) /\ LineOf(e)

\* What a caller has before it is not begun, what it has behind it is done.
CallOf(c) ==
  /\ call[c].n <= Len(Batch[c])
  /\ call[c].pc = "put" => call[c].ex \in Executors
  /\ call[c].pc \in {"look", "put"} => fut[Item(c)] = "none"
  /\ call[c].pc = "inline" => fut[Item(c)] = "running"
  /\ call[c].pc \in {"look", "put", "inline"} =>
       \A i \in call[c].n + 1 .. Len(Batch[c]) : fut[Batch[c][i]] = "none"
  /\ call[c].pc = "wait" => \A i \in 1 .. call[c].n - 1 : fut[Batch[c][i]] = "result"
  /\ call[c].pc = "back" => \A i \in 1 .. Len(Batch[c]) : fut[Batch[c][i]] = "result"

Place == [pc : {"look", "put", "inline", "wait", "back", "raised"},
          n : Nat \ {0}, ex : Executors \cup {NoExec}]

Calling ==
  /\ call \in [Callers -> Place]
  /\ \A c \in Callers : CallOf(c)

\* A future in one of these has had its item run.
Begun == {"running", "result", "raised"}

Futures ==
  /\ fut \in [Tasks -> {"none", "pending", "running"} \cup Over]
  /\ runs = [t \in Tasks |-> IF fut[t] \in Begun THEN 1 ELSE 0]

\* A queued item is pending or cancelled, and in one place of one queue.
Queued ==
  /\ \A e \in Executors : \A i \in DOMAIN queue[e] :
       queue[e][i] # Marker => fut[queue[e][i]] \in {"pending", "cancelled"}
  /\ \A e, f \in Executors : \A i \in DOMAIN queue[e], j \in DOMAIN queue[f] :
       queue[e][i] = queue[f][j] /\ queue[e][i] # Marker => e = f /\ i = j

\* A running worker has its item to itself.
Running ==
  \A e \in Executors : \A k \in Slots(e) : worker[e][k].pc = "run" =>
    /\ worker[e][k].job \in Tasks /\ fut[worker[e][k].job] = "running"
    /\ \A f \in Executors : \A l \in Slots(f) :
         worker[f][l].pc = "run" /\ worker[f][l].job = worker[e][k].job => e = f /\ k = l
    /\ \A c \in Callers : call[c].pc = "inline" => Item(c) # worker[e][k].job

IInv == Shapes /\ Turns /\ Books /\ Calling /\ Futures /\ Queued /\ Running

-----------------------------------------------------------------------------
(* Counting. *)

LEMMA SlotsFinite ==
  ASSUME NEW e \in Executors
  PROVE  /\ Width[e[1]] \in Nat \ {0} /\ IsFiniteSet(Slots(e)) /\ Cardinality(Slots(e)) = Width[e[1]]
<1>1. e[1] \in Pools
  BY DEF Executors
<1>2. Width[e[1]] \in Nat \ {0}
  BY <1>1, BoundsAssumption
<1>3. \A w \in Nat : IsFiniteSet(1 .. w) /\ Cardinality(1 .. w) = w
  BY FS_Interval
<1> QED
  BY <1>2, <1>3 DEF Slots

\* The number of workers at some points is natural, and none only when there are none.
LEMMA InNat ==
  ASSUME NEW e \in Executors, NEW pcs
  PROVE  /\ In(e, pcs) \in Nat
         /\ In(e, pcs) = 0 <=> \A k \in Slots(e) : worker[e][k].pc \notin pcs
<1> DEFINE S == {k \in Slots(e) : worker[e][k].pc \in pcs}
<1>1. S \in SUBSET Slots(e)
  OBVIOUS
<1>2. IsFiniteSet(S)
  BY <1>1, SlotsFinite, FS_Subset
<1>3. Cardinality(S) \in Nat /\ (Cardinality(S) = 0 <=> S = {})
  BY <1>2, FS_CardinalityType, FS_EmptySet
<1> QED
  BY <1>3 DEF In

LEMMA InSame ==
  ASSUME NEW e \in Executors, worker'[e] = worker[e], NEW pcs
  PROVE  In(e, pcs)' = In(e, pcs)
<1>1. {k \in Slots(e) : worker'[e][k].pc \in pcs} = {k \in Slots(e) : worker[e][k].pc \in pcs}
  OBVIOUS
<1> QED
  BY <1>1 DEF In, Slots

\* A worker goes on to another point.
Goes(e, k, to, t) == worker' = [worker EXCEPT ![e][k] = Thread(to, t)]

LEMMA InMoves ==
  ASSUME Shapes, NEW e \in Executors, NEW k \in Slots(e), NEW to, NEW t, NEW pcs,
         Goes(e, k, to, t)
  PROVE  /\ In(e, pcs)' \in Nat
         /\ In(e, pcs)' = IF worker[e][k].pc \in pcs
                          THEN IF to \in pcs THEN In(e, pcs) ELSE In(e, pcs) - 1
                          ELSE IF to \in pcs THEN In(e, pcs) + 1 ELSE In(e, pcs)
<1> DEFINE S == {l \in Slots(e) : worker[e][l].pc \in pcs}
<1> DEFINE T == {l \in Slots(e) : worker'[e][l].pc \in pcs}
<1>1. S \in SUBSET Slots(e)
  OBVIOUS
<1>2. IsFiniteSet(S)
  BY <1>1, SlotsFinite, FS_Subset
<1>3. \A l \in Slots(e) : worker'[e][l] = IF l = k THEN Thread(to, t) ELSE worker[e][l]
  BY DEF Shapes, Crew, Goes
<1>4. \A l \in Slots(e) : worker'[e][l].pc = IF l = k THEN to ELSE worker[e][l].pc
  BY <1>3 DEF Thread
<1>5. T = IF to \in pcs THEN S \cup {k} ELSE S \ {k}
  BY <1>4
<1>6. Cardinality(S) \in Nat /\ (k \in S => Cardinality(S) # 0)
  BY <1>2, FS_CardinalityType, FS_EmptySet
<1>7. Cardinality(S \cup {k}) = IF k \in S THEN Cardinality(S) ELSE Cardinality(S) + 1
  BY <1>2, FS_AddElement
<1>8. Cardinality(S \ {k}) = IF k \in S THEN Cardinality(S) - 1 ELSE Cardinality(S)
  BY <1>2, FS_RemoveElement
<1>9. k \in S <=> worker[e][k].pc \in pcs
  OBVIOUS
<1>10. In(e, pcs) = Cardinality(S) /\ In(e, pcs)' = Cardinality(T)
  BY DEF In, Slots
<1>11. /\ Cardinality(T) \in Nat
       /\ Cardinality(T) = IF worker[e][k].pc \in pcs
                           THEN IF to \in pcs THEN Cardinality(S) ELSE Cardinality(S) - 1
                           ELSE IF to \in pcs THEN Cardinality(S) + 1 ELSE Cardinality(S)
  <2> HIDE DEF S, T
  <2>1. CASE to \in pcs
    BY <2>1, <1>5, <1>6, <1>7, <1>9
  <2>2. CASE to \notin pcs
    BY <2>2, <1>5, <1>6, <1>8, <1>9
  <2> QED
    BY <2>1, <2>2
<1> QED
  BY <1>10, <1>11

\* One worker at the point pc, counted among those at pcs.
One(pc, pcs) == IF pc \in pcs THEN 1 ELSE 0

\* The counts of the books after a worker has gone from one point to another.
LEMMA Moves ==
  ASSUME Shapes, NEW e \in Executors, NEW k \in Slots(e), NEW from, NEW to, NEW t,
         worker[e][k].pc = from, Goes(e, k, to, t)
  PROVE  /\ None(e)' = None(e) - One(from, {"none"}) + One(to, {"none"})
         /\ Ready(e)' = Ready(e) - One(from, {"parked", "late"}) + One(to, {"parked", "late"})
         /\ Leaving(e)' = Leaving(e) - One(from, {"leave"}) + One(to, {"leave"})
         /\ None(e) >= One(from, {"none"}) /\ Ready(e) >= One(from, {"parked", "late"})
         /\ Leaving(e) >= One(from, {"leave"})
<1>1. ASSUME NEW pcs
      PROVE  /\ In(e, pcs) \in Nat
             /\ In(e, pcs)' = In(e, pcs) - One(from, pcs) + One(to, pcs)
             /\ In(e, pcs) >= One(from, pcs)
  <2>1. In(e, pcs) \in Nat /\ (from \in pcs => In(e, pcs) # 0)
    BY InNat
  <2>2. In(e, pcs)' = IF from \in pcs
                      THEN IF to \in pcs THEN In(e, pcs) ELSE In(e, pcs) - 1
                      ELSE IF to \in pcs THEN In(e, pcs) + 1 ELSE In(e, pcs)
    BY InMoves
  <2> QED
    BY <2>1, <2>2 DEF One
<1> QED
  BY <1>1 DEF None, Ready, Leaving

\* The items of a queue, by place.
Items(q) == {i \in DOMAIN q : q[i] # Marker}

LEMMA ItemsFinite ==
  ASSUME NEW q \in Lines
  PROVE  /\ IsFiniteSet(Items(q)) /\ Cardinality(Items(q)) \in Nat
         /\ Cardinality(Items(q)) = 0 <=> \A i \in DOMAIN q : q[i] = Marker
<1>1. DOMAIN q = 1 .. Len(q) /\ Len(q) \in Nat
  BY DEF Lines
<1>2. IsFiniteSet(DOMAIN q)
  BY <1>1, FS_Interval
<1>3. Items(q) \in SUBSET DOMAIN q
  BY DEF Items
<1>4. IsFiniteSet(Items(q))
  BY <1>2, <1>3, FS_Subset
<1>5. Items(q) = {} <=> \A i \in DOMAIN q : q[i] = Marker
  BY DEF Items
<1> QED
  BY <1>4, <1>5, FS_CardinalityType, FS_EmptySet

LEMMA ItemsAppend ==
  ASSUME NEW q \in Lines, NEW x \in Tasks \cup {Marker}
  PROVE  Cardinality(Items(Append(q, x)))
           = IF x = Marker THEN Cardinality(Items(q)) ELSE Cardinality(Items(q)) + 1
<1> DEFINE r == Append(q, x)
<1>1. /\ DOMAIN q = 1 .. Len(q) /\ Len(q) \in Nat /\ DOMAIN r = 1 .. Len(q) + 1
      /\ \A i \in 1 .. Len(q) : r[i] = q[i]
      /\ r[Len(q) + 1] = x
  BY DEF Lines
<1>2. Items(r) = IF x = Marker THEN Items(q) ELSE Items(q) \cup {Len(q) + 1}
  BY <1>1 DEF Items
<1>3. Len(q) + 1 \notin Items(q)
  BY <1>1 DEF Items
<1>4. IsFiniteSet(Items(q))
  BY ItemsFinite
<1>5. Cardinality(Items(q) \cup {Len(q) + 1}) = Cardinality(Items(q)) + 1
  BY <1>3, <1>4, FS_AddElement
<1> QED
  BY <1>2, <1>5

\* Taking the head of a queue leaves the other items.
LEMMA ItemsTail ==
  ASSUME NEW q \in Lines, q # <<>>
  PROVE  Cardinality(Items(Tail(q)))
           = IF Head(q) = Marker THEN Cardinality(Items(q)) ELSE Cardinality(Items(q)) - 1
<1> DEFINE r == Tail(q)
<1>1. /\ DOMAIN q = 1 .. Len(q) /\ Len(q) \in Nat \ {0} /\ DOMAIN r = 1 .. Len(q) - 1
      /\ \A i \in 1 .. Len(q) - 1 : r[i] = q[i + 1]
      /\ Head(q) = q[1]
  BY DEF Lines
<1> DEFINE A == Items(q) \ {1}
<1> DEFINE f == [i \in Items(r) |-> i + 1]
<1>2. f \in Bijection(Items(r), A)
  <2>1. \A i \in Items(r) : i \in 1 .. Len(q) - 1 /\ q[i + 1] # Marker
    BY <1>1 DEF Items
  <2>2. \A i \in Items(r) : i + 1 \in A
    BY <1>1, <2>1 DEF Items
  <2>3. \A a \in A : a - 1 \in Items(r) /\ f[a - 1] = a
    BY <1>1 DEF Items
  <2>4. \A i, j \in Items(r) : f[i] = f[j] => i = j
    BY <2>1, <1>1
  <2> QED
    BY <2>2, <2>3, <2>4 DEF Bijection, Injection, Surjection, IsInjective
<1>3. IsFiniteSet(Items(q)) /\ r \in Lines
  BY ItemsFinite DEF Lines
<1>4. IsFiniteSet(Items(r))
  BY <1>3, ItemsFinite
<1>5. Cardinality(A) = Cardinality(Items(r))
  BY <1>2, <1>4, FS_Bijection DEF ExistsBijection
<1>6. Cardinality(A) = IF 1 \in Items(q) THEN Cardinality(Items(q)) - 1 ELSE Cardinality(Items(q))
  BY <1>3, FS_RemoveElement
<1>7. 1 \in Items(q) <=> Head(q) # Marker
  BY <1>1 DEF Items
<1> QED
  BY <1>5, <1>6, <1>7

LEMMA WaitingIs == \A e : Waiting(e) = Cardinality(Items(queue[e]))
  BY DEF Waiting, Items

-----------------------------------------------------------------------------
(* The books. *)

LEMMA CountsSame ==
  ASSUME NEW e \in Executors, worker'[e] = worker[e]
  PROVE  None(e)' = None(e) /\ Ready(e)' = Ready(e) /\ Leaving(e)' = Leaving(e)
  BY InSame DEF None, Ready, Leaving

\* An executor that nothing touches keeps its books and its line.
LEMMA BookSame ==
  ASSUME Books, NEW f \in Executors,
         book'[f] = book[f], queue'[f] = queue[f], worker'[f] = worker[f]
  PROVE  BookOf(f)' /\ LineOf(f)'
<1>1. None(f)' = None(f) /\ Ready(f)' = Ready(f) /\ Leaving(f)' = Leaving(f)
  BY CountsSame
<1>2. Waiting(f)' = Waiting(f)
  BY DEF Waiting
<1> QED
  BY <1>1, <1>2 DEF Books, BookOf, LineOf

\* A step at one executor leaves the others alone.
LEMMA BooksFrame ==
  ASSUME Shapes, Books, NEW e \in Executors,
         \A f \in Executors \ {e} : book'[f] = book[f] /\ queue'[f] = queue[f] /\ worker'[f] = worker[f],
         BookOf(e)', LineOf(e)'
  PROVE  Books'
<1>1. ASSUME NEW f \in Executors \ {e} PROVE BookOf(f)' /\ LineOf(f)'
  BY <1>1, BookSame
<1> QED
  BY <1>1 DEF Books

\* The numbers of an executor are natural.
LEMMA Numbers ==
  ASSUME Shapes, NEW e \in Executors
  PROVE  /\ Width[e[1]] \in Nat \ {0}
         /\ book[e].live \in Nat /\ book[e].idle \in Nat /\ book[e].owed \in Nat
         /\ Waiting(e) \in Nat /\ queue[e] \in Lines
         /\ None(e) \in Nat /\ Ready(e) \in Nat /\ Leaving(e) \in Nat
<1>1. book[e] \in Slate /\ queue[e] \in Lines
  BY DEF Shapes
<1>2. Waiting(e) \in Nat
  BY <1>1, ItemsFinite, WaitingIs
<1> QED
  BY <1>1, <1>2, SlotsFinite, InNat DEF Slate, None, Ready, Leaving

\* An item goes to the end of a queue.
LEMMA ItemQueued ==
  ASSUME Shapes, NEW e \in Executors, NEW t \in Tasks, queue' = [queue EXCEPT ![e] = Append(@, t)]
  PROVE  Waiting(e)' = Waiting(e) + 1
<1>1. queue[e] \in Lines /\ queue'[e] = Append(queue[e], t) /\ t # Marker
  BY BatchesAssumption DEF Shapes
<1>2. Cardinality(Items(Append(queue[e], t))) = Cardinality(Items(queue[e])) + 1
  BY <1>1, ItemsAppend
<1> QED
  BY <1>1, <1>2 DEF Waiting, Items

\* A marker is not an item.
LEMMA MarkerQueued ==
  ASSUME Shapes, NEW e \in Executors, queue' = [queue EXCEPT ![e] = Append(@, Marker)]
  PROVE  Waiting(e)' = Waiting(e)
<1>1. queue[e] \in Lines /\ queue'[e] = Append(queue[e], Marker)
  BY DEF Shapes
<1>2. Cardinality(Items(Append(queue[e], Marker))) = Cardinality(Items(queue[e]))
  BY <1>1, ItemsAppend
<1> QED
  BY <1>1, <1>2 DEF Waiting, Items

\* The head of a queue is one item less, unless it is a marker.
LEMMA HeadTaken ==
  ASSUME Shapes, NEW e \in Executors, queue[e] # <<>>, queue' = [queue EXCEPT ![e] = Tail(@)]
  PROVE  /\ Waiting(e)' = IF Head(queue[e]) = Marker THEN Waiting(e) ELSE Waiting(e) - 1
         /\ Head(queue[e]) # Marker => Waiting(e) > 0
<1>1. queue[e] \in Lines /\ queue'[e] = Tail(queue[e])
  BY DEF Shapes
<1>2. Cardinality(Items(Tail(queue[e])))
        = IF Head(queue[e]) = Marker THEN Cardinality(Items(queue[e])) ELSE Cardinality(Items(queue[e])) - 1
  BY <1>1, ItemsTail
<1>3. Head(queue[e]) # Marker => \E i \in DOMAIN queue[e] : queue[e][i] # Marker
  BY <1>1 DEF Lines
<1>4. Head(queue[e]) # Marker => Cardinality(Items(queue[e])) > 0
  BY <1>1, <1>3, ItemsFinite
<1> QED
  BY <1>1, <1>2, <1>4 DEF Waiting, Items

\* Behind a marker there is no item.
LEMMA MarkerFirst ==
  ASSUME Shapes, Books, NEW e \in Executors, queue[e] # <<>>, Head(queue[e]) = Marker
  PROVE  book[e].state = "closed" /\ Waiting(e) = 0
<1>1. queue[e] \in Lines /\ Len(queue[e]) \in Nat \ {0} /\ DOMAIN queue[e] = 1 .. Len(queue[e])
      /\ queue[e][1] = Marker
  BY DEF Shapes, Lines
<1>2. LineOf(e)
  BY DEF Books
<1>3. \A i \in DOMAIN queue[e] : queue[e][i] = Marker
  BY <1>1, <1>2 DEF LineOf
<1>4. book[e].state = "closed"
  BY <1>1, <1>2 DEF LineOf
<1> QED
  BY <1>1, <1>3, <1>4, ItemsFinite, WaitingIs

LEMMA LineTail ==
  ASSUME Shapes, Books, NEW e \in Executors, queue[e] # <<>>, queue'[e] = Tail(queue[e]),
         book'[e].state = book[e].state
  PROVE  LineOf(e)'
<1>1. /\ DOMAIN queue[e] = 1 .. Len(queue[e]) /\ Len(queue[e]) \in Nat \ {0}
      /\ DOMAIN queue'[e] = 1 .. Len(queue[e]) - 1
      /\ \A i \in 1 .. Len(queue[e]) - 1 : queue'[e][i] = queue[e][i + 1]
  BY DEF Shapes, Lines
<1>2. LineOf(e)
  BY DEF Books
<1> QED
  BY <1>1, <1>2 DEF LineOf

LEMMA LineAppend ==
  ASSUME Shapes, Books, NEW e \in Executors, NEW x \in Tasks \cup {Marker}, queue'[e] = Append(queue[e], x),
         x # Marker => book[e].state # "closed" /\ book'[e].state # "closed",
         x = Marker => book'[e].state = "closed"
  PROVE  LineOf(e)'
<1>1. /\ DOMAIN queue[e] = 1 .. Len(queue[e]) /\ Len(queue[e]) \in Nat
      /\ DOMAIN queue'[e] = 1 .. Len(queue[e]) + 1
      /\ \A i \in 1 .. Len(queue[e]) : queue'[e][i] = queue[e][i]
      /\ queue'[e][Len(queue[e]) + 1] = x
  BY DEF Shapes, Lines
<1>2. LineOf(e)
  BY DEF Books
<1>3. CASE x = Marker
  BY <1>1, <1>2, <1>3 DEF LineOf
<1>4. CASE x # Marker
  BY <1>1, <1>2, <1>4 DEF LineOf
<1> QED
  BY <1>3, <1>4

LEMMA LineSame ==
  ASSUME Books, NEW e \in Executors, queue'[e] = queue[e], book'[e].state = book[e].state
  PROVE  LineOf(e)'
  BY DEF Books, LineOf

-----------------------------------------------------------------------------

\* What each step makes of the books, in numbers.
LEMMA LawPut ==
  ASSUME NEW w \in Nat, NEW b \in Slate, NEW wait \in Nat, NEW none \in Nat, NEW ready \in Nat,
         NEW leaving \in Nat, Law(w, b, wait, none, ready, leaving), b.state # "closed"
  PROVE  /\ b.idle > 0 => Law(w, [b EXCEPT !.idle = @ - 1], wait + 1, none, ready, leaving)
         /\ b.idle = 0 /\ b.live < w =>
              none > 0 /\ Law(w, [b EXCEPT !.live = @ + 1], wait + 1, none - 1, ready + 1, leaving)
         /\ b.idle = 0 /\ b.live = w => Law(w, [b EXCEPT !.owed = @ + 1], wait + 1, none, ready, leaving)
  BY DEF Law, Slate

LEMMA LawWork ==
  ASSUME NEW w \in Nat, NEW b \in Slate, NEW wait \in Nat, NEW none \in Nat, NEW ready \in Nat,
         NEW leaving \in Nat, Law(w, b, wait, none, ready, leaving)
  PROVE  /\ wait > 0 /\ ready > 0 => Law(w, b, wait - 1, none, ready - 1, leaving)
         /\ b.state = "closed" /\ wait = 0 /\ ready > 0 => Law(w, b, wait, none, ready - 1, leaving + 1)
         /\ leaving > 0 => /\ b.state = "closed" /\ wait = 0
                           /\ Law(w, [b EXCEPT !.live = @ - 1], wait, none + 1, ready, leaving - 1)
         /\ b.owed > 0 => Law(w, [b EXCEPT !.owed = @ - 1], wait, none, ready + 1, leaving)
         /\ b.owed = 0 => Law(w, [b EXCEPT !.idle = @ + 1], wait, none, ready + 1, leaving)
         /\ b.idle > 0 /\ ready > 0 =>
              Law(w, [b EXCEPT !.idle = @ - 1, !.live = @ - 1], wait, none + 1, ready - 1, leaving)
         /\ b.state = "open" => Law(w, [b EXCEPT !.state = "shut"], wait, none, ready, leaving)
         /\ b.state = "shut" => Law(w, [b EXCEPT !.state = "closed"], wait, none, ready, leaving)
  BY DEF Law, Slate

\* The item of a caller is a task of its batch.
LEMMA ItemIsTask == ASSUME Calling, NEW c \in Callers PROVE
  /\ Item(c) \in Tasks /\ call[c].n \in DOMAIN Batch[c] /\ DOMAIN Batch[c] = 1 .. Len(Batch[c])
  /\ Len(Batch[c]) \in Nat /\ \A i \in DOMAIN Batch[c] : Batch[c][i] \in Tasks
<1>1. call[c].n \in Nat \ {0} /\ call[c].n <= Len(Batch[c])
  BY DEF Calling, CallOf, Place
<1>2. Batch[c] \in Seq(Tasks)
  BY BatchesAssumption
<1> QED
  BY <1>1, <1>2 DEF Item

LEMMA PutBooks == ASSUME IInv, NEW c \in Callers, Put(c) PROVE Books'
<1>0. call[c].ex \in Executors /\ Item(c) \in Tasks
  BY ItemIsTask DEF IInv, Calling, CallOf, Put
<1>e. PICK e \in Executors : e = call[c].ex
  BY <1>0
<1>1. e \in Executors /\ Item(c) \in Tasks
  BY <1>0
<1>2. book[e] \in Slate /\ queue[e] \in Lines /\ worker[e] \in Crew(e) /\ Shapes /\ Books
  BY <1>1 DEF IInv, Shapes
<1>3. book[e].state # "closed" /\ queue' = [queue EXCEPT ![e] = Append(@, Item(c))]
  BY <1>e DEF Put, Enqueue
<1>4. Waiting(e)' = Waiting(e) + 1
  BY <1>1, <1>2, <1>3, ItemQueued
<1>5. queue'[e] = Append(queue[e], Item(c))
  BY <1>1, <1>2, <1>3 DEF Shapes
<1>6. BookOf(e)
  BY <1>1, <1>2 DEF Books
<1> DEFINE w == Width[e[1]]
<1>n. /\ w \in Nat /\ None(e) \in Nat /\ Ready(e) \in Nat /\ Leaving(e) \in Nat /\ Waiting(e) \in Nat
      /\ Law(w, book[e], Waiting(e), None(e), Ready(e), Leaving(e))
  BY <1>1, <1>2, <1>6, Numbers DEF BookOf
<1>p. /\ book[e].idle > 0 =>
           Law(w, [book[e] EXCEPT !.idle = @ - 1], Waiting(e) + 1, None(e), Ready(e), Leaving(e))
      /\ book[e].idle = 0 /\ book[e].live < w =>
           /\ None(e) > 0
           /\ Law(w, [book[e] EXCEPT !.live = @ + 1], Waiting(e) + 1, None(e) - 1, Ready(e) + 1, Leaving(e))
      /\ book[e].idle = 0 /\ book[e].live = w =>
           Law(w, [book[e] EXCEPT !.owed = @ + 1], Waiting(e) + 1, None(e), Ready(e), Leaving(e))
  BY <1>2, <1>3, <1>n, LawPut
<1>l. book'[e].state = book[e].state => LineOf(e)'
  BY <1>1, <1>2, <1>3, <1>5, LineAppend, BatchesAssumption
<1>7. CASE book[e].idle > 0 /\ book' = [book EXCEPT ![e].idle = @ - 1] /\ UNCHANGED worker
  <2>1. book'[e] = [book[e] EXCEPT !.idle = @ - 1] /\ book'[e].state = book[e].state
    BY <1>1, <1>2, <1>7 DEF Shapes, Slate
  <2>2. None(e)' = None(e) /\ Ready(e)' = Ready(e) /\ Leaving(e)' = Leaving(e)
    BY <1>1, <1>7, CountsSame
  <2>3. BookOf(e)'
    BY <1>4, <1>7, <1>p, <2>1, <2>2 DEF BookOf
  <2>5. \A f \in Executors \ {e} : book'[f] = book[f] /\ queue'[f] = queue[f] /\ worker'[f] = worker[f]
    BY <1>1, <1>2, <1>3, <1>7 DEF Shapes
  <2> QED
    BY <1>1, <1>2, <1>l, <2>1, <2>3, <2>5, BooksFrame
<1>8. ASSUME book[e].idle = 0, book[e].live < Width[e[1]], book' = [book EXCEPT ![e].live = @ + 1],
             worker' = [worker EXCEPT ![e][CHOOSE k \in Slots(e) : worker[e][k].pc = "none"]
                                         = Thread("parked", Marker)]
      PROVE  Books'
  <2>1. book'[e] = [book[e] EXCEPT !.live = @ + 1] /\ book'[e].state = book[e].state
    BY <1>1, <1>2, <1>8 DEF Shapes, Slate
  <2>2. \E k \in Slots(e) : worker[e][k].pc = "none"
    <3>1. None(e) > 0
      BY <1>p, <1>8
    <3> QED
      BY <1>1, <3>1, InNat DEF None
  <2>3. PICK k \in Slots(e) : k = (CHOOSE l \in Slots(e) : worker[e][l].pc = "none") /\ worker[e][k].pc = "none"
    BY <2>2
  <2>4. Goes(e, k, "parked", Marker)
    BY <1>8, <2>3 DEF Goes
  <2>4a. k \in Slots(e) /\ worker[e][k].pc = "none"
    BY <2>3
  <2>5. None(e)' = None(e) - 1 /\ Ready(e)' = Ready(e) + 1 /\ Leaving(e)' = Leaving(e)
    <3>1. /\ None(e)' = None(e) - One("none", {"none"}) + One("parked", {"none"})
          /\ Ready(e)' = Ready(e) - One("none", {"parked", "late"}) + One("parked", {"parked", "late"})
          /\ Leaving(e)' = Leaving(e) - One("none", {"leave"}) + One("parked", {"leave"})
      BY <1>1, <1>2, <2>4, <2>4a, Moves
    <3> QED
      BY <1>n, <3>1 DEF One
  <2>6. BookOf(e)'
    BY <1>4, <1>8, <1>p, <2>1, <2>5 DEF BookOf
  <2>8. \A f \in Executors \ {e} : book'[f] = book[f] /\ queue'[f] = queue[f] /\ worker'[f] = worker[f]
    BY <1>1, <1>2, <1>3, <1>8, <2>4 DEF Shapes, Goes
  <2> QED
    BY <1>1, <1>2, <1>l, <2>1, <2>6, <2>8, BooksFrame
<1>9. CASE book[e].idle = 0 /\ book[e].live = Width[e[1]] /\ book' = [book EXCEPT ![e].owed = @ + 1]
           /\ UNCHANGED worker
  <2>1. book'[e] = [book[e] EXCEPT !.owed = @ + 1] /\ book'[e].state = book[e].state
    BY <1>1, <1>2, <1>9 DEF Shapes, Slate
  <2>2. None(e)' = None(e) /\ Ready(e)' = Ready(e) /\ Leaving(e)' = Leaving(e)
    BY <1>1, <1>9, CountsSame
  <2>3. BookOf(e)'
    BY <1>4, <1>9, <1>p, <2>1, <2>2 DEF BookOf
  <2>5. \A f \in Executors \ {e} : book'[f] = book[f] /\ queue'[f] = queue[f] /\ worker'[f] = worker[f]
    BY <1>1, <1>2, <1>3, <1>9 DEF Shapes
  <2> QED
    BY <1>1, <1>2, <1>l, <2>1, <2>3, <2>5, BooksFrame
<1> QED
  BY <1>e, <1>7, <1>8, <1>9 DEF Put

\* A worker of an executor goes on; the queue stays.
LEMMA WorkerBooks ==
  ASSUME Shapes, Books, NEW e \in Executors, NEW k \in Slots(e), NEW to, NEW t,
         Goes(e, k, to, t),
         \A f \in Executors \ {e} : book'[f] = book[f] /\ queue'[f] = queue[f],
         BookOf(e)', LineOf(e)'
  PROVE  Books'
<1>1. \A f \in Executors \ {e} : worker'[f] = worker[f]
  BY DEF Shapes, Goes
<1> QED
  BY <1>1, BooksFrame

\* What an executor's books and counts are before a step.
LEMMA Before ==
  ASSUME Shapes, Books, NEW e \in Executors
  PROVE  /\ Width[e[1]] \in Nat /\ None(e) \in Nat /\ Ready(e) \in Nat /\ Leaving(e) \in Nat
         /\ Waiting(e) \in Nat /\ book[e] \in Slate /\ queue[e] \in Lines
         /\ Law(Width[e[1]], book[e], Waiting(e), None(e), Ready(e), Leaving(e))
<1>1. BookOf(e) /\ book[e] \in Slate
  BY DEF Books, Shapes
<1> QED
  BY <1>1, Numbers DEF BookOf

\* An executor with a worker has started one.
LEMMA SomeLive ==
  ASSUME NEW e \in Executors, NEW k \in Slots(e), worker[e][k].pc # "none"
  PROVE  None(e) < Width[e[1]]
<1> DEFINE S == {l \in Slots(e) : worker[e][l].pc \in {"none"}}
<1>1. S \in SUBSET Slots(e) /\ k \notin S
  OBVIOUS
<1>2. IsFiniteSet(Slots(e)) /\ Cardinality(Slots(e)) = Width[e[1]] /\ Width[e[1]] \in Nat
  BY SlotsFinite
<1>3. Cardinality(S) <= Cardinality(Slots(e)) /\ (Cardinality(S) = Cardinality(Slots(e)) => S = Slots(e))
  BY <1>1, <1>2, FS_Subset
<1>4. Cardinality(S) \in Nat
  BY <1>1, <1>2, FS_Subset, FS_CardinalityType
<1> QED
  BY <1>1, <1>2, <1>3, <1>4 DEF None, In

\* The actions of a worker keep the books.
LEMMA TakeTaskBooks ==
  ASSUME Shapes, Books, NEW e \in Executors, NEW k \in Slots(e), TakeTask(e, k) PROVE Books'
<1>1. /\ worker[e][k].pc = "parked" /\ queue[e] # <<>> /\ Head(queue[e]) # Marker
      /\ queue' = [queue EXCEPT ![e] = Tail(@)] /\ UNCHANGED book
  BY DEF TakeTask
<1>2. Waiting(e)' = Waiting(e) - 1 /\ Waiting(e) > 0
  BY <1>1, HeadTaken
<1>a. PICK to \in {"run", "after"} : \E t : Goes(e, k, to, t)
  BY DEF TakeTask, Goes
<1>b. to = "run" \/ to = "after"
  BY <1>a
<1>3. PICK t : Goes(e, k, to, t)
  BY <1>a
<1>4. None(e)' = None(e) /\ Ready(e)' = Ready(e) - 1 /\ Ready(e) > 0 /\ Leaving(e)' = Leaving(e)
  <2>1. /\ None(e)' = None(e) - One("parked", {"none"}) + One(to, {"none"})
        /\ Ready(e)' = Ready(e) - One("parked", {"parked", "late"}) + One(to, {"parked", "late"})
        /\ Leaving(e)' = Leaving(e) - One("parked", {"leave"}) + One(to, {"leave"})
        /\ Ready(e) >= One("parked", {"parked", "late"})
    BY <1>1, <1>3, Moves
  <2> QED
    BY <1>b, <2>1, Before DEF One
<1>5. Law(Width[e[1]], book[e], Waiting(e) - 1, None(e), Ready(e) - 1, Leaving(e))
  BY <1>2, <1>4, Before, LawWork
<1>6. BookOf(e)'
  BY <1>1, <1>2, <1>4, <1>5 DEF BookOf
<1>7. LineOf(e)'
  <2>1. queue'[e] = Tail(queue[e])
    BY <1>1 DEF Shapes
  <2> QED
    BY <1>1, <2>1, LineTail
<1>8. \A f \in Executors \ {e} : book'[f] = book[f] /\ queue'[f] = queue[f]
  BY <1>1 DEF Shapes
<1> QED
  BY <1>3, <1>6, <1>7, <1>8, WorkerBooks

LEMMA TakeMarkerBooks ==
  ASSUME Shapes, Books, NEW e \in Executors, NEW k \in Slots(e), TakeMarker(e, k) PROVE Books'
<1>1. /\ worker[e][k].pc = "parked" /\ queue[e] # <<>> /\ Head(queue[e]) = Marker
      /\ queue' = [queue EXCEPT ![e] = Tail(@)] /\ UNCHANGED book
  BY DEF TakeMarker
<1>2. Waiting(e)' = Waiting(e) /\ Waiting(e) = 0 /\ book[e].state = "closed"
  BY <1>1, HeadTaken, MarkerFirst
<1>3. Goes(e, k, "leave", Marker)
  BY DEF TakeMarker, Goes
<1>4. None(e)' = None(e) /\ Ready(e)' = Ready(e) - 1 /\ Ready(e) > 0 /\ Leaving(e)' = Leaving(e) + 1
  <2>1. /\ None(e)' = None(e) - One("parked", {"none"}) + One("leave", {"none"})
        /\ Ready(e)' = Ready(e) - One("parked", {"parked", "late"}) + One("leave", {"parked", "late"})
        /\ Leaving(e)' = Leaving(e) - One("parked", {"leave"}) + One("leave", {"leave"})
        /\ Ready(e) >= One("parked", {"parked", "late"})
    BY <1>1, <1>3, Moves
  <2> QED
    BY <2>1, Before DEF One
<1>5. Law(Width[e[1]], book[e], Waiting(e), None(e), Ready(e) - 1, Leaving(e) + 1)
  BY <1>2, <1>4, Before, LawWork
<1>6. BookOf(e)'
  BY <1>1, <1>2, <1>4, <1>5 DEF BookOf
<1>7. LineOf(e)'
  <2>1. queue'[e] = Tail(queue[e])
    BY <1>1 DEF Shapes
  <2> QED
    BY <1>1, <2>1, LineTail
<1>8. \A f \in Executors \ {e} : book'[f] = book[f] /\ queue'[f] = queue[f]
  BY <1>1 DEF Shapes
<1> QED
  BY <1>3, <1>6, <1>7, <1>8, WorkerBooks

LEMMA LeaveBooks ==
  ASSUME Shapes, Books, NEW e \in Executors, NEW k \in Slots(e), Leave(e, k) PROVE Books'
<1>1. /\ worker[e][k].pc = "leave" /\ queue' = [queue EXCEPT ![e] = Append(@, Marker)]
      /\ book' = [book EXCEPT ![e].live = @ - 1]
  BY DEF Leave
<1>2. Waiting(e)' = Waiting(e)
  BY <1>1, MarkerQueued
<1>3. Goes(e, k, "none", Marker)
  BY DEF Leave, Goes
<1>4. None(e)' = None(e) + 1 /\ Ready(e)' = Ready(e) /\ Leaving(e)' = Leaving(e) - 1 /\ Leaving(e) > 0
  <2>1. /\ None(e)' = None(e) - One("leave", {"none"}) + One("none", {"none"})
        /\ Ready(e)' = Ready(e) - One("leave", {"parked", "late"}) + One("none", {"parked", "late"})
        /\ Leaving(e)' = Leaving(e) - One("leave", {"leave"}) + One("none", {"leave"})
        /\ Leaving(e) >= One("leave", {"leave"})
    BY <1>1, <1>3, Moves
  <2> QED
    BY <2>1, Before DEF One
<1>5. /\ book[e].state = "closed" /\ Waiting(e) = 0
      /\ Law(Width[e[1]], [book[e] EXCEPT !.live = @ - 1], Waiting(e), None(e) + 1, Ready(e), Leaving(e) - 1)
  BY <1>2, <1>4, Before, LawWork
<1>6. book'[e] = [book[e] EXCEPT !.live = @ - 1] /\ book'[e].state = book[e].state
  BY <1>1 DEF Shapes, Slate
<1>7. BookOf(e)'
  BY <1>2, <1>4, <1>5, <1>6 DEF BookOf
<1>8. LineOf(e)'
  <2>1. queue'[e] = Append(queue[e], Marker)
    BY <1>1 DEF Shapes
  <2> QED
    BY <1>5, <1>6, <2>1, LineAppend
<1>9. \A f \in Executors \ {e} : book'[f] = book[f] /\ queue'[f] = queue[f]
  BY <1>1 DEF Shapes
<1> QED
  BY <1>3, <1>7, <1>8, <1>9, WorkerBooks

\* From one point to another where the books and the queue stay.
LEMMA StillBooks ==
  ASSUME Shapes, Books, NEW e \in Executors, NEW k \in Slots(e), NEW from, NEW to, NEW t,
         worker[e][k].pc = from, Goes(e, k, to, t), UNCHANGED <<book, queue>>,
         \/ from = "run" /\ to = "after"
         \/ from \in {"parked", "late"} /\ to \in {"parked", "late"}
  PROVE  Books'
<1>1. None(e)' = None(e) /\ Ready(e)' = Ready(e) /\ Leaving(e)' = Leaving(e)
  <2>1. /\ None(e)' = None(e) - One(from, {"none"}) + One(to, {"none"})
        /\ Ready(e)' = Ready(e) - One(from, {"parked", "late"}) + One(to, {"parked", "late"})
        /\ Leaving(e)' = Leaving(e) - One(from, {"leave"}) + One(to, {"leave"})
    BY Moves
  <2> QED
    BY <2>1, Before DEF One
<1>2. Waiting(e)' = Waiting(e)
  BY DEF Waiting
<1>3. BookOf(e)'
  BY <1>1, <1>2, Before DEF BookOf
<1>4. LineOf(e)'
  BY LineSame
<1> QED
  BY <1>3, <1>4, WorkerBooks

LEMMA AfterBooks ==
  ASSUME Shapes, Books, NEW e \in Executors, NEW k \in Slots(e), After(e, k) PROVE Books'
<1>1. worker[e][k].pc = "after" /\ UNCHANGED queue
  BY DEF After
<1>2. Waiting(e)' = Waiting(e)
  BY <1>1 DEF Waiting
<1>3. Goes(e, k, "parked", Marker)
  BY DEF After, Goes
<1>4. None(e)' = None(e) /\ Ready(e)' = Ready(e) + 1 /\ Leaving(e)' = Leaving(e)
  <2>1. /\ None(e)' = None(e) - One("after", {"none"}) + One("parked", {"none"})
        /\ Ready(e)' = Ready(e) - One("after", {"parked", "late"}) + One("parked", {"parked", "late"})
        /\ Leaving(e)' = Leaving(e) - One("after", {"leave"}) + One("parked", {"leave"})
    BY <1>1, <1>3, Moves
  <2> QED
    BY <2>1, Before DEF One
<1>5. /\ Law(Width[e[1]], book'[e], Waiting(e), None(e), Ready(e) + 1, Leaving(e))
      /\ book'[e].state = book[e].state
      /\ \A f \in Executors \ {e} : book'[f] = book[f]
  <2>1. CASE book[e].owed > 0 /\ book' = [book EXCEPT ![e].owed = @ - 1]
    <3>1. /\ book'[e] = [book[e] EXCEPT !.owed = @ - 1] /\ book'[e].state = book[e].state
          /\ \A f \in Executors \ {e} : book'[f] = book[f]
      BY <2>1 DEF Shapes, Slate
    <3>2. Law(Width[e[1]], [book[e] EXCEPT !.owed = @ - 1], Waiting(e), None(e), Ready(e) + 1, Leaving(e))
      BY <2>1, Before, LawWork
    <3> QED
      BY <3>1, <3>2
  <2>2. CASE book[e].owed = 0 /\ book' = [book EXCEPT ![e].idle = @ + 1]
    <3>1. /\ book'[e] = [book[e] EXCEPT !.idle = @ + 1] /\ book'[e].state = book[e].state
          /\ \A f \in Executors \ {e} : book'[f] = book[f]
      BY <2>2 DEF Shapes, Slate
    <3>2. Law(Width[e[1]], [book[e] EXCEPT !.idle = @ + 1], Waiting(e), None(e), Ready(e) + 1, Leaving(e))
      BY <2>2, Before, LawWork
    <3> QED
      BY <3>1, <3>2
  <2> QED
    BY <2>1, <2>2 DEF After
<1>6. BookOf(e)'
  BY <1>2, <1>4, <1>5 DEF BookOf
<1>7. LineOf(e)'
  BY <1>1, <1>5, LineSame
<1>8. \A f \in Executors \ {e} : book'[f] = book[f] /\ queue'[f] = queue[f]
  BY <1>1, <1>5 DEF Shapes
<1> QED
  BY <1>3, <1>6, <1>7, <1>8, WorkerBooks

LEMMA RetireBooks ==
  ASSUME Shapes, Books, NEW e \in Executors, NEW k \in Slots(e), Retire(e, k) PROVE Books'
<1>1. worker[e][k].pc = "late" /\ UNCHANGED queue
  BY DEF Retire
<1>2. CASE book[e].idle > 0 /\ book' = [book EXCEPT ![e].idle = @ - 1, ![e].live = @ - 1]
           /\ Goes(e, k, "none", Marker)
  <2>1. Waiting(e)' = Waiting(e)
    BY <1>1 DEF Waiting
  <2>2. None(e)' = None(e) + 1 /\ Ready(e)' = Ready(e) - 1 /\ Ready(e) > 0 /\ Leaving(e)' = Leaving(e)
    <3>1. /\ None(e)' = None(e) - One("late", {"none"}) + One("none", {"none"})
          /\ Ready(e)' = Ready(e) - One("late", {"parked", "late"}) + One("none", {"parked", "late"})
          /\ Leaving(e)' = Leaving(e) - One("late", {"leave"}) + One("none", {"leave"})
          /\ Ready(e) >= One("late", {"parked", "late"})
      BY <1>1, <1>2, Moves
    <3> QED
      BY <3>1, Before DEF One
  <2>3. book'[e] = [book[e] EXCEPT !.idle = @ - 1, !.live = @ - 1] /\ book'[e].state = book[e].state
    BY <1>2 DEF Shapes, Slate
  <2>4. Law(Width[e[1]], [book[e] EXCEPT !.idle = @ - 1, !.live = @ - 1], Waiting(e), None(e) + 1, Ready(e) - 1,
            Leaving(e))
    BY <1>2, <2>2, Before, LawWork
  <2>5. BookOf(e)'
    BY <2>1, <2>2, <2>3, <2>4 DEF BookOf
  <2>6. LineOf(e)'
    BY <1>1, <2>3, LineSame
  <2>7. \A f \in Executors \ {e} : book'[f] = book[f] /\ queue'[f] = queue[f]
    BY <1>1, <1>2 DEF Shapes
  <2> QED
    BY <1>2, <2>5, <2>6, <2>7, WorkerBooks
<1>3. CASE Goes(e, k, "parked", Marker) /\ UNCHANGED book
  BY <1>1, <1>3, StillBooks
<1> QED
  BY <1>2, <1>3 DEF Retire, Goes

\* The end of an executor.
LEMMA StateBooks ==
  ASSUME Shapes, Books, NEW e \in Executors, NEW s, UNCHANGED worker,
         \/ book[e].state = "open" /\ s = "shut" /\ UNCHANGED queue
         \/ book[e].state = "shut" /\ s = "closed" /\ queue' = [queue EXCEPT ![e] = Append(@, Marker)],
         book' = [book EXCEPT ![e].state = s]
  PROVE  Books'
<1>1. Waiting(e)' = Waiting(e)
  BY MarkerQueued DEF Waiting
<1>2. None(e)' = None(e) /\ Ready(e)' = Ready(e) /\ Leaving(e)' = Leaving(e)
  BY CountsSame
<1>3. book'[e] = [book[e] EXCEPT !.state = s] /\ book'[e].state = s
  BY DEF Shapes, Slate
<1>4. Law(Width[e[1]], [book[e] EXCEPT !.state = s], Waiting(e), None(e), Ready(e), Leaving(e))
  BY Before, LawWork
<1>5. BookOf(e)'
  BY <1>1, <1>2, <1>3, <1>4 DEF BookOf
<1>6. LineOf(e)'
  <2>1. CASE s = "shut"
    BY <1>3, <2>1 DEF Books, LineOf
  <2>2. CASE s = "closed"
    <3>1. queue'[e] = Append(queue[e], Marker)
      BY <2>2 DEF Shapes
    <3> QED
      BY <1>3, <2>2, <3>1, LineAppend
  <2> QED
    BY <2>1, <2>2
<1>7. \A f \in Executors \ {e} : book'[f] = book[f] /\ queue'[f] = queue[f] /\ worker'[f] = worker[f]
  BY DEF Shapes
<1> QED
  BY <1>5, <1>6, <1>7, BooksFrame

\* A step is one of these.
LEMMA StepCases ==
  ASSUME [Next]_vars
  PROVE  \/ UNCHANGED vars
         \/ \E c \in Callers : Look(c) \/ Put(c) \/ Inline(c) \/ InlineEnds(c) \/ Result(c)
         \/ \E e \in Executors : \E k \in Slots(e) :
              \/ TakeTask(e, k) \/ TakeMarker(e, k) \/ Leave(e, k) \/ WorkerEnds(e, k)
              \/ After(e, k) \/ Retire(e, k) \/ TimesOut(e, k)
         \/ \E p \in Pools : Drop(p)
         \/ \E e \in Executors : Close(e)
  BY Zenon DEF Next, CallerStep, Works

\* Every step keeps the books.
LEMMA BooksStep == ASSUME IInv, [Next]_vars PROVE Books'
<1>1. Shapes /\ Books /\ Turns
  BY DEF IInv
<1>2. ASSUME UNCHANGED <<book, queue, worker>> PROVE Books'
  BY <1>1, <1>2, BookSame DEF Books
<1>3. ASSUME NEW c \in Callers, Look(c) \/ Inline(c) \/ InlineEnds(c) \/ Result(c) PROVE Books'
  BY <1>2, <1>3 DEF Look, Inline, InlineEnds, Result
<1>4. ASSUME NEW e \in Executors, NEW k \in Slots(e), WorkerEnds(e, k) PROVE Books'
  BY <1>1, <1>4, StillBooks DEF WorkerEnds, Goes
<1>5. ASSUME NEW e \in Executors, NEW k \in Slots(e), TimesOut(e, k) PROVE Books'
  BY <1>1, <1>5, StillBooks DEF TimesOut, Goes
<1>6. ASSUME NEW p \in Pools, Drop(p) PROVE Books'
  <2>1. PICK e \in Executors : e = <<p, cur[p]>>
    BY <1>1, <1>6 DEF Turns, Drop, Executors
  <2>2. e \in Executors /\ book[e].state = "open"
    BY <1>1, <1>6, <2>1 DEF Turns, Drop
  <2>3. book' = [book EXCEPT ![e].state = "shut"] /\ UNCHANGED <<queue, worker>>
    BY <1>6, <2>1 DEF Drop
  <2> QED
    BY <1>1, <2>2, <2>3, StateBooks
<1>7. ASSUME NEW e \in Executors, Close(e) PROVE Books'
  BY <1>1, <1>7, StateBooks DEF Close
<1>8. CASE UNCHANGED vars
  BY <1>2, <1>8 DEF vars
<1>9. ASSUME NEW e \in Executors, NEW k \in Slots(e),
             TakeTask(e, k) \/ TakeMarker(e, k) \/ Leave(e, k) \/ After(e, k) \/ Retire(e, k)
      PROVE  Books'
  BY <1>1, <1>9, TakeTaskBooks, TakeMarkerBooks, LeaveBooks, AfterBooks, RetireBooks
<1> QED
  BY <1>3, <1>4, <1>5, <1>6, <1>7, <1>8, <1>9, PutBooks, StepCases

-----------------------------------------------------------------------------
(* Shapes and turns. *)

\* A worker that moves leaves the shapes as they are.
LEMMA CrewShape ==
  ASSUME Shapes, NEW e \in Executors, NEW k \in Slots(e), NEW t \in Tasks \cup {Marker},
         NEW to \in {"none", "parked", "late", "run", "after", "leave"}, Goes(e, k, to, t)
  PROVE  DOMAIN worker' = Executors /\ \A f \in Executors : worker'[f] \in Crew(f)
<1>1. Thread(to, t) \in [pc : {"none", "parked", "late", "run", "after", "leave"}, job : Tasks \cup {Marker}]
  BY DEF Thread
<1>2. worker[e] \in Crew(e)
  BY DEF Shapes
<1>3. [worker[e] EXCEPT ![k] = Thread(to, t)] \in Crew(e)
  BY <1>1, <1>2 DEF Crew
<1> QED
  BY <1>3 DEF Shapes, Goes

LEMMA QueueShape ==
  ASSUME Shapes, NEW e \in Executors, NEW x \in Tasks \cup {Marker},
         \/ queue' = [queue EXCEPT ![e] = Append(@, x)]
         \/ queue[e] # <<>> /\ queue' = [queue EXCEPT ![e] = Tail(@)]
  PROVE  DOMAIN queue' = Executors /\ \A f \in Executors : queue'[f] \in Lines
<1>1. queue[e] \in Lines
  BY DEF Shapes
<1>2. Append(queue[e], x) \in Lines /\ (queue[e] # <<>> => Tail(queue[e]) \in Lines)
  BY <1>1 DEF Lines
<1> QED
  BY <1>2 DEF Shapes

LEMMA BookShape ==
  ASSUME Shapes, NEW e \in Executors, NEW b \in Slate, book' = [book EXCEPT ![e] = b]
  PROVE  DOMAIN book' = Executors /\ \A f \in Executors : book'[f] \in Slate
  BY DEF Shapes

LEMMA HeadIsTask ==
  ASSUME Shapes, NEW e \in Executors, queue[e] # <<>>
  PROVE  /\ Head(queue[e]) \in Tasks \cup {Marker} /\ 1 \in DOMAIN queue[e] /\ queue[e][1] = Head(queue[e])
         /\ DOMAIN Tail(queue[e]) = 1 .. Len(queue[e]) - 1 /\ DOMAIN queue[e] = 1 .. Len(queue[e])
         /\ Len(queue[e]) \in Nat
         /\ \A i \in DOMAIN Tail(queue[e]) : Tail(queue[e])[i] = queue[e][i + 1]
<1>1. queue[e] \in Seq(Tasks \cup {Marker})
  BY DEF Shapes, Lines
<1> QED
  BY <1>1

\* Every step keeps the shapes.
LEMMA ShapesStep == ASSUME IInv, [Next]_vars PROVE Shapes'
<1>1. Shapes /\ Books /\ Turns /\ Calling
  BY DEF IInv
<1>u. ASSUME UNCHANGED <<book, queue, worker>> PROVE Shapes'
  BY <1>1, <1>u DEF Shapes
<1>2. ASSUME NEW c \in Callers, Look(c) \/ Inline(c) \/ InlineEnds(c) \/ Result(c) PROVE Shapes'
  BY <1>u, <1>2 DEF Look, Inline, InlineEnds, Result
<1>3. ASSUME NEW c \in Callers, Put(c) PROVE Shapes'
  <2>0. PICK e \in Executors : e = call[c].ex
    BY <1>1, <1>3 DEF Calling, CallOf, Put
  <2>1. e \in Executors /\ Item(c) \in Tasks /\ queue' = [queue EXCEPT ![e] = Append(@, Item(c))]
    BY <1>1, <1>3, <2>0, ItemIsTask DEF Put, Enqueue
  <2>2. DOMAIN queue' = Executors /\ \A f \in Executors : queue'[f] \in Lines
    <3>1. PICK x \in Tasks : x = Item(c)
      BY <2>1
    <3> QED
      BY <1>1, <2>1, <3>1, QueueShape
  <2>3. book[e] \in Slate
    BY <1>1, <2>1 DEF Shapes
  <2>4. Width[e[1]] \in Nat
    BY <2>1, SlotsFinite
  <2>5. CASE book[e].idle > 0 /\ book' = [book EXCEPT ![e].idle = @ - 1] /\ UNCHANGED worker
    <3>1. [book[e] EXCEPT !.idle = @ - 1] \in Slate
      BY <2>3, <2>5 DEF Slate
    <3> QED
      BY <1>1, <2>1, <2>2, <2>5, <3>1 DEF Shapes
  <2>6. ASSUME book' = [book EXCEPT ![e].live = @ + 1], NEW k \in Slots(e), Goes(e, k, "parked", Marker)
        PROVE  Shapes'
    <3>1. [book[e] EXCEPT !.live = @ + 1] \in Slate
      BY <2>3, <2>6 DEF Slate
    <3>2. DOMAIN worker' = Executors /\ \A f \in Executors : worker'[f] \in Crew(f)
      BY <1>1, <2>1, <2>6, CrewShape
    <3> QED
      BY <1>1, <2>1, <2>2, <2>6, <3>1, <3>2 DEF Shapes
  <2>7. CASE book[e].idle = 0 /\ book' = [book EXCEPT ![e].owed = @ + 1] /\ UNCHANGED worker
    <3>1. [book[e] EXCEPT !.owed = @ + 1] \in Slate
      BY <2>3, <2>7 DEF Slate
    <3> QED
      BY <1>1, <2>1, <2>2, <2>7, <3>1 DEF Shapes
  <2>8. ASSUME book[e].state # "closed", book[e].idle = 0, book[e].live < Width[e[1]],
               book' = [book EXCEPT ![e].live = @ + 1],
               worker' = [worker EXCEPT ![e][CHOOSE k \in Slots(e) : worker[e][k].pc = "none"]
                                           = Thread("parked", Marker)]
        PROVE  Shapes'
    <3>1. None(e) > 0
      BY <1>1, <2>1, <2>8, Before, LawPut
    <3>2. \E k \in Slots(e) : worker[e][k].pc = "none"
      BY <2>1, <3>1, InNat DEF None
    <3>3. PICK k \in Slots(e) : k = (CHOOSE l \in Slots(e) : worker[e][l].pc = "none")
      BY <3>2
    <3>4. Goes(e, k, "parked", Marker)
      BY <2>8, <3>3 DEF Goes
    <3> QED
      BY <2>6, <2>8, <3>3, <3>4
  <2> QED
    BY <1>3, <2>0, <2>5, <2>7, <2>8 DEF Put
<1>4. ASSUME NEW e \in Executors, NEW k \in Slots(e), TakeTask(e, k) PROVE Shapes'
  <2>1. queue[e] # <<>> /\ queue' = [queue EXCEPT ![e] = Tail(@)] /\ UNCHANGED book
    BY <1>4 DEF TakeTask
  <2>2. PICK to \in {"after", "run"}, t \in Tasks \cup {Marker} : Goes(e, k, to, t)
    BY <1>1, <1>4, <2>1, HeadIsTask DEF TakeTask, Goes
  <2>3. DOMAIN worker' = Executors /\ \A f \in Executors : worker'[f] \in Crew(f)
    BY <1>1, <2>2, CrewShape
  <2>4. DOMAIN queue' = Executors /\ \A f \in Executors : queue'[f] \in Lines
    BY <1>1, <2>1, QueueShape
  <2> QED
    BY <1>1, <2>1, <2>3, <2>4 DEF Shapes
<1>5. ASSUME NEW e \in Executors, NEW k \in Slots(e), TakeMarker(e, k) \/ Leave(e, k) PROVE Shapes'
  <2>1. PICK to \in {"leave", "none"} : Goes(e, k, to, Marker)
    BY <1>5 DEF TakeMarker, Leave, Goes
  <2>2. DOMAIN worker' = Executors /\ \A f \in Executors : worker'[f] \in Crew(f)
    BY <1>1, <2>1, CrewShape
  <2>3. DOMAIN queue' = Executors /\ \A f \in Executors : queue'[f] \in Lines
    BY <1>1, <1>5, QueueShape DEF TakeMarker, Leave
  <2>4. DOMAIN book' = Executors /\ \A f \in Executors : book'[f] \in Slate
    <3>1. CASE UNCHANGED book
      BY <1>1, <3>1 DEF Shapes
    <3>2. CASE Leave(e, k)
      <4>1. book' = [book EXCEPT ![e].live = @ - 1] /\ worker[e][k].pc = "leave"
        BY <3>2 DEF Leave
      <4>2. Leaving(e) > 0
        BY <4>1, InNat DEF Leaving
      <4>3. book[e].live = Width[e[1]] - None(e) /\ None(e) < Width[e[1]]
        BY <1>1, <4>1, SomeLive, Before DEF Law
      <4>4. [book[e] EXCEPT !.live = @ - 1] \in Slate
        BY <1>1, <4>3, Before DEF Slate
      <4> QED
        BY <1>1, <4>1, <4>4 DEF Shapes
    <3> QED
      BY <1>5, <3>1, <3>2 DEF TakeMarker
  <2> QED
    BY <2>2, <2>3, <2>4 DEF Shapes
<1>6. ASSUME NEW e \in Executors, NEW k \in Slots(e), WorkerEnds(e, k) \/ TimesOut(e, k) PROVE Shapes'
  <2>1. PICK to \in {"after", "late"} : Goes(e, k, to, Marker)
    BY <1>6 DEF WorkerEnds, TimesOut, Goes
  <2>2. DOMAIN worker' = Executors /\ \A f \in Executors : worker'[f] \in Crew(f)
    BY <1>1, <2>1, CrewShape
  <2> QED
    BY <1>1, <1>6, <2>2 DEF Shapes, WorkerEnds, TimesOut
<1>7. ASSUME NEW e \in Executors, NEW k \in Slots(e), After(e, k) PROVE Shapes'
  <2>1. Goes(e, k, "parked", Marker) /\ UNCHANGED queue
    BY <1>7 DEF After, Goes
  <2>2. DOMAIN worker' = Executors /\ \A f \in Executors : worker'[f] \in Crew(f)
    BY <1>1, <2>1, CrewShape
  <2>3. book[e] \in Slate
    BY <1>1 DEF Shapes
  <2>4. DOMAIN book' = Executors /\ \A f \in Executors : book'[f] \in Slate
    <3>1. CASE book[e].owed > 0 /\ book' = [book EXCEPT ![e].owed = @ - 1]
      <4>1. [book[e] EXCEPT !.owed = @ - 1] \in Slate
        BY <2>3, <3>1 DEF Slate
      <4> QED
        BY <1>1, <3>1, <4>1 DEF Shapes
    <3>2. CASE book' = [book EXCEPT ![e].idle = @ + 1]
      <4>1. [book[e] EXCEPT !.idle = @ + 1] \in Slate
        BY <2>3 DEF Slate
      <4> QED
        BY <1>1, <3>2, <4>1 DEF Shapes
    <3> QED
      BY <1>7, <3>1, <3>2 DEF After
  <2> QED
    BY <1>1, <2>1, <2>2, <2>4 DEF Shapes
<1>8. ASSUME NEW e \in Executors, NEW k \in Slots(e), Retire(e, k) PROVE Shapes'
  <2>1. PICK to \in {"none", "parked"} : Goes(e, k, to, Marker)
    BY <1>8 DEF Retire, Goes
  <2>2. DOMAIN worker' = Executors /\ \A f \in Executors : worker'[f] \in Crew(f)
    BY <1>1, <2>1, CrewShape
  <2>3. None(e) < Width[e[1]]
    BY <1>1, <1>8, SomeLive DEF Retire
  <2>4. book[e].live > 0
    BY <1>1, <2>3, Before DEF Law
  <2>5. book[e].idle > 0 => [book[e] EXCEPT !.idle = @ - 1, !.live = @ - 1] \in Slate
    <3>1. book[e] \in Slate
      BY <1>1 DEF Shapes
    <3>2. book[e].idle > 0 => book[e].idle - 1 \in Nat /\ book[e].live - 1 \in Nat
      BY <2>4, <3>1 DEF Slate
    <3> QED
      BY <3>1, <3>2 DEF Slate
  <2>6. DOMAIN book' = Executors /\ \A f \in Executors : book'[f] \in Slate
    <3>1. CASE UNCHANGED book
      BY <1>1, <3>1 DEF Shapes
    <3>2. CASE book[e].idle > 0 /\ book' = [book EXCEPT ![e].idle = @ - 1, ![e].live = @ - 1]
      BY <1>1, <2>5, <3>2 DEF Shapes
    <3> QED
      BY <1>8, <3>1, <3>2 DEF Retire
  <2> QED
    BY <1>1, <1>8, <2>2, <2>6 DEF Shapes, Retire
<1>9. ASSUME NEW p \in Pools, Drop(p) PROVE Shapes'
  <2>1. PICK e \in Executors : e = <<p, cur[p]>>
    BY <1>1, <1>9 DEF Turns, Drop, Executors
  <2>2. e \in Executors /\ book' = [book EXCEPT ![e].state = "shut"] /\ UNCHANGED <<queue, worker>>
    BY <1>9, <2>1 DEF Drop
  <2>3. [book[e] EXCEPT !.state = "shut"] \in Slate
    BY <1>1, <2>2 DEF Shapes, Slate
  <2> QED
    BY <1>1, <2>2, <2>3 DEF Shapes
<1>10. ASSUME NEW e \in Executors, Close(e) PROVE Shapes'
  <2>1. DOMAIN queue' = Executors /\ \A f \in Executors : queue'[f] \in Lines
    BY <1>1, <1>10, QueueShape DEF Close
  <2>2. [book[e] EXCEPT !.state = "closed"] \in Slate
    BY <1>1 DEF Shapes, Slate
  <2> QED
    BY <1>1, <1>10, <2>1, <2>2 DEF Shapes, Close
<1> QED
  BY <1>u, <1>2, <1>3, <1>4, <1>5, <1>6, <1>7, <1>8, <1>9, <1>10, StepCases DEF vars

\* Every step keeps the turns.
LEMMA TurnsStep == ASSUME IInv, [Next]_vars PROVE Turns'
<1>1. Shapes /\ Turns /\ Lives \in Nat
  BY BoundsAssumption DEF IInv
\* Only Drop and Close write a state, and never that of an open executor other than cur's.
<1>2. ASSUME UNCHANGED <<cur, made>>, \A e \in Executors : book[e].state = "open" => book'[e].state = "open"
      PROVE  Turns'
  <2>1. \A p \in Pools : \A n \in 1 .. Lives : <<p, n>> \in Executors
    BY DEF Executors
  <2>2. ASSUME NEW p \in Pools, cur[p] # 0 PROVE cur[p] \in 1 .. Lives
    <3>1. cur[p] \in Nat /\ made[p] \in 0 .. Lives /\ cur[p] = made[p]
      BY <1>1, <2>2 DEF Turns
    <3> QED
      BY <1>1, <2>2, <3>1
  <2> QED
    BY <1>1, <1>2, <2>1, <2>2 DEF Turns
<1>3. ASSUME NEW c \in Callers, Look(c) PROVE Turns'
  <2>1. CASE UNCHANGED <<cur, made>>
    BY <1>2, <1>3, <2>1 DEF Look
  <2>2. CASE /\ cur[PoolOf(c)] = 0 /\ cur' = [cur EXCEPT ![PoolOf(c)] = made[PoolOf(c)] + 1]
             /\ made' = [made EXCEPT ![PoolOf(c)] = @ + 1]
    <3>1. PoolOf(c) \in Pools
      BY DEF PoolOf, Pools
    <3>2. book' = book
      BY <1>3 DEF Look
    <3>3. made[PoolOf(c)] \in 0 .. Lives /\ made[PoolOf(c)] < Lives
      BY <1>1, <2>2, <3>1 DEF Turns
    <3>4. cur' \in [Pools -> Nat] /\ made' \in [Pools -> 0 .. Lives]
      <4>1. made[PoolOf(c)] + 1 \in Nat /\ made[PoolOf(c)] + 1 \in 0 .. Lives
        BY <1>1, <3>3
      <4>2. cur \in [Pools -> Nat] /\ made \in [Pools -> 0 .. Lives]
        BY <1>1 DEF Turns
      <4> QED
        BY <2>2, <3>1, <4>1, <4>2
    <3>5. ASSUME NEW q \in Pools
          PROVE  /\ cur'[q] = 0 => made'[q] < Lives
                 /\ cur'[q] # 0 => cur'[q] = made'[q] /\ book[<<q, cur'[q]>>].state = "open"
                 /\ \A n \in made'[q] + 1 .. Lives : book[<<q, n>>].state = "open"
      <4>1. /\ made[q] \in 0 .. Lives
            /\ cur[q] = 0 => made[q] < Lives
            /\ cur[q] # 0 => cur[q] = made[q] /\ book[<<q, cur[q]>>].state = "open"
            /\ \A n \in made[q] + 1 .. Lives : book[<<q, n>>].state = "open"
        BY <1>1 DEF Turns
      <4>2. CASE q = PoolOf(c)
        <5>1. cur'[q] = made[q] + 1 /\ made'[q] = made[q] + 1
          BY <1>1, <2>2, <4>2 DEF Turns
        <5> QED
          BY <1>1, <3>3, <4>1, <4>2, <5>1
      <4>3. CASE q # PoolOf(c)
        <5>1. cur'[q] = cur[q] /\ made'[q] = made[q]
          BY <1>1, <2>2, <4>3 DEF Turns
        <5> QED
          BY <4>1, <5>1
      <4> QED
        BY <4>2, <4>3
    <3> QED
      BY <3>2, <3>4, <3>5 DEF Turns
  <2> QED
    BY <1>3, <2>1, <2>2 DEF Look
<1>4. ASSUME NEW p \in Pools, Drop(p) PROVE Turns'
  <2>1. cur[p] \in 1 .. Lives /\ <<p, cur[p]>> \in Executors /\ cur[p] = made[p]
    BY <1>1, <1>4 DEF Turns, Drop, Executors
  <2>2. \A e \in Executors : e # <<p, cur[p]>> => book'[e] = book[e]
    BY <1>1, <1>4 DEF Drop, Shapes
  <2>3. /\ made' = made /\ made[p] < Lives /\ cur' = [cur EXCEPT ![p] = 0]
    BY <1>4 DEF Drop
  <2>4. ASSUME NEW q \in Pools
        PROVE  /\ cur'[q] = 0 => made[q] < Lives
               /\ cur'[q] # 0 => cur'[q] = made[q] /\ book'[<<q, cur'[q]>>].state = "open"
               /\ \A n \in made[q] + 1 .. Lives : book'[<<q, n>>].state = "open"
    <3>1. /\ made[q] \in 0 .. Lives /\ cur[q] \in Nat
          /\ cur[q] = 0 => made[q] < Lives
          /\ cur[q] # 0 => cur[q] = made[q] /\ book[<<q, cur[q]>>].state = "open"
          /\ \A n \in made[q] + 1 .. Lives : book[<<q, n>>].state = "open"
      BY <1>1 DEF Turns
    <3>2. cur'[q] = IF q = p THEN 0 ELSE cur[q]
      BY <1>1, <2>3 DEF Turns
    <3>3. \A n \in made[q] + 1 .. Lives : <<q, n>> \in Executors /\ <<q, n>> # <<p, cur[p]>>
      BY <1>1, <2>1, <3>1 DEF Executors
    <3>4. q # p /\ cur[q] # 0 => <<q, cur[q]>> \in Executors /\ <<q, cur[q]>> # <<p, cur[p]>>
      BY <1>1, <3>1 DEF Executors
    <3> QED
      BY <2>2, <2>3, <3>1, <3>2, <3>3, <3>4
  <2>5. cur' \in [Pools -> Nat]
    BY <1>1, <2>3 DEF Turns
  <2> QED
    BY <1>1, <2>3, <2>4, <2>5 DEF Turns
<1>5. ASSUME NEW e \in Executors, Close(e) PROVE Turns'
  <2>1. \A f \in Executors : book[f].state = "open" => book'[f].state = "open"
    BY <1>1, <1>5 DEF Close, Shapes
  <2> QED
    BY <1>2, <1>5, <2>1 DEF Close
<1>6. ASSUME NEW c \in Callers, Put(c) PROVE Turns'
  <2>1. \A f \in Executors : book'[f].state = book[f].state
    <3> DEFINE e == call[c].ex
    <3>1. ASSUME NEW f \in Executors PROVE book'[f].state = book[f].state
      <4>1. book[f] \in Slate
        BY <1>1 DEF Shapes
      <4>2. CASE book' = [book EXCEPT ![e].idle = @ - 1]
        BY <1>1, <4>1, <4>2 DEF Shapes, Slate
      <4>3. CASE book' = [book EXCEPT ![e].live = @ + 1]
        BY <1>1, <4>1, <4>3 DEF Shapes, Slate
      <4>4. CASE book' = [book EXCEPT ![e].owed = @ + 1]
        BY <1>1, <4>1, <4>4 DEF Shapes, Slate
      <4> QED
        BY <1>6, <4>2, <4>3, <4>4 DEF Put
    <3> QED
      BY <3>1
  <2> QED
    BY <1>2, <1>6, <2>1 DEF Put, Enqueue
<1>7. ASSUME NEW e \in Executors, NEW k \in Slots(e), After(e, k) PROVE Turns'
  <2>1. ASSUME NEW f \in Executors PROVE book'[f].state = book[f].state
    <3>1. book[f] \in Slate
      BY <1>1 DEF Shapes
    <3>2. book'[f] = book[f] \/ book'[f] = [book[f] EXCEPT !.owed = @ - 1]
            \/ book'[f] = [book[f] EXCEPT !.idle = @ + 1]
      <4>1. CASE book' = [book EXCEPT ![e].owed = @ - 1]
        BY <1>1, <4>1 DEF Shapes
      <4>2. CASE book' = [book EXCEPT ![e].idle = @ + 1]
        BY <1>1, <4>2 DEF Shapes
      <4> QED
        BY <1>7, <4>1, <4>2 DEF After
    <3> QED
      BY <3>1, <3>2 DEF Slate
  <2> QED
    BY <1>2, <1>7, <2>1 DEF After
<1>8. ASSUME NEW e \in Executors, NEW k \in Slots(e), Leave(e, k) \/ Retire(e, k) PROVE Turns'
  <2>1. ASSUME NEW f \in Executors PROVE book'[f].state = book[f].state
    <3>1. book[f] \in Slate
      BY <1>1 DEF Shapes
    <3>2. book'[f] = book[f] \/ book'[f] = [book[f] EXCEPT !.live = @ - 1]
            \/ book'[f] = [book[f] EXCEPT !.idle = @ - 1, !.live = @ - 1]
      <4>1. CASE Leave(e, k)
        BY <1>1, <4>1 DEF Leave, Shapes
      <4>2. CASE book' = [book EXCEPT ![e].idle = @ - 1, ![e].live = @ - 1]
        BY <1>1, <4>2 DEF Shapes
      <4>3. CASE UNCHANGED book
        BY <4>3
      <4> QED
        BY <1>8, <4>1, <4>2, <4>3 DEF Retire
    <3> QED
      BY <3>1, <3>2 DEF Slate
  <2> QED
    BY <1>2, <1>8, <2>1 DEF Leave, Retire
<1>9. ASSUME UNCHANGED <<cur, made, book>> PROVE Turns'
  BY <1>2, <1>9
<1>10. ASSUME NEW c \in Callers, Inline(c) \/ InlineEnds(c) \/ Result(c) PROVE Turns'
  BY <1>9, <1>10 DEF Inline, InlineEnds, Result
<1>11. ASSUME NEW e \in Executors, NEW k \in Slots(e),
              TakeTask(e, k) \/ TakeMarker(e, k) \/ WorkerEnds(e, k) \/ TimesOut(e, k)
       PROVE  Turns'
  BY <1>9, <1>11 DEF TakeTask, TakeMarker, WorkerEnds, TimesOut
<1> QED
  BY <1>3, <1>4, <1>5, <1>6, <1>7, <1>8, <1>9, <1>10, <1>11, StepCases DEF vars

-----------------------------------------------------------------------------
(* Callers and futures. *)

\* An item is one place in one batch.
LEMMA Places ==
  ASSUME NEW c \in Callers, NEW d \in Callers, NEW i \in DOMAIN Batch[c], NEW j \in DOMAIN Batch[d],
         Batch[c][i] = Batch[d][j]
  PROVE  c = d /\ i = j
  BY BatchesAssumption

\* A caller that does not move minds only its own items.
LEMMA CallKeeps ==
  ASSUME Calling, NEW d \in Callers, call'[d] = call[d],
         \A i \in DOMAIN Batch[d] : fut[Batch[d][i]] \in {"none", "result"} => fut'[Batch[d][i]] = fut[Batch[d][i]],
         call[d].pc = "inline" => fut'[Item(d)] = "running"
  PROVE  CallOf(d)'
<1>1. /\ call[d].n \in DOMAIN Batch[d] /\ DOMAIN Batch[d] = 1 .. Len(Batch[d]) /\ Len(Batch[d]) \in Nat
      /\ call[d].n \in Nat \ {0} /\ CallOf(d)
  BY ItemIsTask DEF Calling, Place
<1>2. Item(d)' = Item(d)
  BY DEF Item
<1>3. call[d].pc \in {"look", "put"} => fut'[Item(d)] = "none"
  BY <1>1 DEF CallOf, Item
<1>4. call[d].pc \in {"look", "put", "inline"} => \A i \in call[d].n + 1 .. Len(Batch[d]) : fut'[Batch[d][i]] = "none"
  BY <1>1 DEF CallOf
<1>5. call[d].pc = "wait" => \A i \in 1 .. call[d].n - 1 : fut'[Batch[d][i]] = "result"
  BY <1>1 DEF CallOf
<1>6. call[d].pc = "back" => \A i \in 1 .. Len(Batch[d]) : fut'[Batch[d][i]] = "result"
  BY <1>1 DEF CallOf
<1> QED
  BY <1>1, <1>2, <1>3, <1>4, <1>5, <1>6 DEF CallOf

\* A step of the caller c about its item; the others have items of their own.
LEMMA OtherCalls ==
  ASSUME Calling, NEW c \in Callers, \A d \in Callers \ {c} : call'[d] = call[d],
         \A t \in Tasks \ {Item(c)} : fut'[t] = fut[t]
  PROVE  \A d \in Callers \ {c} : CallOf(d)'
<1> SUFFICES ASSUME NEW d \in Callers \ {c} PROVE CallOf(d)'
  OBVIOUS
<1>1. \A i \in DOMAIN Batch[d] : Batch[d][i] \in Tasks /\ Batch[d][i] # Item(c)
  BY ItemIsTask, Places DEF Item
<1>2. call[d].pc = "inline" => fut'[Item(d)] = "running"
  <2>1. Item(d) \in Tasks \ {Item(c)}
    BY <1>1, ItemIsTask DEF Item
  <2> QED
    BY <2>1 DEF Calling, CallOf
<1> QED
  BY <1>1, <1>2, CallKeeps

LEMMA OnwardCalls ==
  ASSUME Calling, fut \in [Tasks -> {"none", "pending", "running"} \cup Over], NEW c \in Callers,
         call[c].pc \in {"put", "inline"}, call' = Onward(c),
         \A t \in Tasks \ {Item(c)} : fut'[t] = fut[t]
  PROVE  Calling'
<1>1. /\ Item(c) \in Tasks /\ call[c].n \in DOMAIN Batch[c] /\ DOMAIN Batch[c] = 1 .. Len(Batch[c])
      /\ Len(Batch[c]) \in Nat /\ (\A i \in DOMAIN Batch[c] : Batch[c][i] \in Tasks)
      /\ call[c].n \in Nat \ {0} /\ CallOf(c) /\ Len(Batch[c]) > 1
  BY ItemIsTask, BatchesAssumption DEF Calling, Place
<1>2. /\ call \in [Callers -> Place]
      /\ call'[c] = IF call[c].n < Len(Batch[c])
                    THEN [pc |-> "look", n |-> call[c].n + 1, ex |-> NoExec]
                    ELSE [pc |-> "wait", n |-> 1, ex |-> NoExec]
      /\ \A d \in Callers \ {c} : call'[d] = call[d]
  BY DEF Calling, Onward
<1>3. call' \in [Callers -> Place]
  <2>1. /\ [pc |-> "look", n |-> call[c].n + 1, ex |-> NoExec] \in Place
        /\ [pc |-> "wait", n |-> 1, ex |-> NoExec] \in Place
    BY <1>1 DEF Place
  <2> QED
    BY <1>2, <2>1 DEF Onward
<1>4. \A t \in Tasks \ {Item(c)} : fut'[t] = fut[t]
  OBVIOUS
<1>5. \A d \in Callers \ {c} : CallOf(d)'
  BY <1>2, OtherCalls
<1>6. CallOf(c)'
  <2>1. CASE call[c].n < Len(Batch[c])
    <3>1. call'[c].pc = "look" /\ call'[c].n = call[c].n + 1
      BY <1>2, <2>1
    <3>2. \A i \in call[c].n + 1 .. Len(Batch[c]) : fut'[Batch[c][i]] = "none"
      <4> SUFFICES ASSUME NEW i \in call[c].n + 1 .. Len(Batch[c]) PROVE fut'[Batch[c][i]] = "none"
        OBVIOUS
      <4>1. i \in DOMAIN Batch[c] /\ i # call[c].n
        BY <1>1
      <4>2. Batch[c][i] \in Tasks \ {Item(c)}
        BY <1>1, <4>1, Places DEF Item
      <4>3. fut[Batch[c][i]] = "none"
        BY <1>1 DEF CallOf
      <4> QED
        BY <1>4, <4>2, <4>3
    <3>3. Item(c)' = Batch[c][call[c].n + 1] /\ call[c].n + 1 \in call[c].n + 1 .. Len(Batch[c])
      BY <1>1, <2>1, <3>1 DEF Item
    <3>4. fut'[Item(c)'] = "none"
      BY <3>2, <3>3
    <3>5. \A i \in call'[c].n + 1 .. Len(Batch[c]) : fut'[Batch[c][i]] = "none"
      BY <1>1, <3>1, <3>2
    <3> QED
      BY <1>1, <2>1, <3>1, <3>4, <3>5 DEF CallOf
  <2>2. CASE ~ (call[c].n < Len(Batch[c]))
    <3>1. call'[c].pc = "wait" /\ call'[c].n = 1
      BY <1>2, <2>2
    <3> QED
      BY <1>1, <3>1 DEF CallOf
  <2> QED
    BY <2>1, <2>2
<1> QED
  BY <1>3, <1>5, <1>6 DEF Calling

\* The callers stay and a future goes on that is not a free one.
LEMMA CallsStay ==
  ASSUME Calling, UNCHANGED call,
         \A t \in Tasks : fut[t] \in {"none", "result"} => fut'[t] = fut[t],
         \A d \in Callers : call[d].pc = "inline" => fut'[Item(d)] = "running"
  PROVE  Calling'
<1> SUFFICES ASSUME NEW d \in Callers PROVE CallOf(d)'
  BY DEF Calling
<1>1. \A i \in DOMAIN Batch[d] : Batch[d][i] \in Tasks
  BY ItemIsTask
<1> QED
  BY <1>1, CallKeeps

\* The head of a queue is pending or cancelled.
LEMMA HeadOpen ==
  ASSUME Shapes, Queued, NEW e \in Executors, queue[e] # <<>>, Head(queue[e]) # Marker
  PROVE  Head(queue[e]) \in Tasks /\ fut[Head(queue[e])] \in {"pending", "cancelled"}
<1>1. Head(queue[e]) \in Tasks /\ 1 \in DOMAIN queue[e] /\ queue[e][1] = Head(queue[e])
  BY HeadIsTask
<1> QED
  BY <1>1 DEF Queued

\* Every step keeps what the callers have before and behind them.
LEMMA CallingStep == ASSUME IInv, [Next]_vars PROVE Calling'
<1>1. /\ Shapes /\ Turns /\ Calling /\ Queued /\ Running
      /\ fut \in [Tasks -> {"none", "pending", "running"} \cup Over]
  BY DEF IInv, Futures
<1>u. ASSUME UNCHANGED <<call, fut>> PROVE Calling'
  <2>1. \A d \in Callers : call[d].pc = "inline" => fut'[Item(d)] = "running"
    BY <1>1, <1>u DEF Calling, CallOf
  <2> QED
    BY <1>1, <1>u, <2>1, CallsStay
<1>2. ASSUME NEW c \in Callers, Look(c) PROVE Calling'
  <2>1. PICK e \in Executors : e = <<PoolOf(c), cur'[PoolOf(c)]>>
    <3>1. PoolOf(c) \in Pools
      BY DEF PoolOf, Pools
    <3>2. Turns'
      BY TurnsStep
    <3>3. cur'[PoolOf(c)] # 0
      <4>1. made[PoolOf(c)] \in Nat
        BY <1>1, <3>1, BoundsAssumption DEF Turns
      <4> QED
        BY <1>1, <1>2, <3>1, <4>1 DEF Look, Turns
    <3>4. cur'[PoolOf(c)] \in 1 .. Lives
      <4>1. cur'[PoolOf(c)] = made'[PoolOf(c)] /\ cur'[PoolOf(c)] \in Nat /\ made'[PoolOf(c)] \in 0 .. Lives
        BY <3>1, <3>2, <3>3 DEF Turns
      <4> QED
        BY <3>3, <4>1, BoundsAssumption
    <3> QED
      BY <3>1, <3>4 DEF Executors
  <2>2. /\ call[c].pc = "look" /\ call' = [call EXCEPT ![c].pc = "put", ![c].ex = e] /\ UNCHANGED fut
    BY <1>2, <2>1 DEF Look
  <2>3. call[c] \in Place /\ CallOf(c) /\ e \in Executors
    BY <1>1, <2>1 DEF Calling
  <2>4. /\ call'[c] = [call[c] EXCEPT !.pc = "put", !.ex = e]
        /\ \A d \in Callers \ {c} : call'[d] = call[d]
    BY <1>1, <2>2 DEF Calling
  <2>5. call'[c].pc = "put" /\ call'[c].n = call[c].n /\ call'[c].ex = e /\ call'[c] \in Place
    BY <2>3, <2>4 DEF Place
  <2>6. CallOf(c)'
    BY <2>2, <2>3, <2>5 DEF CallOf, Item
  <2>7. \A d \in Callers \ {c} : CallOf(d)'
    BY <1>1, <2>2, <2>4, OtherCalls
  <2>8. call' \in [Callers -> Place]
    BY <1>1, <2>2, <2>4, <2>5 DEF Calling
  <2> QED
    BY <2>6, <2>7, <2>8 DEF Calling
<1>3. ASSUME NEW c \in Callers, Put(c) PROVE Calling'
  <2>1. call[c].pc = "put" /\ call' = Onward(c) /\ fut' = [fut EXCEPT ![Item(c)] = "pending"]
    BY <1>3 DEF Put, Enqueue
  <2>2. \A t \in Tasks \ {Item(c)} : fut'[t] = fut[t]
    BY <1>1, <2>1
  <2> QED
    BY <1>1, <2>1, <2>2, OnwardCalls
<1>4. ASSUME NEW c \in Callers, Inline(c) PROVE Calling'
  <2>1. /\ call[c].pc = "put" /\ call' = [call EXCEPT ![c].pc = "inline"]
        /\ fut' = [fut EXCEPT ![Item(c)] = "running"]
    BY <1>4 DEF Inline, Start
  <2>2. /\ call[c] \in Place /\ CallOf(c) /\ Item(c) \in Tasks /\ call[c].n \in DOMAIN Batch[c]
        /\ DOMAIN Batch[c] = 1 .. Len(Batch[c]) /\ Len(Batch[c]) \in Nat
        /\ \A i \in DOMAIN Batch[c] : Batch[c][i] \in Tasks
    BY <1>1, ItemIsTask DEF Calling
  <2>3. /\ call'[c] = [call[c] EXCEPT !.pc = "inline"]
        /\ \A d \in Callers \ {c} : call'[d] = call[d]
    BY <1>1, <2>1 DEF Calling
  <2>4. call'[c].pc = "inline" /\ call'[c].n = call[c].n /\ call'[c] \in Place /\ call[c].n \in Nat
    BY <2>2, <2>3 DEF Place
  <2>5. fut'[Item(c)] = "running" /\ \A t \in Tasks \ {Item(c)} : fut'[t] = fut[t]
    BY <1>1, <2>1, <2>2
  <2>6. Item(c)' = Item(c)
    BY <2>4 DEF Item
  <2>7. \A i \in call[c].n + 1 .. Len(Batch[c]) : fut'[Batch[c][i]] = "none"
    <3> SUFFICES ASSUME NEW i \in call[c].n + 1 .. Len(Batch[c]) PROVE fut'[Batch[c][i]] = "none"
      OBVIOUS
    <3>1. i \in DOMAIN Batch[c] /\ i # call[c].n
      BY <2>2, <2>4
    <3>2. Batch[c][i] \in Tasks \ {Item(c)}
      BY <2>2, <3>1, Places DEF Item
    <3>3. fut[Batch[c][i]] = "none"
      BY <2>1, <2>2 DEF CallOf
    <3> QED
      BY <2>5, <3>2, <3>3
  <2>8. CallOf(c)'
    BY <2>2, <2>4, <2>5, <2>6, <2>7 DEF CallOf
  <2>9. \A d \in Callers \ {c} : CallOf(d)'
    BY <1>1, <2>3, <2>5, OtherCalls
  <2>10. call' \in [Callers -> Place]
    BY <1>1, <2>1, <2>3, <2>4 DEF Calling
  <2> QED
    BY <2>8, <2>9, <2>10 DEF Calling
<1>5. ASSUME NEW c \in Callers, InlineEnds(c) PROVE Calling'
  <2>1. call[c].pc = "inline" /\ call' = Onward(c)
    BY <1>5 DEF InlineEnds
  <2>2. \A t \in Tasks \ {Item(c)} : fut'[t] = fut[t]
    BY <1>1, <1>5 DEF InlineEnds, Ends
  <2> QED
    BY <1>1, <2>1, <2>2, OnwardCalls
<1>6. ASSUME NEW c \in Callers, Result(c) PROVE Calling'
  <2>1. call[c].pc = "wait"
    BY <1>6 DEF Result
  <2>2. /\ call[c] \in Place /\ CallOf(c) /\ Item(c) \in Tasks /\ call[c].n \in DOMAIN Batch[c]
        /\ DOMAIN Batch[c] = 1 .. Len(Batch[c]) /\ Len(Batch[c]) \in Nat
        /\ \A i \in DOMAIN Batch[c] : Batch[c][i] \in Tasks
    BY <1>1, ItemIsTask DEF Calling
  <2>3. call[c].n \in Nat \ {0} /\ call[c].n <= Len(Batch[c])
    BY <2>2 DEF Place
  <2>4. CASE fut[Item(c)] = "result" /\ UNCHANGED fut
             /\ call[c].n < Len(Batch[c]) /\ call' = [call EXCEPT ![c].n = @ + 1]
    <3>1. /\ call'[c] = [call[c] EXCEPT !.n = @ + 1]
          /\ \A d \in Callers \ {c} : call'[d] = call[d]
      BY <1>1, <2>4 DEF Calling
    <3>2. call'[c].pc = "wait" /\ call'[c].n = call[c].n + 1 /\ call'[c] \in Place
      BY <2>1, <2>2, <2>3, <3>1 DEF Place
    <3>3. \A i \in 1 .. call[c].n : fut[Batch[c][i]] = "result"
      <4>1. \A i \in 1 .. call[c].n - 1 : fut[Batch[c][i]] = "result"
        BY <2>1, <2>2 DEF CallOf
      <4>2. fut[Batch[c][call[c].n]] = "result"
        BY <2>4 DEF Item
      <4> QED
        BY <2>3, <4>1, <4>2
    <3>4. CallOf(c)'
      BY <2>2, <2>3, <2>4, <3>2, <3>3 DEF CallOf
    <3>5. \A d \in Callers \ {c} : CallOf(d)'
      BY <1>1, <2>4, <3>1, OtherCalls
    <3>6. call' \in [Callers -> Place]
      BY <1>1, <2>4, <3>1, <3>2 DEF Calling
    <3> QED
      BY <3>4, <3>5, <3>6 DEF Calling
  <2>5. CASE fut[Item(c)] = "result" /\ UNCHANGED fut
             /\ call[c].n = Len(Batch[c]) /\ call' = [call EXCEPT ![c].pc = "back"]
    <3>1. /\ call'[c] = [call[c] EXCEPT !.pc = "back"]
          /\ \A d \in Callers \ {c} : call'[d] = call[d]
      BY <1>1, <2>5 DEF Calling
    <3>2. call'[c].pc = "back" /\ call'[c].n = call[c].n /\ call'[c] \in Place
      BY <2>1, <2>2, <2>3, <3>1 DEF Place
    <3>3. \A i \in 1 .. Len(Batch[c]) : fut[Batch[c][i]] = "result"
      <4>1. \A i \in 1 .. call[c].n - 1 : fut[Batch[c][i]] = "result"
        BY <2>1, <2>2 DEF CallOf
      <4>2. fut[Batch[c][call[c].n]] = "result"
        BY <2>5 DEF Item
      <4> QED
        BY <2>3, <2>5, <4>1, <4>2
    <3>4. CallOf(c)'
      BY <2>2, <2>3, <2>5, <3>2, <3>3 DEF CallOf
    <3>5. \A d \in Callers \ {c} : CallOf(d)'
      BY <1>1, <2>5, <3>1, OtherCalls
    <3>6. call' \in [Callers -> Place]
      BY <1>1, <2>5, <3>1, <3>2 DEF Calling
    <3> QED
      BY <3>4, <3>5, <3>6 DEF Calling
  <2>6. CASE /\ call' = [call EXCEPT ![c].pc = "raised"]
             /\ fut' = [t \in Tasks |-> IF t \in Range(Batch[c]) /\ fut[t] = "pending" THEN "cancelled" ELSE fut[t]]
    <3>1. /\ call'[c] = [call[c] EXCEPT !.pc = "raised"]
          /\ \A d \in Callers \ {c} : call'[d] = call[d]
      BY <1>1, <2>6 DEF Calling
    <3>2. call'[c].pc = "raised" /\ call'[c].n = call[c].n /\ call'[c] \in Place
      BY <2>2, <3>1 DEF Place
    <3>3. CallOf(c)'
      BY <2>3, <3>2 DEF CallOf
    <3>4. \A t \in Tasks : fut[t] # "pending" => fut'[t] = fut[t]
      BY <2>6
    <3>5. ASSUME NEW d \in Callers \ {c} PROVE CallOf(d)'
      <4>1. \A i \in DOMAIN Batch[d] : Batch[d][i] \in Tasks
        BY <1>1, ItemIsTask
      <4>2. call[d].pc = "inline" => fut'[Item(d)] = "running"
        BY <1>1, <3>4, ItemIsTask DEF Calling, CallOf
      <4> QED
        BY <1>1, <3>1, <3>4, <4>1, <4>2, CallKeeps
    <3>6. call' \in [Callers -> Place]
      BY <1>1, <2>6, <3>1, <3>2 DEF Calling
    <3> QED
      BY <3>3, <3>5, <3>6 DEF Calling
  <2> QED
    BY <1>6, <2>4, <2>5, <2>6 DEF Result
<1>7. ASSUME NEW e \in Executors, NEW k \in Slots(e), TakeTask(e, k) PROVE Calling'
  <2>1. CASE UNCHANGED fut
    BY <1>u, <1>7, <2>1 DEF TakeTask
  <2>2. ASSUME NEW t, t = Head(queue[e]), fut[t] # "cancelled", Start(t), queue[e] # <<>>, t # Marker
        PROVE  Calling'
    <3>1. t \in Tasks /\ fut[t] = "pending"
      BY <1>1, <2>2, HeadOpen
    <3>2. \A s \in Tasks : fut[s] \in {"none", "result", "running"} => fut'[s] = fut[s]
      BY <1>1, <2>2, <3>1 DEF Start
    <3>3. \A d \in Callers : call[d].pc = "inline" => fut'[Item(d)] = "running"
      BY <1>1, <3>2, ItemIsTask DEF Calling, CallOf
    <3> QED
      BY <1>1, <1>7, <3>2, <3>3, CallsStay DEF TakeTask
  <2> QED
    BY <1>7, <2>1, <2>2 DEF TakeTask
<1>8. ASSUME NEW e \in Executors, NEW k \in Slots(e), WorkerEnds(e, k) PROVE Calling'
  <2>1. PICK t : t = worker[e][k].job
    OBVIOUS
  <2>2. PICK x : fut' = [fut EXCEPT ![t] = x]
    BY <1>8, <2>1 DEF WorkerEnds, Ends
  <2>3. t \in Tasks /\ fut[t] = "running" /\ UNCHANGED call
        /\ \A d \in Callers : call[d].pc = "inline" => Item(d) # t
    BY <1>1, <1>8, <2>1 DEF WorkerEnds, Running
  <2>4. \A s \in Tasks \ {t} : fut'[s] = fut[s]
    BY <1>1, <2>2, <2>3
  <2>5. \A d \in Callers : call[d].pc = "inline" => fut'[Item(d)] = "running"
    BY <1>1, <2>3, <2>4, ItemIsTask DEF Calling, CallOf
  <2> QED
    BY <1>1, <2>3, <2>4, <2>5, CallsStay
<1>9. ASSUME NEW e \in Executors, NEW k \in Slots(e),
             TakeMarker(e, k) \/ Leave(e, k) \/ After(e, k) \/ Retire(e, k) \/ TimesOut(e, k)
      PROVE  Calling'
  BY <1>u, <1>9 DEF TakeMarker, Leave, After, Retire, TimesOut
<1>10. ASSUME NEW p \in Pools, Drop(p) PROVE Calling'
  BY <1>u, <1>10 DEF Drop
<1>11. ASSUME NEW e \in Executors, Close(e) PROVE Calling'
  BY <1>u, <1>11 DEF Close
<1> QED
  BY <1>u, <1>2, <1>3, <1>4, <1>5, <1>6, <1>7, <1>8, <1>9, <1>10, <1>11, StepCases DEF vars

\* A future that begins counts one run; any other change of a future counts none.
LEMMA FutureKept ==
  ASSUME Futures, NEW t \in Tasks, NEW x \in {"none", "pending", "running"} \cup Over,
         fut' = [fut EXCEPT ![t] = x],
         \/ runs' = runs /\ (x \in Begun <=> fut[t] \in Begun)
         \/ runs' = [runs EXCEPT ![t] = @ + 1] /\ x \in Begun /\ fut[t] \notin Begun
  PROVE  Futures'
<1>1. fut' \in [Tasks -> {"none", "pending", "running"} \cup Over]
  BY DEF Futures
<1>2. runs' = [s \in Tasks |-> IF fut'[s] \in Begun THEN 1 ELSE 0]
  <2>1. \A s \in Tasks : fut'[s] = IF s = t THEN x ELSE fut[s]
    BY DEF Futures
  <2>2. runs = [s \in Tasks |-> IF fut[s] \in Begun THEN 1 ELSE 0]
    BY DEF Futures
  <2>3. CASE runs' = runs /\ (x \in Begun <=> fut[t] \in Begun)
    BY <2>1, <2>2, <2>3
  <2>4. CASE runs' = [runs EXCEPT ![t] = @ + 1] /\ x \in Begun /\ fut[t] \notin Begun
    BY <2>1, <2>2, <2>4
  <2> QED
    BY <2>3, <2>4
<1> QED
  BY <1>1, <1>2 DEF Futures

\* Every step keeps the futures and the runs in agreement.
LEMMA FuturesStep == ASSUME IInv, [Next]_vars PROVE Futures'
<1>1. Shapes /\ Calling /\ Futures /\ Queued /\ Running
  BY DEF IInv
<1>f. fut \in [Tasks -> {"none", "pending", "running"} \cup Over]
  BY <1>1 DEF Futures
<1>u. ASSUME UNCHANGED <<fut, runs>> PROVE Futures'
  BY <1>1, <1>u DEF Futures
<1>2. ASSUME NEW c \in Callers, Look(c) PROVE Futures'
  BY <1>u, <1>2 DEF Look
<1>3. ASSUME NEW c \in Callers, Put(c) PROVE Futures'
  <2>1. PICK t \in Tasks : t = Item(c)
    BY <1>1, ItemIsTask
  <2>2. t \in Tasks /\ fut[t] = "none"
    BY <1>1, <1>3, <2>1 DEF Calling, CallOf, Put
  <2>3. fut' = [fut EXCEPT ![t] = "pending"] /\ runs' = runs
    BY <1>3, <2>1 DEF Put, Enqueue
  <2>4. "pending" \notin Begun /\ "none" \notin Begun
    BY DEF Begun
  <2> QED
    BY <1>1, <2>2, <2>3, <2>4, FutureKept
<1>4. ASSUME NEW c \in Callers, Inline(c) PROVE Futures'
  <2>1. PICK t \in Tasks : t = Item(c)
    BY <1>1, ItemIsTask
  <2>2. t \in Tasks /\ fut[t] = "none"
    BY <1>1, <1>4, <2>1 DEF Calling, CallOf, Inline
  <2>3. fut' = [fut EXCEPT ![t] = "running"] /\ runs' = [runs EXCEPT ![t] = @ + 1]
    BY <1>4, <2>1 DEF Inline, Start
  <2>4. "running" \in Begun /\ "none" \notin Begun
    BY DEF Begun
  <2> QED
    BY <1>1, <2>2, <2>3, <2>4, FutureKept
<1>5. ASSUME NEW t, t \in Tasks, fut[t] = "running", Ends(t), runs' = runs PROVE Futures'
  <2>1. PICK end \in {"result", "raised"} : fut' = [fut EXCEPT ![t] = end]
    BY <1>5 DEF Ends
  <2>2. end \in Begun /\ "running" \in Begun /\ end \in Over
    BY <2>1 DEF Begun, Over
  <2> QED
    BY <1>1, <1>5, <2>1, <2>2, FutureKept
<1>6. ASSUME NEW c \in Callers, InlineEnds(c) PROVE Futures'
  <2>1. PICK t \in Tasks : t = Item(c)
    BY <1>1, ItemIsTask
  <2>2. t \in Tasks /\ fut[t] = "running" /\ Ends(t) /\ runs' = runs
    BY <1>1, <1>6, <2>1 DEF Calling, CallOf, InlineEnds
  <2> QED
    BY <1>5, <2>2
<1>7. ASSUME NEW c \in Callers, Result(c) PROVE Futures'
  <2>1. CASE UNCHANGED fut
    BY <1>u, <1>7, <2>1 DEF Result
  <2>2. CASE fut' = [t \in Tasks |-> IF t \in Range(Batch[c]) /\ fut[t] = "pending" THEN "cancelled" ELSE fut[t]]
    <3>1. runs' = runs
      BY <1>7 DEF Result
    <3>2. fut' \in [Tasks -> {"none", "pending", "running"} \cup Over]
      BY <1>f, <2>2 DEF Over
    <3>3. \A t \in Tasks : fut'[t] \in Begun <=> fut[t] \in Begun
      BY <1>f, <2>2 DEF Begun
    <3>4. runs = [s \in Tasks |-> IF fut[s] \in Begun THEN 1 ELSE 0]
      BY <1>1 DEF Futures
    <3> HIDE <2>2
    <3>5. runs' = [s \in Tasks |-> IF fut'[s] \in Begun THEN 1 ELSE 0]
      BY <3>1, <3>3, <3>4
    <3> QED
      BY <3>2, <3>5 DEF Futures
  <2> QED
    BY <1>7, <2>1, <2>2 DEF Result
<1>8. ASSUME NEW e \in Executors, NEW k \in Slots(e), TakeTask(e, k) PROVE Futures'
  <2>1. PICK t : t = Head(queue[e])
    OBVIOUS
  <2>2. CASE UNCHANGED <<fut, runs>>
    BY <1>u, <2>2
  <2>3. CASE fut[t] # "cancelled" /\ Start(t)
    <3>1. t \in Tasks /\ fut[t] = "pending"
      BY <1>1, <1>8, <2>1, <2>3, HeadOpen DEF TakeTask
    <3>2. fut' = [fut EXCEPT ![t] = "running"] /\ runs' = [runs EXCEPT ![t] = @ + 1]
      BY <2>3 DEF Start
    <3>3. "running" \in Begun /\ "pending" \notin Begun
      BY DEF Begun
    <3> QED
      BY <1>1, <3>1, <3>2, <3>3, FutureKept
  <2> QED
    BY <1>8, <2>1, <2>2, <2>3 DEF TakeTask
<1>9. ASSUME NEW e \in Executors, NEW k \in Slots(e), WorkerEnds(e, k) PROVE Futures'
  <2>1. PICK t : t = worker[e][k].job
    OBVIOUS
  <2>2. t \in Tasks /\ fut[t] = "running" /\ Ends(t) /\ runs' = runs
    BY <1>1, <1>9, <2>1 DEF WorkerEnds, Running
  <2> QED
    BY <1>5, <2>2
<1>10. ASSUME NEW e \in Executors, NEW k \in Slots(e),
              TakeMarker(e, k) \/ Leave(e, k) \/ After(e, k) \/ Retire(e, k) \/ TimesOut(e, k)
       PROVE  Futures'
  BY <1>u, <1>10 DEF TakeMarker, Leave, After, Retire, TimesOut
<1>11. ASSUME NEW p \in Pools, Drop(p) PROVE Futures'
  BY <1>u, <1>11 DEF Drop
<1>12. ASSUME NEW e \in Executors, Close(e) PROVE Futures'
  BY <1>u, <1>12 DEF Close
<1> QED
  BY <1>u, <1>2, <1>3, <1>4, <1>6, <1>7, <1>8, <1>9, <1>10, <1>11, <1>12, StepCases DEF vars

-----------------------------------------------------------------------------
(* The queues. *)

\* The queues stay and what they hold stays pending or cancelled.
LEMMA QueuedKept ==
  ASSUME Shapes, Queued, UNCHANGED queue,
         \A t \in Tasks : fut[t] \in {"pending", "cancelled"} => fut'[t] \in {"pending", "cancelled"}
  PROVE  Queued'
<1>1. \A e \in Executors : \A i \in DOMAIN queue[e] : queue[e][i] # Marker => queue[e][i] \in Tasks
  <2>1. \A e \in Executors : queue[e] \in Seq(Tasks \cup {Marker})
    BY DEF Shapes, Lines
  <2> QED
    BY <2>1
<1> QED
  BY <1>1 DEF Queued

\* The head of a queue leaves it and the rest moves up.
LEMMA QueuedTail ==
  ASSUME Shapes, Queued, NEW e \in Executors, queue[e] # <<>>, queue' = [queue EXCEPT ![e] = Tail(@)],
         \A t \in Tasks \ {Head(queue[e])} :
           fut[t] \in {"pending", "cancelled"} => fut'[t] \in {"pending", "cancelled"}
  PROVE  Queued'
<1>1. /\ 1 \in DOMAIN queue[e] /\ queue[e][1] = Head(queue[e])
      /\ DOMAIN Tail(queue[e]) = 1 .. Len(queue[e]) - 1 /\ DOMAIN queue[e] = 1 .. Len(queue[e])
      /\ Len(queue[e]) \in Nat
      /\ \A i \in DOMAIN Tail(queue[e]) : Tail(queue[e])[i] = queue[e][i + 1]
  BY HeadIsTask
<1>2. queue'[e] = Tail(queue[e]) /\ \A f \in Executors \ {e} : queue'[f] = queue[f]
  BY DEF Shapes
<1> DEFINE was(f, i) == IF f = e THEN i + 1 ELSE i
<1>3. \A f \in Executors : \A i \in DOMAIN queue'[f] :
        was(f, i) \in DOMAIN queue[f] /\ queue'[f][i] = queue[f][was(f, i)]
  <2> SUFFICES ASSUME NEW f \in Executors, NEW i \in DOMAIN queue'[f]
               PROVE  was(f, i) \in DOMAIN queue[f] /\ queue'[f][i] = queue[f][was(f, i)]
    OBVIOUS
  <2>1. CASE f = e
    <3>1. i \in 1 .. Len(queue[e]) - 1 /\ queue'[f][i] = queue[e][i + 1]
      BY <1>1, <1>2, <2>1
    <3> QED
      BY <1>1, <2>1, <3>1
  <2>2. CASE f # e
    BY <1>2, <2>2
  <2> QED
    BY <2>1, <2>2
<1>4. \A f \in Executors : \A i \in DOMAIN queue'[f] : queue'[f][i] # Marker =>
        queue'[f][i] \in Tasks \ {Head(queue[e])}
  <2> SUFFICES ASSUME NEW f \in Executors, NEW i \in DOMAIN queue'[f], queue'[f][i] # Marker
               PROVE  queue'[f][i] \in Tasks \ {Head(queue[e])}
    OBVIOUS
  <2>1. queue[f] \in Seq(Tasks \cup {Marker})
    BY DEF Shapes, Lines
  <2>2. was(f, i) \in DOMAIN queue[f] /\ queue'[f][i] = queue[f][was(f, i)]
    BY <1>3
  <2>3. queue'[f][i] \in Tasks
    BY <2>1, <2>2
  <2>4. ASSUME queue'[f][i] = Head(queue[e]) PROVE FALSE
    <3>1. queue[f][was(f, i)] = queue[e][1] /\ queue[f][was(f, i)] # Marker
      BY <1>1, <2>2, <2>4
    <3>2. f = e /\ was(f, i) = 1
      BY <1>1, <2>2, <3>1 DEF Queued
    <3>3. i \in 1 .. Len(queue[e]) - 1
      BY <1>1, <1>2, <3>2
    <3> QED
      BY <1>1, <3>2, <3>3
  <2> QED
    BY <2>3, <2>4
<1>5. \A f \in Executors : \A i \in DOMAIN queue'[f] :
        queue'[f][i] # Marker => fut'[queue'[f][i]] \in {"pending", "cancelled"}
  BY <1>3, <1>4 DEF Queued
<1>6. \A f, g \in Executors : \A i \in DOMAIN queue'[f], j \in DOMAIN queue'[g] :
        queue'[f][i] = queue'[g][j] /\ queue'[f][i] # Marker => f = g /\ i = j
  <2> SUFFICES ASSUME NEW f \in Executors, NEW g \in Executors, NEW i \in DOMAIN queue'[f],
                      NEW j \in DOMAIN queue'[g], queue'[f][i] = queue'[g][j], queue'[f][i] # Marker
               PROVE  f = g /\ i = j
    OBVIOUS
  <2>1. was(f, i) \in DOMAIN queue[f] /\ was(g, j) \in DOMAIN queue[g]
        /\ queue[f][was(f, i)] = queue[g][was(g, j)] /\ queue[f][was(f, i)] # Marker
    BY <1>3
  <2>2. f = g /\ was(f, i) = was(g, j)
    BY <2>1 DEF Queued
  <2>3. CASE f = e
    <3>1. i \in 1 .. Len(queue[e]) - 1 /\ j \in 1 .. Len(queue[e]) - 1
      BY <1>1, <1>2, <2>2, <2>3
    <3> QED
      BY <1>1, <2>2, <2>3, <3>1
  <2>4. CASE f # e
    BY <2>2, <2>4
  <2> QED
    BY <2>3, <2>4
<1> QED
  BY <1>5, <1>6 DEF Queued

\* What goes to the end of a queue is a marker or an item that no queue holds.
LEMMA QueuedAppend ==
  ASSUME Shapes, Queued, NEW e \in Executors, NEW x \in Tasks \cup {Marker},
         queue' = [queue EXCEPT ![e] = Append(@, x)],
         x # Marker => fut[x] = "none" /\ fut'[x] = "pending",
         \A t \in Tasks \ {x} : fut'[t] = fut[t]
  PROVE  Queued'
<1>0. queue[e] \in Seq(Tasks \cup {Marker})
  BY DEF Shapes, Lines
<1>1. /\ DOMAIN queue[e] = 1 .. Len(queue[e]) /\ Len(queue[e]) \in Nat
      /\ DOMAIN Append(queue[e], x) = 1 .. Len(queue[e]) + 1
      /\ \A i \in 1 .. Len(queue[e]) : Append(queue[e], x)[i] = queue[e][i]
      /\ Append(queue[e], x)[Len(queue[e]) + 1] = x
  BY <1>0
<1>2. queue'[e] = Append(queue[e], x) /\ \A f \in Executors \ {e} : queue'[f] = queue[f]
  BY DEF Shapes
<1>3. \A f \in Executors : \A i \in DOMAIN queue'[f] :
        \/ i \in DOMAIN queue[f] /\ queue'[f][i] = queue[f][i]
        \/ f = e /\ i = Len(queue[e]) + 1 /\ queue'[f][i] = x
  BY <1>1, <1>2
<1>4. \A f \in Executors : \A i \in DOMAIN queue[f] : queue[f][i] # Marker =>
        queue[f][i] \in Tasks /\ queue[f][i] # x
  <2> SUFFICES ASSUME NEW f \in Executors, NEW i \in DOMAIN queue[f], queue[f][i] # Marker
               PROVE  queue[f][i] \in Tasks /\ queue[f][i] # x
    OBVIOUS
  <2>1. queue[f] \in Seq(Tasks \cup {Marker})
    BY DEF Shapes, Lines
  <2>2. fut[queue[f][i]] \in {"pending", "cancelled"}
    BY DEF Queued
  <2> QED
    BY <2>1, <2>2
<1>5. \A f \in Executors : \A i \in DOMAIN queue'[f] :
        queue'[f][i] # Marker => fut'[queue'[f][i]] \in {"pending", "cancelled"}
  BY <1>3, <1>4 DEF Queued
<1>6. \A f, g \in Executors : \A i \in DOMAIN queue'[f], j \in DOMAIN queue'[g] :
        queue'[f][i] = queue'[g][j] /\ queue'[f][i] # Marker => f = g /\ i = j
  BY <1>3, <1>4 DEF Queued
<1> QED
  BY <1>5, <1>6 DEF Queued

\* Every step keeps the queued items in one place.
LEMMA QueuedStep == ASSUME IInv, [Next]_vars PROVE Queued'
<1>1. Shapes /\ Calling /\ Futures /\ Queued /\ Running
  BY DEF IInv
<1>f. fut \in [Tasks -> {"none", "pending", "running"} \cup Over]
  BY <1>1 DEF Futures
<1>u. ASSUME UNCHANGED <<fut, queue>> PROVE Queued'
  BY <1>1, <1>u, QueuedKept
<1>2. ASSUME NEW c \in Callers, Look(c) PROVE Queued'
  BY <1>u, <1>2 DEF Look
<1>3. ASSUME NEW c \in Callers, Put(c) PROVE Queued'
  <2>1. PICK t \in Tasks : t = Item(c)
    BY <1>1, ItemIsTask
  <2>2. PICK e \in Executors : e = call[c].ex
    BY <1>1, <1>3 DEF Calling, CallOf, Put
  <2>3. t \in Tasks /\ e \in Executors /\ fut[t] = "none" /\ t # Marker
    BY <1>1, <1>3, <2>1, <2>2, BatchesAssumption DEF Calling, CallOf, Put
  <2>4. fut' = [fut EXCEPT ![t] = "pending"] /\ queue' = [queue EXCEPT ![e] = Append(@, t)]
    BY <1>3, <2>1, <2>2 DEF Put, Enqueue
  <2>5. fut'[t] = "pending" /\ \A s \in Tasks \ {t} : fut'[s] = fut[s]
    BY <1>f, <2>3, <2>4
  <2> QED
    BY <1>1, <2>3, <2>4, <2>5, QueuedAppend
\* A future that is not in a queue changes.
<1>4. ASSUME NEW t, fut[t] \notin {"pending", "cancelled"}, \A s \in Tasks \ {t} : fut'[s] = fut[s],
             UNCHANGED queue
      PROVE  Queued'
  BY <1>1, <1>4, QueuedKept
<1>5. ASSUME NEW c \in Callers, Inline(c) PROVE Queued'
  <2>1. PICK t \in Tasks : t = Item(c)
    BY <1>1, ItemIsTask
  <2>2. fut[t] = "none" /\ fut' = [fut EXCEPT ![t] = "running"] /\ UNCHANGED queue
    BY <1>1, <1>5, <2>1 DEF Calling, CallOf, Inline, Start
  <2>3. \A s \in Tasks \ {t} : fut'[s] = fut[s]
    BY <1>f, <2>2
  <2> QED
    BY <1>4, <2>2, <2>3
<1>6. ASSUME NEW t, fut[t] = "running", Ends(t), UNCHANGED queue PROVE Queued'
  <2>1. \A s \in Tasks \ {t} : fut'[s] = fut[s]
    BY <1>f, <1>6 DEF Ends
  <2> QED
    BY <1>4, <1>6, <2>1
<1>7. ASSUME NEW c \in Callers, InlineEnds(c) PROVE Queued'
  <2>1. PICK t \in Tasks : t = Item(c)
    BY <1>1, ItemIsTask
  <2>2. fut[t] = "running" /\ Ends(t) /\ UNCHANGED queue
    BY <1>1, <1>7, <2>1 DEF Calling, CallOf, InlineEnds
  <2> QED
    BY <1>6, <2>2
<1>8. ASSUME NEW c \in Callers, Result(c) PROVE Queued'
  <2>1. \A t \in Tasks : fut[t] \in {"pending", "cancelled"} => fut'[t] \in {"pending", "cancelled"}
    BY <1>8 DEF Result
  <2> QED
    BY <1>1, <1>8, <2>1, QueuedKept DEF Result
<1>9. ASSUME NEW e \in Executors, NEW k \in Slots(e), TakeTask(e, k) PROVE Queued'
  <2>1. queue[e] # <<>> /\ queue' = [queue EXCEPT ![e] = Tail(@)]
    BY <1>9 DEF TakeTask
  <2>2. \A t \in Tasks \ {Head(queue[e])} : fut'[t] = fut[t]
    BY <1>f, <1>9 DEF TakeTask, Start
  <2> QED
    BY <1>1, <2>1, <2>2, QueuedTail
<1>10. ASSUME NEW e \in Executors, NEW k \in Slots(e), TakeMarker(e, k) PROVE Queued'
  BY <1>1, <1>10, QueuedTail DEF TakeMarker
<1>11. ASSUME NEW e \in Executors, NEW k \in Slots(e), WorkerEnds(e, k) PROVE Queued'
  <2>1. PICK t : t = worker[e][k].job
    OBVIOUS
  <2>2. fut[t] = "running" /\ Ends(t) /\ UNCHANGED queue
    BY <1>1, <1>11, <2>1 DEF WorkerEnds, Running
  <2> QED
    BY <1>6, <2>2
<1>12. ASSUME NEW e \in Executors, UNCHANGED fut, queue' = [queue EXCEPT ![e] = Append(@, Marker)] PROVE Queued'
  BY <1>1, <1>12, QueuedAppend
<1>13. ASSUME NEW e \in Executors, NEW k \in Slots(e), Leave(e, k) PROVE Queued'
  BY <1>12, <1>13 DEF Leave
<1>14. ASSUME NEW e \in Executors, Close(e) PROVE Queued'
  BY <1>12, <1>14 DEF Close
<1>15. ASSUME NEW e \in Executors, NEW k \in Slots(e), After(e, k) \/ Retire(e, k) \/ TimesOut(e, k) PROVE Queued'
  BY <1>u, <1>15 DEF After, Retire, TimesOut
<1>16. ASSUME NEW p \in Pools, Drop(p) PROVE Queued'
  BY <1>u, <1>16 DEF Drop
<1> QED
  BY <1>u, <1>2, <1>3, <1>5, <1>7, <1>8, <1>9, <1>10, <1>11, <1>13, <1>14, <1>15, <1>16, StepCases DEF vars

-----------------------------------------------------------------------------
(* The workers that run an item. *)

\* No worker begins a run, none that runs loses its future, and no caller takes an item
\* to itself that a worker runs.
LEMMA RunningKept ==
  ASSUME Running,
         \A f \in Executors : \A l \in Slots(f) : worker'[f][l].pc = "run" =>
           worker'[f][l] = worker[f][l] /\ fut'[worker[f][l].job] = "running",
         \A d \in Callers : call'[d].pc = "inline" =>
           \/ call'[d] = call[d]
           \/ \A f \in Executors : \A l \in Slots(f) : worker[f][l].pc = "run" =>
                Batch[d][call'[d].n] # worker[f][l].job
  PROVE  Running'
<1> SUFFICES ASSUME NEW f \in Executors, NEW l \in Slots(f), worker'[f][l].pc = "run"
             PROVE  /\ worker'[f][l].job \in Tasks /\ fut'[worker'[f][l].job] = "running"
                    /\ \A g \in Executors : \A m \in Slots(g) :
                         worker'[g][m].pc = "run" /\ worker'[g][m].job = worker'[f][l].job => f = g /\ l = m
                    /\ \A c \in Callers : call'[c].pc = "inline" => Item(c)' # worker'[f][l].job
  BY DEF Running, Slots
<1>1. worker'[f][l] = worker[f][l] /\ fut'[worker[f][l].job] = "running" /\ worker[f][l].pc = "run"
  OBVIOUS
<1>2. /\ worker[f][l].job \in Tasks
      /\ \A g \in Executors : \A m \in Slots(g) :
           worker[g][m].pc = "run" /\ worker[g][m].job = worker[f][l].job => f = g /\ l = m
      /\ \A c \in Callers : call[c].pc = "inline" => Item(c) # worker[f][l].job
  BY <1>1 DEF Running
<1>3. ASSUME NEW g \in Executors, NEW m \in Slots(g), worker'[g][m].pc = "run",
             worker'[g][m].job = worker'[f][l].job
      PROVE  f = g /\ l = m
  <2>1. worker'[g][m] = worker[g][m]
    BY <1>3
  <2> QED
    BY <1>1, <1>2, <1>3, <2>1
<1>4. ASSUME NEW c \in Callers, call'[c].pc = "inline" PROVE Item(c)' # worker'[f][l].job
  <2>1. CASE call'[c] = call[c]
    BY <1>1, <1>2, <1>4, <2>1 DEF Item
  <2>2. CASE Batch[c][call'[c].n] # worker[f][l].job
    BY <1>1, <2>2 DEF Item
  <2> QED
    BY <1>1, <1>4, <2>1, <2>2
<1> QED
  BY <1>1, <1>2, <1>3, <1>4

\* A worker goes on to a point other than "run".
LEMMA GoesKept ==
  ASSUME Shapes, NEW e \in Executors, NEW k \in Slots(e), NEW to, NEW t, to # "run", Goes(e, k, to, t)
  PROVE  \A f \in Executors : \A l \in Slots(f) : worker'[f][l].pc = "run" =>
           worker'[f][l] = worker[f][l] /\ ~ (f = e /\ l = k)
<1>1. \A f \in Executors : \A l \in Slots(f) :
        worker'[f][l] = IF f = e /\ l = k THEN Thread(to, t) ELSE worker[f][l]
  BY DEF Shapes, Crew, Goes
<1> QED
  BY <1>1 DEF Thread

\* Every step keeps the running workers apart.
LEMMA RunningStep == ASSUME IInv, [Next]_vars PROVE Running'
<1>1. Shapes /\ Books /\ Calling /\ Futures /\ Queued /\ Running
  BY DEF IInv
<1>f. fut \in [Tasks -> {"none", "pending", "running"} \cup Over]
  BY <1>1 DEF Futures
<1>r. \A f \in Executors : \A l \in Slots(f) : worker[f][l].pc = "run" =>
        worker[f][l].job \in Tasks /\ fut[worker[f][l].job] = "running"
  BY <1>1 DEF Running
<1>c. call \in [Callers -> Place]
  BY <1>1 DEF Calling
<1>u. ASSUME UNCHANGED <<worker, fut, call>> PROVE Running'
  BY <1>1, <1>u, <1>r, RunningKept
<1>2. ASSUME NEW c \in Callers, Look(c) PROVE Running'
  <2>1. \A d \in Callers : call'[d].pc = "inline" => call'[d] = call[d]
    <3>1. call[c] \in Place /\ call' = [call EXCEPT ![c].pc = "put", ![c].ex = <<PoolOf(c), cur'[PoolOf(c)]>>]
      BY <1>2, <1>c DEF Look
    <3>2. call'[c].pc = "put" /\ \A d \in Callers \ {c} : call'[d] = call[d]
      BY <1>c, <3>1 DEF Place
    <3> QED
      BY <3>2
  <2> QED
    BY <1>1, <1>2, <1>r, <2>1, RunningKept DEF Look
\* The caller after its item: it is not inline.
<1>3. ASSUME NEW c \in Callers, call' = Onward(c) PROVE \A d \in Callers : call'[d].pc = "inline" => call'[d] = call[d]
  <2>1. /\ call'[c] = IF call[c].n < Len(Batch[c])
                      THEN [pc |-> "look", n |-> call[c].n + 1, ex |-> NoExec]
                      ELSE [pc |-> "wait", n |-> 1, ex |-> NoExec]
        /\ \A d \in Callers \ {c} : call'[d] = call[d]
    BY <1>3, <1>c DEF Onward
  <2>2. call'[c].pc # "inline"
    BY <2>1
  <2> QED
    BY <2>1, <2>2
<1>4. ASSUME NEW c \in Callers, Put(c) PROVE Running'
  <2>1. PICK t \in Tasks : t = Item(c)
    BY <1>1, ItemIsTask
  <2>2. fut[t] = "none" /\ fut' = [fut EXCEPT ![t] = "pending"] /\ call' = Onward(c)
    BY <1>1, <1>4, <2>1 DEF Calling, CallOf, Put, Enqueue
  <2>3. \A s \in Tasks \ {t} : fut'[s] = fut[s]
    BY <1>f, <2>2
  <2>4. \A f \in Executors : \A l \in Slots(f) : worker[f][l].pc = "run" => fut'[worker[f][l].job] = "running"
    BY <1>r, <2>2, <2>3
  <2>5. \A f \in Executors : \A l \in Slots(f) : worker'[f][l].pc = "run" => worker'[f][l] = worker[f][l]
    <3>1. CASE UNCHANGED worker
      BY <3>1
    <3>2. ASSUME NEW e \in Executors, e = call[c].ex, book[e].state # "closed", book[e].idle = 0,
                 book[e].live < Width[e[1]],
                 worker' = [worker EXCEPT ![e][CHOOSE k \in Slots(e) : worker[e][k].pc = "none"]
                                             = Thread("parked", Marker)]
          PROVE  \A f \in Executors : \A l \in Slots(f) : worker'[f][l].pc = "run" => worker'[f][l] = worker[f][l]
      <4>1. None(e) > 0
        BY <1>1, <3>2, Before, LawPut
      <4>2. \E k \in Slots(e) : worker[e][k].pc = "none"
        BY <4>1, InNat DEF None
      <4>3. PICK k \in Slots(e) : k = (CHOOSE l \in Slots(e) : worker[e][l].pc = "none")
        BY <4>2
      <4>4. Goes(e, k, "parked", Marker)
        BY <3>2, <4>3 DEF Goes
      <4>5. k \in Slots(e)
        BY <4>3
      <4> QED
        BY <1>1, <4>4, <4>5, GoesKept
    <3>3. call[c].ex \in Executors
      BY <1>1, <1>4 DEF Calling, CallOf, Put
    <3> QED
      BY <1>4, <3>1, <3>2, <3>3 DEF Put
  <2> QED
    BY <1>1, <1>3, <2>2, <2>4, <2>5, RunningKept
<1>5. ASSUME NEW c \in Callers, Inline(c) PROVE Running'
  <2>1. PICK t \in Tasks : t = Item(c)
    BY <1>1, ItemIsTask
  <2>2. /\ fut[t] = "none" /\ fut' = [fut EXCEPT ![t] = "running"] /\ call' = [call EXCEPT ![c].pc = "inline"]
        /\ UNCHANGED worker
    BY <1>1, <1>5, <2>1 DEF Calling, CallOf, Inline, Start
  <2>3. \A f \in Executors : \A l \in Slots(f) : worker[f][l].pc = "run" =>
          worker[f][l].job # t /\ fut'[worker[f][l].job] = "running"
    BY <1>f, <1>r, <2>2
  <2>4. call'[c].n = call[c].n /\ \A d \in Callers \ {c} : call'[d] = call[d]
    BY <1>c, <2>2 DEF Place
  <2>5. Batch[c][call'[c].n] = t
    BY <2>1, <2>4 DEF Item
  <2>6. \A d \in Callers : \/ call'[d] = call[d]
                          \/ \A f \in Executors : \A l \in Slots(f) : worker[f][l].pc = "run" =>
                               Batch[d][call'[d].n] # worker[f][l].job
    BY <2>3, <2>4, <2>5
  <2> QED
    BY <1>1, <2>2, <2>3, <2>6, RunningKept
<1>6. ASSUME NEW c \in Callers, InlineEnds(c) PROVE Running'
  <2>1. PICK t \in Tasks : t = Item(c)
    BY <1>1, ItemIsTask
  <2>2. call[c].pc = "inline" /\ Ends(t) /\ UNCHANGED worker /\ call' = Onward(c)
    BY <1>6, <2>1 DEF InlineEnds
  <2>3. \A s \in Tasks \ {t} : fut'[s] = fut[s]
    BY <1>f, <2>2 DEF Ends
  <2>4. \A f \in Executors : \A l \in Slots(f) : worker[f][l].pc = "run" => worker[f][l].job # t
    BY <1>1, <2>1, <2>2 DEF Running
  <2>5. \A f \in Executors : \A l \in Slots(f) : worker[f][l].pc = "run" => fut'[worker[f][l].job] = "running"
    BY <1>r, <2>3, <2>4
  <2> QED
    BY <1>1, <1>3, <2>2, <2>5, RunningKept
<1>7. ASSUME NEW c \in Callers, Result(c) PROVE Running'
  <2>1. \A t \in Tasks : fut[t] = "running" => fut'[t] = "running"
    BY <1>7 DEF Result
  <2>2. \A d \in Callers : call'[d].pc = "inline" => call'[d] = call[d]
    <3>1. call[c] \in Place /\ call[c].pc = "wait"
      BY <1>7, <1>c DEF Result
    <3>2. CASE call' = [call EXCEPT ![c].n = @ + 1]
      <4>1. call'[c].pc = "wait" /\ \A d \in Callers \ {c} : call'[d] = call[d]
        BY <1>c, <3>1, <3>2 DEF Place
      <4> QED
        BY <4>1
    <3>3. CASE call' = [call EXCEPT ![c].pc = "back"] \/ call' = [call EXCEPT ![c].pc = "raised"]
      <4>1. call'[c].pc \in {"back", "raised"} /\ \A d \in Callers \ {c} : call'[d] = call[d]
        BY <1>c, <3>1, <3>3 DEF Place
      <4> QED
        BY <4>1
    <3> QED
      BY <1>7, <3>2, <3>3 DEF Result
  <2> QED
    BY <1>1, <1>7, <1>r, <2>1, <2>2, RunningKept DEF Result
<1>8. ASSUME NEW e \in Executors, NEW k \in Slots(e), TakeTask(e, k) PROVE Running'
  <2>0. UNCHANGED call
    BY <1>8 DEF TakeTask
  <2>1. CASE Goes(e, k, "after", Marker) /\ UNCHANGED fut
    BY <1>1, <1>r, <2>0, <2>1, GoesKept, RunningKept
  <2>2. ASSUME NEW t, t = Head(queue[e]), fut[t] # "cancelled", Start(t), Goes(e, k, "run", t)
        PROVE  Running'
    <3>1. t \in Tasks /\ fut[t] = "pending"
      BY <1>1, <1>8, <2>2, HeadOpen DEF TakeTask
    <3>2. \A s \in Tasks : fut'[s] = IF s = t THEN "running" ELSE fut[s]
      BY <1>f, <2>2 DEF Start
    <3>3. \A f \in Executors : \A l \in Slots(f) :
            worker'[f][l] = IF f = e /\ l = k THEN [pc |-> "run", job |-> t] ELSE worker[f][l]
      BY <1>1, <2>2 DEF Shapes, Crew, Goes, Thread
    <3> SUFFICES ASSUME NEW f \in Executors, NEW l \in Slots(f), worker'[f][l].pc = "run"
                 PROVE  /\ worker'[f][l].job \in Tasks /\ fut'[worker'[f][l].job] = "running"
                        /\ \A g \in Executors : \A m \in Slots(g) :
                             worker'[g][m].pc = "run" /\ worker'[g][m].job = worker'[f][l].job => f = g /\ l = m
                        /\ \A c \in Callers : call'[c].pc = "inline" => Item(c)' # worker'[f][l].job
      BY DEF Running, Slots
    <3>4. \A g \in Executors : \A m \in Slots(g) : worker'[g][m].pc = "run" =>
            \/ g = e /\ m = k /\ worker'[g][m].job = t
            \/ /\ ~ (g = e /\ m = k) /\ worker'[g][m] = worker[g][m]
               /\ worker[g][m].job \in Tasks \ {t} /\ fut[worker[g][m].job] = "running"
      BY <1>r, <3>1, <3>3
    <3>5. worker'[f][l].job \in Tasks /\ fut'[worker'[f][l].job] = "running"
      BY <3>1, <3>2, <3>4
    <3>6. ASSUME NEW g \in Executors, NEW m \in Slots(g), worker'[g][m].pc = "run",
                 worker'[g][m].job = worker'[f][l].job
          PROVE  f = g /\ l = m
      <4>1. CASE f = e /\ l = k
        BY <3>4, <3>6, <4>1
      <4>2. CASE ~ (f = e /\ l = k)
        <5>1. worker'[f][l] = worker[f][l] /\ worker[f][l].job # t
          BY <3>4, <4>2
        <5>2. worker'[g][m] = worker[g][m]
          BY <3>4, <3>6, <5>1
        <5> QED
          BY <1>1, <3>6, <5>1, <5>2 DEF Running
      <4> QED
        BY <4>1, <4>2
    <3>7. ASSUME NEW c \in Callers, call'[c].pc = "inline" PROVE Item(c)' # worker'[f][l].job
      <4>1. Item(c)' = Item(c) /\ call[c].pc = "inline"
        BY <2>0, <3>7 DEF Item
      <4>2. fut[Item(c)] = "running"
        BY <1>1, <4>1 DEF Calling, CallOf
      <4>3. CASE f = e /\ l = k
        BY <3>1, <3>4, <4>1, <4>2, <4>3
      <4>4. CASE ~ (f = e /\ l = k)
        <5>1. worker'[f][l] = worker[f][l]
          BY <3>4, <4>4
        <5> QED
          BY <1>1, <4>1, <5>1 DEF Running
      <4> QED
        BY <4>3, <4>4
    <3> QED
      BY <3>5, <3>6, <3>7
  <2> QED
    BY <1>8, <2>1, <2>2 DEF TakeTask, Goes
<1>9. ASSUME NEW e \in Executors, NEW k \in Slots(e), WorkerEnds(e, k) PROVE Running'
  <2>1. PICK t : t = worker[e][k].job
    OBVIOUS
  <2>2. Goes(e, k, "after", Marker) /\ UNCHANGED call /\ worker[e][k].pc = "run" /\ Ends(t)
    BY <1>9, <2>1 DEF WorkerEnds, Goes
  <2>3. \A f \in Executors : \A l \in Slots(f) : worker'[f][l].pc = "run" =>
          worker'[f][l] = worker[f][l] /\ ~ (f = e /\ l = k)
    BY <1>1, <2>2, GoesKept
  <2>4. \A s \in Tasks \ {t} : fut'[s] = fut[s]
    BY <1>f, <2>2 DEF Ends
  <2>5. \A f \in Executors : \A l \in Slots(f) : worker'[f][l].pc = "run" => worker[f][l].job # t
    BY <1>1, <2>1, <2>2, <2>3 DEF Running
  <2>6. \A f \in Executors : \A l \in Slots(f) : worker'[f][l].pc = "run" => fut'[worker[f][l].job] = "running"
    BY <1>r, <2>3, <2>4, <2>5
  <2> QED
    BY <1>1, <2>2, <2>3, <2>6, RunningKept
<1>10. ASSUME NEW e \in Executors, NEW k \in Slots(e),
              TakeMarker(e, k) \/ Leave(e, k) \/ After(e, k) \/ Retire(e, k) \/ TimesOut(e, k)
       PROVE  Running'
  <2>1. PICK to \in {"leave", "none", "parked", "late"} : Goes(e, k, to, Marker)
    BY <1>10 DEF TakeMarker, Leave, After, Retire, TimesOut, Goes
  <2>2. \A f \in Executors : \A l \in Slots(f) : worker'[f][l].pc = "run" => worker'[f][l] = worker[f][l]
    BY <1>1, <2>1, GoesKept
  <2>3. UNCHANGED <<fut, call>>
    BY <1>10 DEF TakeMarker, Leave, After, Retire, TimesOut
  <2> QED
    BY <1>1, <1>r, <2>2, <2>3, RunningKept
<1>11. ASSUME NEW p \in Pools, Drop(p) PROVE Running'
  BY <1>u, <1>11 DEF Drop
<1>12. ASSUME NEW e \in Executors, Close(e) PROVE Running'
  BY <1>u, <1>12 DEF Close
<1> QED
  BY <1>u, <1>2, <1>4, <1>5, <1>6, <1>7, <1>8, <1>9, <1>10, <1>11, <1>12, StepCases DEF vars

-----------------------------------------------------------------------------
(* The theorems. *)

\* The invariant holds at the start.
LEMMA IInvInit == ASSUME Init PROVE IInv
<1>1. Shapes
  <2>1. \A e \in Executors : [live |-> 0, idle |-> 0, owed |-> 0, state |-> "open"] \in Slate
    BY DEF Slate
  <2>2. \A e \in Executors : [k \in Slots(e) |-> Thread("none", Marker)] \in Crew(e)
    BY DEF Crew, Thread
  <2>3. <<>> \in Lines
    BY DEF Lines
  <2> QED
    BY <2>1, <2>2, <2>3 DEF Init, Shapes
<1>2. Turns
  <2>1. \A p \in Pools : \A n \in 1 .. Lives : <<p, n>> \in Executors
    BY DEF Executors
  <2> QED
    BY <2>1, BoundsAssumption DEF Init, Turns
<1>3. ASSUME NEW e \in Executors PROVE BookOf(e) /\ LineOf(e)
  <2>1. book[e] = [live |-> 0, idle |-> 0, owed |-> 0, state |-> "open"] /\ queue[e] = <<>>
        /\ \A k \in Slots(e) : worker[e][k].pc = "none"
    BY DEF Init, Thread
  <2>2. {k \in Slots(e) : worker[e][k].pc \in {"none"}} = Slots(e)
    BY <2>1
  <2>3. None(e) = Width[e[1]] /\ Width[e[1]] \in Nat
    BY <2>2, SlotsFinite DEF None, In
  <2>4. Ready(e) = 0 /\ Leaving(e) = 0
    BY <2>1, InNat DEF Ready, Leaving
  <2>5. Waiting(e) = 0
    <3>1. <<>> \in Lines /\ DOMAIN queue[e] = {}
      BY <2>1 DEF Lines
    <3> QED
      BY <2>1, <3>1, ItemsFinite, WaitingIs
  <2>6. BookOf(e)
    BY <2>1, <2>3, <2>4, <2>5 DEF BookOf, Law
  <2>7. LineOf(e)
    BY <2>1 DEF LineOf
  <2> QED
    BY <2>6, <2>7
<1>4. Calling
  <2>1. call \in [Callers -> Place]
    BY DEF Init, Place
  <2>2. ASSUME NEW c \in Callers PROVE CallOf(c)
    <3>1. call[c].pc = "look" /\ call[c].n = 1
      BY DEF Init
    <3>2. Batch[c] \in Seq(Tasks) /\ Len(Batch[c]) > 1
      BY BatchesAssumption
    <3>3. \A i \in 1 .. Len(Batch[c]) : fut[Batch[c][i]] = "none"
      BY <3>2 DEF Init
    <3>4. Len(Batch[c]) \in Nat
      BY <3>2
    <3> QED
      BY <3>1, <3>2, <3>3, <3>4 DEF CallOf, Item
  <2> QED
    BY <2>1, <2>2 DEF Calling
<1>5. Futures
  BY DEF Init, Futures, Begun
<1>6. Queued
  BY DEF Init, Queued
<1>7. Running
  BY DEF Init, Running, Thread
<1> QED
  BY <1>1, <1>2, <1>3, <1>4, <1>5, <1>6, <1>7 DEF IInv, Books

\* The invariant is inductive.
LEMMA Inductive == Spec => []IInv
<1>1. Init => IInv
  BY IInvInit
<1>2. IInv /\ [Next]_vars => IInv'
  BY BooksStep, ShapesStep, TurnsStep, CallingStep, FuturesStep, QueuedStep, RunningStep DEF IInv
<1> QED
  BY <1>1, <1>2, PTL DEF Spec

LEMMA DisjointUnion ==
  ASSUME NEW S, NEW T, IsFiniteSet(S), IsFiniteSet(T), S \cap T = {}
  PROVE  IsFiniteSet(S \cup T) /\ Cardinality(S \cup T) = Cardinality(S) + Cardinality(T)
<1>1. /\ IsFiniteSet(S \cup T)
      /\ Cardinality(S \cup T) = Cardinality(S) + Cardinality(T) - Cardinality(S \cap T)
  BY FS_Union
<1>2. Cardinality(S \cap T) = 0
  BY FS_EmptySet
<1>3. Cardinality(S) \in Nat /\ Cardinality(T) \in Nat
  BY FS_CardinalityType
<1> QED
  BY <1>1, <1>2, <1>3

\* An executor counts no more workers than it may have, as live or as idle.
LEMMA Capacity ==
  ASSUME IInv, NEW e \in Executors
  PROVE  book[e].live \in 0 .. Width[e[1]] /\ book[e].idle \in 0 .. Width[e[1]]
<1> DEFINE S(pcs) == {k \in Slots(e) : worker[e][k].pc \in pcs}
<1> DEFINE A == S({"parked", "late"})
<1> DEFINE B == S({"leave"})
<1> DEFINE C == S({"none"})
<1>1. A \in SUBSET Slots(e) /\ B \in SUBSET Slots(e) /\ C \in SUBSET Slots(e)
      /\ A \cap B = {} /\ (A \cup B) \cap C = {} /\ (A \cup B) \cup C \in SUBSET Slots(e)
  OBVIOUS
<1>2. Ready(e) = Cardinality(A) /\ Leaving(e) = Cardinality(B) /\ None(e) = Cardinality(C)
  BY DEF Ready, Leaving, None, In
<1> HIDE DEF A, B, C, S
<1>3. IsFiniteSet(Slots(e)) /\ Cardinality(Slots(e)) = Width[e[1]] /\ Width[e[1]] \in Nat
  BY SlotsFinite
<1>4. IsFiniteSet(A) /\ IsFiniteSet(B) /\ IsFiniteSet(C) /\ Cardinality(C) <= Width[e[1]]
  BY <1>1, <1>3, FS_Subset
<1>5. IsFiniteSet(A \cup B) /\ Cardinality(A \cup B) = Cardinality(A) + Cardinality(B)
  BY <1>1, <1>4, DisjointUnion
<1>6. Cardinality((A \cup B) \cup C) = Cardinality(A) + Cardinality(B) + Cardinality(C)
  <2>1. Cardinality((A \cup B) \cup C) = Cardinality(A \cup B) + Cardinality(C)
    BY <1>1, <1>4, <1>5, DisjointUnion
  <2> QED
    BY <1>5, <2>1
<1>7. Ready(e) + Leaving(e) + None(e) <= Width[e[1]]
  BY <1>1, <1>2, <1>3, <1>6, FS_Subset
<1>8. /\ book[e] \in Slate /\ None(e) \in Nat /\ Ready(e) \in Nat /\ Leaving(e) \in Nat
      /\ Law(Width[e[1]], book[e], Waiting(e), None(e), Ready(e), Leaving(e))
  BY Before DEF IInv
<1> QED
  BY <1>3, <1>7, <1>8 DEF Law, Slate

\* The variables keep their types: the books of an executor stay within its width.
THEOREM PoolTypeCorrect == Spec => []TypeOK
<1>1. IInv => TypeOK
  <2> SUFFICES ASSUME IInv PROVE TypeOK
    OBVIOUS
  <2>1. cur \in [Pools -> 0 .. Lives] /\ made \in [Pools -> 0 .. Lives]
    <3>1. \A p \in Pools : cur[p] \in 0 .. Lives
      <4> SUFFICES ASSUME NEW p \in Pools PROVE cur[p] \in 0 .. Lives
        OBVIOUS
      <4>1. cur[p] \in Nat /\ made[p] \in 0 .. Lives /\ (cur[p] = 0 \/ cur[p] = made[p])
        BY DEF IInv, Turns
      <4> QED
        BY <4>1, BoundsAssumption
    <3> QED
      BY <3>1 DEF IInv, Turns
  <2>2. ASSUME NEW e \in Executors
        PROVE  /\ book[e] \in [live : 0 .. Width[e[1]], idle : 0 .. Width[e[1]], owed : Nat,
                               state : {"open", "shut", "closed"}]
               /\ queue[e] \in Seq(Tasks \cup {Marker})
               /\ worker[e] \in [Slots(e) -> [pc : {"none", "parked", "late", "run", "after", "leave"},
                                              job : Tasks \cup {Marker}]]
    BY Capacity DEF IInv, Shapes, Slate, Lines, Crew
  <2>3. runs \in [Tasks -> 0 .. 1]
    BY DEF IInv, Futures
  <2> QED
    BY <2>1, <2>2, <2>3 DEF TypeOK, IInv, Shapes, Calling, Place, Futures
<1> QED
  BY <1>1, Inductive, PTL

\* The books add up with what the workers do, and while items wait there is a worker to
\* come for them, for pools of any width and any batches (IdleThreadPool).
THEOREM PoolItemsHaveWorkers == Spec => []ItemsHaveWorkers
<1>1. IInv => ItemsHaveWorkers
  <2> SUFFICES ASSUME IInv, NEW e \in Executors
               PROVE  /\ book[e].live = Width[e[1]] - In(e, {"none"})
                      /\ Waiting(e) > 0 => \/ In(e, {"parked", "run", "after"}) > 0
                                           \/ In(e, {"late"}) > book[e].idle
                      /\ book[e].state # "closed" =>
                           /\ book[e].idle + Waiting(e) = In(e, {"parked", "late"}) + book[e].owed
                           /\ book[e].owed > 0 => book[e].live = Width[e[1]] /\ book[e].idle = 0
    BY DEF ItemsHaveWorkers
  <2>1. /\ Width[e[1]] \in Nat \ {0} /\ None(e) \in Nat /\ Ready(e) \in Nat /\ Leaving(e) \in Nat
        /\ Waiting(e) \in Nat /\ book[e] \in Slate /\ worker[e] \in Crew(e)
        /\ Law(Width[e[1]], book[e], Waiting(e), None(e), Ready(e), Leaving(e))
    BY Before, SlotsFinite DEF IInv, Shapes
  <2>2. book[e].live = Width[e[1]] - None(e)
    BY <2>1 DEF Law
  <2>3. book[e].state # "closed" =>
          /\ book[e].idle + Waiting(e) = Ready(e) + book[e].owed
          /\ book[e].owed > 0 => book[e].live = Width[e[1]] /\ book[e].idle = 0
    BY <2>1 DEF Law
  <2>4. ASSUME Waiting(e) > 0, In(e, {"parked", "run", "after"}) = 0 PROVE In(e, {"late"}) > book[e].idle
    <3>1. \A k \in Slots(e) : worker[e][k].pc \notin {"parked", "run", "after"}
      BY <2>4, InNat
    <3>2. Ready(e) = In(e, {"late"})
      <4>1. {k \in Slots(e) : worker[e][k].pc \in {"parked", "late"}} = {k \in Slots(e) : worker[e][k].pc \in {"late"}}
        BY <3>1
      <4> QED
        BY <4>1 DEF Ready, In
    <3>3. book[e].idle + Waiting(e) = Ready(e) + book[e].owed /\ Leaving(e) = 0
      BY <2>1, <2>4 DEF Law
    <3>4. CASE book[e].owed = 0
      BY <2>1, <2>4, <3>2, <3>3, <3>4 DEF Slate
    <3>5. CASE book[e].owed > 0
      <4>1. book[e].idle = 0 /\ None(e) = 0
        BY <2>1, <2>4, <3>5 DEF Law, Slate
      <4>2. 1 \in Slots(e)
        BY <2>1 DEF Slots
      <4>3. worker[e][1].pc \notin {"none"} /\ worker[e][1].pc \notin {"leave"}
        BY <3>3, <4>1, <4>2, InNat DEF None, Leaving
      <4>4. worker[e][1].pc \in {"late"}
        BY <2>1, <3>1, <4>2, <4>3 DEF Crew
      <4>5. In(e, {"late"}) # 0 /\ In(e, {"late"}) \in Nat
        BY <4>2, <4>4, InNat
      <4> QED
        BY <4>1, <4>5
    <3> QED
      BY <2>1, <3>4, <3>5 DEF Slate
  <2>5. In(e, {"parked", "run", "after"}) \in Nat
    BY InNat
  <2> QED
    BY <2>2, <2>3, <2>4, <2>5 DEF None, Ready
<1> QED
  BY <1>1, Inductive, PTL

\* A probe is run at most once, and each probe of a batch that comes back whole once.
THEOREM PoolRunOnce == Spec => []RunOnce
<1>1. IInv => RunOnce
  <2> SUFFICES ASSUME IInv PROVE RunOnce
    OBVIOUS
  <2>1. \A t \in Tasks : runs[t] = IF fut[t] \in Begun THEN 1 ELSE 0
    BY DEF IInv, Futures
  <2>2. \A t \in Tasks : runs[t] <= 1 /\ (fut[t] = "cancelled" => runs[t] = 0)
    BY <2>1 DEF Begun
  <2>3. ASSUME NEW c \in Callers, call[c].pc = "back", NEW t \in Range(Batch[c]) PROVE runs[t] = 1
    <3>1. PICK i \in DOMAIN Batch[c] : t = Batch[c][i]
      BY <2>3 DEF Range
    <3>2. DOMAIN Batch[c] = 1 .. Len(Batch[c]) /\ \A j \in DOMAIN Batch[c] : Batch[c][j] \in Tasks
      BY ItemIsTask DEF IInv
    <3>3. fut[t] = "result" /\ t \in Tasks
      BY <2>3, <3>1, <3>2 DEF IInv, Calling, CallOf
    <3> QED
      BY <2>1, <3>3 DEF Begun
  <2> QED
    BY <2>2, <2>3 DEF RunOnce
<1> QED
  BY <1>1, Inductive, PTL

=============================================================================
