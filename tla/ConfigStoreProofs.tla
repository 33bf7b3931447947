------------------------- MODULE ConfigStoreProofs -------------------------
(***************************************************************************)
(* Theorems about ConfigStore, for any processes, threads, keys, retention *)
(* and number of changes and faults.                                       *)
(***************************************************************************)
EXTENDS ConfigStore, TLAPS

\* A step is one of these.
LEMMA StepCases ==
  ASSUME [Next]_vars
  PROVE  \/ UNCHANGED vars \/ Tear
         \/ \E k \in Keys : HandEdit(k)
         \/ \E p \in Procs : \/ Crash(p) \/ CfgFills(p) \/ CfgParses(p) \/ CfgReadFails(p)
                             \/ Cfg(p)
         \/ \E w \in Writers :
              \/ TakeWriteLock(w) \/ TakeFileLock(w) \/ GoUnlocked(w) \/ ReadAndPatch(w)
              \/ Refuse(w) \/ SaveCopy(w) \/ Replace(w) \/ SaveFails(w) \/ Reload(w)
              \/ Release(w) \/ \E k \in Keys : Call(w, k)
<1>1. ASSUME NEW p \in Procs, CfgStep(p) PROVE CfgFills(p) \/ CfgParses(p) \/ CfgReadFails(p)
  BY <1>1, Zenon DEF CfgStep
<1>2. ASSUME NEW w \in Writers, Mutate(w)
      PROVE  \/ TakeWriteLock(w) \/ TakeFileLock(w) \/ GoUnlocked(w) \/ ReadAndPatch(w)
             \/ Refuse(w) \/ SaveCopy(w) \/ Replace(w) \/ SaveFails(w) \/ Reload(w) \/ Release(w)
  BY <1>2, Zenon DEF Mutate
<1> QED
  BY <1>1, <1>2, Zenon DEF Next

-----------------------------------------------------------------------------
(* Types. *)

LEMMA ParsedType == ASSUME NEW f \in Files PROVE Parsed(f) \in Values
BY DEF Files, Parsed, Values, Nothing

LEMMA KeptType ==
  ASSUME NEW s \in Seq(Values), Len(s) <= Retention + 1
  PROVE  /\ KeepNewest(s) \in Seq(Values) /\ Len(KeepNewest(s)) <= Retention
         /\ Len(s) > 0 => KeepNewest(s) # <<>> /\ KeepNewest(s)[Len(KeepNewest(s))] = s[Len(s)]
<1>1. CASE Len(s) > Retention
  <2>1. Len(s) = Retention + 1 /\ Retention \in Nat \ {0}
    BY <1>1, ConfigAssumption
  <2>2. KeepNewest(s) = SubSeq(s, 2, Retention + 1)
    BY <1>1, <2>1 DEF KeepNewest
  <2> QED
    BY <2>1, <2>2
<1>2. CASE ~(Len(s) > Retention)
  BY <1>2, ConfigAssumption DEF KeepNewest
<1> QED
  BY <1>1, <1>2

LEMMA CopyType ==
  ASSUME TypeOK, NEW p \in Procs, NEW m \in Nat, NEW data \in Values, CacheIs(p, m, data)
  PROVE  cache' \in [Procs -> Copies]
BY DEF TypeOK, Copies, CacheIs

LEMMA BumpType ==
  ASSUME NEW v \in Values, NEW k PROVE [v EXCEPT ![k] = @ + 1] \in Values
<1> DEFINE bumped == [v EXCEPT ![k] = @ + 1]
<1>1. bumped = [j \in Keys |-> IF j = k THEN v[k] + 1 ELSE v[j]]
  BY Zenon DEF Values
<1>2. \A j \in Keys : (IF j = k THEN v[k] + 1 ELSE v[j]) \in Nat
  BY DEF Values
<1> QED
  BY <1>1, <1>2, Zenon DEF Values

LEMMA TypeInit == Init => TypeOK
<1> SUFFICES ASSUME Init PROVE TypeOK
  OBVIOUS
<1>1. Nothing \in Values
  BY DEF Nothing, Values
<1>2. file \in Files
  BY <1>1 DEF Init, Files
<1>3. baks \in Seq(Values) /\ Len(baks) <= Retention
  BY ConfigAssumption DEF Init
<1>4. job \in [Writers -> Jobs]
  BY <1>1 DEF Init, NoJob, Steps, Jobs
<1>5. cache \in [Procs -> Copies]
  BY <1>1 DEF Init, Copies
<1>6. reading \in [Procs -> Readings]
  BY DEF Init, NotReading, Readings
<1>7. writeLock \in [Procs -> Writers \cup {Free}] /\ fileLock \in Writers \cup {Free}
  BY DEF Init
<1>8. faults \in 0 .. MaxFaults
  BY ConfigAssumption DEF Init
<1>9. unlocked \in BOOLEAN /\ skewed \in BOOLEAN /\ misread \in [Procs -> BOOLEAN]
  BY Zenon DEF Init
<1> QED
  BY <1>2, <1>3, <1>4, <1>5, <1>6, <1>7, <1>8, <1>9, Zenon DEF TypeOK

LEMMA TypeStep == ASSUME TypeOK, [Next]_vars PROVE TypeOK'
<1>n. Nothing \in Values
  BY DEF Nothing, Values
<1>0. CASE UNCHANGED vars
  BY <1>0 DEF vars, TypeOK
<1>1. CASE Tear
  <2>1. file' \in Files /\ faults' \in 0 .. MaxFaults
    BY <1>1, ConfigAssumption DEF Tear, TypeOK, Files, Changed
  <2>2. unlocked' \in BOOLEAN
    BY <1>1, Zenon DEF Tear
  <2> QED
    BY <1>1, <2>1, <2>2 DEF Tear, TypeOK
<1>2. ASSUME NEW k \in Keys, HandEdit(k) PROVE TypeOK'
  <2>1. file' \in Files
    BY <1>2 DEF HandEdit, TypeOK, Files, Values, Changed
  <2>2. unlocked' \in BOOLEAN
    BY <1>2, Zenon DEF HandEdit
  <2> QED
    BY <1>2, <2>1, <2>2 DEF HandEdit, TypeOK
<1>3. ASSUME NEW p \in Procs, Crash(p) PROVE TypeOK'
  <2>1. job' \in [Writers -> Jobs]
    BY <1>3, <1>n DEF Crash, TypeOK, NoJob, Steps, Jobs, JobIs, Goes
  <2>2. /\ cache' \in [Procs -> Copies]
        /\ reading' \in [Procs -> Readings]
        /\ misread' \in [Procs -> BOOLEAN]
    BY <1>3, <1>n DEF Crash, TypeOK, NotReading, Copies, Readings, CacheIs, ReadingIs
  <2>3. /\ writeLock' \in [Procs -> Writers \cup {Free}] /\ fileLock' \in Writers \cup {Free}
        /\ faults' \in 0 .. MaxFaults
    BY <1>3, ConfigAssumption DEF Crash, TypeOK
  <2> QED
    BY <1>3, <2>1, <2>2, <2>3 DEF Crash, TypeOK
<1>4. ASSUME NEW p \in Procs, CfgFills(p) PROVE TypeOK'
  <2>1. file' \in Files
    BY <1>4, <1>n DEF CfgFills, TypeOK, Files, Changed
  <2>2. reading' \in [Procs -> Readings]
    BY <1>4, <2>1 DEF CfgFills, TypeOK, Files, Readings, ReadingIs
  <2> QED
    BY <1>4, <2>1, <2>2 DEF CfgFills, TypeOK
<1>5. ASSUME NEW p \in Procs, CfgParses(p) \/ CfgReadFails(p) PROVE TypeOK'
  <2>1. job' \in [Writers -> Jobs]
    BY <1>5 DEF CfgParses, CfgReadFails, Resume, TypeOK, Steps, Jobs, JobIs, Goes
  <2>2. cache' \in [Procs -> Copies]
    <3>1. reading[p].mtime \in Nat /\ Parsed(file) \in Values
      BY ParsedType DEF TypeOK, Readings
    <3>2. \/ cache' = cache \/ CacheIs(p, reading[p].mtime, Parsed(file))
          \/ CacheIs(p, reading[p].mtime, Nothing)
      BY <1>5, Zenon DEF CfgParses, CfgReadFails
    <3> QED
      BY <3>1, <3>2, <1>n, CopyType DEF TypeOK
  <2>5. misread' \in [Procs -> BOOLEAN]
    <3>1. \/ misread' = misread \/ misread' = [misread EXCEPT ![p] = FALSE]
          \/ misread' = [misread EXCEPT ![p] = TRUE]
      BY <1>5, Zenon DEF CfgParses, CfgReadFails
    <3> QED
      BY <3>1, Zenon DEF TypeOK
  <2>3. reading' \in [Procs -> Readings]
    <3>1. reading' = [reading EXCEPT ![p] = NotReading]
      BY <1>5, Zenon DEF CfgParses, CfgReadFails
    <3> QED
      BY <3>1 DEF TypeOK, NotReading, Readings
  <2>4. faults' \in 0 .. MaxFaults
    BY <1>5, ConfigAssumption DEF CfgParses, CfgReadFails, TypeOK
  <2> QED
    BY <1>5, <2>1, <2>2, <2>3, <2>4, <2>5 DEF CfgParses, CfgReadFails, TypeOK
<1>6. ASSUME NEW p \in Procs, Cfg(p) PROVE TypeOK'
  <2>1. CASE CfgCreates(p, Free)
    <3>1. file' \in Files
      BY <2>1 DEF CfgCreates, TypeOK, Files, Changed
    <3>2. reading' \in [Procs -> Readings]
      BY <2>1 DEF CfgCreates, TypeOK, Readings, ReadingIs
    <3> QED
      BY <1>6, <2>1, <3>1, <3>2 DEF Cfg, CfgCreates, TypeOK
  <2>2. CASE CfgStats(p, Free)
    <3>1. reading' \in [Procs -> Readings]
      BY <2>2 DEF CfgStats, TypeOK, Files, Readings, ReadingIs
    <3> QED
      BY <1>6, <2>2, <3>1 DEF Cfg, CfgStats, TypeOK
  <2> QED
    BY <1>6, <2>1, <2>2 DEF Cfg
<1>7. ASSUME NEW w \in Writers, TakeWriteLock(w) \/ TakeFileLock(w) \/ GoUnlocked(w) PROVE TypeOK'
  <2>1. w \in Procs \X Threads /\ w[1] \in Procs
    BY DEF Writers
  <2>2. CASE TakeWriteLock(w)
    <3>1. job' \in [Writers -> Jobs]
      BY <2>2 DEF TakeWriteLock, Goes, TypeOK, Steps, Jobs, JobIs
    <3> QED
      BY <2>1, <2>2, <3>1 DEF TakeWriteLock, TypeOK
  <2>3. CASE TakeFileLock(w)
    <3>1. job' \in [Writers -> Jobs]
      BY <2>3 DEF TakeFileLock, TypeOK, Steps, Jobs, JobIs
    <3> QED
      BY <2>3, <3>1 DEF TakeFileLock, TypeOK
  <2>4. CASE GoUnlocked(w)
    <3>1. job' \in [Writers -> Jobs]
      BY <2>4 DEF GoUnlocked, Goes, TypeOK, Steps, Jobs, JobIs
    <3>2. faults' \in 0 .. MaxFaults
      BY <2>4, ConfigAssumption DEF GoUnlocked, TypeOK
    <3>3. unlocked' \in BOOLEAN
      BY <2>4, Zenon DEF GoUnlocked
    <3> QED
      BY <2>4, <3>1, <3>2, <3>3 DEF GoUnlocked, TypeOK
  <2> QED
    BY <1>7, <2>2, <2>3, <2>4
<1>8. ASSUME NEW w \in Writers, ReadAndPatch(w) PROVE TypeOK'
  <2>1. Patched(w) \in Values
    <3>1. Snapshot(w) \in Values
      BY ParsedType DEF TypeOK, Snapshot
    <3> QED
      BY <3>1, BumpType DEF Patched
  <2>2. job' \in [Writers -> Jobs]
    BY <1>8, <2>1 DEF ReadAndPatch, TypeOK, Steps, Jobs, JobIs, Goes
  <2> QED
    BY <1>8, <2>2 DEF ReadAndPatch, TypeOK
<1>9. ASSUME NEW w \in Writers, SaveCopy(w) PROVE TypeOK'
  <2>1. job' \in [Writers -> Jobs]
    BY <1>9 DEF SaveCopy, Goes, TypeOK, Steps, Jobs, JobIs
  <2>2. baks' \in Seq(Values) /\ Len(baks') <= Retention
    <3>1. Parsed(file) \in Values /\ baks \in Seq(Values) /\ Len(baks) <= Retention
      BY ParsedType DEF TypeOK
    <3>2. /\ Append(baks, Parsed(file)) \in Seq(Values)
          /\ Len(Append(baks, Parsed(file))) <= Retention + 1
      BY <3>1, ConfigAssumption
    <3>3. /\ <<Parsed(file)>> \o baks \in Seq(Values)
          /\ Len(<<Parsed(file)>> \o baks) <= Retention + 1
      BY <3>1, ConfigAssumption
    <3>4. \/ baks' = baks \/ baks' = KeepNewest(Append(baks, Parsed(file)))
          \/ baks' = KeepNewest(<<Parsed(file)>> \o baks)
      BY <1>9 DEF SaveCopy
    <3> QED
      BY <3>1, <3>2, <3>3, <3>4, KeptType
  <2>3. faults' \in 0 .. MaxFaults /\ skewed' \in BOOLEAN
    <3>1. \/ faults' = faults /\ skewed' = skewed
          \/ faults < MaxFaults /\ faults' = faults + 1 /\ skewed' = TRUE
      BY <1>9, Zenon DEF SaveCopy
    <3>2. skewed' \in BOOLEAN
      BY <3>1, Zenon DEF TypeOK
    <3> QED
      BY <3>1, <3>2, ConfigAssumption DEF TypeOK
  <2> QED
    BY <1>9, <2>1, <2>2, <2>3 DEF SaveCopy, TypeOK
<1>10. ASSUME NEW w \in Writers, Refuse(w) \/ Replace(w) \/ SaveFails(w) PROVE TypeOK'
  <2>1. job' \in [Writers -> Jobs]
    BY <1>10 DEF Refuse, Replace, SaveFails, Goes, TypeOK, Steps, Jobs, JobIs
  <2>2. file' \in Files
    <3>1. file.mtime + 1 \in Nat /\ job[w].data \in Values
      BY DEF TypeOK, Files, Jobs
    <3>2. file' = file \/ file' = Changed("good", job[w].data, Free)
      BY <1>10 DEF Refuse, Replace, SaveFails
    <3> QED
      BY <3>1, <3>2 DEF TypeOK, Files, Changed
  <2>3. faults' \in 0 .. MaxFaults
    BY <1>10, ConfigAssumption DEF Refuse, Replace, SaveFails, TypeOK
  <2> QED
    BY <1>10, <2>1, <2>2, <2>3 DEF Refuse, Replace, SaveFails, TypeOK
<1>11. ASSUME NEW w \in Writers, Reload(w) PROVE TypeOK'
  <2>1. w[1] \in Procs
    BY DEF Writers
  <2>2. /\ cache' \in [Procs -> Copies]
        /\ reading' \in [Procs -> Readings]
    BY <1>11, <2>1 DEF Reload, TypeOK, Files, Copies, Readings, CacheIs, ReadingIs
  <2> QED
    BY <1>11, <2>2 DEF Reload, TypeOK
<1>12. ASSUME NEW w \in Writers, Release(w) PROVE TypeOK'
  <2>1. job' \in [Writers -> Jobs]
    BY <1>12, <1>n DEF Release, TypeOK, NoJob, Steps, Jobs, JobIs, Goes
  <2>2. writeLock' \in [Procs -> Writers \cup {Free}] /\ fileLock' \in Writers \cup {Free}
    BY <1>12 DEF Release, Released, TypeOK
  <2> QED
    BY <1>12, <2>1, <2>2 DEF Release, TypeOK
<1>13. ASSUME NEW w \in Writers, NEW k \in Keys, Call(w, k) PROVE TypeOK'
  <2>1. job' \in [Writers -> Jobs]
    BY <1>13, <1>n DEF Call, TypeOK, NoJob, Steps, Jobs, JobIs, Goes
  <2> QED
    BY <1>13, <2>1 DEF Call, TypeOK
<1> QED
  BY StepCases, <1>0, <1>1, <1>2, <1>3, <1>4, <1>5, <1>6, <1>7, <1>8, <1>9, <1>10, <1>11,
     <1>12, <1>13, Zenon

\* The variables keep their types and no more pre-images than BACKUP_RETENTION
\* are kept (config.py), for any number of processes and changes.
THEOREM TypeCorrect == Spec => []TypeOK
<1>1. Init => TypeOK
  BY TypeInit
<1>2. TypeOK /\ [Next]_vars => TypeOK'
  BY TypeStep
<1> QED
  BY <1>1, <1>2, PTL DEF Spec

-----------------------------------------------------------------------------
(* Locks. *)

\* A thread has the flock past _file_lock only, and the cfg that a reload calls
\* ends in that reload.
ReloadsOwn ==
  /\ \A w \in Writers : job[w].locked => job[w].at \notin {"idle", "lock", "flock"}
  /\ \A p \in Procs : reading[p].then # Free =>
       reading[p].then[1] = p /\ job[reading[p].then].at = "reload"

LockInv == LocksFollowSaves /\ ReloadsOwn

LEMMA LockInit == Init => LockInv
BY ConfigAssumption DEF Init, LockInv, LocksFollowSaves, ReloadsOwn, NoJob, NotReading, Writers

\* Where the moved thread stands, and that the others stay.
LEMMA JobMoved ==
  ASSUME TypeOK, NEW w \in Writers, NEW STATE step, NEW STATE k, NEW STATE data, NEW STATE locked,
         JobIs(w, step, k, data, locked)
  PROVE  /\ job'[w].at = step /\ job'[w].data = data /\ job'[w].locked = locked
         /\ \A v \in Writers : v # w => job'[v] = job[v]
<1> DEFINE entry == [at |-> step, key |-> k, data |-> data, locked |-> locked]
<1>1. job'[w] = entry /\ \A v \in Writers : v # w => job'[v] = job[v]
  BY DEF TypeOK, JobIs
<1>2. entry.at = step /\ entry.data = data /\ entry.locked = locked
  OBVIOUS
<1> QED
  BY <1>1, <1>2, Zenon

LEMMA JobGone ==
  ASSUME TypeOK, NEW w \in Writers, NEW step, Goes(w, step)
  PROVE  /\ job'[w].at = step /\ job'[w].locked = job[w].locked /\ job'[w].data = job[w].data
         /\ \A v \in Writers : v # w => job'[v] = job[v]
BY JobMoved, Zenon DEF Goes

\* A thread that moves on under its locks.
LEMMA LockMove ==
  ASSUME TypeOK, LockInv, NEW w \in Writers,
         job[w].at \notin {"idle", "lock", "reload"}, job'[w].at \notin {"idle", "lock"},
         job'[w].locked = job[w].locked, job'[w].at = "flock" => job[w].at = "flock",
         \A v \in Writers : v # w => job'[v] = job[v],
         UNCHANGED <<writeLock, fileLock, reading>>
  PROVE  LockInv'
<1>1. LocksFollowSaves'
  BY DEF LockInv, LocksFollowSaves
<1>2. \A v \in Writers : job'[v].locked => job'[v].at \notin {"idle", "lock", "flock"}
  BY DEF LockInv, ReloadsOwn
<1>3. ASSUME NEW p \in Procs, reading'[p].then # Free
      PROVE  reading'[p].then[1] = p /\ job'[reading'[p].then].at = "reload"
  <2>1. reading[p].then \in Writers
    BY <1>3 DEF TypeOK, Readings
  <2>2. reading[p].then[1] = p /\ job[reading[p].then].at = "reload"
    BY <1>3 DEF LockInv, ReloadsOwn
  <2> QED
    BY <2>1, <2>2
<1> QED
  BY <1>1, <1>2, <1>3 DEF LockInv, ReloadsOwn

LEMMA LockQuiet ==
  ASSUME LockInv, UNCHANGED <<job, writeLock, fileLock>>,
         \A p \in Procs : reading'[p].then \in {reading[p].then, Free}
  PROVE  LockInv'
BY DEF LockInv, LocksFollowSaves, ReloadsOwn

LEMMA LockStep == ASSUME TypeOK, LockInv, [Next]_vars PROVE LockInv'
<1>f. \A w \in Writers : w # Free /\ w \in Procs \X Threads /\ w[1] \in Procs
  BY ConfigAssumption DEF Writers
<1>0. CASE UNCHANGED vars
  BY <1>0, LockQuiet DEF vars
<1>1. ASSUME Tear \/ \E k \in Keys : HandEdit(k) PROVE LockInv'
  BY <1>1, LockQuiet DEF Tear, HandEdit
<1>3. ASSUME NEW p \in Procs, Crash(p) PROVE LockInv'
  <2>1. /\ \A q \in Procs : q # p => writeLock'[q] = writeLock[q] /\ reading'[q] = reading[q]
        /\ writeLock'[p] = Free /\ reading'[p].then = Free
        /\ fileLock' = IF fileLock # Free /\ fileLock[1] = p THEN Free ELSE fileLock
    BY <1>3 DEF Crash, TypeOK, NotReading
  <2>2. \A w \in Writers : IF w[1] = p THEN job'[w] = NoJob ELSE job'[w] = job[w]
    BY <1>3 DEF Crash
  <2>3. \A w \in Writers : writeLock'[w[1]] = w <=> job'[w].at \notin {"idle", "lock"}
    BY <2>1, <2>2, <1>f DEF LockInv, LocksFollowSaves, NoJob
  <2>4. \A w \in Writers : fileLock' = w <=> job'[w].locked
    BY <2>1, <2>2, <1>f DEF LockInv, LocksFollowSaves, NoJob
  <2>5. \A w \in Writers : job'[w].locked => job'[w].at \notin {"idle", "lock", "flock"}
    BY <2>2 DEF LockInv, ReloadsOwn, NoJob
  <2>6. \A q \in Procs : reading'[q].then # Free =>
          reading'[q].then[1] = q /\ job'[reading'[q].then].at = "reload"
    BY <2>1, <2>2 DEF LockInv, ReloadsOwn, TypeOK, Readings
  <2> QED
    BY <2>3, <2>4, <2>5, <2>6 DEF LockInv, LocksFollowSaves, ReloadsOwn
<1>4. ASSUME NEW p \in Procs, CfgFills(p) PROVE LockInv'
  BY <1>4, LockQuiet DEF CfgFills, ReadingIs, TypeOK
<1>5. ASSUME NEW p \in Procs, CfgParses(p) \/ CfgReadFails(p) PROVE LockInv'
  <2>1. /\ reading' = [reading EXCEPT ![p] = NotReading] /\ Resume(p)
        /\ UNCHANGED <<writeLock, fileLock>>
    BY <1>5, Zenon DEF CfgParses, CfgReadFails
  <2>2. \A q \in Procs : IF q = p THEN reading'[q].then = Free ELSE reading'[q] = reading[q]
    BY <2>1 DEF TypeOK, NotReading
  <2>3. CASE reading[p].then = Free
    BY <2>1, <2>2, <2>3, LockQuiet DEF Resume
  <2>4. CASE reading[p].then # Free
    <3> DEFINE w == reading[p].then
    <3>1. w \in Writers /\ w[1] = p /\ job[w].at = "reload"
      BY <2>4 DEF LockInv, ReloadsOwn, TypeOK, Readings
    <3>2. Goes(w, "release")
      BY <2>1, <2>4 DEF Resume
    <3> HIDE DEF w
    <3>3. /\ job'[w].at = "release" /\ job'[w].locked = job[w].locked
          /\ \A v \in Writers : v # w => job'[v] = job[v]
      BY <3>1, <3>2, JobGone
    <3>4. LocksFollowSaves'
      BY <2>1, <3>1, <3>3 DEF LockInv, LocksFollowSaves
    <3>5. \A v \in Writers : job'[v].locked => job'[v].at \notin {"idle", "lock", "flock"}
      BY <3>1, <3>3 DEF LockInv, ReloadsOwn
    <3>6. \A q \in Procs : reading'[q].then # Free =>
            reading'[q].then[1] = q /\ job'[reading'[q].then].at = "reload"
      BY <2>2, <3>1, <3>3 DEF LockInv, ReloadsOwn, TypeOK, Readings
    <3> QED
      BY <3>4, <3>5, <3>6 DEF LockInv, ReloadsOwn
  <2> QED
    BY <2>3, <2>4
<1>6. ASSUME NEW p \in Procs, Cfg(p) PROVE LockInv'
  <2>1. /\ UNCHANGED <<job, writeLock, fileLock>>
        /\ \E step, m : ReadingIs(p, step, m, Free)
    BY <1>6, Zenon DEF Cfg, CfgCreates, CfgStats
  <2>2. \A q \in Procs : reading'[q].then \in {reading[q].then, Free}
    BY <2>1 DEF ReadingIs, TypeOK
  <2> QED
    BY <2>1, <2>2, LockQuiet
<1>7. ASSUME NEW w \in Writers, TakeWriteLock(w) PROVE LockInv'
  <2>1. /\ job[w].at = "lock" /\ job'[w].at = "flock" /\ job'[w].locked = job[w].locked
        /\ \A v \in Writers : v # w => job'[v] = job[v]
    BY <1>7, JobGone DEF TakeWriteLock, At
  <2>2. /\ writeLock[w[1]] = Free /\ UNCHANGED <<fileLock, reading>> /\ writeLock'[w[1]] = w
        /\ \A q \in Procs : q # w[1] => writeLock'[q] = writeLock[q]
    BY <1>7, <1>f DEF TakeWriteLock, TypeOK
  <2>3. \A v \in Writers : writeLock'[v[1]] = v <=> job'[v].at \notin {"idle", "lock"}
    BY <2>1, <2>2, <1>f DEF LockInv, LocksFollowSaves
  <2>4. \A v \in Writers : fileLock' = v <=> job'[v].locked
    BY <2>1, <2>2 DEF LockInv, LocksFollowSaves
  <2>5. ReloadsOwn'
    <3>1. \A v \in Writers : job'[v].locked => job'[v].at \notin {"idle", "lock", "flock"}
      BY <2>1, <2>2 DEF LockInv, ReloadsOwn
    <3>2. job[w].at # "reload" /\ \A v \in Writers : v # w => job'[v] = job[v]
      BY <2>1
    <3>3. ASSUME NEW q \in Procs, reading[q].then # Free
          PROVE  reading[q].then[1] = q /\ job'[reading[q].then].at = "reload"
      <4>1. reading[q].then \in Writers
        BY <3>3 DEF TypeOK, Readings
      <4>2. reading[q].then[1] = q /\ job[reading[q].then].at = "reload"
        BY <3>3 DEF LockInv, ReloadsOwn
      <4> QED
        BY <3>2, <4>1, <4>2
    <3> QED
      BY <2>2, <3>1, <3>3 DEF ReloadsOwn
  <2> QED
    BY <2>3, <2>4, <2>5 DEF LockInv, LocksFollowSaves
<1>8. ASSUME NEW w \in Writers, TakeFileLock(w) PROVE LockInv'
  <2>0. job[w].at = "flock" /\ JobIs(w, "read", job[w].key, job[w].data, TRUE)
    BY <1>8, Zenon DEF TakeFileLock, At
  <2>1. /\ job[w].at = "flock" /\ job'[w].at = "read" /\ job'[w].locked
        /\ \A v \in Writers : v # w => job'[v] = job[v]
    BY <2>0, JobMoved
  <2>2. fileLock = Free /\ fileLock' = w /\ UNCHANGED <<writeLock, reading>>
    BY <1>8 DEF TakeFileLock
  <2>3. \A v \in Writers : writeLock'[v[1]] = v <=> job'[v].at \notin {"idle", "lock"}
    BY <2>1, <2>2 DEF LockInv, LocksFollowSaves
  <2>4. \A v \in Writers : fileLock' = v <=> job'[v].locked
    BY <2>1, <2>2, <1>f DEF LockInv, LocksFollowSaves
  <2>5. ReloadsOwn'
    <3>1. \A v \in Writers : job'[v].locked => job'[v].at \notin {"idle", "lock", "flock"}
      BY <2>1, <2>2 DEF LockInv, ReloadsOwn
    <3>2. job[w].at # "reload" /\ \A v \in Writers : v # w => job'[v] = job[v]
      BY <2>1
    <3>3. ASSUME NEW q \in Procs, reading[q].then # Free
          PROVE  reading[q].then[1] = q /\ job'[reading[q].then].at = "reload"
      <4>1. reading[q].then \in Writers
        BY <3>3 DEF TypeOK, Readings
      <4>2. reading[q].then[1] = q /\ job[reading[q].then].at = "reload"
        BY <3>3 DEF LockInv, ReloadsOwn
      <4> QED
        BY <3>2, <4>1, <4>2
    <3> QED
      BY <2>2, <3>1, <3>3 DEF ReloadsOwn
  <2> QED
    BY <2>3, <2>4, <2>5 DEF LockInv, LocksFollowSaves
<1>9. ASSUME NEW w \in Writers, GoUnlocked(w) PROVE LockInv'
  <2>1. job[w].at = "flock" /\ Goes(w, "read") /\ UNCHANGED <<writeLock, fileLock, reading>>
    BY <1>9, Zenon DEF GoUnlocked, At
  <2> QED
    BY <2>1, JobGone, LockMove
<1>10. ASSUME NEW w \in Writers, ReadAndPatch(w) PROVE LockInv'
  <2>1. /\ job[w].at = "read" /\ UNCHANGED <<writeLock, fileLock, reading>>
        /\ JobIs(w, "save", job[w].key, Patched(w), job[w].locked)
    BY <1>10, Zenon DEF ReadAndPatch, At
  <2>2. /\ job'[w].at = "save" /\ job'[w].locked = job[w].locked
        /\ \A v \in Writers : v # w => job'[v] = job[v]
    BY <2>1, JobMoved
  <2> QED
    BY <2>1, <2>2, LockMove
<1>11. ASSUME NEW w \in Writers, Refuse(w) \/ SaveCopy(w) \/ Replace(w) \/ SaveFails(w)
       PROVE  LockInv'
  <2>1. /\ job[w].at \in {"read", "save", "replace"} /\ UNCHANGED <<writeLock, fileLock, reading>>
        /\ Goes(w, "release") \/ Goes(w, "replace") \/ Goes(w, "reload")
    BY <1>11, Zenon DEF Refuse, SaveCopy, Replace, SaveFails, At
  <2> QED
    BY <2>1, JobGone, LockMove
<1>12. ASSUME NEW w \in Writers, Reload(w) PROVE LockInv'
  <2>1. /\ job[w].at = "reload" /\ ReadingIs(w[1], "parse", file.mtime, w)
        /\ UNCHANGED <<writeLock, fileLock, job>>
    BY <1>12, Zenon DEF Reload, At
  <2>2. /\ reading'[w[1]].then = w
        /\ \A q \in Procs : q # w[1] => reading'[q] = reading[q]
    BY <2>1, <1>f DEF ReadingIs, TypeOK
  <2> QED
    BY <2>1, <2>2 DEF LockInv, LocksFollowSaves, ReloadsOwn
<1>13. ASSUME NEW w \in Writers, Release(w) PROVE LockInv'
  <2>1. /\ job[w].at = "release" /\ job'[w] = NoJob
        /\ \A v \in Writers : v # w => job'[v] = job[v]
    BY <1>13 DEF Release, At, TypeOK
  <2>2. /\ writeLock'[w[1]] = Free /\ UNCHANGED reading
        /\ \A q \in Procs : q # w[1] => writeLock'[q] = writeLock[q]
        /\ fileLock' = IF job[w].locked THEN Free ELSE fileLock
    BY <1>13, <1>f DEF Release, Released, TypeOK
  <2>3. \A v \in Writers : writeLock'[v[1]] = v <=> job'[v].at \notin {"idle", "lock"}
    BY <2>1, <2>2, <1>f DEF LockInv, LocksFollowSaves, NoJob
  <2>4. \A v \in Writers : fileLock' = v <=> job'[v].locked
    BY <2>1, <2>2, <1>f DEF LockInv, LocksFollowSaves, NoJob
  <2>5. ReloadsOwn'
    <3>1. \A v \in Writers : job'[v].locked => job'[v].at \notin {"idle", "lock", "flock"}
      BY <2>1, <2>2 DEF LockInv, ReloadsOwn, NoJob
    <3>2. \A q \in Procs : reading[q].then # Free =>
            reading[q].then[1] = q /\ job'[reading[q].then].at = "reload"
      BY <2>1, <2>2 DEF LockInv, ReloadsOwn, TypeOK, Readings, NoJob
    <3> QED
      BY <2>2, <3>1, <3>2 DEF ReloadsOwn
  <2> QED
    BY <2>3, <2>4, <2>5 DEF LockInv, LocksFollowSaves
<1>14. ASSUME NEW w \in Writers, NEW k \in Keys, Call(w, k) PROVE LockInv'
  <2>1. /\ job[w].at = "idle" /\ JobIs(w, "lock", k, Nothing, FALSE)
        /\ UNCHANGED <<writeLock, fileLock, reading>>
    BY <1>14, Zenon DEF Call, At
  <2>2. /\ job'[w].at = "lock" /\ job'[w].locked = FALSE
        /\ \A v \in Writers : v # w => job'[v] = job[v]
    BY <2>1, JobMoved, Zenon
  <2>3. LocksFollowSaves'
    BY <2>1, <2>2 DEF LockInv, LocksFollowSaves, ReloadsOwn
  <2>4. ReloadsOwn'
    <3>1. \A v \in Writers : job'[v].locked => job'[v].at \notin {"idle", "lock", "flock"}
      BY <2>1, <2>2 DEF LockInv, ReloadsOwn
    <3>2. job[w].at # "reload" /\ \A v \in Writers : v # w => job'[v] = job[v]
      BY <2>1, <2>2
    <3>3. ASSUME NEW q \in Procs, reading[q].then # Free
          PROVE  reading[q].then[1] = q /\ job'[reading[q].then].at = "reload"
      <4>1. reading[q].then \in Writers
        BY <3>3 DEF TypeOK, Readings
      <4>2. reading[q].then[1] = q /\ job[reading[q].then].at = "reload"
        BY <3>3 DEF LockInv, ReloadsOwn
      <4> QED
        BY <3>2, <4>1, <4>2
    <3> QED
      BY <2>1, <3>1, <3>3 DEF ReloadsOwn
  <2> QED
    BY <2>3, <2>4 DEF LockInv
<1> QED
  BY StepCases, <1>0, <1>1, <1>3, <1>4, <1>5, <1>6, <1>7, <1>8, <1>9, <1>10, <1>11,
     <1>12, <1>13, <1>14, Zenon

\* No lock outlives its save, refused, failing or cut short, and no save goes on
\* without the locks it took (mutate, _file_lock), for any processes and threads.
THEOREM LocksFollowSavesEver == Spec => []LocksFollowSaves
<1>1. Init => TypeOK /\ LockInv
  BY TypeInit, LockInit
<1>2. TypeOK /\ LockInv /\ [Next]_vars => TypeOK' /\ LockInv'
  BY TypeStep, LockStep
<1>3. LockInv => LocksFollowSaves
  BY DEF LockInv
<1> QED
  BY <1>1, <1>2, <1>3, PTL DEF Spec

-----------------------------------------------------------------------------
(* Copies. *)

\* No copy and no reading bears an mtime the file does not have yet.
CopyInv ==
  /\ file.mtime >= 1
  /\ \A p \in Procs : cache[p].mtime <= file.mtime /\ reading[p].mtime <= file.mtime
  /\ \A p \in Procs : cache[p].mtime = file.mtime /\ ~misread[p] => cache[p].data = Parsed(file)

LEMMA CopyInit == Init => CopyInv
BY DEF Init, CopyInv, NotReading

\* A change of the file makes every copy old.
LEMMA FileMoves ==
  ASSUME TypeOK, CopyInv, NEW body, NEW vals, NEW by, file' = Changed(body, vals, by),
         UNCHANGED <<cache, misread>>,
         \A p \in Procs : reading'[p].mtime \in {reading[p].mtime, 0, file'.mtime}
  PROVE  CopyInv'
<1>1. file'.mtime = file.mtime + 1 /\ file.mtime \in Nat
  BY DEF Changed, TypeOK, Files
<1>2. \A p \in Procs : cache[p].mtime \in Nat /\ reading[p].mtime \in Nat
  BY DEF TypeOK, Copies, Readings
<1>3. \A p \in Procs : cache'[p].mtime < file'.mtime /\ reading'[p].mtime <= file'.mtime
  BY <1>1, <1>2 DEF CopyInv
<1>4. \A p \in Procs : cache'[p].mtime # file'.mtime /\ cache'[p].mtime <= file'.mtime
  BY <1>1, <1>2, <1>3
<1> QED
  BY <1>1, <1>3, <1>4 DEF CopyInv

LEMMA CopyQuiet ==
  ASSUME TypeOK, CopyInv, UNCHANGED <<file, cache, misread>>,
         \A p \in Procs : reading'[p].mtime \in {reading[p].mtime, 0, file.mtime}
  PROVE  CopyInv'
<1>1. file.mtime \in Nat
  BY DEF TypeOK, Files
<1>2. \A p \in Procs : reading'[p].mtime <= file.mtime
  BY <1>1 DEF CopyInv
<1> QED
  BY <1>2, Zenon DEF CopyInv

LEMMA CopyStep == ASSUME TypeOK, CopyInv, [Next]_vars PROVE CopyInv'
<1>0. CASE UNCHANGED vars
  BY <1>0, CopyQuiet DEF vars
<1>1. CASE Tear
  BY <1>1, FileMoves DEF Tear
<1>2. ASSUME NEW k \in Keys, HandEdit(k) PROVE CopyInv'
  BY <1>2, FileMoves DEF HandEdit
<1>3. ASSUME NEW p \in Procs, Crash(p) PROVE CopyInv'
  <2>1. /\ UNCHANGED file /\ CacheIs(p, 0, Nothing)
        /\ reading' = [reading EXCEPT ![p] = NotReading]
        /\ misread' = [misread EXCEPT ![p] = FALSE]
    BY <1>3, Zenon DEF Crash
  <2>2. /\ \A q \in Procs : q # p => cache'[q] = cache[q] /\ reading'[q] = reading[q]
        /\ cache'[p].mtime = 0 /\ reading'[p].mtime = 0
    BY <2>1 DEF CacheIs, NotReading, TypeOK
  <2>3. \A q \in Procs : q # p => misread'[q] = misread[q]
    BY <2>1, Zenon DEF TypeOK
  <2>4. file.mtime \in Nat
    BY DEF TypeOK, Files
  <2>5. \A q \in Procs : cache'[q].mtime <= file.mtime /\ reading'[q].mtime <= file.mtime
    BY <2>2, <2>4 DEF CopyInv
  <2>6. ASSUME NEW q \in Procs, cache'[q].mtime = file.mtime, ~misread'[q]
        PROVE  cache'[q].data = Parsed(file)
    <3>1. q # p
      BY <2>2, <2>4, <2>6 DEF CopyInv
    <3> QED
      BY <3>1, <2>2, <2>3, <2>6, Zenon DEF CopyInv
  <2> QED
    BY <2>1, <2>5, <2>6, Zenon DEF CopyInv
<1>4. ASSUME NEW p \in Procs, CfgFills(p) PROVE CopyInv'
  <2>1. /\ UNCHANGED <<cache, misread>> /\ ReadingIs(p, "parse", file'.mtime, reading[p].then)
        /\ file' = file \/ file' = Changed("good", Nothing, Free)
    BY <1>4 DEF CfgFills
  <2>2. \A q \in Procs : reading'[q].mtime \in {reading[q].mtime, 0, file'.mtime}
    BY <2>1 DEF ReadingIs, TypeOK
  <2> QED
    BY <2>1, <2>2, FileMoves, CopyQuiet
<1>5. ASSUME NEW p \in Procs, CfgParses(p) \/ CfgReadFails(p) PROVE CopyInv'
  <2>1. UNCHANGED file /\ reading' = [reading EXCEPT ![p] = NotReading]
    BY <1>5, Zenon DEF CfgParses, CfgReadFails
  <2>2. \A q \in Procs : reading'[q].mtime \in {reading[q].mtime, 0}
    BY <2>1 DEF NotReading, TypeOK
  <2>3. CASE UNCHANGED <<cache, misread>>
    BY <2>1, <2>2, <2>3, CopyQuiet
  <2>4. ASSUME NEW data, CacheIs(p, reading[p].mtime, data),
               \A q \in Procs : q # p => (misread'[q] <=> misread[q]),
               misread'[p] \/ data = Parsed(file)
        PROVE  CopyInv'
    <3>1. \A q \in Procs : q # p => cache'[q] = cache[q]
      BY <2>4 DEF CacheIs, TypeOK
    <3>2. cache'[p].mtime = reading[p].mtime /\ cache'[p].data = data
      BY <2>4 DEF CacheIs, TypeOK
    <3>3. \A q \in Procs : cache'[q].mtime <= file.mtime
      BY <3>1, <3>2 DEF CopyInv
    <3>4. \A q \in Procs : reading'[q].mtime <= file.mtime
      BY <2>2 DEF CopyInv, TypeOK, Files
    <3>5. ASSUME NEW q \in Procs, cache'[q].mtime = file.mtime, ~misread'[q]
          PROVE  cache'[q].data = Parsed(file)
      <4>1. CASE q = p
        BY <4>1, <2>4, <3>2, <3>5, Zenon
      <4>2. CASE q # p
        BY <4>2, <2>4, <3>1, <3>5, Zenon DEF CopyInv
      <4> QED
        BY <4>1, <4>2
    <3> QED
      BY <2>1, <3>3, <3>4, <3>5, Zenon DEF CopyInv
  <2>5. CASE CacheIs(p, reading[p].mtime, Parsed(file)) /\ misread' = [misread EXCEPT ![p] = FALSE]
    <3>1. \A q \in Procs : q # p => (misread'[q] <=> misread[q])
      BY <2>5, Zenon DEF TypeOK
    <3> QED
      BY <2>4, <2>5, <3>1, Zenon
  <2>6. CASE CacheIs(p, reading[p].mtime, Nothing) /\ misread' = [misread EXCEPT ![p] = TRUE]
    <3>1. misread'[p] /\ \A q \in Procs : q # p => (misread'[q] <=> misread[q])
      BY <2>6, Zenon DEF TypeOK
    <3> QED
      BY <2>4, <2>6, <3>1, Zenon
  <2> QED
    BY <1>5, <2>3, <2>5, <2>6, Zenon DEF CfgParses, CfgReadFails
<1>6. ASSUME NEW p \in Procs, Cfg(p) PROVE CopyInv'
  <2>1. CASE CfgCreates(p, Free)
    <3>1. \A q \in Procs : reading'[q].mtime \in {reading[q].mtime, 0}
      BY <2>1 DEF CfgCreates, ReadingIs, TypeOK
    <3> QED
      BY <2>1, <3>1, FileMoves DEF CfgCreates
  <2>2. CASE CfgStats(p, Free)
    <3>1. \A q \in Procs : reading'[q].mtime \in {reading[q].mtime, file.mtime}
      BY <2>2 DEF CfgStats, ReadingIs, TypeOK
    <3> QED
      BY <2>2, <3>1, CopyQuiet DEF CfgStats
  <2> QED
    BY <1>6, <2>1, <2>2 DEF Cfg
<1>7. ASSUME NEW w \in Writers, Replace(w) PROVE CopyInv'
  BY <1>7, FileMoves DEF Replace
<1>8. ASSUME NEW w \in Writers, Reload(w) PROVE CopyInv'
  <2>1. w[1] \in Procs
    BY DEF Writers
  <2>2. /\ UNCHANGED <<file, misread>> /\ CacheIs(w[1], 0, cache[w[1]].data)
        /\ ReadingIs(w[1], "parse", file.mtime, w)
    BY <1>8, Zenon DEF Reload
  <2>3. /\ \A q \in Procs : q # w[1] => cache'[q] = cache[q]
        /\ cache'[w[1]].mtime = 0
        /\ \A q \in Procs : reading'[q].mtime \in {reading[q].mtime, file.mtime}
    BY <2>1, <2>2 DEF CacheIs, ReadingIs, TypeOK
  <2>4. file.mtime \in Nat
    BY DEF TypeOK, Files
  <2>5. \A q \in Procs : cache'[q].mtime <= file.mtime /\ reading'[q].mtime <= file.mtime
    BY <2>3, <2>4 DEF CopyInv
  <2>6. \A q \in Procs : cache'[q].mtime = file.mtime => cache'[q] = cache[q]
    BY <2>3, <2>4 DEF CopyInv
  <2> QED
    BY <2>2, <2>5, <2>6, Zenon DEF CopyInv
<1>9. ASSUME NEW w \in Writers,
             \/ TakeWriteLock(w) \/ TakeFileLock(w) \/ GoUnlocked(w) \/ ReadAndPatch(w)
             \/ Refuse(w) \/ SaveCopy(w) \/ SaveFails(w) \/ Release(w)
             \/ \E k \in Keys : Call(w, k)
      PROVE  CopyInv'
  <2>1. UNCHANGED <<file, cache, misread, reading>>
    BY <1>9, Zenon DEF TakeWriteLock, TakeFileLock, GoUnlocked, ReadAndPatch, Refuse, SaveCopy,
       SaveFails, Release, Call
  <2> QED
    BY <2>1, CopyQuiet
<1> QED
  BY StepCases, <1>0, <1>1, <1>2, <1>3, <1>4, <1>5, <1>6, <1>7, <1>8, <1>9, Zenon

\* A copy that bears the mtime of the file says what the file says, however the
\* readings and replacements of several processes interleave (cfg, reload_cfg).
THEOREM CacheTruthfulEver == Spec => []CacheTruthful
<1>1. Init => TypeOK /\ CopyInv
  BY TypeInit, CopyInit
<1>2. TypeOK /\ CopyInv /\ [Next]_vars => TypeOK' /\ CopyInv'
  BY TypeStep, CopyStep
<1>3. CopyInv => CacheTruthful
  BY Zenon DEF CopyInv, CacheTruthful
<1> QED
  BY <1>1, <1>2, <1>3, PTL DEF Spec

-----------------------------------------------------------------------------
(* What is stored. *)

\* A file the bootstrap holds open is empty yet.
Bootstrapped == file.by # Free => file.body = "empty"

\* Between reading and replacing a writer has the flock,
Guarded == \A w \in Writers : job[w].at \in {"read", "save", "replace"} => job[w].locked

\* what it is to write is no older than the file,
Fresh ==
  \A w \in Writers : job[w].at \in {"save", "replace"} =>
    \A k \in Keys : job[w].data[k] >= Parsed(file)[k]

\* and the newest pre-image is what it is about to replace.
Backed ==
  \A w \in Writers : job[w].at = "replace" /\ Parsed(file) # Nothing =>
    baks # <<>> /\ baks[Len(baks)] = Parsed(file)

SaveInv ==
  /\ Bootstrapped
  /\ ~unlocked => Guarded /\ Fresh
  /\ ~unlocked /\ ~skewed => Backed

LEMMA SaveInit == Init => SaveInv
BY DEF Init, SaveInv, Bootstrapped, Guarded, Fresh, Backed, NoJob

\* Nobody else is past the flock with a writer that has it.
LEMMA Alone ==
  ASSUME LockInv, Guarded, NEW v \in Writers, NEW w \in Writers,
         job[v].at \in {"read", "save", "replace"}, job[w].at \in {"read", "save", "replace"}
  PROVE  v = w
BY DEF LockInv, LocksFollowSaves, Guarded

\* A step of who is elsewhere, or who gives up.
LEMMA SaveQuiet ==
  ASSUME SaveInv, UNCHANGED <<baks, unlocked, skewed>>, Parsed(file)' = Parsed(file), Bootstrapped',
         \A w \in Writers :
           job'[w].at \in {"read", "save", "replace"} => job'[w] = job[w]
  PROVE  SaveInv'
<1>1. Guarded => Guarded'
  BY Zenon DEF Guarded
<1>2. Fresh => Fresh'
  BY Zenon DEF Fresh
<1>3. Backed => Backed'
  BY Zenon DEF Backed
<1> QED
  BY <1>1, <1>2, <1>3, Zenon DEF SaveInv

LEMMA SaveStep == ASSUME TypeOK, LockInv, SaveInv, [Next]_vars PROVE SaveInv'
<1>0. CASE UNCHANGED vars
  BY <1>0, SaveQuiet DEF vars, Parsed, SaveInv, Bootstrapped
<1>1. ASSUME Tear \/ \E k \in Keys : HandEdit(k) PROVE SaveInv'
  <2>1. UNCHANGED <<job, skewed, baks>> /\ unlocked' = (unlocked \/ Intrudes)
    BY <1>1, Zenon DEF Tear, HandEdit
  <2>2. Bootstrapped'
    BY <1>1 DEF Tear, HandEdit, SaveInv, Bootstrapped, Changed
  <2>3. ~unlocked' => \A w \in Writers : job[w].at \notin {"save", "replace"}
    BY <2>1, Zenon DEF Intrudes
  <2>4. Guarded => Guarded'
    BY <2>1 DEF Guarded
  <2>5. ~unlocked' => Fresh' /\ Backed'
    BY <2>1, <2>3 DEF Fresh, Backed
  <2> QED
    BY <2>1, <2>2, <2>4, <2>5, Zenon DEF SaveInv
<1>3. ASSUME NEW p \in Procs, Crash(p) PROVE SaveInv'
  <2>1. UNCHANGED <<file, baks, unlocked, skewed>>
    BY <1>3, Zenon DEF Crash
  <2>2. \A w \in Writers : job'[w] = NoJob \/ job'[w] = job[w]
    BY <1>3 DEF Crash
  <2>3. \A w \in Writers : job'[w].at \in {"read", "save", "replace"} => job'[w] = job[w]
    BY <2>2 DEF NoJob
  <2> QED
    BY <2>1, <2>3, SaveQuiet DEF Parsed, SaveInv, Bootstrapped
<1>4. ASSUME NEW p \in Procs, CfgFills(p) PROVE SaveInv'
  <2>1. UNCHANGED <<job, baks, unlocked, skewed>>
    BY <1>4, Zenon DEF CfgFills
  <2>2. CASE FillsOwn(p)
    <3>1. file.body = "empty"
      BY <2>2, ConfigAssumption DEF FillsOwn, SaveInv, Bootstrapped
    <3>2. file' = Changed("good", Nothing, Free)
      BY <1>4, <2>2 DEF CfgFills
    <3>3. Parsed(file)' = Parsed(file) /\ Bootstrapped'
      BY <3>1, <3>2 DEF Parsed, Changed, Bootstrapped
    <3> QED
      BY <2>1, <3>3, SaveQuiet
  <2>3. CASE ~FillsOwn(p)
    <3>1. UNCHANGED file
      BY <1>4, <2>3 DEF CfgFills
    <3> QED
      BY <2>1, <3>1, SaveQuiet DEF Parsed, SaveInv, Bootstrapped
  <2> QED
    BY <2>2, <2>3
<1>5. ASSUME NEW p \in Procs, CfgParses(p) \/ CfgReadFails(p) PROVE SaveInv'
  <2>1. UNCHANGED <<file, baks, unlocked, skewed>> /\ Resume(p)
    BY <1>5, Zenon DEF CfgParses, CfgReadFails
  <2>2. \A w \in Writers : job'[w].at \in {"read", "save", "replace"} => job'[w] = job[w]
    <3>1. CASE reading[p].then = Free
      BY <2>1, <3>1 DEF Resume
    <3>2. CASE reading[p].then # Free
      <4>1. reading[p].then \in Writers
        BY <3>2 DEF TypeOK, Readings
      <4>2. Goes(reading[p].then, "release")
        BY <2>1, <3>2 DEF Resume
      <4>3. /\ job'[reading[p].then].at = "release"
            /\ \A v \in Writers : v # reading[p].then => job'[v] = job[v]
        BY <4>1, <4>2 DEF Goes, JobIs, TypeOK
      <4> QED
        BY <4>3
    <3> QED
      BY <3>1, <3>2
  <2> QED
    BY <2>1, <2>2, SaveQuiet DEF Parsed, SaveInv, Bootstrapped
<1>6. ASSUME NEW p \in Procs, Cfg(p) PROVE SaveInv'
  <2>1. UNCHANGED <<job, baks, unlocked, skewed>>
    BY <1>6, Zenon DEF Cfg, CfgCreates, CfgStats
  <2>2. Parsed(file)' = Parsed(file) /\ Bootstrapped'
    BY <1>6 DEF Cfg, CfgCreates, CfgStats, Parsed, Changed, SaveInv, Bootstrapped
  <2> QED
    BY <2>1, <2>2, SaveQuiet
<1>7. ASSUME NEW w \in Writers,
             \/ TakeWriteLock(w) \/ Refuse(w) \/ SaveFails(w) \/ Reload(w) \/ Release(w)
             \/ \E k \in Keys : Call(w, k)
      PROVE  SaveInv'
  <2>1. UNCHANGED <<file, baks, unlocked, skewed>>
    BY <1>7, Zenon DEF TakeWriteLock, Refuse, SaveFails, Reload, Release, Call
  <2>2. \/ UNCHANGED job \/ Goes(w, "flock") \/ Goes(w, "release")
        \/ job' = [job EXCEPT ![w] = NoJob]
        \/ \E k \in Keys : JobIs(w, "lock", k, Nothing, FALSE)
    BY <1>7, Zenon DEF TakeWriteLock, Refuse, SaveFails, Reload, Release, Call
  <2>3. \A v \in Writers : job'[v] = job[v] \/ job'[v].at \notin {"read", "save", "replace"}
    BY <2>2 DEF Goes, JobIs, NoJob, TypeOK
  <2> QED
    BY <2>1, <2>3, SaveQuiet DEF Parsed, SaveInv, Bootstrapped
<1>8. ASSUME NEW w \in Writers, TakeFileLock(w) PROVE SaveInv'
  <2>1. UNCHANGED <<file, baks, unlocked, skewed>> /\ JobIs(w, "read", job[w].key, job[w].data, TRUE)
    BY <1>8, Zenon DEF TakeFileLock
  <2>2. /\ job'[w].at = "read" /\ job'[w].locked
        /\ \A v \in Writers : v # w => job'[v] = job[v]
    BY <2>1, JobMoved
  <2>3. Guarded => Guarded'
    BY <2>2 DEF Guarded
  <2>4. (Fresh => Fresh') /\ (Backed => Backed') /\ Bootstrapped'
    BY <2>1, <2>2 DEF Fresh, Backed, SaveInv, Bootstrapped, Parsed
  <2> QED
    BY <2>1, <2>3, <2>4, Zenon DEF SaveInv
<1>9. ASSUME NEW w \in Writers, GoUnlocked(w) PROVE SaveInv'
  <2>1. unlocked' /\ UNCHANGED file
    BY <1>9, Zenon DEF GoUnlocked
  <2>2. Bootstrapped'
    BY <2>1 DEF SaveInv, Bootstrapped
  <2> QED
    BY <2>1, <2>2, Zenon DEF SaveInv
<1>10. ASSUME NEW w \in Writers, ReadAndPatch(w) PROVE SaveInv'
  <2>1. /\ job[w].at = "read" /\ UNCHANGED <<file, baks, unlocked, skewed>>
        /\ JobIs(w, "save", job[w].key, Patched(w), job[w].locked)
    BY <1>10, Zenon DEF ReadAndPatch, At
  <2>2. /\ job'[w].at = "save" /\ job'[w].data = Patched(w) /\ job'[w].locked = job[w].locked
        /\ \A v \in Writers : v # w => job'[v] = job[v]
    BY <2>1, JobMoved
  <2>3. \A k \in Keys : Patched(w)[k] >= Parsed(file)[k]
    <3>1. Parsed(file) \in [Keys -> Nat]
      BY ParsedType DEF TypeOK, Values
    <3> QED
      BY <3>1 DEF Patched, Snapshot
  <2>4. Guarded => Guarded'
    BY <2>1, <2>2, Zenon DEF Guarded
  <2>5. job'[w].at = "save" /\ job'[w].data = Patched(w)
    BY <2>2
  <2>6. \A v \in Writers : v # w => job'[v] = job[v]
    BY <2>2
  <2>7. (Fresh => Fresh') /\ (Backed => Backed') /\ Bootstrapped'
    BY <2>1, <2>3, <2>5, <2>6 DEF Fresh, Backed, SaveInv, Bootstrapped, Parsed
  <2> QED
    BY <2>1, <2>4, <2>7, Zenon DEF SaveInv
<1>11. ASSUME NEW w \in Writers, SaveCopy(w) PROVE SaveInv'
  <2>1. job[w].at = "save" /\ Goes(w, "replace") /\ UNCHANGED <<file, unlocked>>
    BY <1>11, Zenon DEF SaveCopy, At
  <2>2. /\ job'[w].at = "replace" /\ job'[w].data = job[w].data /\ job'[w].locked = job[w].locked
        /\ \A v \in Writers : v # w => job'[v] = job[v]
    BY <2>1, JobGone
  <2>3. Guarded => Guarded'
    BY <2>1, <2>2, Zenon DEF Guarded
  <2>4. job'[w].at = "replace" /\ job'[w].data = job[w].data
    BY <2>2
  <2>5. \A v \in Writers : v # w => job'[v] = job[v]
    BY <2>2
  <2>6. (Fresh => Fresh') /\ Bootstrapped'
    BY <2>1, <2>4, <2>5 DEF Fresh, SaveInv, Bootstrapped, Parsed
  <2>7. ~skewed' => ~skewed /\ (file.body = "none" \/ baks' = KeepNewest(Append(baks, Parsed(file))))
    BY <1>11, Zenon DEF SaveCopy
  <2>8. ASSUME Guarded, file.body = "none" \/ baks' = KeepNewest(Append(baks, Parsed(file)))
        PROVE  Backed'
    <3>1. \A v \in Writers : job'[v].at = "replace" => v = w
      BY <2>1, <2>5, <2>8, Alone
    <3>2. Parsed(file)' # Nothing => baks' = KeepNewest(Append(baks, Parsed(file)))
      BY <2>1, <2>8 DEF Parsed
    <3>3. Parsed(file) \in Values /\ baks \in Seq(Values) /\ Len(baks) <= Retention
      BY ParsedType DEF TypeOK
    <3> DEFINE longer == Append(baks, Parsed(file))
    <3>4. /\ longer \in Seq(Values) /\ Len(longer) > 0 /\ Len(longer) <= Retention + 1
          /\ longer[Len(longer)] = Parsed(file)
      BY <3>3, ConfigAssumption
    <3>5. KeepNewest(longer) # <<>> /\ KeepNewest(longer)[Len(KeepNewest(longer))] = Parsed(file)
      <4> HIDE DEF longer
      <4> QED
        BY <3>4, KeptType
    <3>6. Parsed(file)' = Parsed(file)
      BY <2>1 DEF Parsed
    <3> QED
      BY <3>2, <3>5, <3>6, Zenon DEF Backed
  <2> QED
    BY <2>1, <2>3, <2>6, <2>7, <2>8, Zenon DEF SaveInv
<1>12. ASSUME NEW w \in Writers, Replace(w) PROVE SaveInv'
  <2>1. /\ job[w].at = "replace" /\ Goes(w, "reload") /\ UNCHANGED <<baks, unlocked, skewed>>
        /\ file' = Changed("good", job[w].data, Free)
    BY <1>12, Zenon DEF Replace, At
  <2>2. job'[w].at = "reload" /\ \A v \in Writers : v # w => job'[v] = job[v]
    BY <2>1, JobGone
  <2>3. Guarded => Guarded'
    BY <2>2 DEF Guarded
  <2>4. ASSUME Guarded, NEW v \in Writers, job'[v].at \in {"read", "save", "replace"} PROVE FALSE
    BY <2>1, <2>2, <2>4, Alone
  <2>5. Guarded => Fresh' /\ Backed'
    BY <2>4 DEF Fresh, Backed
  <2>6. Bootstrapped'
    BY <2>1 DEF Bootstrapped, Changed
  <2> QED
    BY <2>1, <2>3, <2>5, <2>6, Zenon DEF SaveInv
<1> QED
  BY StepCases, <1>0, <1>1, <1>3, <1>4, <1>5, <1>6, <1>7, <1>8, <1>9, <1>10, <1>11, <1>12, Zenon

LEMMA Surviving ==
  ASSUME TypeOK, SaveInv, [Next]_vars, ~unlocked', file.body = "good", file'.body = "good",
         NEW k \in Keys
  PROVE  file'.vals[k] >= file.vals[k]
<1>t. file.vals[k] \in Nat
  BY DEF TypeOK, Files, Values
<1>0. CASE UNCHANGED file
  BY <1>0, <1>t
<1>1. ASSUME NEW i \in Keys, HandEdit(i) PROVE file'.vals[k] >= file.vals[k]
  BY <1>1, <1>t DEF HandEdit, Changed, TypeOK, Files, Values
<1>2. CASE Tear
  BY <1>2 DEF Tear, Changed
<1>3. ASSUME NEW p \in Procs, CfgFills(p) PROVE file'.vals[k] >= file.vals[k]
  <2>1. ~FillsOwn(p)
    BY ConfigAssumption DEF FillsOwn, SaveInv, Bootstrapped
  <2> QED
    BY <1>3, <2>1, <1>t DEF CfgFills
<1>4. ASSUME NEW p \in Procs, Cfg(p) PROVE file'.vals[k] >= file.vals[k]
  BY <1>4, <1>t DEF Cfg, CfgCreates, CfgStats
<1>5. ASSUME NEW w \in Writers, Replace(w) PROVE file'.vals[k] >= file.vals[k]
  <2>1. job[w].at = "replace" /\ file' = Changed("good", job[w].data, Free) /\ unlocked' = unlocked
    BY <1>5, Zenon DEF Replace, At
  <2>2. Fresh
    BY <2>1, Zenon DEF SaveInv
  <2>3. job[w].data[k] >= Parsed(file)[k] /\ Parsed(file)[k] = file.vals[k]
    BY <2>1, <2>2 DEF Fresh, Parsed
  <2>4. file'.vals = job[w].data
    BY <2>1 DEF Changed
  <2> QED
    BY <2>3, <2>4
<1>6. ASSUME NEW p \in Procs, Crash(p) \/ CfgParses(p) \/ CfgReadFails(p) PROVE UNCHANGED file
  BY <1>6, Zenon DEF Crash, CfgParses, CfgReadFails
<1>7. ASSUME NEW w \in Writers,
             \/ TakeWriteLock(w) \/ TakeFileLock(w) \/ GoUnlocked(w) \/ ReadAndPatch(w)
             \/ Refuse(w) \/ SaveCopy(w) \/ SaveFails(w) \/ Reload(w) \/ Release(w)
             \/ \E i \in Keys : Call(w, i)
      PROVE  UNCHANGED file
  BY <1>7, Zenon DEF TakeWriteLock, TakeFileLock, GoUnlocked, ReadAndPatch, Refuse, SaveCopy,
     SaveFails, Reload, Release, Call
<1>8. CASE UNCHANGED vars
  BY <1>8, <1>0 DEF vars
<1> QED
  BY StepCases, <1>0, <1>1, <1>2, <1>3, <1>4, <1>5, <1>6, <1>7, <1>8, Zenon

\* Nothing stored is undone by a second process that read before and writes after,
\* by a thread with an old copy, or by the bootstrap of a process that found no
\* file, unless somebody writes past the flock (mutate, _bootstrap).
THEOREM SavesSurviveEver == Spec => SavesSurvive
<1>1. Init => TypeOK /\ LockInv /\ SaveInv
  BY TypeInit, LockInit, SaveInit
<1>2. TypeOK /\ LockInv /\ SaveInv /\ [Next]_vars => TypeOK' /\ LockInv' /\ SaveInv'
  BY TypeStep, LockStep, SaveStep
<1>3. TypeOK /\ SaveInv /\ [Next]_vars =>
        [~unlocked' /\ file.body = "good" /\ file'.body = "good" =>
           \A k \in Keys : file'.vals[k] >= file.vals[k]]_vars
  BY Surviving, Zenon
<1> QED
  BY <1>1, <1>2, <1>3, PTL DEF Spec, SavesSurvive

\* What a save replaces is the newest pre-image at that moment, as long as nobody
\* writes past the flock and the clock is not set back (_save_full_locked).
THEOREM PreImageKeptEver == Spec => PreImageKept
<1>1. Init => TypeOK /\ LockInv /\ SaveInv
  BY TypeInit, LockInit, SaveInit
<1>2. TypeOK /\ LockInv /\ SaveInv /\ [Next]_vars => TypeOK' /\ LockInv' /\ SaveInv'
  BY TypeStep, LockStep, SaveStep
<1>3. SaveInv =>
        \A w \in Writers :
          /\ At(w, "replace") /\ job'[w].at = "reload"
          /\ ~unlocked /\ ~skewed /\ Parsed(file) # Nothing
          => baks # <<>> /\ baks[Len(baks)] = Parsed(file)
  BY Zenon DEF SaveInv, Backed, At
<1> QED
  BY <1>1, <1>2, <1>3, PTL DEF Spec, PreImageKept

=============================================================================
