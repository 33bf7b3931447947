------------------------- MODULE StackBackupProofs -------------------------
(***************************************************************************)
(* Theorems about StackBackup, for any stacks, retention and bounds: its   *)
(* types for any number of panel processes, and that no stack is forgotten *)
(* when there is one.                                                      *)
(***************************************************************************)
EXTENDS StackBackup, FiniteSetTheorems, TLAPS

\* A step is one of these.
LEMMA StepCases ==
  ASSUME [Next]_vars
  PROVE  \/ UNCHANGED vars \/ ClockTicks \/ ClockBack
         \/ \E s \in Stacks : HandStop(s) \/ HandStart(s)
         \/ \E p \in Procs : Boot(p) \/ Crash(p) \/ Scan(p)
         \/ \E p \in Procs, s \in Stacks :
              \/ RecoverStart(p, s) \/ RecoverUnlink(p, s)
              \/ Begin(p, s) \/ Mark(p, s) \/ Stop(p, s) \/ Export(p, s) \/ ExportFails(p, s)
              \/ Tar(p, s) \/ Start(p, s) \/ Tidy(p, s) \/ Prune(p, s)
<1>1. ASSUME NEW p \in Procs, RecoveryStep(p)
      PROVE  Scan(p) \/ \E s \in Stacks : RecoverStart(p, s) \/ RecoverUnlink(p, s)
  BY <1>1, Zenon DEF RecoveryStep
<1>2. ASSUME NEW p \in Procs, NEW s \in Stacks, JobStep(p, s)
      PROVE  \/ Mark(p, s) \/ Stop(p, s) \/ Export(p, s) \/ ExportFails(p, s)
             \/ Tar(p, s) \/ Start(p, s) \/ Tidy(p, s) \/ Prune(p, s)
  BY <1>2, Zenon DEF JobStep
<1> QED
  BY <1>1, <1>2, Zenon DEF Next

-----------------------------------------------------------------------------
(* Types. *)

LEMMA TypeInit == Init => TypeOK
<1> SUFFICES ASSUME Init PROVE TypeOK
  OBVIOUS
<1>1. NoJob \in Jobs /\ NoRecovery \in Recoveries
  BY DEF NoJob, Jobs, JobPoints, NoRecovery, Recoveries, RecoveryPoints
<1>2. [crash |-> 0, lost |-> 0, back |-> 0] \in Budgets /\ 0 \in 0 .. MaxClock
  BY BackupAssumption DEF Budgets
<1> QED
  BY <1>1, <1>2 DEF Init, TypeOK

\* The job table keeps its type when one entry moves.
LEMMA JobMoves ==
  ASSUME TypeOK, NEW p \in Procs, NEW s \in Stacks, NEW point \in JobPoints,
         NEW dest \in Names \cup {None}, JobIs(p, s, point, dest)
  PROVE  job' \in [Procs \X Stacks -> Jobs]
BY DEF TypeOK, JobIs, Jobs

LEMMA JobGoes ==
  ASSUME TypeOK, NEW p \in Procs, NEW s \in Stacks, NEW point \in JobPoints, JobGoto(p, s, point)
  PROVE  job' \in [Procs \X Stacks -> Jobs]
<1>1. job[<<p, s>>].dest \in Names \cup {None}
  BY DEF TypeOK, Jobs
<1> QED
  BY <1>1, JobMoves DEF JobGoto

LEMMA RecoveryMoves ==
  ASSUME TypeOK, NEW p \in Procs, NEW point \in RecoveryPoints, NEW todo \in SUBSET Stacks,
         NEW s \in Stacks \cup {None}, NEW told \in BOOLEAN, RecoveryIs(p, point, todo, s, told)
  PROVE  recovery' \in [Procs -> Recoveries]
BY DEF TypeOK, RecoveryIs, Recoveries

LEMMA NextMarkerMoves ==
  ASSUME TypeOK, NEW p \in Procs, NEW todo \in SUBSET Stacks, NextMarker(p, todo)
  PROVE  recovery' \in [Procs -> Recoveries]
<1>1. (IF todo = {} THEN "off" ELSE "start") \in RecoveryPoints
  BY DEF RecoveryPoints
<1> QED
  BY <1>1, RecoveryMoves DEF NextMarker

LEMMA TypeStep == ASSUME TypeOK, [Next]_vars PROVE TypeOK'
<1> USE DEF files_
<1>0. CASE UNCHANGED vars
  BY <1>0 DEF vars, TypeOK
<1>1. CASE ClockTicks
  BY <1>1, BackupAssumption DEF ClockTicks, TypeOK
<1>2. CASE ClockBack
  <2>1. clock' \in 0 .. MaxClock
    BY <1>2, BackupAssumption DEF ClockBack, TypeOK
  <2>2. budget' \in Budgets
    BY <1>2, BackupAssumption DEF ClockBack, TypeOK, Budgets
  <2> QED
    BY <1>2, <2>1, <2>2 DEF ClockBack, TypeOK
<1>3. ASSUME NEW s \in Stacks, HandStop(s) \/ HandStart(s) PROVE TypeOK'
  BY <1>3 DEF HandStop, HandStart, ComposeStart, TypeOK
<1>4. ASSUME NEW p \in Procs, Boot(p) PROVE TypeOK'
  <2>1. recovery' \in [Procs -> Recoveries]
    BY <1>4, RecoveryMoves DEF Boot, RecoveryPoints
  <2> QED
    BY <1>4, <2>1 DEF Boot, TypeOK
<1>5. ASSUME NEW p \in Procs, Crash(p) PROVE TypeOK'
  <2>1. recovery' \in [Procs -> Recoveries]
    BY <1>5 DEF Crash, TypeOK, NoRecovery, Recoveries, RecoveryPoints
  <2>2. job' \in [Procs \X Stacks -> Jobs]
    BY <1>5 DEF Crash, TypeOK, NoJob, Jobs, JobPoints
  <2>3. budget' \in Budgets
    BY <1>5, BackupAssumption DEF Crash, TypeOK, Budgets
  <2> QED
    BY <1>5, <2>1, <2>2, <2>3 DEF Crash, TypeOK
<1>6. ASSUME NEW p \in Procs, Scan(p) PROVE TypeOK'
  <2>1. recovery' \in [Procs -> Recoveries]
    BY <1>6, NextMarkerMoves DEF Scan, TypeOK
  <2> QED
    BY <1>6, <2>1 DEF Scan, TypeOK
<1>7. ASSUME NEW p \in Procs, NEW s \in Stacks, RecoverStart(p, s) PROVE TypeOK'
  <2>1. recovery[p].todo \in SUBSET Stacks
    BY DEF TypeOK, Recoveries
  <2>2. recovery' \in [Procs -> Recoveries]
    BY <1>7, <2>1, RecoveryMoves DEF RecoverStart, RecoveryPoints
  <2> QED
    BY <1>7, <2>2 DEF RecoverStart, ComposeStart, TypeOK
<1>8. ASSUME NEW p \in Procs, NEW s \in Stacks, RecoverUnlink(p, s) PROVE TypeOK'
  <2>1. recovery[p].todo \ {s} \in SUBSET Stacks
    BY DEF TypeOK, Recoveries
  <2>2. recovery' \in [Procs -> Recoveries]
    BY <1>8, <2>1, NextMarkerMoves DEF RecoverUnlink
  <2> QED
    BY <1>8, <2>2 DEF RecoverUnlink, Unmarks, TypeOK
<1>9. ASSUME NEW p \in Procs, NEW s \in Stacks, Begin(p, s) \/ ExportFails(p, s) PROVE TypeOK'
  <2>1. job' \in [Procs \X Stacks -> Jobs]
    BY <1>9, JobGoes DEF Begin, ExportFails, JobPoints
  <2> QED
    BY <1>9, <2>1 DEF Begin, ExportFails, TypeOK
<1>10. ASSUME NEW p \in Procs, NEW s \in Stacks, Mark(p, s) PROVE TypeOK'
  <2>1. job' \in [Procs \X Stacks -> Jobs]
    BY <1>10, JobGoes DEF Mark, JobPoints
  <2>2. budget' \in Budgets
    BY <1>10, BackupAssumption DEF Mark, TypeOK, Budgets
  <2> QED
    BY <1>10, <2>1, <2>2 DEF Mark, TypeOK
<1>11. ASSUME NEW p \in Procs, NEW s \in Stacks, Stop(p, s) \/ Start(p, s) PROVE TypeOK'
  <2>1. job' \in [Procs \X Stacks -> Jobs]
    BY <1>11, JobGoes DEF Stop, Start, JobPoints
  <2> QED
    BY <1>11, <2>1 DEF Stop, Start, ComposeStart, TypeOK
<1>12. ASSUME NEW p \in Procs, NEW s \in Stacks, Export(p, s) PROVE TypeOK'
  <2>1. PICK try \in Tries :
          LET name == [stack |-> s, stamp |-> clock, try |-> try]
          IN  files' = files \cup {name} /\ JobIs(p, s, "tar", name)
    BY <1>12 DEF Export
  <2> DEFINE name == [stack |-> s, stamp |-> clock, try |-> try]
  <2>2. name \in Names
    BY DEF Names, TypeOK
  <2>3. job' \in [Procs \X Stacks -> Jobs]
    BY <2>1, <2>2, JobMoves DEF JobPoints
  <2>4. files' \subseteq Names /\ whole \subseteq files'
    BY <2>1, <2>2 DEF TypeOK
  <2> QED
    BY <1>12, <2>3, <2>4 DEF Export, TypeOK
<1>13. ASSUME NEW p \in Procs, NEW s \in Stacks, Tar(p, s) PROVE TypeOK'
  <2>1. job' \in [Procs \X Stacks -> Jobs]
    BY <1>13, JobGoes DEF Tar, JobPoints
  <2> QED
    BY <1>13, <2>1 DEF Tar, TypeOK
<1>14. ASSUME NEW p \in Procs, NEW s \in Stacks, Tidy(p, s) PROVE TypeOK'
  <2>1. job' \in [Procs \X Stacks -> Jobs]
    <3>1. CASE Good(p, s)
      BY <1>14, <3>1, JobGoes DEF Tidy, JobPoints
    <3>2. CASE ~Good(p, s)
      BY <1>14, <3>2, JobMoves DEF Tidy, JobPoints
    <3> QED
      BY <3>1, <3>2
  <2>2. files' \subseteq Names /\ whole \subseteq files'
    BY <1>14 DEF Tidy, Discard, Good, TypeOK
  <2> QED
    BY <1>14, <2>1, <2>2 DEF Tidy, Unmarks, TypeOK
<1>15. ASSUME NEW p \in Procs, NEW s \in Stacks, Prune(p, s) PROVE TypeOK'
  <2>1. job' \in [Procs \X Stacks -> Jobs]
    BY <1>15, JobMoves DEF Prune, JobPoints
  <2>2. Kept(s) \subseteq files
    BY DEF Kept, FilesOf
  <2>3. files' \subseteq Names /\ whole' \subseteq files'
    BY <1>15, <2>2 DEF Prune, TypeOK
  <2> QED
    BY <1>15, <2>1, <2>3 DEF Prune, TypeOK
<1> QED
  BY StepCases, <1>0, <1>1, <1>2, <1>3, <1>4, <1>5, <1>6, <1>7, <1>8, <1>9, <1>10, <1>11,
     <1>12, <1>13, <1>14, <1>15, Zenon

\* The variables keep their types (backups.py, the records a backup and a
\* recovery hold), for any number of panel processes.
THEOREM TypeCorrect == Spec => []TypeOK
<1>1. Init => TypeOK
  BY TypeInit
<1>2. TypeOK /\ [Next]_vars => TypeOK'
  BY TypeStep
<1> QED
  BY <1>1, <1>2, PTL DEF Spec

-----------------------------------------------------------------------------
(* No stack is forgotten, by one panel.  (With two panels the tidying of one *)
(* backup may take the marker on which a stack depends that the other panel  *)
(* left stopped when it died.)                                               *)

OnePanel == \A p, q \in Procs : p = q

\* What a backup holds down has a marker, or is known to have none.
HeldIsMarked == \A p \in Procs, s \in Stacks : Holds(p, s) => s \in marker \cup unmarked

\* So has what is down.
OwedIsMarked == owed \subseteq marker \cup unmarked

\* A backup that removes its marker leaves its stack up or reported.
TidyIsPaid == \A p \in Procs, s \in Stacks : At(p, s, "tidy") => s \notin owed

\* The recovery that started a stack removes a marker that no stopped stack
\* needs, unless a new backup of the same panel has stopped it since.
RecoveredIsPaid ==
  \A p \in Procs, s \in Stacks :
    /\ recovery[p].pc = "unlink" /\ recovery[p].at = s /\ ~recovery[p].told
    /\ s \in owed
    => Holds(p, s)

InFlight == HeldIsMarked /\ OwedIsMarked /\ TidyIsPaid /\ RecoveredIsPaid

LEMMA InFlightInit == Init => InFlight
BY DEF Init, InFlight, HeldIsMarked, OwedIsMarked, TidyIsPaid, RecoveredIsPaid, Holds, At, NoJob

\* The steps that move neither markers nor recoveries, and put no stack down.
LEMMA JobOnlyStep ==
  ASSUME TypeOK, OnePanel, InFlight, NEW p \in Procs, NEW s \in Stacks, NEW point \in JobPoints,
         NEW dest \in Names \cup {None}, JobIs(p, s, point, dest),
         UNCHANGED <<marker, unmarked, recovery>>, owed' \subseteq owed,
         point = "tidy" => s \notin owed',
         Holds(p, s) => point \in {"stop", "export", "tar", "start"} \/ s \notin owed',
         point \in {"stop", "export", "tar", "start"} => Holds(p, s)
  PROVE  InFlight'
<1>1. \A q \in Procs, r \in Stacks : r # s => job'[<<q, r>>] = job[<<q, r>>]
  BY DEF JobIs, TypeOK
<1>2. \A q \in Procs : job'[<<q, s>>] = [pc |-> point, dest |-> dest]
  BY DEF JobIs, TypeOK, OnePanel
<1>3. \A q \in Procs, r \in Stacks : Holds(q, r)' => Holds(q, r)
  BY <1>1, <1>2 DEF Holds, OnePanel
<1>4. HeldIsMarked' /\ OwedIsMarked'
  BY <1>3 DEF InFlight, HeldIsMarked, OwedIsMarked
<1>5. TidyIsPaid'
  BY <1>1, <1>2 DEF InFlight, TidyIsPaid, At
<1>6. RecoveredIsPaid'
  <2> SUFFICES ASSUME NEW q \in Procs, NEW r \in Stacks, recovery[q].pc = "unlink",
                      recovery[q].at = r, ~recovery[q].told, r \in owed'
               PROVE  Holds(q, r)'
    BY DEF RecoveredIsPaid
  <2>1. Holds(q, r)
    BY DEF InFlight, RecoveredIsPaid
  <2> QED
    BY <2>1, <1>1, <1>2 DEF Holds, OnePanel
<1> QED
  BY <1>4, <1>5, <1>6 DEF InFlight

\* The steps that leave the jobs and the markers alone.
LEMMA QuietStep ==
  ASSUME InFlight, UNCHANGED <<marker, unmarked, job>>, owed' \subseteq owed,
         \A q \in Procs, r \in Stacks :
            /\ recovery'[q].pc = "unlink" /\ recovery'[q].at = r /\ ~recovery'[q].told
            /\ r \in owed'
            => recovery'[q] = recovery[q]
  PROVE  InFlight'
BY DEF InFlight, HeldIsMarked, OwedIsMarked, TidyIsPaid, RecoveredIsPaid, Holds, At

LEMMA InFlightStep == ASSUME TypeOK, OnePanel, InFlight, [Next]_vars PROVE InFlight'
<1> USE DEF files_
<1>0. CASE UNCHANGED vars
  BY <1>0, QuietStep DEF vars
<1>1. CASE ClockTicks \/ ClockBack
  BY <1>1, QuietStep DEF ClockTicks, ClockBack
<1>3. ASSUME NEW s \in Stacks, HandStop(s) \/ HandStart(s) PROVE InFlight'
  BY <1>3, QuietStep DEF HandStop, HandStart, ComposeStart
<1>4. ASSUME NEW p \in Procs, Boot(p) PROVE InFlight'
  BY <1>4, QuietStep DEF Boot, RecoveryIs, TypeOK
<1>5. ASSUME NEW p \in Procs, Crash(p) PROVE InFlight'
  <2>1. \A q \in Procs, s \in Stacks : job'[<<q, s>>] = NoJob
    BY <1>5 DEF Crash, OnePanel
  <2>2. \A q \in Procs : recovery'[q] = NoRecovery
    BY <1>5 DEF Crash, OnePanel, TypeOK
  <2>3. UNCHANGED <<marker, owed, unmarked>>
    BY <1>5 DEF Crash
  <2> QED
    BY <2>1, <2>2, <2>3 DEF InFlight, HeldIsMarked, OwedIsMarked, TidyIsPaid, RecoveredIsPaid,
       Holds, At, NoJob, NoRecovery
<1>6. ASSUME NEW p \in Procs, Scan(p) PROVE InFlight'
  BY <1>6, QuietStep DEF Scan, NextMarker, RecoveryIs, TypeOK
<1>7. ASSUME NEW p \in Procs, NEW s \in Stacks, RecoverStart(p, s) PROVE InFlight'
  <2>1. PICK ok \in BOOLEAN :
          /\ RecoveryIs(p, "unlink", recovery[p].todo, s, ~ok)
          /\ IF ok THEN ComposeStart(s) ELSE UNCHANGED <<running, owed>>
    BY <1>7 DEF RecoverStart
  <2>2. recovery' = [recovery EXCEPT ![p] = [pc |-> "unlink", todo |-> recovery[p].todo,
                                             at |-> s, told |-> ~ok]]
    BY <2>1 DEF RecoveryIs
  <2>3. owed' \subseteq owed /\ (ok => s \notin owed')
    BY <2>1 DEF ComposeStart
  <2>4. UNCHANGED <<marker, unmarked, job>>
    BY <1>7 DEF RecoverStart
  <2> QED
    BY <2>2, <2>3, <2>4, QuietStep DEF TypeOK
<1>8. ASSUME NEW p \in Procs, NEW s \in Stacks, RecoverUnlink(p, s) PROVE InFlight'
  <2>1. \A q \in Procs : recovery'[q].pc # "unlink"
    BY <1>8 DEF RecoverUnlink, NextMarker, RecoveryIs, TypeOK, OnePanel
  <2>2. /\ marker' = marker \ {s} /\ UNCHANGED job
        /\ owed' = IF recovery[p].told THEN owed \ {s} ELSE owed
        /\ unmarked' = IF \E q \in Procs : Holds(q, s) THEN unmarked \cup {s} ELSE unmarked
    BY <1>8 DEF RecoverUnlink, Unmarks
  <2>3. HeldIsMarked'
    BY <2>2 DEF InFlight, HeldIsMarked, Holds
  <2>4. s \in owed' => Holds(p, s)
    BY <1>8, <2>2 DEF RecoverUnlink, InFlight, RecoveredIsPaid
  <2>5. OwedIsMarked'
    BY <2>2, <2>4 DEF InFlight, OwedIsMarked
  <2>6. TidyIsPaid'
    BY <2>2 DEF InFlight, TidyIsPaid, At
  <2> QED
    BY <2>1, <2>3, <2>5, <2>6 DEF InFlight, RecoveredIsPaid
<1>9. ASSUME NEW p \in Procs, NEW s \in Stacks, Begin(p, s) PROVE InFlight'
  <2>1. job[<<p, s>>].dest \in Names \cup {None}
    BY DEF TypeOK, Jobs
  <2> QED
    BY <1>9, <2>1, JobOnlyStep DEF Begin, JobGoto, JobPoints, At, Holds
<1>10. ASSUME NEW p \in Procs, NEW s \in Stacks, Mark(p, s) PROVE InFlight'
  <2>1. \A q \in Procs, r \in Stacks : r # s => job'[<<q, r>>] = job[<<q, r>>]
    BY <1>10 DEF Mark, JobGoto, JobIs, TypeOK
  <2>2. \A q \in Procs : job'[<<q, s>>].pc = "stop"
    BY <1>10 DEF Mark, JobGoto, JobIs, TypeOK, OnePanel
  <2>3. UNCHANGED <<owed, recovery>> /\ s \in marker' \cup unmarked'
    BY <1>10 DEF Mark
  <2>4. \A r \in Stacks : r # s /\ r \in marker \cup unmarked => r \in marker' \cup unmarked'
    BY <1>10 DEF Mark
  <2>5. HeldIsMarked'
    BY <2>1, <2>2, <2>3, <2>4 DEF InFlight, HeldIsMarked, Holds
  <2>6. OwedIsMarked'
    BY <2>3, <2>4 DEF InFlight, OwedIsMarked, TypeOK
  <2>7. TidyIsPaid'
    BY <2>1, <2>2, <2>3 DEF InFlight, TidyIsPaid, At
  <2>8. RecoveredIsPaid'
    BY <2>1, <2>2, <2>3 DEF InFlight, RecoveredIsPaid, Holds
  <2> QED
    BY <2>5, <2>6, <2>7, <2>8 DEF InFlight
<1>11. ASSUME NEW p \in Procs, NEW s \in Stacks, Stop(p, s) PROVE InFlight'
  <2>1. \A q \in Procs, r \in Stacks : r # s => job'[<<q, r>>] = job[<<q, r>>]
    BY <1>11 DEF Stop, JobGoto, JobIs, TypeOK
  <2>2. \A q \in Procs : job'[<<q, s>>].pc = "export"
    BY <1>11 DEF Stop, JobGoto, JobIs, TypeOK, OnePanel
  <2>3. UNCHANGED <<marker, unmarked, recovery>> /\ owed' \subseteq owed \cup {s}
    BY <1>11 DEF Stop
  <2>4. s \in marker \cup unmarked
    BY <1>11 DEF Stop, At, Holds, InFlight, HeldIsMarked
  <2>5. HeldIsMarked' /\ OwedIsMarked'
    BY <2>1, <2>3, <2>4 DEF InFlight, HeldIsMarked, OwedIsMarked, Holds
  <2>6. TidyIsPaid' /\ RecoveredIsPaid'
    BY <2>1, <2>2, <2>3 DEF InFlight, TidyIsPaid, RecoveredIsPaid, At, Holds
  <2> QED
    BY <2>5, <2>6 DEF InFlight
<1>12. ASSUME NEW p \in Procs, NEW s \in Stacks, Export(p, s) PROVE InFlight'
  <2>1. PICK try \in Tries :
          JobIs(p, s, "tar", [stack |-> s, stamp |-> clock, try |-> try])
    BY <1>12 DEF Export
  <2>2. [stack |-> s, stamp |-> clock, try |-> try] \in Names
    BY DEF Names, TypeOK
  <2> QED
    BY <1>12, <2>1, <2>2, JobOnlyStep DEF Export, JobPoints, At, Holds
<1>13. ASSUME NEW p \in Procs, NEW s \in Stacks, ExportFails(p, s) \/ Tar(p, s) PROVE InFlight'
  <2>1. job[<<p, s>>].dest \in Names \cup {None}
    BY DEF TypeOK, Jobs
  <2> QED
    BY <1>13, <2>1, JobOnlyStep DEF ExportFails, Tar, JobGoto, JobPoints, At, Holds
<1>14. ASSUME NEW p \in Procs, NEW s \in Stacks, Start(p, s) PROVE InFlight'
  <2>1. job[<<p, s>>].dest \in Names \cup {None}
    BY DEF TypeOK, Jobs
  <2>2. owed' = owed \ {s} /\ UNCHANGED <<marker, unmarked, recovery>>
    BY <1>14 DEF Start, ComposeStart
  <2> QED
    BY <1>14, <2>1, <2>2, JobOnlyStep DEF Start, JobGoto, JobPoints
<1>15. ASSUME NEW p \in Procs, NEW s \in Stacks, Tidy(p, s) PROVE InFlight'
  <2>1. \A q \in Procs, r \in Stacks : r # s => job'[<<q, r>>] = job[<<q, r>>]
    BY <1>15 DEF Tidy, JobGoto, JobIs, TypeOK
  <2>2. \A q \in Procs : job'[<<q, s>>].pc \in {"prune", "off"}
    BY <1>15 DEF Tidy, JobGoto, JobIs, TypeOK, OnePanel
  <2>3. UNCHANGED <<owed, recovery>> /\ marker' = marker \ {s} /\ unmarked \subseteq unmarked'
    BY <1>15 DEF Tidy, Unmarks
  <2>4. s \notin owed
    BY <1>15 DEF Tidy, InFlight, TidyIsPaid
  <2>5. HeldIsMarked' /\ OwedIsMarked'
    BY <2>1, <2>2, <2>3, <2>4 DEF InFlight, HeldIsMarked, OwedIsMarked, Holds
  <2>6. TidyIsPaid' /\ RecoveredIsPaid'
    BY <2>1, <2>3, <2>4 DEF InFlight, TidyIsPaid, RecoveredIsPaid, At, Holds
  <2> QED
    BY <2>5, <2>6 DEF InFlight
<1>16. ASSUME NEW p \in Procs, NEW s \in Stacks, Prune(p, s) PROVE InFlight'
  BY <1>16, JobOnlyStep DEF Prune, JobPoints, At, Holds
<1> QED
  BY StepCases, <1>0, <1>1, <1>3, <1>4, <1>5, <1>6, <1>7, <1>8, <1>9, <1>10, <1>11,
     <1>12, <1>13, <1>14, <1>15, <1>16, Zenon

\* Once a backup has stopped a stack, somebody will start it: the backup itself
\* or the recovery of the next boot, as long as the marker was written and one
\* panel works in the data directory (_backup_stack,
\* recover_interrupted_stack_backups).
THEOREM NoStackForgottenEver == ASSUME OnePanel PROVE Spec => []NoStackForgotten
<1>1. Init => TypeOK /\ InFlight
  BY TypeInit, InFlightInit
<1>2. TypeOK /\ InFlight /\ [Next]_vars => TypeOK' /\ InFlight'
  BY TypeStep, InFlightStep
<1>3. TypeOK /\ InFlight => NoStackForgotten
  BY DEF InFlight, OwedIsMarked, NoStackForgotten
<1> QED
  BY <1>1, <1>2, <1>3, PTL DEF Spec

-----------------------------------------------------------------------------
(* The last good copy, by one panel whose clock is never set back.  The     *)
(* archive of a backup in progress sorts above all others of its stack, the *)
(* partial ones that a crash left behind included, so that the pruning at   *)
(* the end of the backup keeps at least it, and it is complete by then.     *)
(* (With two panels the partial archive of the other may sort above it.)    *)

Dest(p, s) == job[<<p, s>>].dest

StampsPast == \A f \in files : f.stamp <= clock

OwnIsNewest ==
  \A p \in Procs, s \in Stacks : Dest(p, s) \in Names =>
    /\ Dest(p, s).stack = s
    /\ \A f \in FilesOf(s) : ~SortsBelow(Dest(p, s), f)

PrunesAfterWhole == \A p \in Procs, s \in Stacks : At(p, s, "prune") => Dest(p, s) \in whole

Newest == StampsPast /\ OwnIsNewest /\ PrunesAfterWhole

NewestInv == TypeOK /\ (Monotone => Newest)

\* A step that adds no archive, sets no clock back and begins to prune nothing
\* that is not complete.
LEMMA NewestStays ==
  ASSUME TypeOK, TypeOK', Newest, files' \subseteq files, clock' >= clock,
         \A p \in Procs, s \in Stacks : Dest(p, s)' \in {Dest(p, s), None},
         \A p \in Procs, s \in Stacks : At(p, s, "prune")' => Dest(p, s)' \in whole'
  PROVE  Newest'
<1>1. StampsPast'
  <2>1. \A f \in files : f.stamp \in Nat
    BY BackupAssumption DEF TypeOK, Names
  <2> QED
    BY <2>1, BackupAssumption DEF Newest, StampsPast, TypeOK
<1>2. ASSUME NEW p \in Procs, NEW s \in Stacks, Dest(p, s)' \in Names
      PROVE  /\ Dest(p, s)'.stack = s
             /\ \A f \in FilesOf(s)' : ~SortsBelow(Dest(p, s)', f)
  <2>1. Dest(p, s)' = Dest(p, s)
    BY <1>2, NoneAssumption
  <2>2. FilesOf(s)' \subseteq FilesOf(s)
    BY DEF FilesOf
  <2> QED
    BY <1>2, <2>1, <2>2 DEF Newest, OwnIsNewest
<1>3. OwnIsNewest'
  BY <1>2 DEF OwnIsNewest, Dest, SortsBelow
<1>4. PrunesAfterWhole'
  BY DEF PrunesAfterWhole
<1> QED
  BY <1>1, <1>3, <1>4 DEF Newest

\* A job that moves on with its archive, or drops it.
LEMMA JobKeepsNewest ==
  ASSUME TypeOK, TypeOK', Newest, NEW p \in Procs, NEW s \in Stacks, NEW point \in JobPoints,
         NEW dest \in {Dest(p, s), None}, JobIs(p, s, point, dest),
         files' \subseteq files, clock' = clock, whole \subseteq whole',
         point = "prune" => dest \in whole
  PROVE  Newest'
<1>1. job'[<<p, s>>] = [pc |-> point, dest |-> dest]
  BY DEF JobIs, TypeOK
<1>2. \A q \in Procs, r \in Stacks : <<q, r>> # <<p, s>> => job'[<<q, r>>] = job[<<q, r>>]
  BY DEF JobIs, TypeOK
<1>3. ASSUME NEW q \in Procs, NEW r \in Stacks PROVE Dest(q, r)' \in {Dest(q, r), None}
  <2>1. CASE <<q, r>> = <<p, s>>
    BY <1>1, <2>1 DEF Dest
  <2>2. CASE <<q, r>> # <<p, s>>
    BY <1>2, <2>2 DEF Dest
  <2> QED
    BY <2>1, <2>2
<1>4. \A q \in Procs, r \in Stacks : At(q, r, "prune")' => Dest(q, r)' \in whole'
  BY <1>1, <1>2 DEF Dest, At, Newest, PrunesAfterWhole
<1>5. clock' >= clock
  BY BackupAssumption DEF TypeOK
<1> QED
  BY <1>3, <1>4, <1>5, NewestStays

\* The file a backup creates is the newest of its stack: none has its second
\* but those of other panels (_private_dest).
LEMMA ExportIsNewest ==
  ASSUME OnePanel, TypeOK, Newest, NEW p \in Procs, NEW s \in Stacks, Export(p, s)
  PROVE  Newest'
<1>1. PICK try \in Tries :
        LET name == [stack |-> s, stamp |-> clock, try |-> try]
        IN  files' = files \cup {name} /\ JobIs(p, s, "tar", name)
  BY DEF Export
<1> DEFINE name == [stack |-> s, stamp |-> clock, try |-> try]
<1>2. name.stack = s /\ name.stamp = clock /\ name.try = try
  OBVIOUS
<1>3. files' = files \cup {name} /\ UNCHANGED <<whole, clock>>
  BY <1>1 DEF Export
<1>4. job'[<<p, s>>] = [pc |-> "tar", dest |-> name]
  BY <1>1 DEF JobIs, TypeOK
<1>5. \A q \in Procs, r \in Stacks : r # s => job'[<<q, r>>] = job[<<q, r>>]
  BY <1>1 DEF JobIs, TypeOK
<1>6. \A q \in Procs : q = p
  BY DEF OnePanel
<1>7. \A f \in FilesOf(s) : f.stamp # clock
  BY <1>6 DEF Export, NewSecond
<1>8. \A f \in files : f.stamp \in Nat /\ f.stamp <= clock
  BY BackupAssumption DEF TypeOK, Names, Newest, StampsPast
<1>9. clock \in Nat /\ try \in Nat
  BY BackupAssumption DEF TypeOK, Tries
<1> HIDE DEF name
<1>10. StampsPast'
  BY <1>2, <1>3, <1>8, <1>9 DEF StampsPast
<1>11. \A f \in FilesOf(s)' : ~SortsBelow(name, f)
  <2> SUFFICES ASSUME NEW f \in FilesOf(s)' PROVE ~SortsBelow(name, f)
    OBVIOUS
  <2>1. CASE f = name
    BY <1>2, <1>9, <2>1 DEF SortsBelow
  <2>2. CASE f # name
    <3>1. f \in FilesOf(s)
      BY <1>3, <2>2 DEF FilesOf
    <3>2. f.stamp \in Nat /\ f.stamp < clock
      BY <1>7, <1>8, <1>9, <3>1 DEF FilesOf
    <3> QED
      BY <1>2, <1>9, <3>2 DEF SortsBelow
  <2> QED
    BY <2>1, <2>2
<1>12. ASSUME NEW q \in Procs, NEW r \in Stacks, Dest(q, r)' \in Names
       PROVE  Dest(q, r)'.stack = r /\ \A f \in FilesOf(r)' : ~SortsBelow(Dest(q, r)', f)
  <2>1. CASE r = s
    BY <1>2, <1>4, <1>6, <1>11, <2>1 DEF Dest
  <2>2. CASE r # s
    <3>1. Dest(q, r)' = Dest(q, r)
      BY <1>5, <2>2 DEF Dest
    <3>2. FilesOf(r)' = FilesOf(r)
      BY <1>2, <1>3, <2>2 DEF FilesOf
    <3> QED
      BY <1>12, <3>1, <3>2 DEF Newest, OwnIsNewest
  <2> QED
    BY <2>1, <2>2
<1>13. OwnIsNewest'
  BY <1>12 DEF OwnIsNewest, Dest, SortsBelow
<1>14. PrunesAfterWhole'
  BY <1>3, <1>4, <1>5, <1>6 DEF PrunesAfterWhole, Newest, At, Dest
<1> QED
  BY <1>10, <1>13, <1>14 DEF Newest

\* The pruning keeps the archive of its own backup: nothing sorts above it.
LEMMA PruneKeepsOwn ==
  ASSUME TypeOK, Newest, NEW p \in Procs, NEW s \in Stacks, Prune(p, s)
  PROVE  Dest(p, s) \in Complete(s)'
<1>1. Dest(p, s) \in whole
  BY DEF Prune, Newest, PrunesAfterWhole
<1>2. Dest(p, s) \in Names /\ Dest(p, s) \in files
  BY <1>1 DEF TypeOK
<1>3. Dest(p, s).stack = s /\ \A f \in FilesOf(s) : ~SortsBelow(Dest(p, s), f)
  BY <1>2 DEF Newest, OwnIsNewest
<1>4. {g \in FilesOf(s) : SortsBelow(Dest(p, s), g)} = {}
  BY <1>3
<1>5. Cardinality({g \in FilesOf(s) : SortsBelow(Dest(p, s), g)}) < Retain
  BY <1>4, FS_EmptySet, BackupAssumption
<1>6. Dest(p, s) \in Kept(s)
  BY <1>2, <1>3, <1>5 DEF Kept, FilesOf
<1> QED
  BY <1>1, <1>3, <1>6 DEF Prune, Complete

\* Pruning touches the archives of its stack only.
LEMMA PruneKeepsOthers ==
  ASSUME TypeOK, NEW p \in Procs, NEW s \in Stacks, Prune(p, s), NEW f \in whole, f.stack # s
  PROVE  f \in whole'
BY DEF Prune, FilesOf, TypeOK

LEMMA PruneStep ==
  ASSUME OnePanel, TypeOK, TypeOK', Newest, NEW p \in Procs, NEW s \in Stacks, Prune(p, s)
  PROVE  Newest'
<1>1. job'[<<p, s>>] = [pc |-> "off", dest |-> None]
  BY DEF Prune, JobIs, TypeOK
<1>2. \A q \in Procs, r \in Stacks : r # s => job'[<<q, r>>] = job[<<q, r>>]
  BY DEF Prune, JobIs, TypeOK
<1>3. \A q \in Procs, r \in Stacks : r = s => q = p
  BY DEF OnePanel
<1>4. files' \subseteq files /\ clock' >= clock
  BY BackupAssumption DEF Prune, Kept, FilesOf, TypeOK
<1>5. ASSUME NEW q \in Procs, NEW r \in Stacks PROVE Dest(q, r)' \in {Dest(q, r), None}
  <2>1. CASE r = s
    BY <1>1, <1>3, <2>1 DEF Dest
  <2>2. CASE r # s
    BY <1>2, <2>2 DEF Dest
  <2> QED
    BY <2>1, <2>2
<1>6. ASSUME NEW q \in Procs, NEW r \in Stacks, At(q, r, "prune")' PROVE Dest(q, r)' \in whole'
  <2>1. r # s
    BY <1>1, <1>3, <1>6 DEF At
  <2>2. At(q, r, "prune") /\ Dest(q, r)' = Dest(q, r)
    BY <1>2, <1>6, <2>1 DEF At, Dest
  <2>3. Dest(q, r) \in whole /\ Dest(q, r).stack = r
    BY <2>2 DEF Newest, OwnIsNewest, PrunesAfterWhole, TypeOK
  <2> QED
    BY <2>1, <2>2, <2>3, PruneKeepsOthers
<1> QED
  BY <1>4, <1>5, <1>6, NewestStays

\* Nothing but a pruning takes a complete archive away.
LEMMA OnlyPruneRemoves ==
  ASSUME [Next]_vars
  PROVE  whole \subseteq whole' \/ \E p \in Procs, s \in Stacks : Prune(p, s)
<1>1. CASE UNCHANGED vars \/ ClockTicks \/ ClockBack
  BY <1>1 DEF vars, files_, ClockTicks, ClockBack
<1>2. ASSUME NEW s \in Stacks, HandStop(s) \/ HandStart(s) PROVE whole \subseteq whole'
  BY <1>2 DEF files_, HandStop, HandStart
<1>3. ASSUME NEW p \in Procs, Boot(p) \/ Crash(p) \/ Scan(p) PROVE whole \subseteq whole'
  BY <1>3 DEF files_, Boot, Crash, Scan
<1>4. ASSUME NEW p \in Procs, NEW s \in Stacks,
             RecoverStart(p, s) \/ RecoverUnlink(p, s) \/ Begin(p, s) \/ Mark(p, s) \/ Stop(p, s)
      PROVE  whole \subseteq whole'
  BY <1>4 DEF files_, RecoverStart, RecoverUnlink, Begin, Mark, Stop
<1>5. ASSUME NEW p \in Procs, NEW s \in Stacks,
             Export(p, s) \/ ExportFails(p, s) \/ Tar(p, s) \/ Start(p, s) \/ Tidy(p, s)
      PROVE  whole \subseteq whole'
  BY <1>5 DEF files_, Export, ExportFails, Tar, Start, Tidy
<1> QED
  BY StepCases, <1>1, <1>2, <1>3, <1>4, <1>5, Zenon

\* Once set back, the clock counts as set back for good.
LEMMA BackStays ==
  ASSUME TypeOK, [Next]_vars, Monotone'
  PROVE  Monotone
<1> USE DEF Monotone, TypeOK, Budgets
<1>1. CASE ClockBack
  BY <1>1, BackupAssumption DEF ClockBack
<1>2. ASSUME NEW p \in Procs, NEW s \in Stacks, Mark(p, s) PROVE Monotone
  BY <1>2 DEF Mark
<1>3. ASSUME NEW p \in Procs, Crash(p) PROVE Monotone
  BY <1>3 DEF Crash
<1>4. CASE UNCHANGED budget
  BY <1>4
<1> HIDE DEF Monotone, TypeOK, Budgets
<1>5. CASE UNCHANGED vars \/ ClockTicks
  BY <1>4, <1>5 DEF vars, ClockTicks
<1>6. ASSUME NEW s \in Stacks, HandStop(s) \/ HandStart(s) PROVE Monotone
  BY <1>4, <1>6 DEF HandStop, HandStart
<1>7. ASSUME NEW p \in Procs, Boot(p) \/ Scan(p) PROVE Monotone
  BY <1>4, <1>7 DEF Boot, Scan
<1>8. ASSUME NEW p \in Procs, NEW s \in Stacks,
             RecoverStart(p, s) \/ RecoverUnlink(p, s) \/ Begin(p, s) \/ Stop(p, s) \/ Export(p, s)
      PROVE  Monotone
  BY <1>4, <1>8 DEF RecoverStart, RecoverUnlink, Begin, Stop, Export
<1>9. ASSUME NEW p \in Procs, NEW s \in Stacks,
             ExportFails(p, s) \/ Tar(p, s) \/ Start(p, s) \/ Tidy(p, s) \/ Prune(p, s)
      PROVE  Monotone
  BY <1>4, <1>9 DEF ExportFails, Tar, Start, Tidy, Prune
<1> QED
  BY StepCases, <1>1, <1>2, <1>3, <1>5, <1>6, <1>7, <1>8, <1>9, Zenon

LEMMA NewestInvStep ==
  ASSUME OnePanel, NewestInv, [Next]_vars
  PROVE  NewestInv'
<1>1. TypeOK /\ TypeOK'
  BY TypeStep DEF NewestInv
<1> SUFFICES ASSUME Monotone' PROVE Newest'
  BY <1>1 DEF NewestInv
<1>2. Newest
  BY <1>1, BackStays DEF NewestInv
<1>3. clock \in Nat /\ clock' \in Nat
  BY <1>1, BackupAssumption DEF TypeOK
<1>4. ASSUME UNCHANGED <<files, whole, job>>, clock' >= clock PROVE Newest'
  <2>1. \A q \in Procs, r \in Stacks : Dest(q, r)' = Dest(q, r)
    BY <1>4 DEF Dest
  <2>2. \A q \in Procs, r \in Stacks : At(q, r, "prune") => Dest(q, r) \in whole
    BY <1>2 DEF Newest, PrunesAfterWhole
  <2>3. ASSUME NEW q \in Procs, NEW r \in Stacks, At(q, r, "prune")' PROVE Dest(q, r)' \in whole'
    <3>1. At(q, r, "prune")
      BY <1>4, <2>3 DEF At
    <3> QED
      BY <1>4, <2>1, <2>2, <3>1
  <2> QED
    BY <1>1, <1>2, <1>4, <2>1, <2>3, NewestStays
<1>5. CASE ClockBack
  BY <1>1, <1>5 DEF ClockBack, Monotone, TypeOK, Budgets
<1>6. CASE ClockTicks \/ UNCHANGED vars
  <2>1. UNCHANGED <<files, whole, job>> /\ clock' \in {clock, clock + 1}
    BY <1>6 DEF ClockTicks, vars, files_
  <2> QED
    BY <1>3, <1>4, <2>1
<1>7. ASSUME NEW s \in Stacks, HandStop(s) \/ HandStart(s) PROVE Newest'
  <2>1. UNCHANGED <<files, whole, job, clock>>
    BY <1>7 DEF HandStop, HandStart, files_
  <2> QED
    BY <1>3, <1>4, <2>1
<1>8. ASSUME NEW p \in Procs, Boot(p) \/ Scan(p) PROVE Newest'
  <2>1. UNCHANGED <<files, whole, job, clock>>
    BY <1>8 DEF Boot, Scan, files_
  <2> QED
    BY <1>3, <1>4, <2>1
<1>9. ASSUME NEW p \in Procs, NEW s \in Stacks, RecoverStart(p, s) \/ RecoverUnlink(p, s)
      PROVE  Newest'
  <2>1. UNCHANGED <<files, whole, job, clock>>
    BY <1>9 DEF RecoverStart, RecoverUnlink, files_
  <2> QED
    BY <1>3, <1>4, <2>1
<1>10. ASSUME NEW p \in Procs, Crash(p) PROVE Newest'
  <2>1. UNCHANGED <<files, whole, clock>>
    BY <1>10 DEF Crash, files_
  <2>2. \A q \in Procs, r \in Stacks : job'[<<q, r>>] \in {NoJob, job[<<q, r>>]}
    BY <1>10 DEF Crash
  <2>3. ASSUME NEW q \in Procs, NEW r \in Stacks PROVE Dest(q, r)' \in {Dest(q, r), None}
    <3>1. CASE job'[<<q, r>>] = NoJob
      BY <3>1 DEF Dest, NoJob
    <3>2. CASE job'[<<q, r>>] = job[<<q, r>>]
      BY <3>2 DEF Dest
    <3> QED
      BY <2>2, <3>1, <3>2
  <2>4. \A q \in Procs, r \in Stacks : At(q, r, "prune")' => Dest(q, r)' \in whole'
    BY <1>2, <2>1, <2>2 DEF At, Dest, NoJob, Newest, PrunesAfterWhole
  <2> QED
    BY <1>1, <1>2, <1>3, <2>1, <2>3, <2>4, NewestStays
<1>11. ASSUME NEW p \in Procs, NEW s \in Stacks,
              Begin(p, s) \/ Mark(p, s) \/ Stop(p, s) \/ ExportFails(p, s) \/ Start(p, s)
       PROVE  Newest'
  <2>1. \E point \in JobPoints : point # "prune" /\ JobIs(p, s, point, Dest(p, s))
    BY <1>11 DEF Begin, Mark, Stop, ExportFails, Start, JobGoto, JobPoints, Dest
  <2>2. UNCHANGED <<files, whole, clock>>
    BY <1>11 DEF Begin, Mark, Stop, ExportFails, Start, files_
  <2> QED
    BY <1>1, <1>2, <2>1, <2>2, JobKeepsNewest
<1>12. ASSUME NEW p \in Procs, NEW s \in Stacks, Tar(p, s) PROVE Newest'
  <2>1. JobIs(p, s, "start", Dest(p, s))
    BY <1>12 DEF Tar, JobGoto, Dest
  <2>2. UNCHANGED <<files, clock>> /\ whole \subseteq whole'
    BY <1>12 DEF Tar
  <2>3. "start" \in JobPoints
    BY DEF JobPoints
  <2> QED
    BY <1>1, <1>2, <2>1, <2>2, <2>3, JobKeepsNewest
<1>13. ASSUME NEW p \in Procs, NEW s \in Stacks, Tidy(p, s) PROVE Newest'
  <2>1. files' \subseteq files /\ UNCHANGED <<whole, clock>>
    BY <1>13 DEF Tidy
  <2>2. CASE Good(p, s)
    <3>1. JobIs(p, s, "prune", Dest(p, s)) /\ Dest(p, s) \in whole
      BY <1>13, <2>2 DEF Tidy, JobGoto, Dest, Good
    <3>2. "prune" \in JobPoints
      BY DEF JobPoints
    <3> QED
      BY <1>1, <1>2, <2>1, <3>1, <3>2, JobKeepsNewest
  <2>3. CASE ~Good(p, s)
    <3>1. JobIs(p, s, "off", None)
      BY <1>13, <2>3 DEF Tidy
    <3>2. "off" \in JobPoints
      BY DEF JobPoints
    <3> QED
      BY <1>1, <1>2, <2>1, <3>1, <3>2, JobKeepsNewest
  <2> QED
    BY <2>2, <2>3
<1>14. ASSUME NEW p \in Procs, NEW s \in Stacks, Export(p, s) \/ Prune(p, s) PROVE Newest'
  BY <1>1, <1>2, <1>14, ExportIsNewest, PruneStep
<1> QED
  BY StepCases, <1>5, <1>6, <1>7, <1>8, <1>9, <1>10, <1>11, <1>12, <1>13, <1>14, Zenon

\* The step that could lose the last complete archive is a pruning; it keeps
\* the archive just made, and other stacks' archives.
LEMMA GoodCopyStep ==
  ASSUME OnePanel, NewestInv, [Next]_vars, Monotone, NEW s \in Stacks, Complete(s) # {}
  PROVE  Complete(s)' # {}
<1>1. TypeOK /\ Newest
  BY DEF NewestInv
<1>2. CASE whole \subseteq whole'
  BY <1>2 DEF Complete
<1>3. ASSUME NEW p \in Procs, NEW r \in Stacks, Prune(p, r) PROVE Complete(s)' # {}
  <2>1. CASE r = s
    BY <1>1, <1>3, <2>1, PruneKeepsOwn
  <2>2. CASE r # s
    BY <1>1, <1>3, <2>2, PruneKeepsOthers DEF Complete
  <2> QED
    BY <2>1, <2>2
<1> QED
  BY <1>2, <1>3, OnlyPruneRemoves

\* With one panel whose clock has not been set back, no run ever rotates away
\* the last complete archive of a stack, whatever partial archives earlier
\* crashes left beside it (_prune).
THEOREM LastGoodCopyNeverLost == ASSUME OnePanel PROVE Spec => LastGoodCopyStays
<1>1. Init => NewestInv
  <2> SUFFICES ASSUME Init PROVE TypeOK /\ Newest
    BY DEF NewestInv
  <2>1. \A p \in Procs, s \in Stacks : Dest(p, s) = None /\ ~At(p, s, "prune")
    BY DEF Init, NoJob, Dest, At
  <2> QED
    BY <2>1, TypeInit, NoneAssumption DEF Init, Newest, StampsPast, OwnIsNewest, PrunesAfterWhole
<1>2. NewestInv /\ [Next]_vars => NewestInv'
  BY NewestInvStep
<1>3. NewestInv /\ [Next]_vars
      => [\A s \in Stacks : Monotone /\ Complete(s) # {} => Complete(s)' # {}]_vars
  BY GoodCopyStep
<1> QED
  BY <1>1, <1>2, <1>3, PTL DEF Spec, LastGoodCopyStays

=============================================================================
