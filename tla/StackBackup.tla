---------------------------- MODULE StackBackup ----------------------------
(***************************************************************************)
(* Compose stack backups of hub/backups.py: stop the stack, archive its    *)
(* data, start it again, prune the old archives; and the recovery thread   *)
(* every panel process runs when it boots, which starts the stacks whose   *)
(* backup a crash cut short.  The in-flight marker of a stack is a file in *)
(* the data directory, which several panel processes may share.            *)
(***************************************************************************)
EXTENDS Integers, FiniteSets

CONSTANTS
  Procs,      \* panel processes sharing data/
  Stacks,     \* Compose stacks
  Retain,     \* archives kept of each stack
  MaxClock,   \* bound on the clock that stamps the archives
  MaxBack,    \* bound on the times the wall clock is set back
  MaxFaults,  \* bound on crashes
  MaxLost,    \* bound on marker files that cannot be written
  None        \* no archive, no stack

ASSUME BackupAssumption ==
  /\ Retain \in Nat \ {0} /\ MaxClock \in Nat
  /\ MaxBack \in Nat /\ MaxFaults \in Nat /\ MaxLost \in Nat

VARIABLES
  marker,    \* stacks with a stack-backup-inflight file
  running,   \* stacks whose containers run
  files,     \* archive files on disk, the partial ones included
  whole,     \* those that are complete archives
  clock,     \* the wall clock, as the stamps see it
  job,       \* per process and stack: the backup in progress
  recovery,  \* per process: the recovery thread
  up,        \* processes alive
  budget,    \* faults spent
  (* What the properties observe and the code does not keep. *)
  owed,      \* stacks a backup took down and nobody restarted or reported
  unmarked   \* stacks whose backup lost its marker, or never could write it

files_    == <<files, whole, clock>>
vars == <<marker, running, files_, job, recovery, up, budget, owed, unmarked>>

\* Two backups within one second get names apart by a suffix (_private_dest).
Tries == 1 .. Cardinality(Procs)
Names == [stack : Stacks, stamp : 0 .. MaxClock, try : Tries]

ASSUME NoneAssumption == None \notin Names

\* "-2.tgz" sorts before ".tgz", so the first of a second counts as its newest.
SortsBelow(a, b) == \/ a.stamp < b.stamp
                    \/ a.stamp = b.stamp /\ a.try > b.try

JobPoints == {"off", "mark", "stop", "export", "tar", "start", "tidy", "prune"}
RecoveryPoints == {"off", "scan", "start", "unlink"}

NoJob == [pc |-> "off", dest |-> None]
NoRecovery == [pc |-> "off", todo |-> {}, at |-> None, told |-> FALSE]

Jobs == [pc : JobPoints, dest : Names \cup {None}]
Recoveries == [pc : RecoveryPoints, todo : SUBSET Stacks,
               at : Stacks \cup {None}, told : BOOLEAN]
Budgets == [crash : 0 .. MaxFaults, lost : 0 .. MaxLost, back : 0 .. MaxBack]

TypeOK ==
  /\ marker \subseteq Stacks /\ running \subseteq Stacks
  /\ files \subseteq Names /\ whole \subseteq files
  /\ clock \in 0 .. MaxClock
  /\ job \in [Procs \X Stacks -> Jobs]
  /\ recovery \in [Procs -> Recoveries]
  /\ up \subseteq Procs
  /\ budget \in Budgets
  /\ owed \subseteq Stacks \ running
  /\ unmarked \subseteq Stacks

Init ==
  /\ marker = {} /\ running \in SUBSET Stacks
  /\ files = {} /\ whole = {} /\ clock = 0
  /\ job = [ps \in Procs \X Stacks |-> NoJob]
  /\ recovery = [p \in Procs |-> NoRecovery]
  /\ up = {}
  /\ budget = [crash |-> 0, lost |-> 0, back |-> 0]
  /\ owed = {} /\ unmarked = {}

-----------------------------------------------------------------------------
(* _backup_stack *)

FilesOf(s) == {f \in files : f.stack = s}

At(p, s, point) == job[<<p, s>>].pc = point
JobIs(p, s, point, dest) == job' = [job EXCEPT ![<<p, s>>] = [pc |-> point, dest |-> dest]]
JobGoto(p, s, point) == JobIs(p, s, point, job[<<p, s>>].dest)

\* A backup that is to stop the stack, or has, and has not started it again.
Holds(p, s) == job[<<p, s>>].pc \in {"stop", "export", "tar", "start"}
LiveBackup(s) == \E p \in Procs : Holds(p, s)

\* The marker of s goes away while another backup still relies on it.
Unmarks(s, others) ==
  unmarked' = IF \E q \in others : Holds(q, s) THEN unmarked \cup {s} ELSE unmarked

ComposeStart(s) == running' = running \cup {s} /\ owed' = owed \ {s}

\* _only_one admits one run per stack and process.
Begin(p, s) ==
  /\ p \in up /\ At(p, s, "off")
  /\ JobGoto(p, s, "mark")
  /\ UNCHANGED <<marker, running, files_, recovery, up, budget, owed, unmarked>>

\* Broken: a backup that stops its stack on the strength of its finally alone.
MarkNothing(p, s) ==
  /\ At(p, s, "mark")
  /\ unmarked' = unmarked \ {s}
  /\ JobGoto(p, s, "stop")
  /\ UNCHANGED <<marker, running, files_, recovery, up, budget, owed>>

\* _write_inflight is best effort: an unwritable marker does not stop the backup.
Mark(p, s) ==
  /\ At(p, s, "mark")
  /\ \/ /\ marker' = marker \cup {s}
        /\ unmarked' = unmarked \ {s}
        /\ UNCHANGED budget
     \/ /\ budget.lost < MaxLost
        /\ budget' = [budget EXCEPT !.lost = @ + 1]
        /\ unmarked' = unmarked \cup {s}
        /\ UNCHANGED marker
  /\ JobGoto(p, s, "stop")
  /\ UNCHANGED <<running, files_, recovery, up, owed>>

\* `compose stop`; the archive is taken even when it reports an error.
Stop(p, s) ==
  /\ At(p, s, "stop")
  /\ \/ UNCHANGED <<running, owed>>
     \/ /\ running' = running \ {s}
        /\ owed' = owed \cup (running \cap {s})
  /\ JobGoto(p, s, "export")
  /\ UNCHANGED <<marker, files_, recovery, up, budget, unmarked>>

\* A failed volume export, or no staging directory: straight to the finally.
ExportFails(p, s) ==
  /\ At(p, s, "export")
  /\ JobGoto(p, s, "start")
  /\ UNCHANGED <<marker, running, files_, recovery, up, budget, owed, unmarked>>

\* A process does not come to a second archive of a stack within one second.
NewSecond(p, s) ==
  \A f \in FilesOf(s) :
    f.stamp = clock => \E q \in Procs \ {p} : job[<<q, s>>].dest = f

\* _private_dest creates the file under the first free name of this second.
Export(p, s) ==
  /\ At(p, s, "export") /\ NewSecond(p, s)
  /\ \E try \in Tries :
       LET name(n) == [stack |-> s, stamp |-> clock, try |-> n]
       IN  /\ name(try) \notin files
           /\ \A n \in 1 .. try - 1 : name(n) \in files
           /\ files' = files \cup {name(try)}
           /\ JobIs(p, s, "tar", name(try))
  /\ UNCHANGED <<marker, running, whole, clock, recovery, up, budget, owed, unmarked>>

\* tar succeeds only if its file is still there with something in it.
Tar(p, s) ==
  /\ At(p, s, "tar")
  /\ \/ UNCHANGED whole
     \/ job[<<p, s>>].dest \in files /\ whole' = whole \cup {job[<<p, s>>].dest}
  /\ JobGoto(p, s, "start")
  /\ UNCHANGED <<marker, running, files, clock, recovery, up, budget, owed, unmarked>>

\* Broken: only an archive that came out whole gets its stack started again.
StartIfWhole(p, s) ==
  /\ At(p, s, "start")
  /\ \/ job[<<p, s>>].dest \notin whole /\ UNCHANGED <<running, owed>>
     \/ job[<<p, s>>].dest \in whole /\ ComposeStart(s)
  /\ JobGoto(p, s, "tidy")
  /\ UNCHANGED <<marker, files_, recovery, up, budget, unmarked>>

\* The finally block: a compose start follows every compose stop; if it fails,
\* the job's result says so.
Start(p, s) ==
  /\ At(p, s, "start")
  /\ \/ ComposeStart(s)
     \/ owed' = owed \ {s} /\ UNCHANGED running
  /\ JobGoto(p, s, "tidy")
  /\ UNCHANGED <<marker, files_, recovery, up, budget, unmarked>>

Good(p, s) == job[<<p, s>>].dest \in whole

Discard(p, s) == IF Good(p, s) THEN {} ELSE {job[<<p, s>>].dest}

\* The archive that did not come out whole is discarded, the marker is cleared,
\* and only a run with a complete archive goes on to prune.
Tidy(p, s) ==
  /\ At(p, s, "tidy")
  /\ files' = files \ Discard(p, s)
  /\ marker' = marker \ {s}
  /\ Unmarks(s, Procs \ {p})
  /\ IF Good(p, s) THEN JobGoto(p, s, "prune") ELSE JobIs(p, s, "off", None)
  /\ UNCHANGED <<running, whole, clock, recovery, up, budget, owed>>

\* Broken: keeps the oldest instead of the newest.
KeptOldest(s) ==
  {f \in FilesOf(s) : Cardinality({g \in FilesOf(s) : SortsBelow(g, f)}) < Retain}

\* The names that the reversed sort puts first.
Kept(s) ==
  {f \in FilesOf(s) : Cardinality({g \in FilesOf(s) : SortsBelow(f, g)}) < Retain}

Prune(p, s) ==
  /\ At(p, s, "prune")
  /\ files' = (files \ FilesOf(s)) \cup Kept(s)
  /\ whole' = whole \cap files'
  /\ JobIs(p, s, "off", None)
  /\ UNCHANGED <<marker, running, clock, recovery, up, budget, owed, unmarked>>

-----------------------------------------------------------------------------
(* recover_interrupted_stack_backups: once per boot, on a thread of its own,  *)
(* while the scheduler and the API already run backups.                       *)

RecoveryIs(p, point, todo, s, told) ==
  recovery' = [recovery EXCEPT ![p] = [pc |-> point, todo |-> todo, at |-> s, told |-> told]]

\* The next marker of the scan, or the end of the thread.
NextMarker(p, todo) == RecoveryIs(p, IF todo = {} THEN "off" ELSE "start", todo, None, FALSE)

Scan(p) ==
  /\ recovery[p].pc = "scan"
  /\ NextMarker(p, marker)
  /\ UNCHANGED <<marker, running, files_, job, up, budget, owed, unmarked>>

RecoverStart(p, s) ==
  /\ recovery[p].pc = "start" /\ s \in recovery[p].todo
  /\ \E ok \in BOOLEAN :
       /\ RecoveryIs(p, "unlink", recovery[p].todo, s, ~ok)
       /\ IF ok THEN ComposeStart(s) ELSE UNCHANGED <<running, owed>>
  /\ UNCHANGED <<marker, files_, job, up, budget, unmarked>>

\* The alert tells how it went; the marker is removed either way.
RecoverUnlink(p, s) ==
  /\ recovery[p].pc = "unlink" /\ s = recovery[p].at
  /\ marker' = marker \ {s}
  /\ owed' = IF recovery[p].told THEN owed \ {s} ELSE owed
  /\ Unmarks(s, Procs)
  /\ NextMarker(p, recovery[p].todo \ {s})
  /\ UNCHANGED <<running, files_, job, up, budget>>

-----------------------------------------------------------------------------
Boot(p) ==
  /\ p \notin up
  /\ up' = up \cup {p}
  /\ RecoveryIs(p, "scan", {}, None, FALSE)
  /\ UNCHANGED <<marker, running, files_, job, budget, owed, unmarked>>

Crash(p) ==
  /\ p \in up /\ budget.crash < MaxFaults
  /\ budget' = [budget EXCEPT !.crash = @ + 1]
  /\ up' = up \ {p}
  /\ job' = [ps \in Procs \X Stacks |-> IF ps[1] = p THEN NoJob ELSE job[ps]]
  /\ recovery' = [recovery EXCEPT ![p] = NoRecovery]
  /\ UNCHANGED <<marker, running, files_, owed, unmarked>>

ClockTicks ==
  /\ clock < MaxClock
  /\ clock' = clock + 1
  /\ UNCHANGED <<marker, running, files, whole, job, recovery, up, budget, owed, unmarked>>

\* The stamps are local time: the end of summer time sets them back.
ClockBack ==
  /\ clock > 0 /\ budget.back < MaxBack
  /\ budget' = [budget EXCEPT !.back = @ + 1]
  /\ clock' = clock - 1
  /\ UNCHANGED <<marker, running, files, whole, job, recovery, up, owed, unmarked>>

HandStop(s) ==
  /\ s \in running
  /\ running' = running \ {s}
  /\ UNCHANGED <<marker, files_, job, recovery, up, budget, owed, unmarked>>

HandStart(s) ==
  /\ s \notin running
  /\ ComposeStart(s)
  /\ UNCHANGED <<marker, files_, job, recovery, up, budget, unmarked>>

-----------------------------------------------------------------------------
\* One job's steps once it has begun, the finally included.
JobStep(p, s) ==
  \/ Mark(p, s) \/ Stop(p, s) \/ Export(p, s) \/ ExportFails(p, s) \/ Tar(p, s)
  \/ Start(p, s) \/ Tidy(p, s) \/ Prune(p, s)

RecoveryStep(p) ==
  Scan(p) \/ \E s \in Stacks : RecoverStart(p, s) \/ RecoverUnlink(p, s)

Next ==
  \/ \E p \in Procs : Boot(p) \/ Crash(p) \/ RecoveryStep(p)
  \/ \E p \in Procs, s \in Stacks : Begin(p, s) \/ JobStep(p, s)
  \/ \E s \in Stacks : HandStop(s) \/ HandStart(s)
  \/ ClockTicks \/ ClockBack

Spec == Init /\ [][Next]_vars

\* Every command of a job has a timeout, and launchd starts a dead panel again.
Fairness ==
  \A p \in Procs : /\ WF_vars(Boot(p)) /\ WF_vars(RecoveryStep(p))
                   /\ \A s \in Stacks : WF_vars(JobStep(p, s))

FairSpec == Spec /\ Fairness

-----------------------------------------------------------------------------
(* Properties. *)

\* Once a compose stop has been issued, somebody will issue the compose start:
\* the backup itself, or the recovery of the next boot by its marker, unless the
\* marker could not be written or was taken from under a live backup
\* (_backup_stack, recover_interrupted_stack_backups).
NoStackForgotten == \A s \in owed : s \in marker \cup unmarked \/ LiveBackup(s)

\* The wall clock has never been set back, so that names sort by age.
Monotone == budget.back = 0

\* Unless the clock was set back, a successful run never prunes away the only
\* complete archive (_prune: "a failing job can never rotate away the last good
\* copy").
Complete(s) == {f \in whole : f.stack = s}
LastGoodCopyStays ==
  [][\A s \in Stacks : Monotone /\ Complete(s) # {} => Complete(s)' # {}]_vars

\* The same as docs/scheduler-and-backups.md states it: the marker of a backup
\* that dies between stop and restart survives for the next startup.
MarkerSurvives == \A s \in owed : s \in marker \/ LiveBackup(s)

\* A stack that a backup took down comes back, or the failure is reported, across
\* crashes (the try/finally and the marker).
EventuallyBack == \A s \in Stacks : s \in owed ~> s \notin owed \/ s \in unmarked

=============================================================================
