---------------------------- MODULE ConfigStore ----------------------------
(***************************************************************************)
(* services.yaml, as hub/config.py reads and writes it: mutate reads,      *)
(* patches and replaces the file under a lock of the process and a flock   *)
(* of all processes; cfg answers from a copy per process that is keyed by  *)
(* the file's mtime; the first cfg of a fresh install creates the file.    *)
(* The LaunchAgent panel and the packaged app may run at once.             *)
(***************************************************************************)
EXTENDS Integers, Sequences

CONSTANTS
  Procs,      \* ServerHub processes over one data directory
  Threads,    \* request threads of a process
  Keys,       \* what is stored: settings, apps, bookmarks ...
  Free,       \* nobody
  Retention,  \* BACKUP_RETENTION
  MaxWrites,  \* bound on the changes of the file
  MaxFaults   \* bound on crashes, I/O errors, torn files and clock jumps

ASSUME ConfigAssumption ==
  /\ Retention \in Nat \ {0} /\ MaxWrites \in Nat /\ MaxFaults \in Nat
  /\ Free \notin Procs \cup (Procs \X Threads)

VARIABLES
  file,       \* services.yaml: its body, what it says of a key, its mtime
  baks,       \* the pre-images services.yaml.bak.*, sorted by name
  writeLock,  \* _write_lock, per process
  fileLock,   \* the flock on .services.yaml.lock
  job,        \* per thread: a mutate in progress
  cache,      \* _cfg, per process
  reading,    \* per process: a cfg in progress, under _cfg_lock
  faults,
  (* What the properties observe and the code does not keep. *)
  unlocked,   \* some writer went on without the flock
  misread,    \* per process: its copy comes from a read that failed
  skewed      \* a pre-image was stamped by a clock set back

vars == <<file, baks, writeLock, fileLock, job, cache, reading, faults,
          unlocked, misread, skewed>>

Writers == Procs \X Threads

Nothing == [k \in Keys |-> 0]
Values == [Keys -> Nat]

\* empty: created, not filled yet.  torn: does not parse.  by: the process whose
\* bootstrap holds the file open.
Files == [body : {"none", "empty", "good", "torn"}, vals : Values,
          mtime : Nat, by : Procs \cup {Free}]

NoJob == [at |-> "idle", key |-> Free, data |-> Nothing, locked |-> FALSE]
NotReading == [at |-> "idle", mtime |-> 0, then |-> Free]

Steps == {"idle", "lock", "flock", "read", "save", "replace", "reload", "release"}

Jobs == [at : Steps, key : Keys \cup {Free}, data : Values, locked : BOOLEAN]
Copies == [mtime : Nat, data : Values]
Readings == [at : {"idle", "fill", "parse"}, mtime : Nat, then : Writers \cup {Free}]

TypeOK ==
  /\ file \in Files
  /\ baks \in Seq(Values) /\ Len(baks) <= Retention
  /\ writeLock \in [Procs -> Writers \cup {Free}]
  /\ fileLock \in Writers \cup {Free}
  /\ job \in [Writers -> Jobs]
  /\ cache \in [Procs -> Copies]
  /\ reading \in [Procs -> Readings]
  /\ faults \in 0 .. MaxFaults
  /\ unlocked \in BOOLEAN /\ misread \in [Procs -> BOOLEAN] /\ skewed \in BOOLEAN

\* A fresh install, or one in use whose copies have not been read yet.
Init ==
  /\ \E body \in {"none", "good"} :
       file = [body |-> body, vals |-> Nothing, mtime |-> 1, by |-> Free]
  /\ baks = <<>>
  /\ writeLock = [p \in Procs |-> Free] /\ fileLock = Free
  /\ job = [w \in Writers |-> NoJob]
  /\ cache = [p \in Procs |-> [mtime |-> 0, data |-> Nothing]]
  /\ reading = [p \in Procs |-> NotReading]
  /\ faults = 0 /\ unlocked = FALSE /\ skewed = FALSE
  /\ misread = [p \in Procs |-> FALSE]

-----------------------------------------------------------------------------
(* cfg *)

Parsed(f) == IF f.body = "good" THEN f.vals ELSE Nothing

\* Every change of the file has a new mtime.
Changed(body, vals, by) == [body |-> body, vals |-> vals, mtime |-> file.mtime + 1, by |-> by]

CacheIs(p, mtime, data) == cache' = [cache EXCEPT ![p] = [mtime |-> mtime, data |-> data]]

ReadingIs(p, step, mtime, w) ==
  reading' = [reading EXCEPT ![p] = [at |-> step, mtime |-> mtime, then |-> w]]

JobIs(w, step, k, data, locked) ==
  job' = [job EXCEPT ![w] = [at |-> step, key |-> k, data |-> data, locked |-> locked]]

At(w, step) == job[w].at = step
Goes(w, step) == JobIs(w, step, job[w].key, job[w].data, job[w].locked)

\* Broken: creates without O_EXCL, so whatever is there is overwritten.
FilledAnyway(p) == TRUE

\* The file _bootstrap created is still the one in the directory.
FillsOwn(p) == file.by = p

\* _bootstrap decides with O_EXCL: a file that is there is left alone.
CfgCreates(p, w) ==
  /\ file.body = "none"
  /\ file' = Changed("empty", file.vals, p)
  /\ ReadingIs(p, "fill", 0, w)
  /\ UNCHANGED <<baks, writeLock, fileLock, cache, faults, unlocked, misread, skewed>>

CfgFills(p) ==
  /\ reading[p].at = "fill"
  /\ file' = IF FillsOwn(p) THEN Changed("good", Nothing, Free) ELSE file
  /\ ReadingIs(p, "parse", file'.mtime, reading[p].then)
  /\ UNCHANGED <<baks, writeLock, fileLock, job, cache, faults, unlocked, misread, skewed>>

\* The mtime is taken before the file is read.
CfgStats(p, w) ==
  /\ file.body # "none"
  /\ ReadingIs(p, "parse", file.mtime, w)
  /\ UNCHANGED <<file, baks, writeLock, fileLock, cache, faults, unlocked, misread, skewed>>

Resume(p) ==
  IF reading[p].then = Free THEN UNCHANGED job ELSE Goes(reading[p].then, "release")

\* Nothing is read again while the mtime stays.  A file that does not parse
\* counts as {}, under its mtime.
CfgParses(p) ==
  /\ reading[p].at = "parse"
  /\ IF reading[p].mtime = cache[p].mtime
     THEN UNCHANGED <<cache, misread>>
     ELSE /\ CacheIs(p, reading[p].mtime, Parsed(file))
          /\ misread' = [misread EXCEPT ![p] = FALSE]
  /\ reading' = [reading EXCEPT ![p] = NotReading]
  /\ Resume(p)
  /\ UNCHANGED <<file, baks, writeLock, fileLock, faults, unlocked, skewed>>

\* So does one that cannot be read this once.
CfgReadFails(p) ==
  /\ reading[p].at = "parse" /\ reading[p].mtime # cache[p].mtime
  /\ faults < MaxFaults /\ faults' = faults + 1
  /\ CacheIs(p, reading[p].mtime, Nothing)
  /\ misread' = [misread EXCEPT ![p] = TRUE]
  /\ reading' = [reading EXCEPT ![p] = NotReading]
  /\ Resume(p)
  /\ UNCHANGED <<file, baks, writeLock, fileLock, unlocked, skewed>>

Cfg(p) ==
  /\ reading[p].at = "idle"
  /\ CfgCreates(p, Free) \/ CfgStats(p, Free)
  /\ UNCHANGED job

-----------------------------------------------------------------------------
(* mutate *)

Call(w, k) ==
  /\ At(w, "idle") /\ file.mtime < MaxWrites
  /\ JobIs(w, "lock", k, Nothing, FALSE)
  /\ UNCHANGED <<file, baks, writeLock, fileLock, cache, reading, faults, unlocked,
                 misread, skewed>>

TakeWriteLock(w) ==
  /\ At(w, "lock") /\ writeLock[w[1]] = Free
  /\ writeLock' = [writeLock EXCEPT ![w[1]] = w]
  /\ Goes(w, "flock")
  /\ UNCHANGED <<file, baks, fileLock, cache, reading, faults, unlocked, misread, skewed>>

TakeFileLock(w) ==
  /\ At(w, "flock") /\ fileLock = Free
  /\ fileLock' = w
  /\ JobIs(w, "read", job[w].key, job[w].data, TRUE)
  /\ UNCHANGED <<file, baks, writeLock, cache, reading, faults, unlocked, misread, skewed>>

\* _file_lock: a lock that cannot be created or taken is done without.
GoUnlocked(w) ==
  /\ At(w, "flock") /\ faults < MaxFaults
  /\ faults' = faults + 1 /\ unlocked' = TRUE
  /\ Goes(w, "read")
  /\ UNCHANGED <<file, baks, writeLock, fileLock, cache, reading, misread, skewed>>

\* Broken: patches the copy of the process, as save_full(deepcopy(cfg())) did.
SnapshotOfCache(w) == cache[w[1]].data

\* _read_disk_for_mutate, past the mtime cache.
Snapshot(w) == Parsed(file)

Patched(w) == [Snapshot(w) EXCEPT ![job[w].key] = @ + 1]

ReadAndPatch(w) ==
  /\ At(w, "read") /\ file.body # "torn"
  /\ JobIs(w, "save", job[w].key, Patched(w), job[w].locked)
  /\ UNCHANGED <<file, baks, writeLock, fileLock, cache, reading, faults, unlocked,
                 misread, skewed>>

\* settings.config_unreadable
Refuse(w) ==
  /\ At(w, "read") /\ file.body = "torn"
  /\ Goes(w, "release")
  /\ UNCHANGED <<file, baks, writeLock, fileLock, cache, reading, faults, unlocked,
                 misread, skewed>>

\* Broken: what is cut off is the newest.
KeepOldest(s) == IF Len(s) > Retention THEN SubSeq(s, 1, Retention) ELSE s

KeepNewest(s) ==
  IF Len(s) > Retention THEN SubSeq(s, Len(s) - Retention + 1, Len(s)) ELSE s

\* The copy has a name above all others; of a clock set back, below them.
SaveCopy(w) ==
  /\ At(w, "save")
  /\ \/ /\ file.body = "none"
        /\ UNCHANGED <<baks, faults, skewed>>
     \/ /\ file.body # "none"
        /\ baks' = KeepNewest(Append(baks, Parsed(file)))
        /\ UNCHANGED <<faults, skewed>>
     \/ /\ file.body # "none" /\ faults < MaxFaults
        /\ faults' = faults + 1 /\ skewed' = TRUE
        /\ baks' \in {KeepNewest(<<Parsed(file)>> \o baks), baks}
  /\ Goes(w, "replace")
  /\ UNCHANGED <<file, writeLock, fileLock, cache, reading, unlocked, misread>>

\* secure_io.replace_secret_text, atomic.
Replace(w) ==
  /\ At(w, "replace")
  /\ file' = Changed("good", job[w].data, Free)
  /\ Goes(w, "reload")
  /\ UNCHANGED <<baks, writeLock, fileLock, cache, reading, faults, unlocked, misread, skewed>>

\* Too large, or the write fails: settings.save_failed.
SaveFails(w) ==
  /\ At(w, "replace") /\ faults < MaxFaults
  /\ faults' = faults + 1
  /\ Goes(w, "release")
  /\ UNCHANGED <<file, baks, writeLock, fileLock, cache, reading, unlocked, misread, skewed>>

\* Broken: keeps what it wrote under the mtime it finds, instead of reading.
ReloadFromMemory(w) == LET p == w[1] IN
  /\ At(w, "reload") /\ reading[p].at = "idle"
  /\ CacheIs(p, file.mtime, job[w].data)
  /\ Goes(w, "release")
  /\ UNCHANGED <<file, baks, writeLock, fileLock, reading, faults, unlocked, misread, skewed>>

\* reload_cfg: forgets the mtime and calls cfg, all under _cfg_lock.
Reload(w) == LET p == w[1] IN
  /\ At(w, "reload") /\ reading[p].at = "idle"
  /\ CacheIs(p, 0, cache[p].data)
  /\ ReadingIs(p, "parse", file.mtime, w)
  /\ UNCHANGED <<file, baks, writeLock, fileLock, job, faults, unlocked, misread, skewed>>

\* Broken: the flock stays with a writer that was refused.
ReleasedIfSaved(w) == IF job[w].data # Nothing THEN Free ELSE fileLock

Released(w) == IF job[w].locked THEN Free ELSE fileLock

Release(w) ==
  /\ At(w, "release")
  /\ fileLock' = Released(w)
  /\ writeLock' = [writeLock EXCEPT ![w[1]] = Free]
  /\ job' = [job EXCEPT ![w] = NoJob]
  /\ UNCHANGED <<file, baks, cache, reading, faults, unlocked, misread, skewed>>

Mutate(w) ==
  \/ TakeWriteLock(w) \/ TakeFileLock(w) \/ GoUnlocked(w)
  \/ ReadAndPatch(w) \/ Refuse(w) \/ SaveCopy(w)
  \/ Replace(w) \/ SaveFails(w) \/ Reload(w) \/ Release(w)

-----------------------------------------------------------------------------
(* The operator and the machine. *)

\* A writer that knows nothing of the flock steps between read and replace.
Intrudes == \E w \in Writers : job[w].at \in {"save", "replace"}

\* An editor that saves the whole document.
HandEdit(k) ==
  /\ file.body \in {"good", "torn"} /\ file.mtime < MaxWrites
  /\ file' = Changed("good", [file.vals EXCEPT ![k] = @ + 1], Free)
  /\ unlocked' = (unlocked \/ Intrudes)
  /\ UNCHANGED <<baks, writeLock, fileLock, job, cache, reading, faults, misread, skewed>>

Tear ==
  /\ file.body = "good" /\ faults < MaxFaults
  /\ faults' = faults + 1
  /\ file' = Changed("torn", file.vals, file.by)
  /\ unlocked' = (unlocked \/ Intrudes)
  /\ UNCHANGED <<baks, writeLock, fileLock, job, cache, reading, misread, skewed>>

\* The process ends and is started again: its locks go, its copy is empty.
Crash(p) ==
  /\ faults < MaxFaults /\ faults' = faults + 1
  /\ writeLock' = [writeLock EXCEPT ![p] = Free]
  /\ fileLock' = IF fileLock # Free /\ fileLock[1] = p THEN Free ELSE fileLock
  /\ job' = [w \in Writers |-> IF w[1] = p THEN NoJob ELSE job[w]]
  /\ CacheIs(p, 0, Nothing)
  /\ reading' = [reading EXCEPT ![p] = NotReading]
  /\ misread' = [misread EXCEPT ![p] = FALSE]
  /\ UNCHANGED <<file, baks, unlocked, skewed>>

CfgStep(p) == CfgFills(p) \/ CfgParses(p) \/ CfgReadFails(p)

Next ==
  \/ \E p \in Procs : Cfg(p) \/ CfgStep(p) \/ Crash(p)
  \/ \E w \in Writers : Mutate(w) \/ \E k \in Keys : Call(w, k)
  \/ \E k \in Keys : HandEdit(k)
  \/ Tear

Spec == Init /\ [][Next]_vars

\* A thread that has begun runs on.  _cfg_lock is held for one read of the file,
\* and a thread that asks for it again and again gets it.
FairSpec ==
  /\ Spec
  /\ \A p \in Procs : WF_vars(CfgStep(p))
  /\ \A w \in Writers : WF_vars(Mutate(w)) /\ SF_vars(Reload(w))

-----------------------------------------------------------------------------
(* Properties. *)

\* Nothing stored is undone: not by a second process that read before and
\* writes after, not by a thread with an old copy, not by the bootstrap of a
\* process that found no file.  Only who writes past the flock can do it
\* (mutate; "the second writer silently reverted the first").
SavesSurvive ==
  [][~unlocked' /\ file.body = "good" /\ file'.body = "good" =>
       \A k \in Keys : file'.vals[k] >= file.vals[k]]_vars

\* A copy that bears the mtime of the file says what the file says, however
\* reads and replacements of several processes interleave (cfg).
CacheTruthful ==
  \A p \in Procs :
    reading[p].at = "idle" /\ cache[p].mtime = file.mtime /\ ~misread[p]
      => cache[p].data = Parsed(file)

\* The copy is always the file's once cfg has seen its mtime ("Hot-reloaded
\* services.yaml"): a failed read is not remembered as an empty file.
HotReload ==
  \A p \in Procs :
    reading[p].at = "idle" /\ cache[p].mtime = file.mtime
      => cache[p].data = Parsed(file)

\* What a save replaces is the newest pre-image at that moment, a whole
\* retention window away from being pruned (_save_full_locked).
PreImageKept ==
  [][\A w \in Writers :
       /\ At(w, "replace") /\ job'[w].at = "reload"
       /\ ~unlocked /\ ~skewed /\ Parsed(file) # Nothing
       => baks # <<>> /\ baks[Len(baks)] = Parsed(file)]_vars

\* No lock outlives its save, refused, failing or cut short as it may be, and no save
\* goes on without the locks it took (mutate, _file_lock).
LocksFollowSaves ==
  \A w \in Writers :
    /\ writeLock[w[1]] = w <=> job[w].at \notin {"idle", "lock"}
    /\ fileLock = w <=> job[w].locked

\* Whatever becomes of its save, no thread keeps the flock from the other
\* processes for ever (_file_lock).
FlockFreed == \A w \in Writers : (fileLock = w) ~> (fileLock # w)

=============================================================================
