--------------------------- MODULE MetricsRollup ---------------------------
(***************************************************************************)
(* The history of the machine: hub/metrics.py samples into a buffer and    *)
(* the raw journal, hub/metrics_rollup.py folds the raw rows into          *)
(* five-minute rows and those into hour rows, each tier up to a watermark. *)
(* A row is the set of samples behind it, with the start of its window.    *)
(***************************************************************************)
EXTENDS Integers, Sequences, FiniteSets

CONSTANTS
  Procs,      \* panel processes over one data directory
  Win5,       \* ticks of a five-minute window
  Win1h,      \* ticks of an hour
  FlushEvery, \* _FLUSH_EVERY_N
  MaxRaw,     \* MAX_POINTS: rows the trim of the raw journal leaves
  Slack,      \* _TRIM_SLACK of the raw journal
  Retain5,    \* RETAIN_5M with its slack, in ticks
  MaxTime,    \* bound on the clock
  Jump,       \* ticks of a long sleep, or a step back of the clock
  Faults,     \* what may go wrong: "crash", "append", "save", "read", "back", "sleep"
  MaxFaults   \* bound on how often

ASSUME MetricsAssumption ==
  /\ Win5 \in Nat \ {0} /\ Win1h \in Nat \ {0} /\ Win1h % Win5 = 0
  /\ {FlushEvery, MaxRaw, Slack, Retain5, MaxTime, Jump, MaxFaults} \subseteq Nat
  /\ Faults \subseteq {"crash", "append", "save", "read", "back", "sleep"}

VARIABLES
  now,
  raw,        \* metrics.jsonl
  five,       \* metrics-5m.jsonl
  hour,       \* metrics-1h.jsonl
  saved,      \* metrics-rollup-state.json
  proc,       \* per process: the sampler thread with its buffer and watermarks
  faults,
  (* What the properties observe and the code does not keep. *)
  high,       \* the latest the clock has shown
  journal,    \* every row the raw journal ever took
  folded,     \* every row the five-minute journal ever took
  late,       \* samples stamped by a clock that was set back
  given       \* per tier: samples given up with an unreadable journal or a long sleep

rollVars == <<now, raw, five, hour, saved, proc, faults, high, journal, folded, late, given>>

Ids == Procs \X Nat

Marks == [w5 : Nat, w1h : Nat]
Zero == [w5 |-> 0, w1h |-> 0]

Off == [at |-> "off", n |-> 0, buf |-> <<>>, w |-> Zero, loaded |-> FALSE,
        now |-> 0, rows |-> <<>>, from |-> 0]

Steps == {"off", "stopped", "sample", "roll", "five", "hour", "append", "save", "rest"}

IsRow(r) == r.t \in Nat /\ \A i \in r.ids : i \in Ids

RollTypeOK ==
  /\ now \in 0 .. MaxTime /\ high \in now .. MaxTime
  /\ \A s \in {raw, five, hour} : \A i \in DOMAIN s : IsRow(s[i])
  /\ Len(raw) <= MaxRaw + Slack + FlushEvery
  /\ saved \in Marks
  /\ \A p \in Procs :
       /\ proc[p].at \in Steps /\ proc[p].w \in Marks /\ proc[p].loaded \in BOOLEAN
       /\ Len(proc[p].buf) <= FlushEvery
       /\ proc[p].w.w5 % Win5 = 0 /\ proc[p].w.w1h % Win1h = 0
  /\ faults \in 0 .. MaxFaults

RollInit ==
  /\ now = 0 /\ high = 0
  /\ raw = <<>> /\ five = <<>> /\ hour = <<>>
  /\ saved = Zero
  /\ proc = [p \in Procs |-> Off]
  /\ faults = 0
  /\ journal = {} /\ folded = {} /\ late = {}
  /\ given = [five |-> {}, hour |-> {}]

-----------------------------------------------------------------------------
(* Rows and windows. *)

Rows(s) == {s[i] : i \in DOMAIN s}

Floor(t, win) == (t \div win) * win

Greater(a, b) == IF a > b THEN a ELSE b

\* The numbers of a finite set in ascending order, which is one sequence.
Ascents(S) ==
  {f \in [1 .. Cardinality(S) -> S] : \A i, j \in DOMAIN f : i < j => f[i] < f[j]}

\* _aggregate_window for each window that has a row: holes stay holes.
Windows(s, from, to, win) ==
  LET In == {r \in Rows(s) : from <= r.t /\ r.t < to}
      Window(t) == [t |-> t, ids |-> UNION {r.ids : r \in {q \in In : Floor(q.t, win) = t}}]
  IN {[i \in DOMAIN f |-> Window(f[i])] : f \in Ascents({Floor(r.t, win) : r \in In})}

\* Nothing below the watermark, nor below what the source can still prove.
Start(s, w, win) == Greater(w, Floor(s[1].t, win))

Aggregate(s, w, to, win) ==
  IF s = <<>> THEN {<<>>} ELSE Windows(s, Start(s, w, win), to, win)

\* The watermark a tier's last row proves.
Proven(s, win) == IF s = <<>> THEN 0 ELSE s[Len(s)].t + win

\* Broken: the state file alone is believed.
SavedMarks == saved

\* _load_state_locked: the later of the state file and the last row.
LoadedMarks ==
  [w5 |-> Greater(saved.w5, Proven(five, Win5)),
   w1h |-> Greater(saved.w1h, Proven(hour, Win1h))]

Marked(p) == IF proc[p].loaded THEN proc[p].w ELSE LoadedMarks

Fault(kind) == kind \in Faults /\ faults < MaxFaults /\ faults' = faults + 1

-----------------------------------------------------------------------------
(* The sampler: metrics.py *)

\* The ring buffer, past its slack.  The rewrite happens at most hourly.
Trimmed(s) == SubSeq(s, Len(s) - MaxRaw + 1, Len(s))

\* _flush_buf_locked: the buffer is emptied first, and a chunk the disk refuses
\* is lost.
Flushed(buf) ==
  \/ /\ raw' \in IF Len(raw \o buf) > MaxRaw + Slack
                 THEN {raw \o buf, Trimmed(raw \o buf)} ELSE {raw \o buf}
     /\ Len(raw') <= MaxRaw + Slack + FlushEvery
     /\ journal' = journal \cup Rows(buf)
     /\ UNCHANGED faults
  \/ buf # <<>> /\ Fault("append") /\ UNCHANGED <<raw, journal>>

\* record_sample
Sample(p) ==
  LET row == [t |-> now, ids |-> {<<p, proc[p].n>>}]
      buf == Append(proc[p].buf, row)
  IN
  /\ proc[p].at = "sample"
  /\ \/ /\ Len(buf) < FlushEvery
        /\ proc' = [proc EXCEPT ![p].at = "roll", ![p].n = @ + 1, ![p].buf = buf]
        /\ UNCHANGED <<raw, journal, faults>>
     \/ /\ Flushed(buf)
        /\ proc' = [proc EXCEPT ![p].at = "roll", ![p].n = @ + 1, ![p].buf = <<>>]
  /\ late' = IF now < high THEN late \cup row.ids ELSE late
  /\ UNCHANGED <<now, five, hour, saved, high, folded, given>>

-----------------------------------------------------------------------------
(* The roll-up: maybe_rollup *)

\* Broken: what is still in the buffer is left there.
NoFlush(buf, left) == left = buf /\ UNCHANGED <<raw, journal, faults>>

\* flush_pending, before the tail of the journal is read.
FlushPending(buf, left) == left = <<>> /\ Flushed(buf)

\* A new five-minute window has completed: buffered samples go to the disk.
EnterFive(p) ==
  /\ proc[p].at = "roll" /\ Floor(now, Win5) > Marked(p).w5
  /\ \E left \in {<<>>, proc[p].buf} :
       /\ FlushPending(proc[p].buf, left)
       /\ proc' = [proc EXCEPT ![p].at = "five", ![p].buf = left, ![p].now = now,
                               ![p].w = Marked(p), ![p].loaded = TRUE]
  /\ UNCHANGED <<now, five, hour, saved, high, folded, late, given>>

PassFive(p) ==
  /\ proc[p].at = "roll" /\ Floor(now, Win5) <= Marked(p).w5
  /\ proc' = [proc EXCEPT ![p].at = "hour", ![p].now = now,
                          ![p].w = Marked(p), ![p].loaded = TRUE]
  /\ UNCHANGED <<now, raw, five, hour, saved, faults, high, journal, folded, late, given>>

\* The rows are read here and appended in the next step.
ReadFive(p) ==
  /\ proc[p].at = "five"
  /\ \E rows \in Aggregate(raw, proc[p].w.w5, Floor(proc[p].now, Win5), Win5) :
       proc' = [proc EXCEPT ![p].at = "append", ![p].from = 5, ![p].rows = rows]
  /\ UNCHANGED <<now, raw, five, hour, saved, faults, high, journal, folded, late, given>>

\* Broken: the hour runs ahead of the five-minute tier.
HourOfClock(p) == Floor(proc[p].now, Win1h)

\* Clamped to what the five-minute tier has reached.
HourTarget(p) ==
  LET clock == Floor(proc[p].now, Win1h) reached == Floor(proc[p].w.w5, Win1h)
  IN IF clock < reached THEN clock ELSE reached

ReadHour(p) ==
  /\ proc[p].at = "hour" /\ HourTarget(p) > proc[p].w.w1h
  /\ \E rows \in Aggregate(five, proc[p].w.w1h, HourTarget(p), Win1h) :
       proc' = [proc EXCEPT ![p].at = "append", ![p].from = 1, ![p].rows = rows]
  /\ UNCHANGED <<now, raw, five, hour, saved, faults, high, journal, folded, late, given>>

PassHour(p) ==
  /\ proc[p].at = "hour" /\ HourTarget(p) <= proc[p].w.w1h
  /\ proc' = [proc EXCEPT ![p].at = "save"]
  /\ UNCHANGED <<now, raw, five, hour, saved, faults, high, journal, folded, late, given>>

Samples(rows) == UNION {r.ids : r \in rows}

\* _first_row_ts and _rows_since answer an unreadable journal as an empty one.
ReadsNothing(p) ==
  /\ Fault("read")
  /\ \/ /\ proc[p].at = "five"
        /\ proc' = [proc EXCEPT ![p].at = "append", ![p].from = 5]
        /\ given' = [given EXCEPT !.five = @ \cup Samples({r \in journal : r.t < Floor(proc[p].now, Win5)})]
     \/ /\ proc[p].at = "hour" /\ HourTarget(p) > proc[p].w.w1h
        /\ proc' = [proc EXCEPT ![p].at = "append", ![p].from = 1]
        /\ given' = [given EXCEPT !.hour = @ \cup Samples({f \in folded : f.t < HourTarget(p)})]
  /\ UNCHANGED <<now, raw, five, hour, saved, high, journal, folded, late>>

\* _maybe_trim_locked, behind its hourly gate: rows past their age go, once the
\* oldest is older than the slack allows.
Aged(s, t) ==
  LET Kept == {[i \in DOMAIN f |-> s[f[i]]] : f \in Ascents({i \in DOMAIN s : s[i].t >= t - Retain5})}
  IN {s} \cup IF s # <<>> /\ s[1].t < t - Retain5 THEN Kept ELSE {}

AppendFive(p) ==
  /\ proc[p].at = "append" /\ proc[p].from = 5
  /\ five' \in Aged(five \o proc[p].rows, proc[p].now)
  /\ folded' = folded \cup Rows(proc[p].rows)
  /\ proc' = [proc EXCEPT ![p].at = "hour", ![p].rows = <<>>,
                          ![p].w.w5 = Floor(proc[p].now, Win5)]
  /\ UNCHANGED <<now, raw, hour, saved, faults, high, journal, late, given>>

AppendHour(p) ==
  /\ proc[p].at = "append" /\ proc[p].from = 1
  /\ hour' = hour \o proc[p].rows
  /\ proc' = [proc EXCEPT ![p].at = "save", ![p].rows = <<>>, ![p].w.w1h = HourTarget(p)]
  /\ UNCHANGED <<now, raw, five, saved, faults, high, journal, folded, late, given>>

\* A refused append leaves the watermark, and the windows are tried again.
LeftAlone(p) == proc[p].w

AppendFails(p) ==
  /\ proc[p].at = "append" /\ proc[p].rows # <<>>
  /\ Fault("append")
  /\ proc' = [proc EXCEPT ![p].at = IF proc[p].from = 5 THEN "hour" ELSE "save",
                          ![p].rows = <<>>, ![p].w = LeftAlone(p)]
  /\ UNCHANGED <<now, raw, five, hour, saved, high, journal, folded, late, given>>

\* _save_state_locked; an error is no matter.
Save(p) ==
  /\ proc[p].at = "save"
  /\ \/ saved' = proc[p].w /\ UNCHANGED faults
     \/ Fault("save") /\ UNCHANGED saved
  /\ proc' = [proc EXCEPT ![p].at = "rest"]
  /\ UNCHANGED <<now, raw, five, hour, high, journal, folded, late, given>>

Rollup(p) ==
  \/ EnterFive(p) \/ PassFive(p) \/ ReadFive(p) \/ AppendFive(p)
  \/ ReadHour(p) \/ PassHour(p) \/ AppendHour(p)
  \/ ReadsNothing(p) \/ AppendFails(p) \/ Save(p)

-----------------------------------------------------------------------------
(* Time and the life of a process. *)

\* A stopped panel is started again in a later tick.
Wakes == [off |-> "off", stopped |-> "off", rest |-> "sample", roll |-> "roll"]

\* A pass is shorter than a tick; a boundary may fall between a sample and it.
Passes(t) ==
  /\ t <= MaxTime
  /\ \A p \in Procs : proc[p].at \in DOMAIN Wakes
  /\ now' = t /\ high' = Greater(high, t)
  /\ proc' = [p \in Procs |-> [proc[p] EXCEPT !.at = Wakes[@]]]
  /\ UNCHANGED <<raw, five, hour, saved, journal, folded, late>>

Tick == Passes(now + 1) /\ UNCHANGED <<faults, given>>

Taken == UNION {{p} \X (0 .. proc[p].n - 1) : p \in Procs}

\* The machine sleeps, or the panel is off, for long.
LongSleep ==
  /\ Fault("sleep") /\ Passes(now + Jump)
  /\ given' = [given EXCEPT !.hour = @ \cup (Taken \ Samples(Rows(hour)))]

ClockBack == now >= Jump /\ Fault("back") /\ Passes(now - Jump) /\ UNCHANGED given

Boot(p) ==
  /\ proc[p].at = "off"
  /\ proc' = [proc EXCEPT ![p] = [Off EXCEPT !.at = "sample", !.n = proc[p].n]]
  /\ UNCHANGED <<now, raw, five, hour, saved, faults, high, journal, folded, late, given>>

\* stop_sampler flushes what is buffered.
Stop(p) ==
  /\ proc[p].at = "rest"
  /\ Flushed(proc[p].buf)
  /\ proc' = [proc EXCEPT ![p] = [Off EXCEPT !.at = "stopped", !.n = proc[p].n]]
  /\ UNCHANGED <<now, five, hour, saved, high, folded, late, given>>

Crash(p) ==
  /\ proc[p].at \notin {"off", "stopped"} /\ Fault("crash")
  /\ proc' = [proc EXCEPT ![p] = [Off EXCEPT !.n = proc[p].n]]
  /\ UNCHANGED <<now, raw, five, hour, saved, high, journal, folded, late, given>>

RollNext ==
  \/ Tick \/ LongSleep \/ ClockBack
  \/ \E p \in Procs : Sample(p) \/ Rollup(p) \/ Boot(p) \/ Stop(p) \/ Crash(p)

RollSpec == RollInit /\ [][RollNext]_rollVars

-----------------------------------------------------------------------------
(* Properties. *)

Single(s) == \A i, j \in DOMAIN s : i # j => s[i].ids \cap s[j].ids = {} /\ s[i].t # s[j].t

\* No sample is counted twice in a tier and no window has two rows, whatever was
\* not saved and whenever the process died ("a crash between append rows and
\* save state cannot double-aggregate a window"), nor when the clock steps back.
NoDoubleCount == Single(five) /\ Single(hour)

\* Below its watermark a tier has every sample of the one beneath, but for some.
FiveMissesOnly(some) ==
  \A p \in Procs : proc[p].loaded =>
    \A r \in journal : r.t < proc[p].w.w5 /\ r.ids \cap some = {} =>
      \E f \in folded : r.ids \subseteq f.ids

HourMissesOnly(some) ==
  \A p \in Procs : proc[p].loaded =>
    \A f \in folded : f.t < proc[p].w.w1h /\ f.ids \cap some = {} =>
      \E i \in DOMAIN hour : f.ids \subseteq hour[i].ids

\* A sample that reached the raw journal is in a five-minute row once the watermark
\* has passed it, whatever dies, is refused or is not saved; only a clock set back or
\* a journal that could not be read leaves it out (maybe_rollup, flush_pending).
NothingSkipped == FiveMissesOnly(late \cup given.five)

\* Likewise from the five-minute rows to the hours, also when the lower tier lags
\* behind its clock, unless the machine slept for long before the hour was counted.
HoursAreWhole == HourMissesOnly(late \cup given.five \cup given.hour)

\* A trim takes only rows below the watermark of the tier above, or that the machine
\* slept over (_flush_buf_locked, _maybe_trim_locked).
Retained ==
  \A p \in Procs :
    /\ \A r \in Rows(raw) \cup (journal' \ journal) : r \in Rows(raw') \/ r.t < Marked(p).w5
    /\ \A f \in Rows(five) \cup (folded' \ folded) :
         f \in Rows(five') \/ f.t < Marked(p).w1h \/ f.ids \subseteq given.hour

RowsRetained == [][Retained]_rollVars

\* The same with an unreadable journal too (_rollup_tier_locked: "an IO failure is
\* retried on the next boundary instead of losing the segment").
SkipsNothing == FiveMissesOnly(late)

\* The same across a long sleep ("a panel restart neither re-aggregates nor skips a
\* segment").
HoursSkipNothing == HourMissesOnly(late)

=============================================================================
