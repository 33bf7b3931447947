------------------------- MODULE AlertEngineProofs -------------------------
(***************************************************************************)
(* Theorems about AlertEngine, for any keys of any kinds, any cooldown and *)
(* any number of faults, while nobody sweeps but the loop.                 *)
(***************************************************************************)
EXTENDS AlertEngine, TLAPS

\* Nobody asks for a sweep of his own (POST /api/alerts/check).
LoopAlone == Posts = {}

-----------------------------------------------------------------------------
(* The inductive invariant.                                                 *)

AllReadings == {"ok", "warn", "down", "stopped", "gone", "under", "gap", "over", "unread",
                "worse", "unmounted", Missing}

AllEntries == [level : Levels \cup {"stopped"}, pending : BOOLEAN, age : 0 .. Cooldown,
               detail : {"", "warn", "worse", "down"}]

SweepRec == [at : Steps, todo : SUBSET Keys, snap : {<<>>} \cup [Keys -> AllReadings],
             prev : {<<>>} \cup [Keys -> AllEntries], new : {<<>>} \cup [Keys -> AllEntries]]

Judging(t) == sweep[t].at \in {"check", "save"}

\* A sweep past its load has an entry for every key.
ShapeInv ==
  /\ disk \in [Keys -> AllEntries]
  /\ seen \in [Keys -> AllReadings] /\ world \in [Keys -> AllReadings]
  /\ status \in {<<>>} \cup [Keys -> AllReadings]
  /\ sweep \in [Threads -> SweepRec]
  /\ \A t \in Threads :
       /\ sweep[t].at \in {"load", "check", "save"} => sweep[t].snap \in [Keys -> AllReadings]
       /\ Judging(t) => sweep[t].prev \in [Keys -> AllEntries] /\ sweep[t].new \in [Keys -> AllEntries]
       /\ sweep[t].at = "save" => sweep[t].todo = {}
       /\ \A k \in Keys :
            sweep[t].at # "idle" /\ (k \in Services \/ (Judging(t) /\ k \notin sweep[t].todo)) =>
              sweep[t].snap[k] \in Readings[kind[k]]

\* What an entry of a kind may say.
Fits(k, e) ==
  /\ kind[k] = "resource" => e.level # "down"
  /\ kind[k] \in {"power", "battery", "freshness"} => e.level # "warn"
  /\ e.pending => kind[k] = "service" /\ e.level \in Bad

\* The entry agrees with what was told last and how long ago.
AgreesWith(k, e, says, n) ==
  /\ e.level \in Bad /\ ~e.pending => says = "problem"
  /\ says = "problem" /\ kind[k] # "battery" => e.level \in Bad
  /\ e.pending => says # "problem"
  /\ kind[k] = "resource" => e.age <= n

Agrees(k, e) == AgreesWith(k, e, told[k], since[k])

\* The reading behind an entry that says a service is bad was bad.
Backs(k, e, r) == kind[k] = "service" /\ e.level \in Bad => r \in Bad

\* A sweep has judged the key and is yet to write.
Judged(k) == \E t \in Threads : Judging(t) /\ k \notin sweep[t].todo

DiskInv ==
  \A k \in Keys : /\ Fits(k, disk[k])
                  /\ Backs(k, disk[k], seen[k])
                  /\ lapsed[k] \/ Judged(k) \/ Agrees(k, disk[k])

\* A sweep has loaded the file or nothing, and what it made of a key is right.
SweepInv ==
  \A t \in Threads : Judging(t) =>
    \A k \in Keys :
      /\ sweep[t].prev[k] \in {disk[k], NoEntry}
      /\ k \in sweep[t].todo => lapsed[k] \/ sweep[t].prev[k] = disk[k]
      /\ k \notin sweep[t].todo =>
           /\ Fits(k, sweep[t].new[k])
           /\ Backs(k, sweep[t].new[k], sweep[t].snap[k])
           /\ \/ lapsed[k]
              \/ /\ Agrees(k, sweep[t].new[k])
                 /\ sweep[t].prev[k] = disk[k] \/ sweep[t].new[k] # sweep[t].prev[k]

\* The loop sweeps after a wait, or after the start.
LoopInv ==
  /\ ~Quiescent => up /\ ~rested
  /\ ~up \/ rested \/ ~Quiescent => renewed

IInv == TypeOK /\ ShapeInv /\ DiskInv /\ SweepInv /\ LoopInv

-----------------------------------------------------------------------------
(* Kinds, readings and entries. *)

LEMMA KindSet == Kinds = {"service", "resource", "smart", "power", "battery", "freshness"}
  BY DEF Kinds, Readings

LevelsOf(x)  == Levels \cup IF x = "service" THEN {"stopped"} ELSE {}
PendingOf(x) == IF x = "service" THEN BOOLEAN ELSE {FALSE}
AgesOf(x)    == IF x \in {"resource", "smart", "freshness"} THEN 0 .. Cooldown ELSE {Cooldown}
DetailsOf(x) == IF x = "smart" THEN {"", "warn", "worse", "down"} ELSE {""}

LEMMA EntryFields ==
  ASSUME NEW x \in Kinds
  PROVE  Entries[x] = [level : LevelsOf(x), pending : PendingOf(x), age : AgesOf(x),
                       detail : DetailsOf(x)]
  BY DEF Entries, LevelsOf, PendingOf, AgesOf, DetailsOf

LEMMA FieldSets ==
  ASSUME NEW x \in Kinds
  PROVE  /\ Levels \subseteq LevelsOf(x) /\ LevelsOf(x) \subseteq Levels \cup {"stopped"}
         /\ FALSE \in PendingOf(x) /\ PendingOf(x) \subseteq BOOLEAN
         /\ Cooldown \in AgesOf(x) /\ AgesOf(x) \subseteq 0 .. Cooldown
         /\ \A n \in AgesOf(x) : Older(n) \in AgesOf(x)
         /\ "" \in DetailsOf(x) /\ DetailsOf(x) \subseteq {"", "warn", "worse", "down"}
<1>1. /\ Levels \subseteq LevelsOf(x) /\ LevelsOf(x) \subseteq Levels \cup {"stopped"}
      /\ FALSE \in PendingOf(x) /\ PendingOf(x) \subseteq BOOLEAN
      /\ "" \in DetailsOf(x) /\ DetailsOf(x) \subseteq {"", "warn", "worse", "down"}
  BY DEF LevelsOf, PendingOf, DetailsOf
<1>o. /\ Cooldown \in 0 .. Cooldown /\ Older(Cooldown) = Cooldown
      /\ \A n \in 0 .. Cooldown : Older(n) \in 0 .. Cooldown
  BY AlertAssumption DEF Older
<1>2. CASE AgesOf(x) = 0 .. Cooldown
  BY <1>1, <1>2, <1>o
<1>3. CASE AgesOf(x) = {Cooldown}
  BY <1>1, <1>3, <1>o
<1> QED
  BY <1>2, <1>3 DEF AgesOf

LEMMA EntryIn ==
  ASSUME NEW x \in Kinds, NEW e \in Entries[x]
  PROVE  e \in AllEntries
<1>1. e \in [level : LevelsOf(x), pending : PendingOf(x), age : AgesOf(x), detail : DetailsOf(x)]
  BY EntryFields
<1>2. /\ LevelsOf(x) \subseteq Levels \cup {"stopped"} /\ PendingOf(x) \subseteq BOOLEAN
      /\ AgesOf(x) \subseteq 0 .. Cooldown
      /\ DetailsOf(x) \subseteq {"", "warn", "worse", "down"}
  BY FieldSets
<1>3. /\ e.level \in Levels \cup {"stopped"} /\ e.pending \in BOOLEAN /\ e.age \in 0 .. Cooldown
      /\ e.detail \in {"", "warn", "worse", "down"}
      /\ e = [level |-> e.level, pending |-> e.pending, age |-> e.age, detail |-> e.detail]
  BY <1>1, <1>2
<1> QED
  BY <1>3 DEF AllEntries

LEMMA ReadingIn ==
  ASSUME NEW x \in Kinds, NEW r \in Readings[x]
  PROVE  r \in AllReadings
  BY KindSet DEF Readings, AllReadings

LEMMA NoEntryIn == ASSUME NEW x \in Kinds PROVE NoEntry \in Entries[x]
  BY EntryFields, FieldSets DEF NoEntry, Levels

LEMMA LevelIn ==
  ASSUME NEW x \in Kinds, NEW l \in LevelsOf(x)
  PROVE  [NoEntry EXCEPT !.level = l] \in Entries[x]
<1>1. NoEntry \in [level : LevelsOf(x), pending : PendingOf(x), age : AgesOf(x), detail : DetailsOf(x)]
  BY NoEntryIn, EntryFields
<1>2. [NoEntry EXCEPT !.level = l]
        \in [level : LevelsOf(x), pending : PendingOf(x), age : AgesOf(x), detail : DetailsOf(x)]
  BY <1>1
<1> QED
  BY <1>2, EntryFields

LEMMA CarriedIn ==
  ASSUME NEW x \in Kinds, NEW e \in Entries[x]
  PROVE  Carried(e) \in Entries[x]
<1>1. e \in [level : LevelsOf(x), pending : PendingOf(x), age : AgesOf(x), detail : DetailsOf(x)]
  BY EntryFields
<1>2. Missing \in LevelsOf(x)
  BY FieldSets DEF Levels
<1>3. Carried(e) \in [level : LevelsOf(x), pending : PendingOf(x), age : AgesOf(x),
                      detail : DetailsOf(x)]
  BY <1>1, <1>2 DEF Carried
<1> QED
  BY <1>3, EntryFields

LEMMA OlderIn ==
  ASSUME NEW x \in Kinds, NEW e \in Entries[x]
  PROVE  [e EXCEPT !.age = Older(@)] \in Entries[x]
<1>1. e \in [level : LevelsOf(x), pending : PendingOf(x), age : AgesOf(x), detail : DetailsOf(x)]
  BY EntryFields
<1>2. Older(e.age) \in AgesOf(x)
  BY <1>1, FieldSets
<1>3. [e EXCEPT !.age = Older(@)]
        \in [level : LevelsOf(x), pending : PendingOf(x), age : AgesOf(x), detail : DetailsOf(x)]
  BY <1>1, <1>2
<1> QED
  BY <1>3, EntryFields

\* A step is one of these.
LEMMA StepCases ==
  ASSUME [Next]_vars
  PROVE  \/ UNCHANGED vars
         \/ \E t \in Threads : \/ StartSweep(t) \/ LoadState(t) \/ LoadUnreadable(t)
                               \/ SaveState(t) \/ SaveFails(t)
                               \/ \E k \in Keys : Check(t, k)
         \/ \E k \in Keys : Change(k)
         \/ Rest \/ StatusExpires \/ Crash \/ Boot
  BY Zenon DEF Next, SweepStep

\* What Check does to the sweep, with the verdict and the reading.
Judges(t, k, new, says, r) ==
  /\ sweep[t].at = "check" /\ k \in sweep[t].todo
  /\ new \in Entries[kind[k]] /\ says \in {"nothing", "problem", "resolved"}
  /\ r = IF kind[k] = "service" THEN sweep[t].snap[k] ELSE world[k]
  /\ r \in Readings[kind[k]]
  /\ Verdict(k, sweep[t].prev[k], r, new, says)
  /\ sweep' = [sweep EXCEPT ![t] =
                 [sweep[t] EXCEPT !.todo = sweep[t].todo \ {k}, !.new = [sweep[t].new EXCEPT ![k] = new],
                                  !.snap = [sweep[t].snap EXCEPT ![k] = r],
                                  !.at = IF sweep[t].todo = {k} THEN "save" ELSE "check"]]
  /\ told' = IF says = "nothing" THEN told ELSE [told EXCEPT ![k] = says]
  /\ since' = IF says = "problem" THEN [since EXCEPT ![k] = 0] ELSE since
  /\ lapsed' = [lapsed EXCEPT ![k] = says # "problem" /\ (lapsed[k] \/ Breaks(t, k, r))]
  /\ UNCHANGED <<kind, world, status, disk, rested, up, faults, seen, renewed>>

LEMMA CheckJudges ==
  ASSUME TypeOK, ShapeInv, NEW t \in Threads, NEW k \in Keys, Check(t, k)
  PROVE  \E new \in Entries[kind[k]], says \in {"nothing", "problem", "resolved"}, r \in AllReadings :
           Judges(t, k, new, says, r)
<1> DEFINE r == IF kind[k] = "service" THEN sweep[t].snap[k] ELSE world[k]
<1>1. r \in Readings[kind[k]] /\ r \in AllReadings
  BY ReadingIn DEF TypeOK, ShapeInv, Services, Check
<1>2. PICK new \in Entries[kind[k]], says \in {"nothing", "problem", "resolved"} :
        /\ Verdict(k, sweep[t].prev[k], r, new, says)
        /\ sweep' = [sweep EXCEPT ![t].todo = sweep[t].todo \ {k}, ![t].new[k] = new,
                                  ![t].snap[k] = r,
                                  ![t].at = IF sweep[t].todo = {k} THEN "save" ELSE "check"]
        /\ told' = IF says = "nothing" THEN told ELSE [told EXCEPT ![k] = says]
        /\ since' = IF says = "problem" THEN [since EXCEPT ![k] = 0] ELSE since
        /\ lapsed' = [lapsed EXCEPT ![k] = says # "problem" /\ (lapsed[k] \/ Breaks(t, k, r))]
  BY DEF Check
<1>3. /\ sweep \in [Threads -> SweepRec]
      /\ sweep[t] = [at |-> sweep[t].at, todo |-> sweep[t].todo, snap |-> sweep[t].snap,
                     prev |-> sweep[t].prev, new |-> sweep[t].new]
  BY DEF ShapeInv, SweepRec
<1>4. sweep' = [sweep EXCEPT ![t] =
                  [sweep[t] EXCEPT !.todo = sweep[t].todo \ {k}, !.new = [sweep[t].new EXCEPT ![k] = new],
                                   !.snap = [sweep[t].snap EXCEPT ![k] = r],
                                   !.at = IF sweep[t].todo = {k} THEN "save" ELSE "check"]]
  BY <1>2, <1>3
<1>6. Judges(t, k, new, says, r)
  BY <1>1, <1>2, <1>4 DEF Check, Judges
<1> QED
  BY <1>1, <1>6

-----------------------------------------------------------------------------
(* Types. *)

LEMMA KindKept == ASSUME [Next]_vars PROVE kind' = kind
<1>1. ASSUME NEW t \in Threads, StartSweep(t) \/ LoadState(t) \/ LoadUnreadable(t) PROVE kind' = kind
  BY <1>1 DEF StartSweep, LoadState, LoadUnreadable, Loads
<1>2. ASSUME NEW t \in Threads, SaveState(t) \/ SaveFails(t) PROVE kind' = kind
  BY <1>2 DEF SaveState, SaveFails
<1>3. ASSUME NEW t \in Threads, NEW k \in Keys, Check(t, k) PROVE kind' = kind
  BY <1>3 DEF Check
<1>4. ASSUME NEW k \in Keys, Change(k) PROVE kind' = kind
  BY <1>4 DEF Change
<1>5. CASE Rest \/ StatusExpires \/ Crash \/ Boot
  BY <1>5 DEF Rest, StatusExpires, Crash, Boot
<1>6. CASE UNCHANGED vars
  BY <1>6 DEF vars
<1> QED
  BY <1>1, <1>2, <1>3, <1>4, <1>5, <1>6, StepCases, Zenon

ScalarType ==
  /\ kind \in [Keys -> Kinds]
  /\ renewed \in BOOLEAN /\ rested \in BOOLEAN /\ up \in BOOLEAN /\ faults \in 0 .. MaxFaults
  /\ told \in [Keys -> {"nothing", "problem", "resolved"}]
  /\ since \in [Keys -> 0 .. Cooldown]
  /\ lapsed \in [Keys -> BOOLEAN]

LEMMA ScalarStep == ASSUME TypeOK, ShapeInv, [Next]_vars PROVE ScalarType'
<1>t. ScalarType
  BY DEF TypeOK, ScalarType
<1>k. kind' = kind
  BY KindKept
<1>a. AlertAssumption
  BY AlertAssumption
<1>1. ASSUME NEW t \in Threads, NEW k \in Keys, Check(t, k) PROVE ScalarType'
  <2>1. PICK new \in Entries[kind[k]], says \in {"nothing", "problem", "resolved"}, r \in AllReadings :
          Judges(t, k, new, says, r)
    BY <1>1, CheckJudges
  <2>2. told' \in [Keys -> {"nothing", "problem", "resolved"}]
    BY <1>t, <2>1 DEF Judges, ScalarType
  <2>3. since' \in [Keys -> 0 .. Cooldown]
    BY <1>t, <1>a, <2>1 DEF Judges, ScalarType, AlertAssumption
  <2>4. lapsed' \in [Keys -> BOOLEAN]
    BY <1>t, <2>1 DEF Judges, ScalarType, Breaks
  <2> QED
    BY <1>t, <2>1, <2>2, <2>3, <2>4 DEF Judges, ScalarType
<1>2. ASSUME NEW t \in Threads, LoadUnreadable(t) PROVE ScalarType'
  BY <1>t, <1>a, <1>2 DEF LoadUnreadable, Loads, ScalarType, AlertAssumption
<1>3. ASSUME NEW t \in Threads, SaveState(t) PROVE ScalarType'
  BY <1>t, <1>3 DEF SaveState, ScalarType
<1>4. ASSUME NEW t \in Threads, SaveFails(t) PROVE ScalarType'
  BY <1>t, <1>a, <1>4 DEF SaveFails, ScalarType, AlertAssumption
<1>5. ASSUME NEW t \in Threads, StartSweep(t) PROVE ScalarType'
  BY <1>t, <1>5 DEF StartSweep, ScalarType, history
<1>6. CASE Rest
  <2>1. since' \in [Keys -> 0 .. Cooldown]
    BY <1>t, <1>a, <1>6 DEF Rest, Older, ScalarType, AlertAssumption
  <2> QED
    BY <1>t, <1>6, <2>1 DEF Rest, ScalarType
<1>7. CASE StatusExpires
  BY <1>t, <1>7 DEF StatusExpires, ScalarType
<1>8. CASE Crash
  <2>1. lapsed' \in [Keys -> BOOLEAN]
    BY <1>t, <1>8 DEF Crash, ScalarType
  <2>2. faults' \in 0 .. MaxFaults
    BY <1>t, <1>a, <1>8 DEF Crash, ScalarType
  <2> QED
    BY <1>t, <1>8, <2>1, <2>2 DEF Crash, ScalarType
<1>9. CASE Boot
  <2>1. lapsed' \in [Keys -> BOOLEAN]
    BY <1>t, <1>9 DEF Boot, ScalarType
  <2> QED
    BY <1>t, <1>a, <1>9, <2>1 DEF Boot, ScalarType, AlertAssumption
<1>10. ASSUME NEW t \in Threads, LoadState(t) PROVE ScalarType'
  BY <1>t, <1>10 DEF LoadState, Loads, ScalarType
<1>11. CASE UNCHANGED vars
  BY <1>t, <1>11 DEF vars, ScalarType
<1>12. ASSUME NEW k \in Keys, Change(k) PROVE ScalarType'
  BY <1>t, <1>12 DEF Change, history, ScalarType
<1> QED
  BY <1>1, <1>2, <1>3, <1>4, <1>5, <1>6, <1>7, <1>8, <1>9, <1>10, <1>11, <1>12, StepCases, Zenon

\* What is on the disk, in the cache and in the machine is of its key's kind.
StoreType ==
  /\ disk \in [Keys -> AllEntries] /\ \A k \in Keys : disk[k] \in Entries[kind[k]]
  /\ seen \in [Keys -> AllReadings] /\ \A k \in Keys : seen[k] \in Readings[kind[k]]
  /\ world \in [Keys -> AllReadings] /\ \A k \in Keys : world[k] \in Readings[kind[k]]
  /\ status \in {<<>>} \cup [Keys -> AllReadings]
  /\ status = <<>> \/ \A k \in Services : status[k] \in Readings[kind[k]]

LEMMA SnapshotType ==
  ASSUME TypeOK, ShapeInv
  PROVE  /\ Snapshot \in [Keys -> AllReadings]
         /\ \A k \in Services : Snapshot[k] \in Readings[kind[k]]
<1>1. CASE status # Expired
  BY <1>1 DEF Snapshot, Expired, ShapeInv, TypeOK
<1>2. CASE status = Expired
  <2>1. Snapshot = [k \in Keys |-> IF kind[k] = "service" THEN world[k] ELSE Missing]
    BY <1>2 DEF Snapshot
  <2> QED
    BY <2>1 DEF ShapeInv, TypeOK, Services, AllReadings
<1> QED
  BY <1>1, <1>2

LEMMA SeedType ==
  ASSUME TypeOK
  PROVE  Seed \in [Keys -> AllEntries] /\ \A k \in Keys : Seed[k] \in Entries[kind[k]]
<1>1. ASSUME NEW k \in Keys PROVE Seed[k] \in Entries[kind[k]]
  <2>k. kind[k] \in Kinds
    BY DEF TypeOK
  <2>1. CASE kind[k] = "service" /\ world[k] # "gone"
    <3>1. world[k] \in {"ok", "warn", "down", "stopped"}
      BY <2>1 DEF TypeOK, Readings
    <3>2. world[k] \in LevelsOf(kind[k])
      BY <2>1, <3>1 DEF LevelsOf, Levels
    <3>3. Seed[k] = [NoEntry EXCEPT !.level = world[k]]
      BY <2>1 DEF Seed
    <3> QED
      BY <2>k, <3>2, <3>3, LevelIn
  <2>2. CASE ~(kind[k] = "service" /\ world[k] # "gone")
    BY <2>k, <2>2, NoEntryIn DEF Seed
  <2> QED
    BY <2>1, <2>2
<1>2. ASSUME NEW k \in Keys PROVE Seed[k] \in AllEntries
  BY <1>1, EntryIn DEF TypeOK
<1> QED
  BY <1>1, <1>2 DEF Seed

LEMMA StoreStep == ASSUME TypeOK, ShapeInv, [Next]_vars PROVE StoreType'
<1>t. StoreType /\ kind \in [Keys -> Kinds]
  BY DEF TypeOK, ShapeInv, StoreType
<1>k. kind' = kind /\ Services' = Services
  BY KindKept DEF Services
<1>1. ASSUME NEW t \in Threads, StartSweep(t) PROVE StoreType'
  BY <1>t, <1>k, <1>1, SnapshotType DEF StartSweep, history, StoreType
<1>2. ASSUME NEW t \in Threads, SaveState(t) PROVE StoreType'
  <2>1. /\ Judging(t) /\ sweep[t].todo = {} /\ sweep[t].snap \in [Keys -> AllReadings]
        /\ sweep[t].new \in [Keys -> AllEntries]
    BY <1>2 DEF SaveState, ShapeInv, Judging
  <2>2. \A k \in Keys : sweep[t].new[k] \in Entries[kind[k]] /\ sweep[t].snap[k] \in Readings[kind[k]]
    BY <1>2, <2>1 DEF SaveState, ShapeInv, TypeOK, Judging
  <2> QED
    BY <1>t, <1>k, <1>2, <2>1, <2>2 DEF SaveState, StoreType
<1>3. ASSUME NEW k \in Keys, Change(k) PROVE StoreType'
  <2>1. PICK r \in Readings[kind[k]] : world' = [world EXCEPT ![k] = r]
    BY <1>3 DEF Change
  <2>2. r \in AllReadings
    BY <1>t, ReadingIn
  <2> QED
    BY <1>t, <1>k, <1>3, <2>1, <2>2 DEF Change, history, StoreType
<1>4. CASE Rest
  <2>1. ASSUME NEW k \in Keys
        PROVE  [disk[k] EXCEPT !.age = Older(@)] \in Entries[kind[k]] \cap AllEntries
    BY <1>t, OlderIn, EntryIn DEF StoreType
  <2> QED
    BY <1>t, <1>k, <1>4, <2>1 DEF Rest, Expired, StoreType
<1>5. CASE StatusExpires \/ Crash
  BY <1>t, <1>k, <1>5 DEF StatusExpires, Crash, Expired, StoreType
<1>6. CASE Boot
  BY <1>t, <1>k, <1>6, SeedType DEF Boot, StoreType
<1>7. ASSUME NEW t \in Threads, LoadState(t) \/ LoadUnreadable(t) \/ SaveFails(t) PROVE StoreType'
  BY <1>t, <1>k, <1>7 DEF LoadState, LoadUnreadable, Loads, SaveFails, StoreType
<1>8. ASSUME NEW t \in Threads, NEW k \in Keys, Check(t, k) PROVE StoreType'
  BY <1>t, <1>k, <1>8 DEF Check, StoreType
<1>9. CASE UNCHANGED vars
  BY <1>t, <1>k, <1>9 DEF vars, StoreType
<1> QED
  BY <1>1, <1>2, <1>3, <1>4, <1>5, <1>6, <1>7, <1>8, <1>9, StepCases, Zenon

\* A sweep's own part of TypeOK and ShapeInv.
SweepFits(t) ==
  /\ sweep[t] \in SweepRec
  /\ sweep[t].at \in {"load", "check", "save"} => sweep[t].snap \in [Keys -> AllReadings]
  /\ Judging(t) => /\ sweep[t].prev \in [Keys -> AllEntries] /\ sweep[t].new \in [Keys -> AllEntries]
                   /\ \A k \in Keys : /\ sweep[t].prev[k] \in Entries[kind[k]]
                                      /\ sweep[t].new[k] \in Entries[kind[k]]
  /\ sweep[t].todo # {} => sweep[t].at = "check"
  /\ \A k \in Keys :
       sweep[t].at # "idle" /\ (k \in Services \/ (Judging(t) /\ k \notin sweep[t].todo)) =>
         sweep[t].snap[k] \in Readings[kind[k]]

LEMMA TypeParts ==
  /\ TypeOK /\ ShapeInv <=> /\ ScalarType /\ StoreType
                            /\ sweep \in [Threads -> SweepRec] /\ \A t \in Threads : SweepFits(t)
  /\ (TypeOK /\ ShapeInv <=> /\ ScalarType /\ StoreType
                             /\ sweep \in [Threads -> SweepRec] /\ \A t \in Threads : SweepFits(t))'
<1>1. TypeOK /\ ShapeInv => /\ ScalarType /\ StoreType /\ sweep \in [Threads -> SweepRec]
  BY DEF TypeOK, ShapeInv, ScalarType, StoreType
<1>2. TypeOK /\ ShapeInv => \A t \in Threads : SweepFits(t)
  BY DEF TypeOK, ShapeInv, SweepFits, Judging
<1>3. /\ ScalarType /\ StoreType
      /\ sweep \in [Threads -> SweepRec] /\ \A t \in Threads : SweepFits(t)
      => ShapeInv
  BY DEF ScalarType, StoreType, SweepFits, ShapeInv, Judging
<1>4. /\ ScalarType /\ StoreType
      /\ sweep \in [Threads -> SweepRec] /\ \A t \in Threads : SweepFits(t)
      => TypeOK
  BY DEF ScalarType, StoreType, SweepFits, TypeOK, SweepRec, Judging
<1>5. TypeOK /\ ShapeInv <=> /\ ScalarType /\ StoreType
                             /\ sweep \in [Threads -> SweepRec] /\ \A t \in Threads : SweepFits(t)
  BY <1>1, <1>2, <1>3, <1>4
<1> QED
  BY <1>5, PTL

LEMMA SweepTo ==
  ASSUME sweep \in [Threads -> SweepRec], NEW t \in Threads, NEW x, sweep' = [sweep EXCEPT ![t] = x]
  PROVE  sweep'[t] = x /\ \A u \in Threads : u # t => sweep'[u] = sweep[u]
  OBVIOUS

\* A thread whose sweep stays as it is keeps its part.
LEMMA FitsKept ==
  ASSUME NEW t \in Threads, SweepFits(t), sweep'[t] = sweep[t], kind' = kind
  PROVE  SweepFits(t)'
  BY DEF SweepFits, Judging, Services

LEMMA SweepsStep ==
  ASSUME TypeOK, ShapeInv, [Next]_vars
  PROVE  (sweep \in [Threads -> SweepRec] /\ \A t \in Threads : SweepFits(t))'
<1>t. /\ sweep \in [Threads -> SweepRec] /\ \A t \in Threads : SweepFits(t)
      /\ ScalarType /\ StoreType
  BY TypeParts
<1>k. kind' = kind /\ Services' = Services
  BY KindKept DEF Services
<1> DEFINE Goal == (sweep \in [Threads -> SweepRec] /\ \A t \in Threads : SweepFits(t))'
<1>s. ASSUME NEW t \in Threads, NEW x \in SweepRec, sweep' = [sweep EXCEPT ![t] = x],
             sweep'[t] = x => SweepFits(t)'
      PROVE  Goal
  <2>1. sweep'[t] = x /\ \A u \in Threads : u # t => sweep'[u] = sweep[u]
    BY <1>t, <1>s, SweepTo
  <2>2. sweep' \in [Threads -> SweepRec]
    BY <1>t, <1>s
  <2>3. ASSUME NEW u \in Threads PROVE SweepFits(u)'
    BY <1>t, <1>k, <1>s, <2>1, FitsKept
  <2> QED
    BY <2>2, <2>3
<1>i. Idle \in SweepRec
  BY DEF Idle, SweepRec, Steps
<1>f. ASSUME NEW t \in Threads, sweep'[t] = Idle PROVE SweepFits(t)'
  BY <1>i, <1>f DEF SweepFits, Judging, Idle
<1>1. ASSUME NEW t \in Threads, StartSweep(t) PROVE Goal
  <2> DEFINE x == [Idle EXCEPT !.at = "load", !.snap = Snapshot]
  <2>1. /\ x.at = "load" /\ x.todo = {} /\ x.snap = Snapshot /\ x \in SweepRec
    BY <1>i, SnapshotType DEF Idle, SweepRec, Steps
  <2>2. sweep'[t] = x => SweepFits(t)'
    BY <1>k, <2>1, SnapshotType DEF SweepFits, Judging
  <2> QED
    BY <1>1, <1>s, <2>1, <2>2 DEF StartSweep
<1>2. ASSUME NEW t \in Threads, NEW prev \in [Keys -> AllEntries], Loads(t, prev),
             \A k \in Keys : prev[k] \in Entries[kind[k]]
      PROVE  Goal
  <2> DEFINE x == [sweep[t] EXCEPT !.at = "check", !.todo = Keys, !.prev = prev,
                                   !.new = [k \in Keys |-> Carried(prev[k])]]
  <2>1. sweep' = [sweep EXCEPT ![t] = x]
    BY <1>t, <1>2 DEF Loads
  <2>2. \A k \in Keys : Carried(prev[k]) \in Entries[kind[k]] \cap AllEntries
    BY <1>t, <1>2, CarriedIn, EntryIn DEF ScalarType
  <2>3. /\ x \in SweepRec /\ x.at = "check" /\ x.todo = Keys /\ x.prev = prev
        /\ x.new = [k \in Keys |-> Carried(prev[k])] /\ x.snap = sweep[t].snap
    BY <1>t, <2>2 DEF SweepRec, Steps
  <2>4. SweepFits(t) /\ sweep[t].at = "load"
    BY <1>t, <1>2 DEF Loads
  <2>5. sweep'[t] = x => SweepFits(t)'
    BY <1>k, <1>2, <2>2, <2>3, <2>4 DEF SweepFits, Judging
  <2> QED
    BY <1>s, <2>1, <2>3, <2>5
<1>3. ASSUME NEW t \in Threads, LoadState(t) PROVE Goal
  BY <1>t, <1>2, <1>3 DEF LoadState, StoreType
<1>4. ASSUME NEW t \in Threads, LoadUnreadable(t) PROVE Goal
  <2>1. \A k \in Keys : NoEntry \in Entries[kind[k]] \cap AllEntries
    BY <1>t, NoEntryIn, EntryIn DEF ScalarType
  <2> QED
    BY <1>2, <1>4, <2>1 DEF LoadUnreadable
<1>5. ASSUME NEW t \in Threads, NEW k \in Keys, Check(t, k) PROVE Goal
  <2>1. PICK new \in Entries[kind[k]], says \in {"nothing", "problem", "resolved"}, r \in AllReadings :
          Judges(t, k, new, says, r)
    BY <1>5, CheckJudges
  <2> DEFINE x == [sweep[t] EXCEPT !.todo = sweep[t].todo \ {k}, !.new = [sweep[t].new EXCEPT ![k] = new],
                                   !.snap = [sweep[t].snap EXCEPT ![k] = r],
                                   !.at = IF sweep[t].todo = {k} THEN "save" ELSE "check"]
  <2>2. sweep' = [sweep EXCEPT ![t] = x] /\ r \in Readings[kind[k]] /\ sweep[t].at = "check"
    BY <2>1 DEF Judges
  <2>3. new \in AllEntries
    BY <1>t, EntryIn DEF ScalarType
  <2>4. SweepFits(t) /\ Judging(t)
    BY <1>t, <2>2 DEF Judging
  <2>5. /\ sweep[t].snap \in [Keys -> AllReadings] /\ sweep[t].new \in [Keys -> AllEntries]
        /\ sweep[t].prev \in [Keys -> AllEntries] /\ sweep[t] \in SweepRec
    BY <2>2, <2>4 DEF SweepFits
  <2>6. /\ x.todo = sweep[t].todo \ {k} /\ x.new = [sweep[t].new EXCEPT ![k] = new]
        /\ x.snap = [sweep[t].snap EXCEPT ![k] = r] /\ x.prev = sweep[t].prev
        /\ x.at \in {"check", "save"} /\ (x.todo # {} => x.at = "check")
    BY <2>5 DEF SweepRec
  <2>7. x \in SweepRec
    BY <2>3, <2>5 DEF SweepRec, Steps
  <2>8. ASSUME sweep'[t] = x PROVE SweepFits(t)'
    <3> HIDE DEF x
    <3>1. Judging(t)' /\ sweep'[t].at # "idle"
      BY <2>6, <2>8 DEF Judging
    <3>2. ASSUME NEW j \in Keys
          PROVE  sweep'[t].new[j] \in Entries[kind[j]] /\ sweep'[t].prev[j] \in Entries[kind[j]]
      BY <2>4, <2>5, <2>6, <2>8 DEF SweepFits
    <3>3. ASSUME NEW j \in Keys, j \in Services \/ j \notin sweep'[t].todo
          PROVE  sweep'[t].snap[j] \in Readings[kind[j]]
      <4>1. CASE j = k
        BY <2>2, <2>5, <2>6, <2>8, <4>1
      <4>2. CASE j # k
        <5>1. j \in Services \/ j \notin sweep[t].todo
          BY <2>6, <2>8, <3>3, <4>2
        <5>2. sweep[t].snap[j] \in Readings[kind[j]]
          BY <2>2, <2>4, <5>1 DEF SweepFits
        <5> QED
          BY <2>5, <2>6, <2>8, <4>2, <5>2
      <4> QED
        BY <4>1, <4>2
    <3>4. /\ sweep'[t] \in SweepRec
          /\ sweep'[t].snap \in [Keys -> AllReadings]
          /\ sweep'[t].prev \in [Keys -> AllEntries] /\ sweep'[t].new \in [Keys -> AllEntries]
          /\ sweep'[t].todo # {} => sweep'[t].at = "check"
      BY <2>3, <2>5, <2>6, <2>7, <2>8
    <3> QED
      BY <1>k, <3>1, <3>2, <3>3, <3>4 DEF SweepFits
  <2> HIDE DEF x
  <2> QED
    BY <1>s, <2>2, <2>7, <2>8
<1>6. ASSUME NEW t \in Threads, SaveState(t) \/ SaveFails(t) PROVE Goal
  <2>1. sweep' = [sweep EXCEPT ![t] = Idle]
    BY <1>6 DEF SaveState, SaveFails, Done
  <2> QED
    BY <1>i, <1>f, <1>s, <2>1
<1>7. CASE Crash
  BY <1>i, <1>f, <1>7 DEF Crash
<1>8. CASE UNCHANGED sweep
  BY <1>t, <1>k, <1>8, FitsKept
<1>9. ASSUME NEW k \in Keys, Change(k) PROVE Goal
  BY <1>8, <1>9 DEF Change
<1>10. CASE Rest \/ StatusExpires \/ Boot
  BY <1>8, <1>10 DEF Rest, StatusExpires, Boot
<1>11. CASE UNCHANGED vars
  BY <1>8, <1>11 DEF vars
<1> QED
  BY <1>1, <1>3, <1>4, <1>5, <1>6, <1>7, <1>9, <1>10, <1>11, StepCases, Zenon

LEMMA TypeStep == ASSUME TypeOK, ShapeInv, [Next]_vars PROVE (TypeOK /\ ShapeInv)'
  BY ScalarStep, StoreStep, SweepsStep, TypeParts, Zenon

-----------------------------------------------------------------------------
(* What a verdict makes of an entry. *)

LEMMA VerdictFits ==
  ASSUME NEW k \in Keys, kind[k] \in Kinds,
         NEW old \in AllEntries, Fits(k, old), NEW new \in AllEntries,
         NEW r \in Readings[kind[k]], NEW says, Verdict(k, old, r, new, says)
  PROVE  /\ Fits(k, new) /\ Backs(k, new, r)
         /\ says = "problem" => AgreesWith(k, new, says, 0)
<1> DEFINE Goal == /\ Fits(k, new) /\ Backs(k, new, r)
                   /\ says = "problem" => AgreesWith(k, new, says, 0)
<1>m. Missing \notin {"ok", "warn", "down", "stopped"}
  BY AlertAssumption
<1>1. CASE kind[k] = "service"
  <2>1. ServiceCheck(old, r, new, says) /\ r \in {"ok", "warn", "down", "stopped", "gone"}
    BY <1>1 DEF Verdict, Readings
  <2>2. old.pending => old.level \in Bad
    BY DEF Fits
  <2> QED
    BY <1>1, <1>m, <2>1, <2>2
    DEF ServiceCheck, Settle, Keep, HeldBack, Fits, Backs, AgreesWith, Bad, AllEntries
<1>2. CASE kind[k] = "resource"
  <2>1. ResourceCheck(old, r, new, says) /\ old.level # "down" /\ ~old.pending
    BY <1>2 DEF Verdict, Fits
  <2>2. new.level # "down" /\ ~new.pending
    BY <1>m, <2>1 DEF ResourceCheck, Stamp, Keep, Carried, InGap, AllEntries
  <2>3. says = "problem" => new.level = "warn" /\ new.age = 0
    BY <2>1 DEF ResourceCheck, Stamp, AllEntries
  <2> QED
    BY <1>2, <2>2, <2>3 DEF Fits, Backs, AgreesWith, Bad
<1>3. CASE kind[k] = "smart"
  <2>1. SmartCheck(old, r, new, says) /\ r \in {"ok", "warn", "worse", "down", "unread"}
    BY <1>3 DEF Verdict, Readings
  <2> QED
    BY <1>3, <1>m, <2>1
    DEF SmartCheck, Level, Keep, Carried, NoEntry, Fits, Backs, AgreesWith, Bad, AllEntries
<1>4. CASE kind[k] = "power"
  BY <1>4, <1>m DEF Verdict, PowerCheck, Keep, Carried, Fits, Backs, AgreesWith, Bad, AllEntries
<1>5. CASE kind[k] = "battery"
  BY <1>5, <1>m DEF Verdict, BatteryCheck, Keep, Carried, Fits, Backs, AgreesWith, Bad, AllEntries
<1>6. CASE kind[k] = "freshness"
  BY <1>6, <1>m
  DEF Verdict, FreshnessCheck, Stamp, Keep, NoEntry, Fits, Backs, AgreesWith, Bad, AllEntries
<1> QED
  BY <1>1, <1>2, <1>3, <1>4, <1>5, <1>6, KindSet

LEMMA VerdictAgrees ==
  ASSUME NEW k \in Keys, kind[k] \in Kinds,
         NEW old \in AllEntries, Fits(k, old), NEW new \in AllEntries,
         NEW r \in Readings[kind[k]], NEW says, Verdict(k, old, r, new, says),
         says \in {"nothing", "resolved"},
         NEW was, NEW n, AgreesWith(k, old, was, n),
         ~(was = "problem" /\ r \in {"unread", "stopped"}),
         ~(kind[k] = "service" /\ old.level = Missing)
  PROVE  AgreesWith(k, new, IF says = "nothing" THEN was ELSE says, n)
<1>m. Missing \notin {"ok", "warn", "down", "stopped"}
  BY AlertAssumption
<1>1. CASE kind[k] = "service"
  <2>1. ServiceCheck(old, r, new, says) /\ r \in {"ok", "warn", "down", "stopped", "gone"}
    BY <1>1 DEF Verdict, Readings
  <2> QED
    BY <1>1, <1>m, <2>1
    DEF ServiceCheck, Settle, Keep, HeldBack, Fits, AgreesWith, Bad, AllEntries, Levels
<1>2. CASE kind[k] = "resource"
  BY <1>2, <1>m
  DEF Verdict, ResourceCheck, Stamp, Keep, Carried, InGap, Quiet, Fits, AgreesWith, Bad, AllEntries, Levels
<1>3. CASE kind[k] = "smart"
  <2>1. SmartCheck(old, r, new, says) /\ r \in {"ok", "warn", "worse", "down", "unread"}
    BY <1>3 DEF Verdict, Readings
  <2> QED
    BY <1>3, <1>m, <2>1
    DEF SmartCheck, SmartFires, Level, Keep, Carried, NoEntry, Fits, AgreesWith, Bad, AllEntries, Levels
<1>4. CASE kind[k] = "power"
  BY <1>4, <1>m DEF Verdict, PowerCheck, Keep, Carried, Fits, AgreesWith, Bad, AllEntries, Levels
<1>5. CASE kind[k] = "battery"
  BY <1>5, <1>m DEF Verdict, BatteryCheck, Keep, Carried, Fits, AgreesWith, Bad, AllEntries, Levels
<1>6. CASE kind[k] = "freshness"
  BY <1>6, <1>m
  DEF Verdict, FreshnessCheck, Stamp, Keep, NoEntry, Fits, AgreesWith, Bad, AllEntries, Levels
<1> QED
  BY <1>1, <1>2, <1>3, <1>4, <1>5, <1>6, KindSet

-----------------------------------------------------------------------------
(* Every step of the loop keeps the rest of the invariant. *)

LEMMA OneThread == ASSUME LoopAlone PROVE Threads = {Loop}
  BY DEF LoopAlone, Threads

\* What DiskInv and SweepInv say of one key.
KeyInv(k) ==
  /\ Fits(k, disk[k]) /\ Backs(k, disk[k], seen[k])
  /\ lapsed[k] \/ Judged(k) \/ Agrees(k, disk[k])
  /\ Judging(Loop) =>
       /\ sweep[Loop].prev[k] \in {disk[k], NoEntry}
       /\ k \in sweep[Loop].todo => lapsed[k] \/ sweep[Loop].prev[k] = disk[k]
       /\ k \notin sweep[Loop].todo =>
            /\ Fits(k, sweep[Loop].new[k])
            /\ Backs(k, sweep[Loop].new[k], sweep[Loop].snap[k])
            /\ \/ lapsed[k]
               \/ /\ Agrees(k, sweep[Loop].new[k])
                  /\ \/ sweep[Loop].prev[k] = disk[k]
                     \/ sweep[Loop].new[k] # sweep[Loop].prev[k]

LEMMA KeyParts ==
  ASSUME LoopAlone
  PROVE  /\ DiskInv /\ SweepInv <=> \A k \in Keys : KeyInv(k)
         /\ (DiskInv /\ SweepInv <=> \A k \in Keys : KeyInv(k))'
<1>1. DiskInv /\ SweepInv <=> \A k \in Keys : KeyInv(k)
  BY OneThread DEF DiskInv, SweepInv, KeyInv
<1>2. (DiskInv /\ SweepInv <=> \A k \in Keys : KeyInv(k))'
  BY OneThread DEF DiskInv, SweepInv, KeyInv
<1> QED
  BY <1>1, <1>2

LEMMA NoEntryFits == ASSUME NEW k \in Keys PROVE Fits(k, NoEntry)
  BY AlertAssumption DEF Fits, NoEntry

\* Nothing of a key that the invariant speaks of has changed.
LEMMA KeyKept ==
  ASSUME LoopAlone, NEW k \in Keys, KeyInv(k),
         kind' = kind, disk'[k] = disk[k], seen'[k] = seen[k], lapsed'[k] = lapsed[k],
         told'[k] = told[k], since'[k] = since[k],
         Judging(Loop)' <=> Judging(Loop),
         Judging(Loop) => /\ sweep'[Loop].prev[k] = sweep[Loop].prev[k]
                          /\ sweep'[Loop].new[k] = sweep[Loop].new[k]
                          /\ sweep'[Loop].snap[k] = sweep[Loop].snap[k]
                          /\ k \in sweep'[Loop].todo <=> k \in sweep[Loop].todo
  PROVE  KeyInv(k)'
<1>1. Judged(k)' <=> Judged(k)
  BY OneThread DEF Judged
<1> QED
  BY <1>1 DEF KeyInv, Fits, Backs, Agrees, AgreesWith

\* Between two sweeps.
LEMMA KeyAtRest ==
  ASSUME LoopAlone, NEW k \in Keys, kind' = kind, ~Judging(Loop)',
         Fits(k, disk'[k]), Backs(k, disk'[k], seen'[k]),
         lapsed'[k] \/ AgreesWith(k, disk'[k], told'[k], since'[k])
  PROVE  KeyInv(k)'
  BY DEF KeyInv, Fits, Backs, Agrees, AgreesWith

LEMMA CheckKeepsKeys ==
  ASSUME LoopAlone, TypeOK, ShapeInv, \A j \in Keys : KeyInv(j),
         NEW k \in Keys, Check(Loop, k), kind' = kind
  PROVE  \A j \in Keys : KeyInv(j)'
<1>l. Loop \in Threads
  BY DEF Threads
<1>t. /\ sweep \in [Threads -> SweepRec] /\ SweepFits(Loop) /\ ScalarType /\ StoreType
  BY <1>l, TypeParts
<1>1. PICK new \in Entries[kind[k]], says \in {"nothing", "problem", "resolved"}, r \in AllReadings :
        Judges(Loop, k, new, says, r)
  BY <1>l, CheckJudges
<1>2. /\ sweep[Loop].snap \in [Keys -> AllReadings] /\ sweep[Loop].new \in [Keys -> AllEntries]
      /\ sweep[Loop].prev \in [Keys -> AllEntries] /\ sweep[Loop] \in SweepRec
      /\ sweep[Loop].at = "check" /\ Judging(Loop) /\ k \in sweep[Loop].todo
  BY <1>t, <1>1 DEF SweepFits, Judges, Judging
<1>3. /\ sweep'[Loop].todo = sweep[Loop].todo \ {k}
      /\ sweep'[Loop].new = [sweep[Loop].new EXCEPT ![k] = new]
      /\ sweep'[Loop].snap = [sweep[Loop].snap EXCEPT ![k] = r]
      /\ sweep'[Loop].prev = sweep[Loop].prev
      /\ sweep'[Loop].at \in {"check", "save"}
  BY <1>l, <1>t, <1>1, <1>2 DEF Judges, SweepRec
<1>4. Judging(Loop)'
  BY <1>3 DEF Judging
<1>5. /\ UNCHANGED <<disk, seen, kind>> /\ r \in Readings[kind[k]]
      /\ Verdict(k, sweep[Loop].prev[k], r, new, says)
  BY <1>1 DEF Judges
<1>6. /\ told'[k] = IF says = "nothing" THEN told[k] ELSE says
      /\ since'[k] = IF says = "problem" THEN 0 ELSE since[k]
      /\ lapsed'[k] = (says # "problem" /\ (lapsed[k] \/ Breaks(Loop, k, r)))
  BY <1>t, <1>1 DEF Judges, ScalarType
<1>7. ASSUME NEW j \in Keys, j # k PROVE KeyInv(j)'
  <2>1. told'[j] = told[j] /\ since'[j] = since[j] /\ lapsed'[j] = lapsed[j]
    BY <1>t, <1>1, <1>7 DEF Judges, ScalarType
  <2>2. /\ sweep'[Loop].new[j] = sweep[Loop].new[j] /\ sweep'[Loop].snap[j] = sweep[Loop].snap[j]
        /\ sweep'[Loop].prev[j] = sweep[Loop].prev[j]
        /\ j \in sweep'[Loop].todo <=> j \in sweep[Loop].todo
    BY <1>2, <1>3, <1>7
  <2> QED
    BY <1>2, <1>4, <1>5, <2>1, <2>2, KeyKept
<1>8. KeyInv(k)'
  <2> DEFINE old == sweep[Loop].prev[k]
  <2>1. /\ sweep'[Loop].new[k] = new /\ sweep'[Loop].snap[k] = r /\ k \notin sweep'[Loop].todo
        /\ sweep'[Loop].prev[k] = old
    BY <1>2, <1>3
  <2>2. KeyInv(k) /\ old \in {disk[k], NoEntry} /\ (lapsed[k] \/ old = disk[k])
    BY <1>2 DEF KeyInv
  <2>3. Fits(k, old) /\ old \in AllEntries /\ new \in AllEntries /\ kind[k] \in Kinds
    BY <1>t, <1>2, <2>2, NoEntryFits, EntryIn DEF KeyInv, ScalarType
  <2>4. /\ Fits(k, new) /\ Backs(k, new, r)
        /\ says = "problem" => AgreesWith(k, new, says, 0)
    BY <1>5, <2>3, VerdictFits
  <2>5. ASSUME says = "problem"
        PROVE  AgreesWith(k, new, told'[k], since'[k]) /\ (old = disk[k] \/ new # old)
    <3>1. AgreesWith(k, new, "problem", 0) /\ told'[k] = "problem" /\ since'[k] = 0
      BY <1>6, <2>4, <2>5
    <3>2. CASE old = NoEntry
      <4>1. new.level \in Bad \/ kind[k] = "battery"
        BY <3>1 DEF AgreesWith
      <4>2. ASSUME kind[k] = "battery" PROVE new.level \in Bad
        BY <1>5, <2>3, <2>5, <4>2 DEF Verdict, BatteryCheck, Keep, Bad, AllEntries
      <4>3. NoEntry.level \notin Bad
        BY AlertAssumption DEF NoEntry, Bad
      <4> QED
        BY <3>1, <3>2, <4>1, <4>2, <4>3
    <3> QED
      BY <2>2, <3>1, <3>2
  <2>6. ASSUME says # "problem", ~lapsed[k], ~Breaks(Loop, k, r)
        PROVE  AgreesWith(k, new, told'[k], since'[k]) /\ old = disk[k]
    <3>1. ~Judged(k)
      BY <1>2, OneThread DEF Judged
    <3>2. AgreesWith(k, old, told[k], since[k]) /\ old = disk[k]
      BY <2>2, <2>6, <3>1 DEF KeyInv, Agrees
    <3>3. /\ ~(told[k] = "problem" /\ r \in {"unread", "stopped"})
          /\ ~(kind[k] = "service" /\ old.level = Missing)
      BY <2>6 DEF Breaks
    <3>4. AgreesWith(k, new, IF says = "nothing" THEN told[k] ELSE says, since[k])
      BY <1>5, <2>3, <2>6, <3>2, <3>3, VerdictAgrees
    <3> QED
      BY <1>6, <2>6, <3>2, <3>4
  <2>7. lapsed'[k] \/ /\ AgreesWith(k, new, told'[k], since'[k])
                      /\ old = disk[k] \/ new # old
    BY <1>6, <2>5, <2>6
  <2>8. Judged(k)'
    BY <1>4, <1>l, <2>1 DEF Judged
  <2>9. Fits(k, disk[k]) /\ Backs(k, disk[k], seen[k])
    BY <2>2 DEF KeyInv
  <2> HIDE DEF old
  <2> QED
    BY <1>5, <2>1, <2>2, <2>4, <2>7, <2>8, <2>9 DEF KeyInv, Fits, Backs, Agrees, AgreesWith
<1> QED
  BY <1>7, <1>8

LEMMA LoopStep ==
  ASSUME LoopAlone, TypeOK, ShapeInv, LoopInv, [Next]_vars
  PROVE  LoopInv'
<1>l. Threads = {Loop} /\ sweep \in [Threads -> SweepRec]
  BY OneThread DEF ShapeInv
<1>q. /\ Quiescent <=> sweep[Loop].at = "idle"
      /\ Quiescent' <=> sweep'[Loop].at = "idle"
  BY <1>l DEF Quiescent
<1>1. CASE StartSweep(Loop)
  BY <1>l, <1>q, <1>1 DEF StartSweep, LoopInv, history
<1>2. CASE LoadState(Loop) \/ LoadUnreadable(Loop)
  BY <1>l, <1>q, <1>2 DEF LoadState, LoadUnreadable, Loads, LoopInv, history
<1>3. ASSUME NEW k \in Keys, Check(Loop, k) PROVE LoopInv'
  BY <1>l, <1>q, <1>3 DEF Check, LoopInv
<1>4. CASE SaveState(Loop) \/ SaveFails(Loop)
  <2>1. /\ sweep[Loop].at = "save" /\ UNCHANGED <<up, rested>>
        /\ sweep' = [sweep EXCEPT ![Loop] = Idle]
    BY <1>4 DEF SaveState, SaveFails, Done
  <2>2. sweep'[Loop].at = "idle"
    BY <1>l, <2>1 DEF Idle
  <2>3. ~rested /\ up
    BY <1>q, <2>1 DEF LoopInv
  <2> QED
    BY <1>q, <2>1, <2>2, <2>3 DEF LoopInv
<1>5. CASE Rest \/ StatusExpires
  BY <1>q, <1>5 DEF Rest, StatusExpires, LoopInv, Quiescent
<1>6. CASE Crash
  BY <1>l, <1>q, <1>6 DEF Crash, LoopInv, Idle
<1>7. CASE Boot
  BY <1>q, <1>7 DEF Boot, LoopInv
<1>8. ASSUME NEW k \in Keys, Change(k) PROVE LoopInv'
  BY <1>q, <1>8 DEF Change, history, LoopInv
<1>9. CASE UNCHANGED vars
  BY <1>q, <1>9 DEF vars, LoopInv
<1> QED
  BY <1>l, <1>1, <1>2, <1>3, <1>4, <1>5, <1>6, <1>7, <1>8, <1>9, StepCases

LEMMA KeysStep ==
  ASSUME LoopAlone, TypeOK, ShapeInv, LoopInv, \A k \in Keys : KeyInv(k), [Next]_vars
  PROVE  \A k \in Keys : KeyInv(k)'
<1>l. Threads = {Loop} /\ Loop \in Threads
  BY OneThread
<1>t. sweep \in [Threads -> SweepRec] /\ SweepFits(Loop) /\ ScalarType /\ StoreType
  BY <1>l, TypeParts
<1>k. kind' = kind
  BY KindKept
<1>q. Quiescent <=> sweep[Loop].at = "idle"
  BY <1>l DEF Quiescent
<1>1. ASSUME StartSweep(Loop), NEW k \in Keys PROVE KeyInv(k)'
  <2>1. ~Judging(Loop) /\ ~Judging(Loop)'
    BY <1>l, <1>t, <1>1 DEF StartSweep, Judging, Idle
  <2>2. UNCHANGED <<disk, told, since, lapsed, seen>>
    BY <1>1 DEF StartSweep, history
  <2> QED
    BY <1>k, <2>1, <2>2, KeyKept
<1>2. ASSUME NEW prev \in [Keys -> AllEntries], Loads(Loop, prev), NEW k \in Keys,
             \/ prev = disk /\ lapsed'[k] = lapsed[k]
             \/ prev[k] = NoEntry /\ lapsed'[k]
      PROVE  KeyInv(k)'
  <2>1. /\ sweep'[Loop].at = "check" /\ sweep'[Loop].todo = Keys
        /\ sweep'[Loop].prev = prev
    BY <1>l, <1>t, <1>2 DEF Loads, SweepRec
  <2>2. ~Judging(Loop) /\ ~Judged(k) /\ Judging(Loop)'
    BY <1>l, <1>2, <2>1 DEF Loads, Judging, Judged
  <2>3. UNCHANGED <<disk, seen, told, since>>
    BY <1>2 DEF Loads
  <2> QED
    BY <1>k, <1>2, <2>1, <2>2, <2>3 DEF KeyInv, Fits, Backs, Agrees, AgreesWith
<1>3. ASSUME LoadState(Loop), NEW k \in Keys PROVE KeyInv(k)'
  <2>1. disk \in [Keys -> AllEntries] /\ Loads(Loop, disk) /\ lapsed' = lapsed
    BY <1>t, <1>3 DEF LoadState, StoreType
  <2> QED
    BY <1>2, <2>1
<1>4. ASSUME LoadUnreadable(Loop), NEW k \in Keys PROVE KeyInv(k)'
  <2>1. \A j \in Keys : NoEntry \in AllEntries
    BY <1>t, NoEntryIn, EntryIn DEF ScalarType
  <2>2. [j \in Keys |-> NoEntry] \in [Keys -> AllEntries]
    BY <2>1
  <2>3. Loads(Loop, [j \in Keys |-> NoEntry]) /\ lapsed'[k] /\ [j \in Keys |-> NoEntry][k] = NoEntry
    BY <1>4 DEF LoadUnreadable
  <2> QED
    BY <1>2, <2>2, <2>3
<1>5. ASSUME NEW k \in Keys, Check(Loop, k), NEW j \in Keys PROVE KeyInv(j)'
  BY <1>k, <1>5, CheckKeepsKeys
<1>6. ASSUME SaveState(Loop), NEW k \in Keys PROVE KeyInv(k)'
  <2>1. /\ Judging(Loop) /\ k \notin sweep[Loop].todo /\ sweep' = [sweep EXCEPT ![Loop] = Idle]
    BY <1>t, <1>6 DEF SaveState, Done, Judging, SweepFits
  <2>2. ~Judging(Loop)'
    BY <1>l, <1>t, <2>1 DEF Judging, Idle
  <2>3. UNCHANGED <<told, since, lapsed>>
    BY <1>6 DEF SaveState
  <2>4. /\ disk' = IF sweep[Loop].new # sweep[Loop].prev THEN sweep[Loop].new ELSE disk
        /\ seen' = IF disk' = sweep[Loop].new THEN sweep[Loop].snap ELSE seen
    BY <1>6 DEF SaveState
  <2>5. CASE disk' = sweep[Loop].new /\ sweep[Loop].new # sweep[Loop].prev
    BY <1>k, <2>1, <2>2, <2>3, <2>4, <2>5, KeyAtRest DEF KeyInv, Agrees
  <2>6. CASE disk' = disk /\ sweep[Loop].new = sweep[Loop].prev
    <3>1. Fits(k, disk'[k]) /\ Backs(k, disk'[k], seen'[k])
      BY <2>1, <2>4, <2>6 DEF KeyInv, Backs
    <3>2. lapsed'[k] \/ AgreesWith(k, disk'[k], told'[k], since'[k])
      BY <2>1, <2>3, <2>6 DEF KeyInv, Agrees
    <3> QED
      BY <1>k, <2>2, <3>1, <3>2, KeyAtRest
  <2> QED
    BY <2>4, <2>5, <2>6
<1>7. ASSUME SaveFails(Loop), NEW k \in Keys PROVE KeyInv(k)'
  <2>1. ~Judging(Loop)'
    BY <1>l, <1>t, <1>7 DEF SaveFails, Done, Judging, Idle
  <2> QED
    BY <1>k, <1>7, <2>1, KeyAtRest DEF SaveFails, KeyInv
<1>8. ASSUME Rest, NEW k \in Keys PROVE KeyInv(k)'
  <2>1. ~Judging(Loop)' /\ ~Judged(k)
    BY <1>l, <1>q, <1>8 DEF Rest, Judging, Judged
  <2>2. /\ disk'[k] = [disk[k] EXCEPT !.age = Older(disk[k].age)] /\ since'[k] = Older(since[k])
        /\ UNCHANGED <<told, lapsed, seen>> /\ disk[k] \in AllEntries
    BY <1>t, <1>8 DEF Rest, StoreType
  <2>3. /\ disk'[k].level = disk[k].level /\ disk'[k].pending = disk[k].pending
        /\ disk'[k].age = Older(disk[k].age)
    BY <2>2 DEF AllEntries
  <2>4. disk[k].age <= since[k] => Older(disk[k].age) <= Older(since[k])
    <3>1. disk[k].age \in 0 .. Cooldown /\ since[k] \in 0 .. Cooldown
      BY <1>t, <2>2 DEF AllEntries, ScalarType
    <3> QED
      BY <3>1, AlertAssumption DEF Older
  <2>5. Fits(k, disk'[k]) /\ Backs(k, disk'[k], seen'[k])
    BY <2>2, <2>3 DEF KeyInv, Fits, Backs
  <2>6. lapsed'[k] \/ AgreesWith(k, disk'[k], told'[k], since'[k])
    BY <2>1, <2>2, <2>3, <2>4 DEF KeyInv, Agrees, AgreesWith
  <2> QED
    BY <1>k, <2>1, <2>5, <2>6, KeyAtRest
<1>9. ASSUME Crash, NEW k \in Keys PROVE KeyInv(k)'
  <2>1. ~Judging(Loop)'
    BY <1>l, <1>9 DEF Crash, Judging, Idle
  <2>2. lapsed'[k] \/ (~Judged(k) /\ lapsed'[k] = lapsed[k])
    BY <1>l, <1>q, <1>9 DEF Crash, Judged, Judging
  <2>3. UNCHANGED <<disk, told, since, seen>>
    BY <1>9 DEF Crash
  <2> QED
    BY <1>k, <2>1, <2>2, <2>3, KeyAtRest DEF KeyInv, Agrees
<1>10. ASSUME Boot, NEW k \in Keys PROVE KeyInv(k)'
  <2>1. Quiescent /\ UNCHANGED <<kind, sweep, told, since, world>>
    BY <1>10 DEF Boot, LoopInv
  <2>2. ~Judging(Loop)' /\ ~Judged(k)
    BY <1>l, <1>q, <2>1 DEF Judging, Judged
  <2>3. CASE UNCHANGED <<disk, lapsed, seen>>
    BY <1>k, <2>1, <2>2, <2>3, KeyAtRest DEF KeyInv, Agrees
  <2>4. ASSUME disk' = Seed, seen' = world,
               \/ lapsed'[k]
               \/ lapsed'[k] = lapsed[k] /\ kind[k] # "service" /\ disk[k] = NoEntry
        PROVE  KeyInv(k)'
    <3>1. Seed[k] = IF kind[k] = "service" /\ world[k] # "gone"
                    THEN [NoEntry EXCEPT !.level = world[k]] ELSE NoEntry
      BY DEF Seed
    <3>2. Fits(k, Seed[k]) /\ Backs(k, Seed[k], world[k])
      <4>0. NoEntry \in [level : {Missing}, pending : {FALSE}, age : {Cooldown}, detail : {""}]
        BY DEF NoEntry
      <4>1. Seed[k].pending = FALSE /\ Seed[k].level \in {world[k], Missing}
        BY <3>1, <4>0
      <4>2. kind[k] # "service" => Seed[k].level = Missing
        BY <3>1, <4>0
      <4>3. Missing \notin Bad /\ Missing # "down" /\ Missing # "warn"
        BY AlertAssumption DEF Bad
      <4> QED
        BY <4>1, <4>2, <4>3 DEF Fits, Backs
    <3>3. lapsed'[k] \/ AgreesWith(k, Seed[k], told[k], since[k])
      BY <2>2, <2>4, <3>1 DEF KeyInv, Agrees
    <3> QED
      BY <1>k, <2>1, <2>2, <2>4, <3>2, <3>3, KeyAtRest
  <2>5. \/ UNCHANGED <<disk, lapsed, seen>>
        \/ /\ disk' = Seed /\ seen' = world
           /\ \/ lapsed'[k]
              \/ lapsed'[k] = lapsed[k] /\ kind[k] # "service" /\ disk[k] = NoEntry
    BY <1>t, <1>10 DEF Boot, ScalarType
  <2> QED
    BY <2>3, <2>4, <2>5
<1>11. ASSUME NEW j \in Keys, Change(j), NEW k \in Keys PROVE KeyInv(k)'
  <2>1. Judging(Loop)' <=> Judging(Loop)
    BY <1>11 DEF Change, Judging
  <2> QED
    BY <1>k, <1>11, <2>1, KeyKept DEF Change, history
<1>12. ASSUME StatusExpires \/ UNCHANGED vars, NEW k \in Keys PROVE KeyInv(k)'
  <2>1. Judging(Loop)' <=> Judging(Loop)
    BY <1>12 DEF StatusExpires, vars, Judging
  <2> QED
    BY <1>k, <1>12, <2>1, KeyKept DEF StatusExpires, vars
<1> QED
  BY <1>l, <1>1, <1>3, <1>4, <1>5, <1>6, <1>7, <1>8, <1>9, <1>10, <1>11, <1>12, StepCases

-----------------------------------------------------------------------------
(* The theorems. *)

LEMMA TypeInit == Init => TypeOK /\ ShapeInv
<1> SUFFICES ASSUME Init PROVE TypeOK /\ ShapeInv
  OBVIOUS
<1>a. AlertAssumption
  BY AlertAssumption
<1>k. \A k \in Keys : kind[k] \in Kinds
  BY DEF Init
<1>1. ScalarType
  <2>1. Cooldown \in 0 .. Cooldown /\ 0 \in 0 .. MaxFaults
    BY <1>a
  <2> QED
    BY <2>1 DEF Init, ScalarType
<1>2. StoreType
  <2>1. ASSUME NEW k \in Keys PROVE world[k] \in Readings[kind[k]] /\ world[k] \in AllReadings
    BY <1>k, KindSet, ReadingIn DEF Init, Readings, AllReadings
  <2>2. PICK level \in {"ok", Missing} : disk = [k \in Keys |-> [NoEntry EXCEPT !.level = level]]
    BY DEF Init
  <2>3. ASSUME NEW k \in Keys PROVE disk[k] \in Entries[kind[k]] /\ disk[k] \in AllEntries
    <3>1. level \in LevelsOf(kind[k])
      BY <1>k, FieldSets DEF Levels
    <3> QED
      BY <1>k, <2>2, <3>1, LevelIn, EntryIn
  <2>4. world \in [Keys -> AllReadings] /\ disk \in [Keys -> AllEntries]
    BY <2>1, <2>2, <2>3 DEF Init
  <2> QED
    BY <2>1, <2>3, <2>4 DEF Init, Expired, StoreType
<1>3. sweep \in [Threads -> SweepRec] /\ \A t \in Threads : SweepFits(t)
  BY DEF Init, SweepFits, Judging, Idle, SweepRec, Steps
<1> QED
  BY <1>1, <1>2, <1>3, TypeParts

\* The state keeps its type, whoever sweeps.
THEOREM TypeCorrect == Spec => []TypeOK
<1>1. Spec => [](TypeOK /\ ShapeInv)
  BY TypeInit, TypeStep, PTL DEF Spec
<1> QED
  BY <1>1, PTL

LEMMA InvInit == ASSUME LoopAlone PROVE Init => IInv
<1> SUFFICES ASSUME Init PROVE IInv
  OBVIOUS
<1>a. AlertAssumption
  BY AlertAssumption
<1>l. Threads = {Loop}
  BY OneThread
<1>4. \A k \in Keys : KeyInv(k)
  <2>1. ASSUME NEW k \in Keys PROVE KeyInv(k)
    <3>1. disk[k].level \notin Bad /\ disk[k].pending = FALSE /\ disk[k].age = Cooldown
      BY <1>a DEF Init, NoEntry, Bad
    <3>2. told[k] = "nothing" /\ since[k] = Cooldown /\ ~Judging(Loop)
      BY <1>l DEF Init, Judging, Idle
    <3>3. Fits(k, disk[k])
      BY <3>1 DEF Fits, Bad
    <3> QED
      BY <1>a, <3>1, <3>2, <3>3 DEF KeyInv, Backs, Agrees, AgreesWith
  <2> QED
    BY <2>1
<1>5. LoopInv
  BY DEF Init, LoopInv, Quiescent, Idle
<1> QED
  BY <1>4, <1>5, TypeInit, KeyParts DEF IInv

LEMMA InvStep == ASSUME LoopAlone PROVE IInv /\ [Next]_vars => IInv'
<1> SUFFICES ASSUME IInv, [Next]_vars PROVE IInv'
  OBVIOUS
<1>1. \A k \in Keys : KeyInv(k)
  BY KeyParts DEF IInv
<1>2. TypeOK' /\ ShapeInv' /\ LoopInv'
  BY TypeStep, LoopStep DEF IInv
<1>3. \A k \in Keys : KeyInv(k)'
  BY <1>1, KeysStep DEF IInv
<1>4. DiskInv' /\ SweepInv'
  BY <1>3, KeyParts
<1> QED
  BY <1>2, <1>4 DEF IInv

LEMMA InvAlways == ASSUME LoopAlone PROVE Spec => []IInv
  BY InvInit, InvStep, PTL DEF Spec

\* For any keys and any faults, between two sweeps of the loop the file and the
\* journal agree about every key whose history did not break (check_once).
THEOREM FileAndJournalAgree == ASSUME LoopAlone PROVE Spec => []LedgerMatches
<1>1. ASSUME IInv PROVE LedgerMatches
  <2>1. ASSUME Quiescent, NEW k \in Keys, ~lapsed[k] PROVE Agrees(k, disk[k])
    <3>1. ~Judged(k)
      BY <2>1 DEF Quiescent, Judged, Judging
    <3> QED
      BY <1>1, <2>1, <3>1 DEF IInv, DiskInv
  <2> QED
    BY <2>1 DEF LedgerMatches, Agrees, AgreesWith
<1> QED
  BY <1>1, InvAlways, PTL

\* A step that journals about a key is its check, with that verdict.
LEMMA OnlyCheckJournals ==
  ASSUME LoopAlone, IInv, [Next]_vars, NEW k \in Keys, Journals(k, "problem")
  PROVE  \E new \in Entries[kind[k]], r \in AllReadings : Judges(Loop, k, new, "problem", r)
<1>l. Threads = {Loop} /\ Loop \in Threads
  BY OneThread
<1>t. ScalarType /\ sweep \in [Threads -> SweepRec]
  BY TypeParts DEF IInv
<1>1. /\ told' # told \/ since'[k] < since[k]
      /\ told'[k] = "problem"
      /\ k \in sweep[Loop].todo /\ k \notin sweep'[Loop].todo
  BY <1>l DEF Journals
<1>n. since[k] \in Nat
  BY <1>t, AlertAssumption DEF ScalarType
<1>2. ~(told' = told /\ since'[k] = since[k])
  BY <1>1, <1>n
<1>3. ASSUME NEW j \in Keys, Check(Loop, j)
      PROVE  \E new \in Entries[kind[k]], r \in AllReadings : Judges(Loop, k, new, "problem", r)
  <2>1. PICK new \in Entries[kind[j]], says \in {"nothing", "problem", "resolved"}, r \in AllReadings :
          Judges(Loop, j, new, says, r)
    BY <1>l, <1>3, CheckJudges DEF IInv
  <2>2. sweep'[Loop].todo = sweep[Loop].todo \ {j}
    BY <1>l, <1>t, <2>1 DEF Judges, SweepRec
  <2>3. j = k
    BY <1>1, <2>2
  <2>4. says = "problem"
    BY <1>t, <1>1, <1>2, <2>1, <2>3 DEF Judges, ScalarType
  <2> QED
    BY <2>1, <2>3, <2>4
<1>4. ASSUME StartSweep(Loop) \/ LoadState(Loop) \/ LoadUnreadable(Loop)
             \/ SaveState(Loop) \/ SaveFails(Loop)
      PROVE  FALSE
  BY <1>2, <1>4 DEF StartSweep, LoadState, LoadUnreadable, Loads, SaveState, SaveFails, history
<1>5. ASSUME Crash \/ Boot \/ StatusExpires PROVE FALSE
  BY <1>2, <1>5 DEF Crash, Boot, StatusExpires
<1>6. ASSUME Rest \/ (\E j \in Keys : Change(j)) \/ UNCHANGED vars PROVE FALSE
  <2>1. sweep' = sweep
    BY <1>6 DEF Rest, Change, vars
  <2> QED
    BY <1>1, <2>1
<1> QED
  BY <1>l, <1>3, <1>4, <1>5, <1>6, StepCases

\* A service that was well is not paged for unless the last sweep that reached the
\* disk saw it bad too, whatever is lost (_service_transition_alerts).
THEOREM FaultsAreConfirmed == ASSUME LoopAlone PROVE Spec => ConfirmedFault
<1>1. ASSUME IInv, [Next]_vars, NEW k \in Services, Journals(k, "problem")
      PROVE  seen[k] \in Bad
  <2>1. k \in Keys /\ kind[k] = "service" /\ Loop \in Threads
    BY OneThread DEF Services
  <2>2. PICK new \in Entries[kind[k]], r \in AllReadings : Judges(Loop, k, new, "problem", r)
    BY <1>1, <2>1, OnlyCheckJournals
  <2> DEFINE old == sweep[Loop].prev[k]
  <2>3. KeyInv(k) /\ Judging(Loop) /\ old \in {disk[k], NoEntry}
    BY <1>1, <2>1, <2>2, KeyParts DEF IInv, Judges, Judging, KeyInv
  <2>4. ServiceCheck(old, r, new, "problem")
    BY <2>1, <2>2 DEF Judges, Verdict
  <2>5. old.level # Missing /\ ~HeldBack(old) /\ (old.pending \/ old.level \notin {"ok", "stopped"})
    BY <2>4 DEF ServiceCheck, HeldBack
  <2>6. old = disk[k]
    <3>1. NoEntry.level = Missing
      BY DEF NoEntry
    <3> HIDE DEF old
    <3> QED
      BY <2>3, <2>5, <3>1
  <2>7. disk[k].pending => disk[k].level \in Bad
    BY <2>3 DEF KeyInv, Fits
  <2>8. disk[k].level \in {"ok", "warn", "down", "stopped", Missing}
    BY <1>1, <2>1 DEF IInv, ShapeInv, AllEntries, Levels
  <2>9. disk[k].level \in Bad
    BY <2>5, <2>6, <2>7, <2>8 DEF Bad
  <2> QED
    BY <2>1, <2>3, <2>9 DEF KeyInv, Backs
<1>2. IInv /\ [Next]_vars => [\A k \in Services : Journals(k, "problem") => seen[k] \in Bad]_vars
  BY <1>1
<1> QED
  BY <1>2, InvAlways, PTL DEF Spec, ConfirmedFault

\* Two alerts of a resource are a cooldown apart, across recoveries and missing
\* samples, unless the stamp was lost (_check_resource_thresholds).
THEOREM ResourcesStayQuiet == ASSUME LoopAlone PROVE Spec => ResourceQuiet
<1>1. ASSUME IInv, [Next]_vars, NEW k \in Keys, kind[k] = "resource", Journals(k, "problem")
      PROVE  since[k] = Cooldown \/ lapsed[k]
  <2>1. PICK new \in Entries[kind[k]], r \in AllReadings : Judges(Loop, k, new, "problem", r)
    BY <1>1, OnlyCheckJournals
  <2>2. /\ KeyInv(k) /\ Judging(Loop) /\ k \in sweep[Loop].todo
        /\ lapsed[k] \/ sweep[Loop].prev[k] = disk[k]
    BY <1>1, <2>1, KeyParts DEF IInv, Judges, Judging, KeyInv
  <2>3. ResourceCheck(sweep[Loop].prev[k], r, new, "problem")
    BY <1>1, <2>1 DEF Judges, Verdict
  <2>4. ~(sweep[Loop].prev[k].age < Cooldown)
    BY <2>3 DEF ResourceCheck, Quiet
  <2>5. ASSUME ~lapsed[k] PROVE since[k] = Cooldown
    <3>1. disk[k].age <= since[k]
      <4>1. ~Judged(k)
        BY <2>2, OneThread DEF Judged
      <4> QED
        BY <1>1, <2>2, <2>5, <4>1 DEF KeyInv, Agrees, AgreesWith
    <3>2. disk[k].age \in 0 .. Cooldown /\ since[k] \in 0 .. Cooldown
      BY <1>1 DEF IInv, ShapeInv, AllEntries, TypeOK
    <3>3. ~(disk[k].age < Cooldown)
      BY <2>2, <2>4, <2>5
    <3> QED
      BY <3>1, <3>2, <3>3, AlertAssumption
  <2> QED
    BY <2>5
<1>2. IInv /\ [Next]_vars
        => [\A k \in Keys : kind[k] = "resource" /\ Journals(k, "problem") =>
              since[k] = Cooldown \/ lapsed[k]]_vars
  BY <1>1
<1> QED
  BY <1>2, InvAlways, PTL DEF Spec, ResourceQuiet

\* Of the loop alone it is true that a service held back is paged for only after a
\* new look at the machine; the sweeps of POST /api/alerts/check are what breaks it.
THEOREM LoopLooksTwice == ASSUME LoopAlone PROVE Spec => TwoLooks
<1>1. ASSUME IInv, [Next]_vars, NEW k \in Services, Journals(k, "problem")
      PROVE  renewed
  <2>1. PICK new \in Entries[kind[k]], r \in AllReadings : Judges(Loop, k, new, "problem", r)
    BY <1>1, OnlyCheckJournals DEF Services
  <2>2. ~Quiescent
    BY <2>1, OneThread DEF Judges, Quiescent
  <2> QED
    BY <1>1, <2>2 DEF IInv, LoopInv
<1>2. IInv /\ [Next]_vars
        => [\A t \in Threads, k \in Services :
              sweep[t].prev # <<>> /\ sweep[t].prev[k].pending /\ Journals(k, "problem") => renewed]_vars
  BY <1>1
<1> QED
  BY <1>2, InvAlways, PTL DEF Spec, TwoLooks

=============================================================================
