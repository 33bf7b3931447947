-------------------------------- MODULE Cron --------------------------------
(***************************************************************************)
(* The cron expressions of hub/scheduler_svc.py: what parse_cron accepts,  *)
(* which minutes cron_matches, and the next run that the job list shows.   *)
(* The local clock goes ahead by an hour once and back once; a moment is a *)
(* minute of real time, a wall minute is what the clock shows.             *)
(***************************************************************************)
EXTENDS Integers, Sequences, FiniteSetsExt

CONSTANTS
  HourLen,  \* minutes of an hour
  DayLen,   \* hours of a day
  WeekLen,  \* days of a week; day 0 of the calendar is a Sunday
  Days,     \* the calendar: month and day of the month of each day
  Horizon,  \* days next_run_ts looks ahead
  Spring,   \* the moment from which the clock shows an hour more
  Autumn,   \* the moment from which it does not
  Exprs,    \* the expressions that are looked at
  Never     \* the next run of an expression without one

DayMinutes == HourLen * DayLen

Moments == 0 .. Len(Days) * DayMinutes - 1

ASSUME CronAssumption ==
  /\ {HourLen, DayLen, WeekLen} \subseteq Nat \ {0}
  /\ Days \in Seq(Nat \X Nat) /\ Days # <<>>
  /\ Horizon \in Nat
  /\ Spring \in Moments /\ Autumn \in Moments
  /\ Never \notin Moments

-----------------------------------------------------------------------------
(* An item of a field is a star, a number or a range, with or without a    *)
(* step; a field is a set of items.                                        *)

First(item, lo) == IF item.kind = "star" THEN lo ELSE item.from

LastOf(item, hi) ==
  CASE item.kind = "range"                -> item.to
    [] item.kind = "number" /\ ~item.slash -> item.from
    [] OTHER                              -> hi

Rejected(item, lo, hi) ==
  \/ item.slash /\ item.step < 1
  \/ item.kind = "range" /\ item.from > item.to
  \/ First(item, lo) < lo
  \/ LastOf(item, hi) > hi

Walk(item, lo, hi) ==
  {n \in First(item, lo) .. LastOf(item, hi) :
     item.slash => (n - First(item, lo)) % item.step = 0}

FieldRange ==
  [minute |-> <<0, HourLen - 1>>, hour |-> <<0, DayLen - 1>>,
   dom    |-> <<1, Max({Days[d][2] : d \in DOMAIN Days})>>,
   month  |-> <<1, Max({Days[d][1] : d \in DOMAIN Days})>>,
   dow    |-> <<0, WeekLen>>]

Allowed(expr, name) ==
  UNION {Walk(item, FieldRange[name][1], FieldRange[name][2]) : item \in expr[name]}

BareStar(field) == \A item \in field : item.kind = "star" /\ ~item.slash

ValidCron(expr) ==
  \A name \in DOMAIN FieldRange :
    /\ expr[name] # {}
    /\ \A item \in expr[name] :
         ~Rejected(item, FieldRange[name][1], FieldRange[name][2])

\* Both 0 and the length of a week are a Sunday.
ParseCron(expr) ==
  [minute |-> Allowed(expr, "minute"), hour |-> Allowed(expr, "hour"),
   dom |-> Allowed(expr, "dom"), month |-> Allowed(expr, "month"),
   dow |-> {n % WeekLen : n \in Allowed(expr, "dow")},
   dom_star |-> BareStar(expr["dom"]), dow_star |-> BareStar(expr["dow"])]

-----------------------------------------------------------------------------
DayOf(wall) == wall \div DayMinutes

\* When both the day of the month and of the week are restricted, either will do.
DayMatches(parsed, day) ==
  LET dom == Days[day + 1][2] \in parsed.dom
      dow == day % WeekLen \in parsed.dow
  IN /\ Days[day + 1][1] \in parsed.month
     /\ CASE parsed.dom_star /\ parsed.dow_star -> TRUE
          [] parsed.dom_star /\ ~parsed.dow_star -> dow
          [] ~parsed.dom_star /\ parsed.dow_star -> dom
          [] OTHER -> dom \/ dow

CronMatches(parsed, wall) ==
  /\ wall % HourLen \in parsed.minute
  /\ (wall \div HourLen) % DayLen \in parsed.hour
  /\ DayMatches(parsed, DayOf(wall))

\* What the clock shows, and Python's reading of it: the first moment that shows
\* it, or the offset before the gap for a minute the clock leaves out.
Wall(moment) == IF moment \in Spring .. Autumn - 1 THEN moment + HourLen ELSE moment

Timestamp(wall) ==
  LET showing == {m \in Moments : Wall(m) = wall}
  IN IF showing = {} THEN wall ELSE Min(showing)

\* Broken: the minutes of today's later hours are compared with the current one.
CandidatesByMinute(parsed, moment) ==
  LET cur == Wall(moment) + 1
  IN {wall \in Moments :
        /\ wall >= cur
        /\ DayOf(wall) = DayOf(cur) => wall % HourLen >= cur % HourLen
        /\ DayOf(wall) < DayOf(cur) + Horizon
        /\ CronMatches(parsed, wall)}

\* The matching wall minutes after the one now showing, up to the horizon.
Candidates(parsed, moment) ==
  LET cur == Wall(moment) + 1
  IN {wall \in Moments : /\ wall >= cur
                         /\ DayOf(wall) < DayOf(cur) + Horizon
                         /\ CronMatches(parsed, wall)}

NextRun(parsed, moment) ==
  LET walls == Candidates(parsed, moment)
  IN IF walls = {} THEN Never ELSE Timestamp(Min(walls))

\* The tick evaluates a minute only when its high-water mark lets it pass.
Evaluated == {m \in Moments : \A s \in 0 .. m - 1 : Wall(s) < Wall(m)}

NextLaunch(parsed, moment) ==
  LET launches == {m \in Evaluated : m > moment /\ CronMatches(parsed, Wall(m))}
  IN IF launches = {} THEN Never ELSE Min(launches)

Parsed == {ParseCron(expr) : expr \in {e \in Exprs : ValidCron(e)}}

-----------------------------------------------------------------------------
\* The clock shows this minute for the second time.
Replayed(moment) == moment \notin Evaluated

\* The next matching wall minute is one the clock leaves out.
LeftOut(parsed, moment) ==
  LET walls == Candidates(parsed, moment)
  IN walls # {} /\ \A m \in Moments : Wall(m) # Min(walls)

\* The job list, read at this moment, shows for each expression the minute at which
\* the tick will launch it. Exceptions: the replayed hour, a match in the hour left
\* out, and a launch beyond the horizon.
Truthful ==
  {moment \in Moments : \A parsed \in Parsed :
     LET next   == NextRun(parsed, moment)
         launch == NextLaunch(parsed, moment)
     IN \/ Replayed(moment) \/ LeftOut(parsed, moment)
        \/ next = launch
        \/ next = Never /\ DayOf(Wall(launch)) >= DayOf(Wall(moment)) + Horizon}

(* "Epoch seconds of the next matching minute after *after_ts*", without   *)
(* the exceptions: it fails in the replayed hour, where the answer is in   *)
(* the past, and for the hour left out, where the answer does not match.   *)
NextRunMatches ==
  \A parsed \in Parsed, moment \in Moments :
    LET next == NextRun(parsed, moment)
    IN next # Never => next > moment /\ CronMatches(parsed, Wall(next))

(* An expression with a value outside its field is refused: it fails for a *)
(* number with a step past the end, which is accepted and never matches.   *)
AcceptedHasValues ==
  \A expr \in {e \in Exprs : ValidCron(e)}, name \in DOMAIN FieldRange :
    \A item \in expr[name] : Walk(item, FieldRange[name][1], FieldRange[name][2]) # {}

=============================================================================
