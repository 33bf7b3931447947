---------------------------- MODULE MCScheduler ----------------------------
(***************************************************************************)
(* A small instance of Scheduler: one job that is due every other minute.  *)
(* Jobs share nothing but the tick's list, so that one is enough for what  *)
(* is said of each; three runs are enough to overlap one and follow it.    *)
(* The calendar of Cron has hours of two minutes, days of three hours,     *)
(* weeks of two days and two months, of which the first is short.          *)
(***************************************************************************)
EXTENDS Scheduler, Cron

Star         == [kind |-> "star", from |-> 0, to |-> 0, slash |-> FALSE, step |-> 1]
Number(n)    == [Star EXCEPT !.kind = "number", !.from = n]
Span(a, b)   == [Star EXCEPT !.kind = "range", !.from = a, !.to = b]
Every(i, n)  == [i EXCEPT !.slash = TRUE, !.step = n]

MCDays == <<<<1, 1>>, <<1, 2>>, <<2, 1>>, <<2, 2>>, <<2, 3>>, <<1, 1>>, <<1, 2>>>>

MCExprs ==
  [minute : {{Star}, {Number(1)}, {Number(2)}},
   hour   : {{Star}, {Number(1)}, {Number(0), Number(2)}, {Every(Number(4), 2)}},
   dom    : {{Star}, {Number(1)}, {Span(2, 3)}, {Number(3)}, {Span(3, 2)}},
   month  : {{Star}, {Number(1)}},
   dow    : {{Star}, {Number(2)}, {Every(Star, 2)}}]

OddMinutes ==
  [minute |-> {Every(Number(1), 2)}, hour |-> {Star}, dom |-> {Star},
   month |-> {Star}, dow |-> {Star}]

MinutesDue == {m \in Minutes : CronMatches(ParseCron(OddMinutes), m)}

MCDue == [j \in Jobs |-> MinutesDue]

\* A minute of the scheduler's clock stands for every moment congruent to it.
ListIsRight ==
  {minute \in Minutes :
     \A moment \in Moments : moment % (MaxClock + 1) = minute => moment \in Truthful}

(* The next run that the job list shows is the minute at which the tick    *)
(* will launch the job, whatever the day, over month ends, short weeks and *)
(* both shifts of the clock: unless it is asked for in the replayed hour,  *)
(* the match falls into the hour left out, or the launch lies beyond the   *)
(* horizon (scheduler_svc.next_run_ts against _tick_once).                 *)
NextRunIsLaunched == clock \in ListIsRight

=============================================================================
