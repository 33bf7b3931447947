----------------------------- MODULE WorkerPool -----------------------------
(***************************************************************************)
(* The probe pools of the panel (hub/util.py): fan_out spreads a batch     *)
(* over one of two LazyPools, a LazyPool makes its IdleThreadPool on first *)
(* use and drops it on shutdown, and the workers of an IdleThreadPool go   *)
(* away when they find no work.  A request calls fan_out, and so may a     *)
(* probe it runs; a third level runs inline and is part of its probe.      *)
(***************************************************************************)
EXTENDS Naturals, Sequences, FiniteSets, Functions

CONSTANTS
  Tasks,        \* the items of all the batches
  Requests,     \* callers of fan_out outside the pools
  Batch,        \* what each caller hands to fan_out
  Width,        \* _max of each pool
  Lives,        \* bound of the executors a pool has one after the other
  Marker        \* None in the queue

Callers == DOMAIN Batch

ASSUME BatchesAssumption ==
  /\ Callers \subseteq Requests \cup Tasks /\ Requests \subseteq Callers
  /\ Requests \cap Tasks = {} /\ Marker \notin Tasks
  \* fan_out runs a single item without a pool
  /\ \A c \in Callers : Batch[c] \in Seq(Tasks) /\ Len(Batch[c]) > 1
  /\ \A c \in Callers \cap Tasks : \E r \in Requests : c \in Range(Batch[r])
  \* an item is one place in one batch
  /\ \A c, d \in Callers : \A i \in DOMAIN Batch[c], j \in DOMAIN Batch[d] :
       Batch[c][i] = Batch[d][j] => c = d /\ i = j

VARIABLES
  cur,        \* LazyPool._ex, by number; 0 is None
  made,       \* executors made
  book,       \* _live, _idle, _owed, _closed; shut: dropped, shutdown yet to come
  queue,      \* _q
  worker,     \* the threads of _work
  call,       \* the callers, in LazyPool.map
  fut,        \* the futures
  runs        \* times a task has been run

vars == <<cur, made, book, queue, worker, call, fut, runs>>

Pools     == {"outer", "nested"}
Executors == Pools \X (1 .. Lives)
Slots(e)  == 1 .. Width[e[1]]
NoExec    == <<"outer", 0>>

ASSUME BoundsAssumption == Width \in [Pools -> Nat \ {0}] /\ Lives \in Nat \ {0}

Over      == {"result", "raised", "cancelled"}

TypeOK ==
  /\ cur \in [Pools -> 0 .. Lives] /\ made \in [Pools -> 0 .. Lives]
  /\ DOMAIN book = Executors /\ DOMAIN queue = Executors /\ DOMAIN worker = Executors
  /\ \A e \in Executors :
       /\ book[e] \in [live : 0 .. Width[e[1]], idle : 0 .. Width[e[1]], owed : Nat,
                       state : {"open", "shut", "closed"}]
       /\ queue[e] \in Seq(Tasks \cup {Marker})
       /\ worker[e] \in [Slots(e) -> [pc : {"none", "parked", "late", "run", "after", "leave"},
                                      job : Tasks \cup {Marker}]]
  /\ call \in [Callers -> [pc : {"look", "put", "inline", "wait", "back", "raised"},
                           n : Nat \ {0}, ex : Executors \cup {NoExec}]]
  /\ fut \in [Tasks -> {"none", "pending", "running"} \cup Over]
  /\ runs \in [Tasks -> 0 .. 1]

Thread(pc, t) == [pc |-> pc, job |-> t]

Init ==
  /\ cur = [p \in Pools |-> 0] /\ made = [p \in Pools |-> 0]
  /\ book = [e \in Executors |-> [live |-> 0, idle |-> 0, owed |-> 0, state |-> "open"]]
  /\ queue = [e \in Executors |-> <<>>]
  /\ worker = [e \in Executors |-> [k \in Slots(e) |-> Thread("none", Marker)]]
  /\ call = [c \in Callers |-> [pc |-> "look", n |-> 1, ex |-> NoExec]]
  /\ fut = [t \in Tasks |-> "none"]
  /\ runs = [t \in Tasks |-> 0]

-----------------------------------------------------------------------------
(* fan_out, LazyPool.map and LazyPool.submit. *)

\* Mutant of PoolOf: one pool for every depth.
PoolOfAll(c) == "outer"

PoolOf(c) == IF c \in Requests THEN "outer" ELSE "nested"

Item(c) == Batch[c][call[c].n]

\* A probe calls fan_out while it runs.
Calls(c) == c \in Tasks => fut[c] = "running"

\* LazyPool._executor
Look(c) ==
  LET p == PoolOf(c) IN
  /\ call[c].pc = "look" /\ Calls(c)
  /\ \/ cur[p] # 0 /\ UNCHANGED <<cur, made>>
     \/ cur[p] = 0 /\ cur' = [cur EXCEPT ![p] = made[p] + 1] /\ made' = [made EXCEPT ![p] = @ + 1]
  /\ call' = [call EXCEPT ![c].pc = "put", ![c].ex = <<p, cur'[p]>>]
  /\ UNCHANGED <<book, queue, worker, fut, runs>>

\* The caller after its n-th item: the next one, or the results in order.
Onward(c) ==
  [call EXCEPT ![c] = IF call[c].n < Len(Batch[c])
                      THEN [pc |-> "look", n |-> call[c].n + 1, ex |-> NoExec]
                      ELSE [pc |-> "wait", n |-> 1, ex |-> NoExec]]

Start(t) == fut' = [fut EXCEPT ![t] = "running"] /\ runs' = [runs EXCEPT ![t] = @ + 1]

\* IdleThreadPool.submit raises: it is closed, or out of threads.
CannotSubmit(e) ==
  \/ book[e].state = "closed"
  \/ book[e].state # "closed" /\ book[e].idle = 0 /\ book[e].live < Width[e[1]]

Enqueue(c, e) ==
  /\ queue' = [queue EXCEPT ![e] = Append(@, Item(c))]
  /\ fut' = [fut EXCEPT ![Item(c)] = "pending"]
  /\ call' = Onward(c)
  /\ UNCHANGED <<cur, made, runs>>

\* A parked worker is claimed, or one is started, or the item is owed.
Put(c) ==
  LET e == call[c].ex
      b == book[e] IN
  /\ call[c].pc = "put" /\ b.state # "closed"
  /\ \/ /\ b.idle > 0
        /\ book' = [book EXCEPT ![e].idle = @ - 1]
        /\ UNCHANGED worker
     \/ /\ b.idle = 0 /\ b.live < Width[e[1]]
        /\ book' = [book EXCEPT ![e].live = @ + 1]
        /\ LET k == CHOOSE k \in Slots(e) : worker[e][k].pc = "none"
           IN worker' = [worker EXCEPT ![e][k] = Thread("parked", Marker)]
     \/ /\ b.idle = 0 /\ b.live = Width[e[1]]
        /\ book' = [book EXCEPT ![e].owed = @ + 1]
        /\ UNCHANGED worker
  /\ Enqueue(c, e)

\* Mutant of Inline: the item was queued before the thread failed to start.
InlineQueued(c) ==
  LET e == call[c].ex IN
  /\ call[c].pc = "put" /\ CannotSubmit(e)
  /\ queue' = [queue EXCEPT ![e] = Append(@, Item(c))]
  /\ Start(Item(c))
  /\ call' = [call EXCEPT ![c].pc = "inline"]
  /\ UNCHANGED <<cur, made, book, worker>>

Inline(c) ==
  /\ call[c].pc = "put" /\ CannotSubmit(call[c].ex)
  /\ Start(Item(c))
  /\ call' = [call EXCEPT ![c].pc = "inline"]
  /\ UNCHANGED <<cur, made, book, queue, worker>>

\* A probe ends when the batch it handed on is back; it may raise.
Ends(t) ==
  /\ t \in Callers => call[t].pc \in {"back", "raised"}
  /\ \E end \in {"result", "raised"} : fut' = [fut EXCEPT ![t] = end]

InlineEnds(c) ==
  /\ call[c].pc = "inline"
  /\ Ends(Item(c))
  /\ call' = Onward(c)
  /\ UNCHANGED <<cur, made, book, queue, worker, runs>>

\* The results in order.  The first that raises cancels what has not started.
Result(c) ==
  /\ call[c].pc = "wait"
  /\ \/ /\ fut[Item(c)] = "result"
        /\ \/ call[c].n < Len(Batch[c]) /\ call' = [call EXCEPT ![c].n = @ + 1]
           \/ call[c].n = Len(Batch[c]) /\ call' = [call EXCEPT ![c].pc = "back"]
        /\ UNCHANGED fut
     \/ /\ fut[Item(c)] = "raised"
        /\ call' = [call EXCEPT ![c].pc = "raised"]
        /\ fut' = [t \in Tasks |-> IF t \in Range(Batch[c]) /\ fut[t] = "pending"
                                   THEN "cancelled" ELSE fut[t]]
  /\ UNCHANGED <<cur, made, book, queue, worker, runs>>

-----------------------------------------------------------------------------
(* IdleThreadPool._work. *)

TakeTask(e, k) ==
  LET t == Head(queue[e]) IN
  /\ worker[e][k].pc = "parked" /\ queue[e] # <<>> /\ t # Marker
  /\ queue' = [queue EXCEPT ![e] = Tail(@)]
  /\ \/ /\ fut[t] = "cancelled"
        /\ worker' = [worker EXCEPT ![e][k] = Thread("after", Marker)]
        /\ UNCHANGED <<fut, runs>>
     \/ /\ fut[t] # "cancelled"
        /\ worker' = [worker EXCEPT ![e][k] = Thread("run", t)]
        /\ Start(t)
  /\ UNCHANGED <<cur, made, book, call>>

TakeMarker(e, k) ==
  /\ worker[e][k].pc = "parked" /\ queue[e] # <<>> /\ Head(queue[e]) = Marker
  /\ queue' = [queue EXCEPT ![e] = Tail(@)]
  /\ worker' = [worker EXCEPT ![e][k] = Thread("leave", Marker)]
  /\ UNCHANGED <<cur, made, book, call, fut, runs>>

\* The marker goes on to the next worker.
Leave(e, k) ==
  /\ worker[e][k].pc = "leave"
  /\ queue' = [queue EXCEPT ![e] = Append(@, Marker)]
  /\ book' = [book EXCEPT ![e].live = @ - 1]
  /\ worker' = [worker EXCEPT ![e][k] = Thread("none", Marker)]
  /\ UNCHANGED <<cur, made, call, fut, runs>>

WorkerEnds(e, k) ==
  /\ worker[e][k].pc = "run"
  /\ Ends(worker[e][k].job)
  /\ worker' = [worker EXCEPT ![e][k] = Thread("after", Marker)]
  /\ UNCHANGED <<cur, made, book, queue, call, runs>>

\* Mutant of After: the worker is counted as free whatever is owed.
AfterFree(e, k) ==
  /\ worker[e][k].pc = "after"
  /\ book' = [book EXCEPT ![e].idle = @ + 1]
  /\ worker' = [worker EXCEPT ![e][k] = Thread("parked", Marker)]
  /\ UNCHANGED <<cur, made, queue, call, fut, runs>>

After(e, k) ==
  /\ worker[e][k].pc = "after"
  /\ \/ book[e].owed > 0 /\ book' = [book EXCEPT ![e].owed = @ - 1]
     \/ book[e].owed = 0 /\ book' = [book EXCEPT ![e].idle = @ + 1]
  /\ worker' = [worker EXCEPT ![e][k] = Thread("parked", Marker)]
  /\ UNCHANGED <<cur, made, queue, call, fut, runs>>

\* queue.Empty is raised; the lock is yet to come.
TimesOut(e, k) ==
  /\ worker[e][k].pc = "parked" /\ queue[e] = <<>>
  /\ worker' = [worker EXCEPT ![e][k] = Thread("late", Marker)]
  /\ UNCHANGED <<cur, made, book, queue, call, fut, runs>>

\* Only an unclaimed worker goes; for any other an item is on its way.
Retire(e, k) ==
  /\ worker[e][k].pc = "late"
  /\ \/ /\ book[e].idle > 0
        /\ book' = [book EXCEPT ![e].idle = @ - 1, ![e].live = @ - 1]
        /\ worker' = [worker EXCEPT ![e][k] = Thread("none", Marker)]
     \/ /\ book[e].idle = 0
        /\ worker' = [worker EXCEPT ![e][k] = Thread("parked", Marker)]
        /\ UNCHANGED book
  /\ UNCHANGED <<cur, made, queue, call, fut, runs>>

-----------------------------------------------------------------------------
(* shutdown_pools: the LazyPool lets go of the executor, then closes it. *)

Drop(p) ==
  /\ cur[p] # 0 /\ made[p] < Lives
  /\ book' = [book EXCEPT ![<<p, cur[p]>>].state = "shut"]
  /\ cur' = [cur EXCEPT ![p] = 0]
  /\ UNCHANGED <<made, queue, worker, call, fut, runs>>

Close(e) ==
  /\ book[e].state = "shut"
  /\ book' = [book EXCEPT ![e].state = "closed"]
  /\ queue' = [queue EXCEPT ![e] = Append(@, Marker)]
  /\ UNCHANGED <<cur, made, worker, call, fut, runs>>

-----------------------------------------------------------------------------

CallerStep(c) == Look(c) \/ Put(c) \/ Inline(c) \/ InlineEnds(c) \/ Result(c)

Works(e, k) == TakeTask(e, k) \/ TakeMarker(e, k) \/ Leave(e, k) \/ WorkerEnds(e, k)
                 \/ After(e, k) \/ Retire(e, k)

Next ==
  \/ \E c \in Callers : CallerStep(c)
  \/ \E e \in Executors : \E k \in Slots(e) : Works(e, k) \/ TimesOut(e, k)
  \/ \E p \in Pools : Drop(p)
  \/ \E e \in Executors : Close(e)

\* Every thread goes on, and every probe ends: its commands and sockets have timeouts.
Spec == /\ Init /\ [][Next]_vars
        /\ \A c \in Callers : WF_vars(CallerStep(c))
        /\ \A e \in Executors : \A k \in Slots(e) : WF_vars(Works(e, k))

-----------------------------------------------------------------------------
(* Properties. *)

In(e, pcs) == Cardinality({k \in Slots(e) : worker[e][k].pc \in pcs})
Waiting(e) == Cardinality({i \in DOMAIN queue[e] : queue[e][i] # Marker})

\* The books of IdleThreadPool add up whatever worker is between a timeout and the
\* lock: each parked worker is free or has an item coming, each item beyond those is
\* owed by a full pool, and while items wait a worker is there to come for them.
ItemsHaveWorkers ==
  \A e \in Executors :
    /\ book[e].live = Width[e[1]] - In(e, {"none"})
    /\ Waiting(e) > 0 => \/ In(e, {"parked", "run", "after"}) > 0
                         \/ In(e, {"late"}) > book[e].idle
    /\ book[e].state # "closed" =>
         /\ book[e].idle + Waiting(e) = In(e, {"parked", "late"}) + book[e].owed
         /\ book[e].owed > 0 => book[e].live = Width[e[1]] /\ book[e].idle = 0

\* A probe is run at most once, by a worker or by its caller, though an executor is shut
\* down in the middle of a batch, and a batch that comes back whole ran every one once
\* (LazyPool.map).
RunOnce ==
  /\ \A t \in Tasks : runs[t] <= 1 /\ (fut[t] = "cancelled" => runs[t] = 0)
  /\ \A c \in Callers : call[c].pc = "back" => \A t \in Range(Batch[c]) : runs[t] = 1

\* Every fan_out comes back: also one inside the other, with every worker taken, in the
\* middle of a shutdown or with workers going away (the deadlock at _FANOUT_NESTED_POOL).
EveryCallReturns == \A c \in Requests : <>(call[c].pc \in {"back", "raised"})

=============================================================================
