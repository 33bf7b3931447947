---------------------------- MODULE StatusCache ----------------------------
(***************************************************************************)
(* The status snapshot of the panel (hub/status.py) over the caches its    *)
(* collectors keep: the container listing (hub/discovery/containers.py,    *)
(* the shape of the listener snapshot and of the memos of hub/util.py) and *)
(* the adaptive scan.  Each level is a value with a time to live, a lock   *)
(* that admits one refresh at a time, and a generation that keeps a        *)
(* refresh begun before an invalidation from publishing after it.          *)
(*                                                                         *)
(* What a read returns is the number of operator actions the host had seen *)
(* when it was read; an empty listing after a failed read is a reading of  *)
(* that moment too.  Time is left out: any stamp may expire at any time.   *)
(***************************************************************************)
EXTENDS Naturals

CONSTANTS
  Requests,     \* callers of full_status
  None,
  MaxActs,      \* bound of the operator's actions
  Tolerance     \* _TIMEOUT_TOLERANCE

ASSUME ConstantsAssumption == /\ MaxActs \in Nat /\ Tolerance \in Nat \ {0}
                              /\ None \notin Nat \cup Requests \cup {"page"}
                              /\ "page" \notin Requests

VARIABLES
  host,       \* actions done to the host
  op,         \* where the operator's request stands
  told,       \* what host was when invalidate_status last returned
  gen,        \* _status_generation, and _generation of the containers
  timeouts,   \* _timeouts
  src,        \* the collectors' caches
  snap,       \* _status_cache and _refresh_lock
  req,        \* the callers of full_status
  rd          \* reads of a collector's cache under way

vars == <<host, op, told, gen, timeouts, src, snap, req, rd>>

Sources  == {"containers", "adaptive"}
Readers  == Requests \cup {"page"}
Versions == 0 .. MaxActs
Listing  == [Sources -> Versions]

ASSUME NoneIsNoListing == None \notin Listing

TypeOK ==
  /\ host \in Versions /\ told \in Versions /\ timeouts \in 0 .. Tolerance
  /\ op \in {"idle", "acted", "bumped", "dropped"}
  /\ gen \in [{"status", "containers"} -> Versions]
  /\ src \in [Sources -> [val : Versions \cup {None}, fresh : BOOLEAN, holder : Readers \cup {None}]]
  /\ snap \in [val : Listing \cup {None}, fresh : BOOLEAN, gap : BOOLEAN, holder : Requests \cup {None}]
  /\ req \in [Requests -> [pc : {"idle", "wait", "build"}, force : BOOLEAN,
                           need : Versions, began : Versions, gap : BOOLEAN]]
  /\ rd \in [Readers -> [Sources -> [pc : {"off", "ask", "probe", "store", "late", "got"},
                                     began : Versions, val : Versions]]]

NoCall  == [pc |-> "idle", force |-> FALSE, need |-> 0, began |-> 0, gap |-> FALSE]
Asking  == [pc |-> "ask", began |-> 0, val |-> 0]
NoReads == [s \in Sources |-> [pc |-> "off", began |-> 0, val |-> 0]]

Init ==
  /\ host = 0 /\ told = 0 /\ timeouts = 0 /\ op = "idle"
  /\ gen = [g \in {"status", "containers"} |-> 0]
  /\ src = [s \in Sources |-> [val |-> None, fresh |-> FALSE, holder |-> None]]
  /\ snap = [val |-> None, fresh |-> FALSE, gap |-> FALSE, holder |-> None]
  /\ req = [r \in Requests |-> NoCall]
  /\ rd = [a \in Readers |-> NoReads]

-----------------------------------------------------------------------------
(* The operator: an action on the host, then invalidate_status, which takes *)
(* one lock after the other.                                                *)

Act ==
  /\ op = "idle" /\ host < MaxActs
  /\ host' = host + 1
  /\ op' = "acted"
  /\ UNCHANGED <<told, gen, timeouts, src, snap, req, rd>>

\* Mutant of Bump: the snapshot goes with its stamp.
BumpClears ==
  /\ op = "acted"
  /\ gen' = [gen EXCEPT !["status"] = @ + 1]
  /\ snap' = [snap EXCEPT !.val = None, !.fresh = FALSE]
  /\ op' = "bumped"
  /\ UNCHANGED <<host, told, timeouts, src, req, rd>>

\* The snapshot is kept for /api/health; only its stamp goes.
Bump ==
  /\ op = "acted"
  /\ gen' = [gen EXCEPT !["status"] = @ + 1]
  /\ snap' = [snap EXCEPT !.fresh = FALSE]
  /\ op' = "bumped"
  /\ UNCHANGED <<host, told, timeouts, src, req, rd>>

\* Mutant of DropContainers: the listing has no generation.
DropOnly ==
  /\ op = "bumped"
  /\ src' = [src EXCEPT !["containers"].val = None, !["containers"].fresh = FALSE]
  /\ timeouts' = 0
  /\ op' = "dropped"
  /\ UNCHANGED <<host, told, gen, snap, req, rd>>

DropContainers ==
  /\ op = "bumped"
  /\ gen' = [gen EXCEPT !["containers"] = @ + 1]
  /\ src' = [src EXCEPT !["containers"].val = None, !["containers"].fresh = FALSE]
  /\ timeouts' = 0
  /\ op' = "dropped"
  /\ UNCHANGED <<host, told, snap, req, rd>>

\* The scan has no generation of its own: it goes by the one bumped first.
ExpireAdaptive ==
  /\ op = "dropped"
  /\ src' = [src EXCEPT !["adaptive"].fresh = FALSE]
  /\ told' = host
  /\ op' = "idle"
  /\ UNCHANGED <<host, gen, timeouts, snap, req, rd>>

\* Between the first lock of invalidate_status and its last.
Gap == op \in {"bumped", "dropped"}

Expire ==
  /\ \/ \E s \in Sources : /\ src[s].fresh
                           /\ src' = [src EXCEPT ![s].fresh = FALSE]
                           /\ UNCHANGED snap
     \/ /\ snap.fresh
        /\ snap' = [snap EXCEPT !.fresh = FALSE]
        /\ UNCHANGED src
  /\ UNCHANGED <<host, op, told, gen, timeouts, req, rd>>

-----------------------------------------------------------------------------
(* discover_containers and _adaptive_info. *)

Gate(s) == IF s = "containers" THEN gen["containers"] ELSE gen["status"]

\* The page has its listing and is done.
Got(a, s, v) ==
  rd' = [rd EXCEPT ![a][s] = IF a = "page" THEN NoReads[s]
                             ELSE [pc |-> "got", began |-> 0, val |-> v]]

\* The containers page asks for the listing on its own.
PageAsks ==
  /\ rd["page"]["containers"].pc = "off"
  /\ rd' = [rd EXCEPT !["page"]["containers"] = Asking]
  /\ UNCHANGED <<host, op, told, gen, timeouts, src, snap, req>>

\* Before the refresh lock, or under it: whoever held it may have refreshed.
Hit(a, s) ==
  /\ rd[a][s].pc = "ask" /\ src[s].fresh
  /\ Got(a, s, src[s].val)
  /\ UNCHANGED <<host, op, told, gen, timeouts, src, snap, req>>

Enter(a, s) ==
  /\ rd[a][s].pc = "ask" /\ ~src[s].fresh /\ src[s].holder = None
  /\ src' = [src EXCEPT ![s].holder = a]
  /\ rd' = [rd EXCEPT ![a][s] = [pc |-> "probe", began |-> Gate(s), val |-> 0]]
  /\ UNCHANGED <<host, op, told, gen, timeouts, snap, req>>

Probe(a, s) ==
  /\ rd[a][s].pc = "probe"
  /\ rd' = [rd EXCEPT ![a][s] = [pc |-> "store", began |-> rd[a][s].began, val |-> host]]
  /\ timeouts' = IF s = "containers" THEN 0 ELSE timeouts
  /\ UNCHANGED <<host, op, told, gen, src, snap, req>>

\* docker ps gave no answer in its eight seconds.
ProbeTimesOut(a) ==
  /\ rd[a]["containers"].pc = "probe"
  /\ timeouts' = IF timeouts < Tolerance THEN timeouts + 1 ELSE timeouts
  /\ \E p \in {"late", "store"} :
       /\ p = "late" <=> timeouts' < Tolerance
       /\ rd' = [rd EXCEPT ![a]["containers"] =
                 [pc |-> p, began |-> rd[a]["containers"].began, val |-> host]]
  /\ UNCHANGED <<host, op, told, gen, src, snap, req>>

Superseded(a, s) == Gate(s) # rd[a][s].began

\* The last listing is served again, stamped anew, unless it was dropped.
Reserve(a) ==
  LET s == "containers" IN
  /\ rd[a][s].pc = "late" /\ src[s].val # None /\ ~Superseded(a, s)
  /\ src' = [src EXCEPT ![s].fresh = TRUE, ![s].holder = None]
  /\ Got(a, s, src[s].val)
  /\ UNCHANGED <<host, op, told, gen, timeouts, snap, req>>

Store(a, s) ==
  /\ \/ rd[a][s].pc = "store"
     \/ rd[a][s].pc = "late" /\ (src[s].val = None \/ Superseded(a, s))
  /\ src' = [src EXCEPT ![s] =
               IF Superseded(a, s) THEN [@ EXCEPT !.holder = None]
               ELSE [val |-> rd[a][s].val, fresh |-> TRUE, holder |-> None]]
  /\ Got(a, s, rd[a][s].val)
  /\ UNCHANGED <<host, op, told, gen, timeouts, snap, req>>

-----------------------------------------------------------------------------
(* full_status. *)

\* A call that finds the snapshot fresh changes nothing.
Ask(r) ==
  /\ req[r].pc = "idle"
  /\ \E force \in BOOLEAN :
       /\ force \/ ~snap.fresh
       /\ req' = [req EXCEPT ![r] = [@ EXCEPT !.pc = "wait", !.need = told, !.force = force]]
  /\ UNCHANGED <<host, op, told, gen, timeouts, src, snap, rd>>

\* Under _refresh_lock: the second look, or the start of a build, which asks
\* every collector.
Begin(r) ==
  /\ req[r].pc = "wait" /\ snap.holder = None
  /\ IF ~req[r].force /\ snap.fresh
     THEN /\ req' = [req EXCEPT ![r] = NoCall]
          /\ UNCHANGED <<snap, rd>>
     ELSE /\ req' = [req EXCEPT ![r].pc = "build", ![r].began = gen["status"], ![r].gap = Gap]
          /\ snap' = [snap EXCEPT !.holder = r]
          /\ rd' = [rd EXCEPT ![r] = [s \in Sources |-> Asking]]
  /\ UNCHANGED <<host, op, told, gen, timeouts, src>>

Collected(r) == req[r].pc = "build" /\ \A s \in Sources : rd[r][s].pc = "got"

\* Mutant of Published: a superseded build is kept.
PublishedAlways(r) ==
  [val    |-> [s \in Sources |-> rd[r][s].val],
   fresh  |-> TRUE,
   gap    |-> req[r].gap,
   holder |-> None]

\* A build of a superseded generation is returned to its caller and not kept.
Published(r) ==
  IF gen["status"] = req[r].began
  THEN [val    |-> [s \in Sources |-> rd[r][s].val],
        fresh  |-> TRUE,
        gap    |-> req[r].gap,
        holder |-> None]
  ELSE [snap EXCEPT !.holder = None]

\* The collectors are guarded one by one: what fails is the assembly, and the
\* caller is then given the last snapshot there is.
Finish(r) ==
  /\ Collected(r)
  /\ snap' \in {Published(r), [snap EXCEPT !.holder = None]}
  /\ req' = [req EXCEPT ![r] = NoCall]
  /\ rd' = [rd EXCEPT ![r] = NoReads]
  /\ UNCHANGED <<host, op, told, gen, timeouts, src>>

-----------------------------------------------------------------------------

Operator == Act \/ Bump \/ DropContainers \/ ExpireAdaptive

Reads(a, s) == Hit(a, s) \/ Probe(a, s) \/ Store(a, s)

Next ==
  \/ Operator \/ Expire \/ PageAsks
  \/ \E a \in Readers : \/ ProbeTimesOut(a) \/ Reserve(a)
                        \/ \E s \in Sources : Reads(a, s) \/ Enter(a, s)
  \/ \E r \in Requests : Ask(r) \/ Begin(r) \/ Finish(r)

Spec == Init /\ [][Next]_vars

-----------------------------------------------------------------------------
(* Properties. *)

\* A caller that comes after invalidate_status returned is shown the action through
\* both levels of caches: by a build of its own always, by the snapshot unless that
\* was built while invalidate_status was between its locks.
ActionShown ==
  /\ \A r \in Requests : Collected(r) => \A s \in Sources : rd[r][s].val >= req[r].need
  /\ snap.fresh /\ ~snap.gap => \A s \in Sources : snap.val[s] >= told

\* The same without the exception, as the comment at _status_generation has it.
AlwaysShown == snap.fresh => \A s \in Sources : snap.val[s] >= told

\* Neither an invalidation nor a failed or superseded build takes away the snapshot
\* /api/health reads, and none replaces it by an older one (cached_status).
SnapshotKept ==
  [][snap.val # None => /\ snap'.val # None
                        /\ \A s \in Sources : snap'.val[s] >= snap.val[s]]_vars

\* What the listing serves as fresh was read after its last drop, also when a
\* timed-out probe serves the last listing again (_refresh).
FreshSinceDrop == src["containers"].fresh => src["containers"].val >= told

=============================================================================
